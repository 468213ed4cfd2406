------------------------------ MODULE CommandProofs ------------------------------
(* Proofs about DeviceArbiter, for any number of commands and modifications, and *)
(* about UsbHid, for answers of any length: whose turn it is to use the device,  *)
(* and what the host gets for an answer. Neither module uses the other.          *)
EXTENDS DeviceArbiter, UsbHid, TLAPS

(* Who waits has a command or a message to be carried through.                  *)
WaitersHaveWork ==
    /\ signetWaiting => activeCmd
    /\ ctapWaiting => ctapProcessing

(* Nobody holds the device without using it, unless a release has been put off  *)
(* and the root block, whose completion will carry it out, is not in flash.     *)
ReleasePending == releaseRequested /\ sync # "SYNCED"
HeldOrPutOff ==
    /\ owner = "SIGNET" => SignetWorking \/ ReleasePending
    /\ owner = "CTAP" => CtapRunning \/ ReleasePending
    /\ owner = "CTAP_STARTUP" => ~ctapInitialized \/ ReleasePending

(* As long as nothing was modified, who is carried through owns the device.     *)
RunnersOwn ==
    modified = 0 =>
        /\ sync = "SYNCED"
        /\ SignetRunning => owner = "SIGNET"
        /\ CtapRunning => owner = "CTAP"

Inv == TypeOK /\ WaitersHaveWork /\ NobodyForgotten /\ HeldOrPutOff /\ RunnersOwn

------------------------------------------------------------------------------
(* What request_device and release_device_request leave behind. *)

(* The invariants about the arbiter itself, which every step must keep. *)
ArbiterOK ==
    /\ owner \in Subsystems \cup {"NO_SUBSYSTEM"}
    /\ ctapWaiting \in BOOLEAN /\ signetWaiting \in BOOLEAN
    /\ releaseRequested \in BOOLEAN

(* A granted request makes the caller the owner; a refused one, and no other,   *)
(* makes it wait.                                                               *)
LEMMA Requested ==
    ASSUME ArbiterOK, NEW system \in Subsystems, request_device(system)
    PROVE  /\ ArbiterOK'
           /\ releaseRequested' = releaseRequested
           /\ Granted(system) => owner' = system /\ UNCHANGED <<ctapWaiting, signetWaiting>>
           /\ ~Granted(system) => owner' = owner
           /\ ~Granted(system) /\ system = "CTAP" =>
                 ctapWaiting' /\ signetWaiting' = signetWaiting
           /\ ~Granted(system) /\ system = "SIGNET" =>
                 signetWaiting' /\ ctapWaiting' = ctapWaiting
           /\ system = "CTAP_STARTUP" => UNCHANGED <<ctapWaiting, signetWaiting>>
  <1> QED BY DEF ArbiterOK, Subsystems, request_device

(* The device is handed to one that waits, who then waits no more, or is free   *)
(* and nobody else waits who could have it.                                     *)
LEMMA Released ==
    ASSUME ArbiterOK, NEW system, NEW initialized \in BOOLEAN,
           release_device(system, initialized)
    PROVE  /\ owner' \in {"SIGNET", "CTAP", "NO_SUBSYSTEM"}
           /\ ctapWaiting' \in BOOLEAN /\ signetWaiting' \in BOOLEAN
           /\ owner' = "CTAP" => /\ ctapWaiting /\ ~ctapWaiting'
                                 /\ signetWaiting' = signetWaiting
           /\ owner' = "SIGNET" => /\ signetWaiting /\ ~signetWaiting'
                                   /\ ctapWaiting' = ctapWaiting
                                   /\ system # "CTAP" /\ initialized => ~ctapWaiting
           /\ owner' = "NO_SUBSYSTEM" => /\ UNCHANGED <<ctapWaiting, signetWaiting>>
                                         /\ signetWaiting => system = "SIGNET"
                                         /\ ctapWaiting => system = "CTAP" \/ ~initialized
  <1> QED BY DEF ArbiterOK, release_device
(* release_device_request does nothing for one who does not own the device, and *)
(* otherwise releases it or leaves a note to do so.                             *)
LEMMA ReleaseRequested ==
    ASSUME ArbiterOK, NEW system \in Subsystems, NEW state, NEW initialized \in BOOLEAN,
           release_device_request(system, state, initialized)
    PROVE  /\ ArbiterOK'
           /\ \/ owner # system /\ UNCHANGED <<owner, ctapWaiting, signetWaiting, releaseRequested>>
              \/ /\ owner = system /\ state # "SYNCED" /\ releaseRequested'
                 /\ UNCHANGED <<owner, ctapWaiting, signetWaiting>>
              \/ /\ owner = system /\ state = "SYNCED"
                 /\ releaseRequested' = releaseRequested
                 /\ release_device(system, initialized)
  <1>1. CASE owner # system
    BY <1>1 DEF ArbiterOK, release_device_request, arbiter
  <1>2. CASE owner = system /\ state # "SYNCED"
    BY <1>2 DEF ArbiterOK, release_device_request
  <1>3. CASE owner = system /\ state = "SYNCED"
    <2>1. release_device(system, initialized) /\ releaseRequested' = releaseRequested
      BY <1>3 DEF release_device_request
    <2> QED BY <1>3, <2>1, Released DEF ArbiterOK, Subsystems
  <1> QED BY <1>1, <1>2, <1>3

LEMMA TypesOfArbiter == TypeOK => ArbiterOK
  <1> QED BY DEF TypeOK, ArbiterOK

LEMMA InitInv == Init => Inv
  <1> SUFFICES ASSUME Init PROVE Inv OBVIOUS
  <1>1. TypeOK
    <2>1. sent \in 0 .. MaxCommands /\ modified \in 0 .. MaxModify
      BY ArbiterAssumption DEF Init
    <2> QED BY <2>1 DEF Init, TypeOK, Subsystems
  <1>2. WaitersHaveWork /\ NobodyForgotten /\ HeldOrPutOff /\ RunnersOwn
    BY DEF Init, WaitersHaveWork, NobodyForgotten, HeldOrPutOff, RunnersOwn,
           SignetRunning, CtapRunning
  <1> QED BY <1>1, <1>2 DEF Inv

------------------------------------------------------------------------------
(* One lemma for every kind of step: a request, a release by the owner of a     *)
(* side, and the rest.                                                          *)

LEMMA CmdPacketRecv ==
    ASSUME Inv, cmd_packet_recv PROVE Inv'
  <1> USE ArbiterAssumption
      DEF Inv, WaitersHaveWork, NobodyForgotten, HeldOrPutOff, RunnersOwn,
          ReleasePending, SignetWorking, SignetRunning, CtapRunning, Subsystems
  <1>1. request_device("SIGNET") /\ ArbiterOK
    BY TypesOfArbiter DEF cmd_packet_recv
  <1>2. /\ ~activeCmd /\ ~signetWaiting /\ activeCmd' = TRUE
        /\ sent \in Nat /\ sent < MaxCommands /\ sent' = sent + 1
        /\ UNCHANGED <<progressing, ctapProcessing, ctapInitialized, sync, modified>>
    BY DEF cmd_packet_recv, ctap, TypeOK
  <1>3. TypeOK' BY <1>1, <1>2, Requested DEF TypeOK, ArbiterOK
  <1>4. CASE Granted("SIGNET") BY <1>1, <1>2, <1>3, <1>4, Requested DEF Granted
  <1>5. CASE ~Granted("SIGNET")
    BY <1>1, <1>2, <1>3, <1>5, Requested DEF Granted, TypeOK
  <1> QED BY <1>4, <1>5

LEMMA CtaphidHandlePacket ==
    ASSUME Inv, ctaphid_handle_packet PROVE Inv'
  <1> USE ArbiterAssumption
      DEF Inv, WaitersHaveWork, NobodyForgotten, HeldOrPutOff, RunnersOwn,
          ReleasePending, SignetWorking, SignetRunning, CtapRunning, Subsystems
  <1>1. request_device("CTAP") /\ ArbiterOK
    BY TypesOfArbiter DEF ctaphid_handle_packet
  <1>2. /\ ~ctapProcessing /\ ctapProcessing' = TRUE
        /\ sent \in Nat /\ sent < MaxCommands /\ sent' = sent + 1
        /\ UNCHANGED <<activeCmd, progressing, ctapInitialized, sync, modified>>
    BY DEF ctaphid_handle_packet, signet, TypeOK
  <1>3. TypeOK' BY <1>1, <1>2, Requested DEF TypeOK, ArbiterOK
  <1>4. CASE Granted("CTAP") BY <1>1, <1>2, <1>3, <1>4, Requested DEF Granted
  <1>5. CASE ~Granted("CTAP")
    BY <1>1, <1>2, <1>3, <1>5, Requested DEF Granted
  <1> QED BY <1>4, <1>5

LEMMA FinishCommand ==
    ASSUME Inv, finish_command PROVE Inv'
  <1> USE DEF Inv, WaitersHaveWork, NobodyForgotten, HeldOrPutOff, RunnersOwn,
              ReleasePending, SignetWorking, SignetRunning, CtapRunning, Subsystems
  <1>1. /\ SignetRunning /\ activeCmd' = FALSE
        /\ UNCHANGED <<progressing, ctapProcessing, ctapInitialized, sync, sent, modified>>
    BY DEF finish_command, ctap
  <1>2. CASE progressing
    <2>1. UNCHANGED <<owner, ctapWaiting, signetWaiting, releaseRequested>>
      BY <1>2 DEF finish_command, arbiter
    <2>2. TypeOK' BY <1>1, <2>1 DEF TypeOK
    <2> QED BY <1>1, <1>2, <2>1, <2>2
  <1>3. CASE ~progressing
    <2>1. release_device_request("SIGNET", sync, ctapInitialized) /\ ArbiterOK
      BY <1>3, TypesOfArbiter DEF finish_command
    <2>2. TypeOK' BY <1>1, <2>1, ReleaseRequested DEF TypeOK, ArbiterOK
    <2> QED BY <1>1, <1>3, <2>1, <2>2, ReleaseRequested, Released DEF TypeOK
  <1> QED BY <1>2, <1>3

LEMMA FinishAndProgressStep ==
    ASSUME Inv, FinishAndProgress PROVE Inv'
  <1> USE DEF Inv, WaitersHaveWork, NobodyForgotten, HeldOrPutOff, RunnersOwn,
              ReleasePending, SignetWorking, SignetRunning, CtapRunning, Subsystems
  <1>1. /\ SignetRunning /\ activeCmd' = FALSE /\ progressing' = TRUE
        /\ UNCHANGED <<ctapProcessing, ctapInitialized, sync, sent, modified>>
    BY DEF FinishAndProgress, ctap
  <1>2. release_device_request("SIGNET", sync, ctapInitialized) /\ ArbiterOK
    BY TypesOfArbiter DEF FinishAndProgress
  <1>3. TypeOK' BY <1>1, <1>2, ReleaseRequested DEF TypeOK, ArbiterOK
  <1> QED BY <1>1, <1>2, <1>3, ReleaseRequested, Released DEF TypeOK

LEMMA EnterState ==
    ASSUME Inv, enter_state PROVE Inv'
  <1> USE DEF Inv, WaitersHaveWork, NobodyForgotten, HeldOrPutOff, RunnersOwn,
              ReleasePending, SignetWorking, SignetRunning, CtapRunning, Subsystems
  <1>1. /\ progressing /\ progressing' = FALSE
        /\ UNCHANGED <<activeCmd, ctapProcessing, ctapInitialized, sync, sent, modified>>
    BY DEF enter_state, ctap
  <1>2. CASE activeCmd
    <2>1. UNCHANGED <<owner, ctapWaiting, signetWaiting, releaseRequested>>
      BY <1>2 DEF enter_state, arbiter
    <2>2. TypeOK' BY <1>1, <2>1 DEF TypeOK
    <2> QED BY <1>1, <1>2, <2>1, <2>2
  <1>3. CASE ~activeCmd
    <2>1. release_device_request("SIGNET", sync, ctapInitialized) /\ ArbiterOK
      BY <1>3, TypesOfArbiter DEF enter_state
    <2>2. TypeOK' BY <1>1, <2>1, ReleaseRequested DEF TypeOK, ArbiterOK
    <2> QED BY <1>1, <1>3, <2>1, <2>2, ReleaseRequested, Released DEF TypeOK
  <1> QED BY <1>2, <1>3

LEMMA CmdDisconnect ==
    ASSUME Inv, cmd_disconnect PROVE Inv'
  <1> USE DEF Inv, WaitersHaveWork, NobodyForgotten, HeldOrPutOff, RunnersOwn,
              ReleasePending, SignetWorking, SignetRunning, CtapRunning, Subsystems
  <1>1. /\ ~signetWaiting /\ activeCmd' = FALSE /\ progressing' = FALSE
        /\ UNCHANGED <<ctapProcessing, ctapInitialized, sync, sent, modified>>
    BY DEF cmd_disconnect, ctap
  <1>2. release_device_request("SIGNET", sync, ctapInitialized) /\ ArbiterOK
    BY TypesOfArbiter DEF cmd_disconnect
  <1>3. TypeOK' BY <1>1, <1>2, ReleaseRequested DEF TypeOK, ArbiterOK
  <1> QED BY <1>1, <1>2, <1>3, ReleaseRequested, Released DEF TypeOK

------------------------------------------------------------------------------
(* The steps that modify the root block or bring it to flash. *)

LEMMA Modified ==
    ASSUME TypeOK, RunnersOwn, MayModify
    PROVE  /\ sync' \in {"SYNCED", "MODIFIED", "WRITING"}
           /\ modified' \in 0 .. MaxModify
           /\ modified' = 0 => modified = 0 /\ sync' = "SYNCED"
           /\ sync # "SYNCED" => sync' # "SYNCED"
  <1>1. CASE UNCHANGED <<sync, modified>> BY <1>1 DEF TypeOK, RunnersOwn
  <1>2. CASE modified < MaxModify /\ modified' = modified + 1 /\ sync' = "MODIFIED"
    BY <1>2, ArbiterAssumption DEF TypeOK
  <1> QED BY <1>1, <1>2 DEF MayModify

LEMMA SignetModifyStep ==
    ASSUME Inv, SignetModify PROVE Inv'
  <1> USE DEF Inv, WaitersHaveWork, NobodyForgotten, HeldOrPutOff, RunnersOwn,
              ReleasePending, SignetWorking, SignetRunning, CtapRunning, Subsystems
  <1>1. /\ SignetRunning \/ progressing
        /\ UNCHANGED <<owner, ctapWaiting, signetWaiting, releaseRequested, activeCmd,
                       progressing, ctapProcessing, ctapInitialized, sent>>
    BY DEF SignetModify, arbiter, signet, ctap
  <1>2. MayModify BY DEF SignetModify
  <1>3. TypeOK' BY <1>1, <1>2, Modified DEF TypeOK
  <1> QED BY <1>1, <1>2, <1>3, Modified

LEMMA RestartCommand ==
    ASSUME Inv, restart_command PROVE Inv'
  <1> USE DEF Inv, WaitersHaveWork, NobodyForgotten, HeldOrPutOff, RunnersOwn,
              ReleasePending, SignetWorking, SignetRunning, CtapRunning, Subsystems
  <1>1. /\ CtapRunning /\ ctapProcessing' = FALSE /\ MayModify
        /\ UNCHANGED <<activeCmd, progressing, ctapInitialized, sent>>
    BY DEF restart_command, signet
  <1>2. release_device_request("CTAP", sync', ctapInitialized) /\ ArbiterOK
    BY TypesOfArbiter DEF restart_command
  <1>3. TypeOK' BY <1>1, <1>2, Modified, ReleaseRequested DEF TypeOK, ArbiterOK
  <1> QED BY <1>1, <1>2, <1>3, Modified, ReleaseRequested, Released DEF TypeOK

LEMMA CtapStartupStep ==
    ASSUME Inv, CtapStartup PROVE Inv'
  <1> USE DEF Inv, WaitersHaveWork, NobodyForgotten, HeldOrPutOff, RunnersOwn,
              ReleasePending, SignetWorking, SignetRunning, CtapRunning, Subsystems
  <1>1. /\ ~ctapInitialized /\ owner = "NO_SUBSYSTEM"
        /\ UNCHANGED <<activeCmd, progressing, ctapProcessing, ctapInitialized, sync,
                       sent, modified>>
    BY DEF CtapStartup, signet, ctap
  <1>2. request_device("CTAP_STARTUP") /\ ArbiterOK BY TypesOfArbiter DEF CtapStartup
  <1>3. Granted("CTAP_STARTUP") BY <1>1 DEF Granted
  <1>4. TypeOK' BY <1>1, <1>2, Requested DEF TypeOK, ArbiterOK
  <1> QED BY <1>1, <1>2, <1>3, <1>4, Requested

LEMMA CtapInitFinish ==
    ASSUME Inv, ctap_init_finish PROVE Inv'
  <1> USE DEF Inv, WaitersHaveWork, NobodyForgotten, HeldOrPutOff, RunnersOwn,
              ReleasePending, SignetWorking, SignetRunning, CtapRunning, Subsystems
  <1>1. /\ ~ctapInitialized /\ owner = "CTAP_STARTUP" /\ ctapInitialized' = TRUE
        /\ MayModify
        /\ UNCHANGED <<activeCmd, progressing, ctapProcessing, sent>>
    BY DEF ctap_init_finish, signet
  <1>2. release_device_request("CTAP_STARTUP", sync', TRUE) /\ ArbiterOK
    BY TypesOfArbiter DEF ctap_init_finish
  <1>3. TypeOK' BY <1>1, <1>2, Modified, ReleaseRequested DEF TypeOK, ArbiterOK
  <1> QED BY <1>1, <1>2, <1>3, Modified, ReleaseRequested, Released

LEMMA SyncRootBlockImmediate ==
    ASSUME Inv, sync_root_block_immediate PROVE Inv'
  <1> USE DEF Inv, WaitersHaveWork, NobodyForgotten, HeldOrPutOff, RunnersOwn,
              ReleasePending, SignetWorking, SignetRunning, CtapRunning, Subsystems
  <1>1. /\ sync = "MODIFIED" /\ sync' = "WRITING"
        /\ UNCHANGED <<owner, ctapWaiting, signetWaiting, releaseRequested, activeCmd,
                       progressing, ctapProcessing, ctapInitialized, sent, modified>>
    BY DEF sync_root_block_immediate, arbiter, signet, ctap
  <1>2. TypeOK' BY <1>1 DEF TypeOK
  <1> QED BY <1>1, <1>2

LEMMA WriteBlockComplete ==
    ASSUME Inv, write_block_complete PROVE Inv'
  <1> USE DEF Inv, WaitersHaveWork, NobodyForgotten, HeldOrPutOff, RunnersOwn,
              ReleasePending, SignetWorking, SignetRunning, CtapRunning, Subsystems
  <1>1. /\ sync = "WRITING" /\ sync' = "SYNCED" /\ releaseRequested' = FALSE
        /\ UNCHANGED <<activeCmd, progressing, ctapProcessing, ctapInitialized, sent,
                       modified>>
    BY DEF write_block_complete, signet, ctap
  <1>2. CASE releaseRequested
    <2>1. release_device(owner, ctapInitialized) /\ ArbiterOK /\ ctapInitialized \in BOOLEAN
      BY <1>2, TypesOfArbiter DEF write_block_complete, TypeOK
    <2>2. TypeOK' BY <1>1, <2>1, Released DEF TypeOK
    <2> QED BY <1>1, <2>1, <2>2, Released
  <1>3. CASE ~releaseRequested
    <2>1. UNCHANGED <<owner, ctapWaiting, signetWaiting>>
      BY <1>3 DEF write_block_complete
    <2>2. TypeOK' BY <1>1, <2>1 DEF TypeOK
    <2> QED BY <1>1, <1>3, <2>1, <2>2
  <1> QED BY <1>2, <1>3

LEMMA Stuttering ==
    ASSUME Inv, UNCHANGED vars PROVE Inv'
  <1> QED BY DEF vars, arbiter, signet, ctap, Inv, TypeOK, WaitersHaveWork,
                 NobodyForgotten, HeldOrPutOff, RunnersOwn, ReleasePending,
                 SignetWorking, SignetRunning, CtapRunning

------------------------------------------------------------------------------
(* The invariant above holds of every behaviour: it is kept by every step of    *)
(* request_device, release_device_request and write_block_complete.             *)
THEOREM Inductive == Spec => []Inv
  <1>1. Inv /\ [Next]_vars => Inv'
    BY CmdPacketRecv, FinishCommand, FinishAndProgressStep, EnterState, CmdDisconnect,
       SignetModifyStep, CtaphidHandlePacket, RestartCommand, CtapStartupStep,
       CtapInitFinish, SyncRootBlockImmediate, WriteBlockComplete, Stuttering
    DEF Next
  <1> QED BY InitInv, <1>1, PTL DEF Spec

(* The arbiter's variables keep their types. *)
THEOREM TypeCorrect == Spec => []TypeOK
  <1> QED BY Inductive, PTL DEF Inv

(* Nobody holds the device without using it while the root block is in flash:   *)
(* no release of release_device_request is lost.                                *)
THEOREM NobodyHolds == Spec => []HeldOnlyInUse
  <1>1. Inv => HeldOnlyInUse BY DEF Inv, HeldOrPutOff, ReleasePending, HeldOnlyInUse
  <1> QED BY Inductive, <1>1, PTL

(* Whoever request_device makes wait, waits for another who will release it.    *)
THEOREM WaitersWaitForOthers == Spec => []NobodyForgotten
  <1> QED BY Inductive, PTL DEF Inv

(* Before the first modification of the root block the two sides are kept apart *)
(* by request_device.                                                           *)
THEOREM TurnsKept == Spec => []TurnsRespected
  <1>1. Inv => TurnsRespected
    BY DEF Inv, RunnersOwn, TurnsRespected, OneAtATime, SignetWorking
  <1> QED BY Inductive, <1>1, PTL

------------------------------------------------------------------------------
(* UsbHid: the packets of the answers. *)

(* The device and the host, as records. *)
DevFields ==
    {"active_cmd", "left", "ans", "more", "data", "seq", "count", "packet", "event_mask",
     "out", "seen", "tx_report", "typing", "n_chars", "char_pos", "to_type", "key", "text",
     "failed"}
HostFields == {"waiting", "ans", "more", "got", "whole", "wants", "typed"}
IsDev(d) ==
    /\ d = [f \in DevFields |-> d[f]]
    /\ d.left \in Nat /\ d.more \in Nat /\ d.seq \in Nat /\ d.count \in 0 .. MaxPackets
    /\ d.ans \in 0 .. IdMod - 1 /\ d.data \in BOOLEAN /\ d.failed \in BOOLEAN
    /\ d.event_mask \subseteq Events
IsHost(h) ==
    /\ h = [f \in HostFields |-> h[f]]
    /\ h.waiting \in BOOLEAN /\ h.ans \in 0 .. IdMod - 1
    /\ h.got = [s \in 0 .. MaxPackets - 1 |-> h.got[s]]
    /\ h.whole \in BOOLEAN

(* A packet of the answer dev.ans. *)
Packet(d, s) == [ans |-> d.ans, seq |-> s, of |-> d.count, more |-> d.more]

InFlight(d) == d.out = "packet" \/ d.tx_report = "packet"

(* The endpoint sends the one buffer as it was made up, and at most one packet  *)
(* waits, behind an event.                                                      *)
EndpointOk(d) ==
    /\ d.out \in {"none", "packet", "event"} /\ d.tx_report \in {"none", "packet"}
    /\ d.out = "packet" => d.seen = {d.packet} /\ d.tx_report = "none"
    /\ d.out = "event" => d.seen = {NoPacket}
    /\ d.tx_report = "packet" => d.out = "event" /\ d.data

(* The main loop is on the way to send a packet, or an event. Only before it has *)
(* taken the event may an interrupt have sent it first: then no other is left.  *)
SendsPacket(m) == m.pc \in Sending /\ m.buf = "packet"
OneEvent(d) == \E n \in d.event_mask : d.event_mask = {n}
LoopOk(d, m) ==
    /\ \/ m.pc \in {"idle", "typed"}
       \/ m.pc \in {"data", "check", "packet", "test", "queue", "send", "next"} /\ m.buf = "packet"
       \/ m.pc \in {"check", "event", "test", "send"} /\ m.buf = "event"
    /\ m.buf = "event" /\ m.pc \in {"test", "send"} => d.out = "none"
    /\ m.pc = "event" => d.event_mask = {} \/ d.out = "none"
    /\ d.out = "none" => \/ d.event_mask = {}
                         \/ OneEvent(d) /\ m.pc \in {"check", "event"} /\ m.buf = "event"
    /\ m.buf = "packet" /\ m.pc = "queue" => d.out = "event"
    /\ m.buf = "packet" /\ m.pc = "send" => d.out = "none"

(* Between answers nothing is on its way, and what data the last one has left   *)
(* counts as sent. The host waits for the command at work.                      *)
Between(d, h) ==
    /\ ~InFlight(d) /\ d.seq = d.count
    /\ IF h.waiting THEN d.active_cmd \in {"BUTTON_WAIT", "READ_ALL_UIDS", "TYPE"}
                         /\ h.ans = NextId(d.ans)
       ELSE d.active_cmd = "none"

(* The host has the first n packets of the answer it waits for.                 *)
HostHas(d, h, n) ==
    /\ h.waiting /\ h.ans = d.ans
    /\ \A s \in 0 .. n - 1 : h.got[s] = h.ans
    /\ n > 0 => h.more = d.more
    /\ d.active_cmd = IF d.more = 0 THEN "none" ELSE "READ_ALL_UIDS"

(* An answer with the next packet still to be made up or handed over, ...       *)
Unsent(d, h) == ~InFlight(d) /\ d.data /\ d.seq < d.count /\ HostHas(d, h, d.seq)
(* ... with packet s on its way, ...                                            *)
OnItsWay(d, h, s) ==
    InFlight(d) /\ d.data /\ s < d.count /\ d.packet = Packet(d, s) /\ HostHas(d, h, s)
(* ... or with the last one on its way after it has counted as sent.            *)
CountedSent(d, h) ==
    LET p == d.packet
    IN /\ d.out = "packet" /\ ~d.data /\ d.seq = d.count
       /\ p.ans = d.ans /\ p.more = d.more /\ p.seq \in 0 .. MaxPackets - 1 /\ p.of = p.seq + 1
       /\ HostHas(d, h, p.seq)

(* The main loop answers while the last packet of the answer before is on its   *)
(* way: the next packet it makes up will overwrite it.                          *)
Overtaking(d, m, h) ==
    /\ d.out = "packet" /\ d.packet.ans = h.ans /\ d.ans = NextId(h.ans)
    /\ h.waiting /\ d.active_cmd \in {"none", "READ_ALL_UIDS"}
    /\ m.buf = "packet" /\ m.pc \in {"data", "check", "packet"}
    /\ m.pc # "data" => d.data /\ d.seq = 0
    /\ d.count > 0

Answering(d, m, h) ==
    \/ Between(d, h) /\ ~SendsPacket(m)
    \/ /\ Unsent(d, h)
       /\ SendsPacket(m) =>
            \/ m.pc \in {"check", "packet"} /\ d.seq = 0
            \/ m.pc \in {"test", "queue", "send"} /\ d.packet = Packet(d, d.seq)
    \/ m.pc = "data" /\ ~InFlight(d) /\ HostHas(d, h, 0) /\ d.count > 0
    \/ IF SendsPacket(m) THEN m.pc = "next" /\ OnItsWay(d, h, d.seq)
       ELSE d.seq > 0 /\ OnItsWay(d, h, d.seq - 1)
    \/ CountedSent(d, h) /\ ~SendsPacket(m)
    \/ Overtaking(d, m, h)

Sound(d, m, h) ==
    /\ IsDev(d) /\ IsHost(h)
    /\ ~d.failed /\ h.whole /\ EndpointOk(d) /\ LoopOk(d, m) /\ Answering(d, m, h)
HidInv == Spared(Fatal) => Sound(dev, main, host)
(* The endpoint of commands is as it should be. *)
Fine(d) == IsDev(d) /\ ~d.failed /\ EndpointOk(d)
(* An interrupt comes that may send: if the main loop is at an event, that is   *)
(* the only one.                                                                *)
Outside(m) == m.pc \in {"idle", "typed"} \/ (m.pc = "event" /\ m.buf = "event")
Calm(d, m) == m.pc = "event" => d.event_mask = {} \/ (d.out = "none" /\ OneEvent(d))
Kept(d, e, S) == IsDev(e) /\ \A f \in DevFields \ S : e[f] = d[f]

(* What one call keeps and the next keeps is kept. *)
LEMMA KeptTwice ==
    ASSUME NEW c, NEW d, NEW e, NEW S, NEW T, Kept(c, d, S), Kept(d, e, T)
    PROVE  Kept(c, e, S \cup T)
<1>1. ASSUME NEW x \in DevFields \ (S \cup T)
      PROVE  e[x] = c[x]
  BY <1>1 DEF Kept
<1> QED BY <1>1 DEF Kept

(* Two answers in a row have different numbers. *)
LEMMA NextIdFacts ==
    ASSUME NEW id \in 0 .. IdMod - 1
    PROVE  NextId(id) \in 0 .. IdMod - 1 /\ NextId(id) # id
<1>1. IdMod \in Nat /\ IdMod > 2 BY UsbHidAssumption
<1>2. CASE id + 1 < IdMod
  <2>1. (id + 1) % IdMod = id + 1 BY <1>1, <1>2
  <2> QED BY <1>1, <1>2, <2>1 DEF NextId
<1>3. CASE id + 1 = IdMod
  <2>1. (id + 1) % IdMod = 0 BY <1>1, <1>3
  <2> QED BY <1>1, <1>3, <2>1 DEF NextId
<1> QED BY <1>1, <1>2, <1>3

(* usb_send_bytes gives a packet to a free endpoint, or lets it wait. *)
LEMMA SentOn ==
    ASSUME NEW d, IsDev(d), NEW buf \in {"packet", "event"}
    PROVE  LET e == usb_send_bytes(d, buf)
           IN /\ Kept(d, e, {"out", "seen", "tx_report", "failed"})
              /\ d.out = "none" =>
                   /\ e.out = buf /\ e.tx_report = d.tx_report /\ e.failed = d.failed
                   /\ e.seen = {IF buf = "packet" THEN d.packet ELSE NoPacket}
              /\ d.out # "none" /\ d.tx_report = "none" =>
                   /\ e.out = d.out /\ e.seen = d.seen /\ e.tx_report = buf
                   /\ e.failed = d.failed
              /\ d.out # "none" => e.seen = d.seen
BY DEF IsDev, DevFields, Kept, usb_send_bytes, Queue, USBD_HID_SendReport

(* The buffer holds the next packet of the answer                               *)
(* (maybe_send_raw_hid_packet).                                                 *)
LEMMA Filled ==
    ASSUME NEW d, IsDev(d), d.data
    PROVE  /\ Kept(d, FillPacket(d), {"packet", "seen"})
           /\ FillPacket(d).packet = Packet(d, d.seq)
           /\ FillPacket(d).seen = IF d.out = "packet" THEN d.seen \cup {Packet(d, d.seq)}
                                   ELSE d.seen
BY DEF IsDev, DevFields, Kept, FillPacket, Packet

(* With nothing on its way the next packet goes out, and nothing fails. *)
LEMMA PacketSends ==
    ASSUME NEW d, IsDev(d), d.data, NEW e, e = SendPacket(d)
    PROVE  /\ Kept(d, e, {"packet", "out", "seen", "tx_report", "failed", "seq"})
           /\ e.seq = d.seq + 1
           /\ Fine(d) /\ ~InFlight(d) =>
                /\ InFlight(e) /\ e.packet = Packet(d, d.seq)
                /\ EndpointOk(e) /\ ~e.failed /\ e.out # "none"
           /\ d.out = "packet" => e.seen = d.seen \cup {Packet(d, d.seq)}
<1> DEFINE f == FillPacket(d)
           g == usb_send_bytes(f, "packet")
<1>1. /\ Kept(d, f, {"packet", "seen"}) /\ f.packet = Packet(d, d.seq)
      /\ f.seen = IF d.out = "packet" THEN d.seen \cup {Packet(d, d.seq)} ELSE d.seen
  BY Filled
<1>2. e = [g EXCEPT !.seq = @ + 1]
  BY DEF SendPacket
<1> HIDE DEF f
<1>3. IsDev(f) /\ f.out = d.out /\ f.tx_report = d.tx_report /\ f.failed = d.failed
  BY <1>1 DEF Kept, DevFields
<1>4. /\ Kept(f, g, {"out", "seen", "tx_report", "failed"})
      /\ f.out = "none" =>
           /\ g.out = "packet" /\ g.tx_report = f.tx_report /\ g.failed = f.failed
           /\ g.seen = {f.packet}
      /\ f.out # "none" /\ f.tx_report = "none" =>
           g.out = f.out /\ g.seen = f.seen /\ g.tx_report = "packet" /\ g.failed = f.failed
      /\ f.out # "none" => g.seen = f.seen
  BY <1>3, SentOn
<1> HIDE DEF g
<1>5. Kept(g, e, {"seq"}) /\ e.seq = g.seq + 1
  BY <1>2, <1>4 DEF Kept, IsDev, DevFields
<1>6. Kept(d, e, {"packet", "out", "seen", "tx_report", "failed", "seq"})
  <2>1. Kept(d, g, {"packet", "seen"} \cup {"out", "seen", "tx_report", "failed"})
    BY <1>1, <1>4, KeptTwice
  <2> QED BY <1>5, <2>1, KeptTwice DEF Kept
<1>7. e.seq = d.seq + 1
  <2>1. g.seq = f.seq /\ f.seq = d.seq
    BY <1>1, <1>4 DEF Kept, DevFields
  <2> QED BY <1>5, <2>1
<1>8. /\ e.out = g.out /\ e.seen = g.seen /\ e.tx_report = g.tx_report /\ e.failed = g.failed
      /\ e.packet = f.packet
  BY <1>4, <1>5 DEF Kept, DevFields
<1>data. e.data = d.data
  BY <1>6 DEF Kept, DevFields
<1>9. d.out = "packet" => e.seen = d.seen \cup {Packet(d, d.seq)}
  BY <1>1, <1>3, <1>4, <1>8
<1>10. ASSUME Fine(d), ~InFlight(d)
       PROVE  /\ InFlight(e) /\ e.packet = Packet(d, d.seq)
              /\ EndpointOk(e) /\ ~e.failed /\ e.out # "none"
  <2>1. d.out \in {"none", "event"} /\ d.tx_report = "none" /\ ~d.failed
    BY <1>10 DEF Fine, EndpointOk, InFlight
  <2>2. CASE d.out = "none"
    BY <1>1, <1>3, <1>4, <1>8, <1>data, <1>10, <2>1, <2>2 DEF InFlight, EndpointOk
  <2>3. CASE d.out = "event"
    BY <1>1, <1>3, <1>4, <1>8, <1>data, <1>10, <2>1, <2>3 DEF Fine, InFlight, EndpointOk
  <2> QED BY <2>1, <2>2, <2>3
<1> QED BY <1>6, <1>7, <1>9, <1>10

(* An event is given to a free endpoint. *)
LEMMA EventSends ==
    ASSUME NEW d, Fine(d), d.out = "none", d.tx_report = "none",
           NEW e, e = usb_send_bytes(TakeEvent(d), "event")
    PROVE  /\ Fine(e) /\ Kept(d, e, {"event_mask", "out", "seen"})
           /\ e.out = "event" /\ e.event_mask = d.event_mask \ {Lowest(d.event_mask)}
<1> DEFINE f == TakeEvent(d)
<1>1. Kept(d, f, {"event_mask"}) /\ f.event_mask = d.event_mask \ {Lowest(d.event_mask)}
  BY DEF Fine, Kept, IsDev, DevFields, TakeEvent
<1> HIDE DEF f
<1>2. f.out = "none" /\ f.tx_report = "none" /\ IsDev(f) /\ ~f.failed
  BY <1>1 DEF Fine, Kept, DevFields
<1>3. /\ Kept(f, e, {"out", "seen", "tx_report", "failed"})
      /\ e.out = "event" /\ e.tx_report = "none" /\ ~e.failed /\ e.seen = {NoPacket}
  BY <1>2, SentOn DEF f
<1>4. Kept(d, e, {"event_mask", "out", "seen"})
  <2>1. Kept(d, e, {"event_mask"} \cup {"out", "seen", "tx_report", "failed"})
    BY <1>1, <1>3, KeptTwice
  <2>2. e.tx_report = d.tx_report
    BY <1>3
  <2>3. e.failed = d.failed
    <3>1. e.failed \in BOOLEAN /\ d.failed \in BOOLEAN BY <1>3 DEF Fine, Kept, IsDev
    <3> QED BY <1>3, <3>1 DEF Fine
  <2> QED BY <2>1, <2>2, <2>3 DEF Kept
<1>5. e.event_mask = f.event_mask
  BY <1>3 DEF Kept, DevFields
<1> QED BY <1>1, <1>3, <1>4, <1>5 DEF Fine, Kept, EndpointOk

(* Where one event was due, none is left (maybe_send_raw_hid_event). *)
LEMMA LastEvent ==
    ASSUME NEW d, IsDev(d), EventDue(d), OneEvent(d)
    PROVE  d.event_mask \ {Lowest(d.event_mask)} = {}
<1>1. PICK n \in d.event_mask : d.event_mask = {n} BY DEF OneEvent
<1>2. Lowest({n}) \in {n}
  <2>1. \E k \in {n} : \A j \in {n} : k <= j
    BY DEF IsDev, Events
  <2> QED BY <2>1 DEF Lowest
<1> QED BY <1>1, <1>2

(* What is left of an answer goes to the endpoint: the next packet, or an event *)
(* before it (maybe_send_raw_hid_packet).                                       *)
LEMMA MaybeSends ==
    ASSUME NEW d, NEW m, NEW h, Fine(d), Unsent(d, h), IsHost(h), h.whole,
           Outside(m), Calm(d, m),
           NEW e, e = maybe_send_raw_hid_packet(d)
    PROVE  Sound(e, m, h)
<1> d.tx_report = "none"
  BY DEF Fine, EndpointOk, Unsent, InFlight
<1>1. CASE EventDue(d)
  <2>1. e = usb_send_bytes(TakeEvent(d), "event")
    BY <1>1 DEF maybe_send_raw_hid_packet
  <2>2. /\ Fine(e) /\ Kept(d, e, {"event_mask", "out", "seen"})
        /\ e.out = "event" /\ e.event_mask = d.event_mask \ {Lowest(d.event_mask)}
    BY <1>1, <2>1, EventSends DEF EventDue
  <2>3. m.pc = "event" => e.event_mask = {}
    BY <1>1, <2>2, LastEvent DEF Fine, Calm, EventDue
  <2>4. Unsent(e, h)
    BY <2>2 DEF Unsent, InFlight, HostHas, Kept, DevFields
  <2> QED BY <2>2, <2>3, <2>4
          DEF Sound, Fine, LoopOk, Answering, Outside, SendsPacket, Sending
<1>2. CASE ~EventDue(d)
  <2>1. e = SendPacket(d)
    BY <1>2 DEF maybe_send_raw_hid_packet
  <2>2. /\ Kept(d, e, {"packet", "out", "seen", "tx_report", "failed", "seq"})
        /\ e.seq = d.seq + 1 /\ InFlight(e) /\ e.packet = Packet(d, d.seq)
        /\ EndpointOk(e) /\ ~e.failed /\ e.out # "none"
    BY <2>1, PacketSends DEF Fine, Unsent
  <2>3. e.event_mask = d.event_mask /\ IsDev(e) /\ e.seq - 1 = d.seq /\ e.seq > 0
    <3>1. d.seq \in Nat BY DEF Fine, IsDev
    <3>2. e.event_mask = d.event_mask /\ IsDev(e) BY <2>2 DEF Kept, DevFields
    <3> QED BY <2>2, <3>1, <3>2
  <2>4. m.pc = "event" => e.event_mask = {}
    BY <1>2, <2>3 DEF Calm, EventDue, OneEvent
  <2>5. OnItsWay(e, h, e.seq - 1)
    BY <2>2, <2>3 DEF Unsent, OnItsWay, HostHas, Packet, Kept, DevFields
  <2> QED BY <2>2, <2>3, <2>4, <2>5
          DEF Sound, LoopOk, Answering, Outside, SendsPacket, Sending
<1> QED BY <1>1, <1>2

(* What cmd_packet_send sets. *)
LEMMA AnswerCounted ==
    ASSUME NEW d, IsDev(d), NEW n \in 0 .. MaxPackets, NEW c,
           c = [d EXCEPT !.count = n, !.seq = 0, !.data = TRUE]
    PROVE  Kept(d, c, {"count", "seq", "data"}) /\ c.count = n /\ c.seq = 0 /\ c.data
<1>1. c = [f \in DevFields |-> c[f]]
  BY DEF IsDev, DevFields
<1>2. c.count = n /\ c.seq = 0
  BY DEF IsDev, DevFields
<1>3. c.data = TRUE /\ c.data \in BOOLEAN
  BY DEF IsDev, DevFields
<1>4. \A x \in DevFields \ {"count", "seq", "data"} : c[x] = d[x]
  BY DEF IsDev, DevFields
<1>5. /\ c.left = d.left /\ c.more = d.more /\ c.ans = d.ans /\ c.failed = d.failed
      /\ c.event_mask = d.event_mask
  BY <1>4 DEF DevFields
<1>6. c.count \in 0 .. MaxPackets /\ c.seq \in Nat
  BY <1>2, UsbHidAssumption
<1>7. IsDev(c)
  BY <1>1, <1>3, <1>5, <1>6 DEF IsDev
<1> QED BY <1>2, <1>3, <1>4, <1>7 DEF Kept

(* What maybe_send_raw_hid_packet clears behind the last packet. *)
LEMMA CountersCleared ==
    ASSUME NEW d, IsDev(d), NEW c,
           c = [d EXCEPT !.seq = 0, !.count = 0, !.data = FALSE]
    PROVE  Kept(d, c, {"count", "seq", "data"}) /\ c.count = 0 /\ c.seq = 0 /\ ~c.data
<1>1. c = [f \in DevFields |-> c[f]]
  BY DEF IsDev, DevFields
<1>2. c.count = 0 /\ c.seq = 0
  BY DEF IsDev, DevFields
<1>3. c.data = FALSE /\ c.data \in BOOLEAN
  BY DEF IsDev, DevFields
<1>4. \A x \in DevFields \ {"count", "seq", "data"} : c[x] = d[x]
  BY DEF IsDev, DevFields
<1>5. /\ c.left = d.left /\ c.more = d.more /\ c.ans = d.ans /\ c.failed = d.failed
      /\ c.event_mask = d.event_mask
  BY <1>4 DEF DevFields
<1>6. c.count \in 0 .. MaxPackets /\ c.seq \in Nat
  BY <1>2, UsbHidAssumption
<1>7. IsDev(c)
  BY <1>1, <1>3, <1>5, <1>6 DEF IsDev
<1> QED BY <1>2, <1>3, <1>4, <1>7 DEF Kept

(* The answer is made up whole, and begins to be sent.                          *)
LEMMA CmdPacketSends ==
    ASSUME NEW d, NEW m, NEW h, Fine(d), ~InFlight(d), HostHas(d, h, 0), IsHost(h), h.whole,
           Outside(m), Calm(d, m), NEW n \in 1 .. MaxPackets,
           NEW e, e = cmd_packet_send(d, n)
    PROVE  Sound(e, m, h)
<1> DEFINE c == [d EXCEPT !.count = n, !.seq = 0, !.data = TRUE]
<1>1. MaxPackets \in Nat
  BY UsbHidAssumption
<1>2. Kept(d, c, {"count", "seq", "data"}) /\ c.count = n /\ c.seq = 0 /\ c.data
  <2>1. n \in 0 .. MaxPackets /\ IsDev(d) BY <1>1 DEF Fine
  <2> QED BY <2>1, AnswerCounted, Zenon
<1>3. e = maybe_send_raw_hid_packet(c)
  BY DEF cmd_packet_send
<1> HIDE DEF c
<1>4. /\ c.out = d.out /\ c.tx_report = d.tx_report /\ c.seen = d.seen /\ c.failed = d.failed
      /\ c.packet = d.packet /\ c.event_mask = d.event_mask
      /\ c.more = d.more /\ c.ans = d.ans /\ c.active_cmd = d.active_cmd
  BY <1>2 DEF Kept, DevFields
<1>5. Fine(c)
  BY <1>2, <1>4 DEF Fine, Kept, EndpointOk
<1>6. Unsent(c, h)
  BY <1>1, <1>2, <1>4 DEF Unsent, InFlight, HostHas
<1>7. Calm(c, m)
  BY <1>4 DEF Calm, OneEvent
<1> QED BY <1>3, <1>5, <1>6, <1>7, MaybeSends

(* finish_command_multi numbers the answer and keeps the endpoint as it is. *)
LEMMA Finishes ==
    ASSUME NEW d, Fine(d), NEW more \in Nat, NEW e, e = finish_command_multi(d, more)
    PROVE  /\ Fine(e) /\ Kept(d, e, {"active_cmd", "ans", "more"})
           /\ e.ans = NextId(d.ans) /\ e.more = more
           /\ e.active_cmd = IF more = 0 THEN "none" ELSE d.active_cmd
<1>1. NextId(d.ans) \in 0 .. IdMod - 1
  BY NextIdFacts DEF Fine, IsDev
<1>2. /\ Kept(d, e, {"active_cmd", "ans", "more"})
      /\ e.ans = NextId(d.ans) /\ e.more = more
      /\ e.active_cmd = IF more = 0 THEN "none" ELSE d.active_cmd
  BY <1>1 DEF Fine, Kept, IsDev, DevFields, finish_command_multi
<1>3. /\ e.out = d.out /\ e.tx_report = d.tx_report /\ e.seen = d.seen /\ e.failed = d.failed
      /\ e.packet = d.packet /\ e.data = d.data
  BY <1>2 DEF Kept, DevFields
<1>4. Fine(e)
  BY <1>2, <1>3 DEF Fine, Kept, EndpointOk
<1> QED BY <1>2, <1>4

(* The answer the host waits for is made up and begins to be sent               *)
(* (finish_command).                                                            *)
LEMMA FinishesAndSends ==
    ASSUME NEW d, NEW m, NEW h, Fine(d), ~InFlight(d), h.waiting, h.ans = NextId(d.ans),
           IsHost(h), h.whole, Outside(m), Calm(d, m), NEW n \in 1 .. MaxPackets,
           NEW e, e = FinishAndSend(d, n)
    PROVE  Sound(e, m, h)
<1> DEFINE c == finish_command_multi(d, 0)
<1>1. /\ Fine(c) /\ Kept(d, c, {"active_cmd", "ans", "more"})
      /\ c.ans = NextId(d.ans) /\ c.more = 0 /\ c.active_cmd = "none"
  BY Finishes
<1>2. e = cmd_packet_send(c, n)
  BY DEF FinishAndSend
<1> HIDE DEF c
<1>3. ~InFlight(c) /\ Calm(c, m)
  BY <1>1 DEF InFlight, Calm, OneEvent, Kept, DevFields
<1>4. HostHas(c, h, 0)
  BY <1>1 DEF HostHas
<1> QED BY <1>1, <1>2, <1>3, <1>4, CmdPacketSends

(* One more answer of READ_ALL_UIDS (read_all_uids_cmd_iter). *)
LEMMA IterAnswers ==
    ASSUME NEW d, Fine(d), d.active_cmd = "READ_ALL_UIDS",
           NEW e, e = read_all_uids_cmd_iter(d)
    PROVE  /\ Fine(e) /\ Kept(d, e, {"left", "active_cmd", "ans", "more"})
           /\ e.ans = NextId(d.ans)
           /\ e.active_cmd = IF e.more = 0 THEN "none" ELSE "READ_ALL_UIDS"
<1>1. CASE d.left = 0
  <2>1. e = finish_command_multi(d, 0)
    BY <1>1 DEF read_all_uids_cmd_iter
  <2>2. /\ Fine(e) /\ Kept(d, e, {"active_cmd", "ans", "more"})
        /\ e.ans = NextId(d.ans) /\ e.more = 0 /\ e.active_cmd = "none"
    BY <2>1, Finishes
  <2> QED BY <2>2 DEF Kept
<1>2. CASE d.left # 0
  <2> DEFINE c == [d EXCEPT !.left = @ - 1]
             m == d.left - 1
  <2>1. m \in Nat
    BY <1>2 DEF Fine, IsDev
  <2>2. Kept(d, c, {"left"})
    BY <2>1 DEF Fine, Kept, IsDev, DevFields
  <2>3. e = finish_command_multi(c, m)
    BY <1>2 DEF read_all_uids_cmd_iter
  <2> HIDE DEF c, m
  <2>4. /\ c.out = d.out /\ c.tx_report = d.tx_report /\ c.seen = d.seen /\ c.failed = d.failed
        /\ c.packet = d.packet /\ c.data = d.data /\ c.ans = d.ans
        /\ c.active_cmd = "READ_ALL_UIDS"
    BY <2>2 DEF Kept, DevFields
  <2>5. Fine(c)
    BY <2>2, <2>4 DEF Fine, Kept, EndpointOk
  <2>6. /\ Fine(e) /\ Kept(c, e, {"active_cmd", "ans", "more"})
        /\ e.ans = NextId(c.ans) /\ e.more = m
        /\ e.active_cmd = IF m = 0 THEN "none" ELSE c.active_cmd
    BY <2>1, <2>3, <2>5, Finishes
  <2>7. Kept(d, e, {"left"} \cup {"active_cmd", "ans", "more"})
    BY <2>2, <2>6, KeptTwice
  <2>8. Kept(d, e, {"left", "active_cmd", "ans", "more"})
    BY <2>7 DEF Kept
  <2> QED BY <2>4, <2>6, <2>8
<1> QED BY <1>1, <1>2

(* The last packet is out: READ_ALL_UIDS may go on (cmd_packet_sent).           *)
LEMMA AnswerIsSent ==
    ASSUME NEW d, NEW m, NEW h, Fine(d), Between(d, h), IsHost(h), h.whole,
           d.out = "none", d.event_mask = {}, Outside(m),
           NEW n \in 0 .. MaxPackets, NEW e, e = AnswerSent(d, n)
    PROVE  Sound(e, m, h)
<1> DEFINE c == [d EXCEPT !.seq = 0, !.count = 0, !.data = FALSE]
<1>1. Kept(d, c, {"count", "seq", "data"}) /\ c.seq = 0 /\ c.count = 0 /\ ~c.data
  BY CountersCleared DEF Fine
<1>2. e = c \/ (e = cmd_packet_sent(c, n) /\ d.data)
  BY DEF AnswerSent
<1> HIDE DEF c
<1>3. /\ c.out = d.out /\ c.tx_report = d.tx_report /\ c.seen = d.seen /\ c.failed = d.failed
      /\ c.packet = d.packet /\ c.event_mask = d.event_mask
      /\ c.ans = d.ans /\ c.active_cmd = d.active_cmd
  BY <1>1 DEF Kept, DevFields
<1>4. d.tx_report = "none"
  BY DEF Fine, EndpointOk, Between, InFlight
<1>5. Fine(c)
  BY <1>1, <1>3, <1>4 DEF Fine, Kept, EndpointOk
<1>6. Between(c, h)
  BY <1>1, <1>3 DEF Between, InFlight
<1>7. CASE e = c
  BY <1>3, <1>5, <1>6, <1>7
  DEF Sound, Fine, LoopOk, Answering, Outside, SendsPacket, Sending
<1>8. CASE e = cmd_packet_sent(c, n) /\ e # c
  <2> DEFINE b == read_all_uids_cmd_iter(c)
  <2>1. c.active_cmd = "READ_ALL_UIDS" /\ n > 0 /\ e = cmd_packet_send(b, n)
    BY <1>8 DEF cmd_packet_sent
  <2>2. /\ Fine(b) /\ Kept(c, b, {"left", "active_cmd", "ans", "more"})
        /\ b.ans = NextId(c.ans)
        /\ b.active_cmd = IF b.more = 0 THEN "none" ELSE "READ_ALL_UIDS"
    BY <1>5, <2>1, IterAnswers
  <2> HIDE DEF b
  <2>3. h.waiting /\ h.ans = NextId(c.ans)
    BY <1>6, <2>1 DEF Between
  <2>4. ~InFlight(b) /\ HostHas(b, h, 0)
    BY <1>6, <2>2, <2>3 DEF Between, InFlight, HostHas, Kept, DevFields
  <2>5. Calm(b, m)
    BY <1>3, <2>2 DEF Calm, Kept, DevFields
  <2>6. n \in 1 .. MaxPackets
    BY <2>1, UsbHidAssumption
  <2> QED BY <2>1, <2>2, <2>4, <2>5, <2>6, CmdPacketSends
<1> QED BY <1>2, <1>7, <1>8

(* The endpoint has become free (usb_raw_hid_tx).                               *)
LEMMA RawTx ==
    ASSUME NEW d, NEW m, NEW h, Fine(d), Unsent(d, h) \/ Between(d, h), IsHost(h), h.whole,
           d.out = "none", Outside(m), m.pc = "event" => d.event_mask = {},
           NEW n \in 0 .. MaxPackets, NEW e, e = usb_raw_hid_tx(d, n)
    PROVE  Sound(e, m, h)
<1>1. d.tx_report = "none"
  BY DEF Fine, EndpointOk, Unsent, Between, InFlight
<1>2. CASE EventDue(d)
  <2>1. e = usb_send_bytes(TakeEvent(d), "event")
    BY <1>2 DEF usb_raw_hid_tx, maybe_send_raw_hid_packet
  <2>2. /\ Fine(e) /\ Kept(d, e, {"event_mask", "out", "seen"}) /\ e.out = "event"
    BY <1>1, <2>1, EventSends
  <2>3. m.pc # "event"
    BY <1>2 DEF EventDue
  <2>4. Unsent(e, h) \/ Between(e, h)
    BY <1>1, <2>2 DEF Unsent, Between, InFlight, HostHas, Kept, DevFields
  <2> QED BY <2>2, <2>3, <2>4
          DEF Sound, Fine, LoopOk, Answering, Outside, SendsPacket, Sending
<1>3. CASE ~EventDue(d)
  <2>1. d.event_mask = {}
    BY <1>3 DEF EventDue
  <2>2. CASE Unsent(d, h)
    <3>1. d.seq # d.count
      BY <2>2 DEF Unsent, Fine, IsDev
    <3>2. e = maybe_send_raw_hid_packet(d)
      BY <3>1 DEF usb_raw_hid_tx
    <3> QED BY <2>1, <2>2, <3>2, MaybeSends DEF Calm
  <2>3. CASE Between(d, h)
    <3>1. e = AnswerSent(d, n)
      BY <1>3, <2>3 DEF usb_raw_hid_tx, Between
    <3> QED BY <2>1, <2>3, <3>1, AnswerIsSent
  <2> QED BY <2>2, <2>3
<1> QED BY <1>2, <1>3

------------------------------------------------------------------------------
(* The steps of UsbHid.                                                         *)

(* The state as an interrupt finds it that is not in the way of the main loop.  *)
LEMMA Undisturbed ==
    ASSUME NEW d, NEW m, NEW h, Sound(d, m, h), m.pc \notin Sending
    PROVE  /\ Fine(d) /\ Outside(m) /\ Calm(d, m) /\ ~SendsPacket(m) /\ IsHost(h) /\ h.whole
           /\ d.event_mask = {} \/ d.out # "none" \/ m.pc = "event"
           /\ \/ Between(d, h)
              \/ Unsent(d, h)
              \/ d.seq > 0 /\ OnItsWay(d, h, d.seq - 1)
              \/ CountedSent(d, h)
<1>1. /\ Fine(d) /\ Outside(m) /\ ~SendsPacket(m) /\ IsHost(h) /\ h.whole
      /\ m.pc \notin {"data", "check", "packet"}
  BY DEF Sound, Fine, Outside, LoopOk, Sending, SendsPacket
<1>2. Calm(d, m) /\ (d.event_mask = {} \/ d.out # "none" \/ m.pc = "event")
  <2>1. d.event_mask = {} \/ OneEvent(d) \/ d.out # "none"
    BY DEF Sound, LoopOk
  <2> QED BY <1>1, <2>1 DEF Sound, Calm, LoopOk
<1>3. \/ Between(d, h)
      \/ Unsent(d, h)
      \/ d.seq > 0 /\ OnItsWay(d, h, d.seq - 1)
      \/ CountedSent(d, h)
  <2>1. Answering(d, m, h)
    BY DEF Sound
  <2> QED BY <1>1, <2>1 DEF Answering, Overtaking
<1> QED BY <1>1, <1>2, <1>3

(* The host takes a packet: it is the one it needs next, and with the last the  *)
(* answer is whole (signetdev_priv_process_rx_packet).                          *)
LEMMA PacketTaken ==
    ASSUME NEW d, NEW h, Fine(d), IsHost(h), h.whole, d.out = "packet",
           \/ d.seq > 0 /\ OnItsWay(d, h, d.seq - 1)
           \/ CountedSent(d, h),
           NEW k, k = Receives(h, d.packet),
           NEW c, c = [d EXCEPT !.out = "none", !.seen = {}]
    PROVE  Fine(c) /\ IsHost(k) /\ k.whole /\ (Unsent(c, k) \/ Between(c, k))
<1> DEFINE p == d.packet
           got == [h.got EXCEPT ![p.seq] = p.ans]
           more == IF p.seq = 0 THEN p.more ELSE h.more
<1>1. /\ d.seq \in Nat /\ d.count \in 0 .. MaxPackets /\ d.ans \in 0 .. IdMod - 1
      /\ MaxPackets \in Nat /\ IdMod \in Nat /\ d.more \in Nat
  BY UsbHidAssumption DEF Fine, IsDev
<1>2. /\ HostHas(d, h, p.seq) /\ p.ans = d.ans /\ p.more = d.more
      /\ p.seq \in 0 .. MaxPackets - 1
      /\ p.seq + 1 # p.of => d.data /\ d.seq = p.seq + 1 /\ d.seq < d.count
      /\ p.seq + 1 = p.of => d.seq = d.count
  <2>1. CASE d.seq > 0 /\ OnItsWay(d, h, d.seq - 1)
    <3>1. p = Packet(d, d.seq - 1) /\ d.seq - 1 < d.count /\ d.data /\ HostHas(d, h, d.seq - 1)
      BY <2>1 DEF OnItsWay
    <3>2. p.seq = d.seq - 1 /\ p.of = d.count /\ p.ans = d.ans /\ p.more = d.more
      BY <3>1 DEF Packet
    <3> HIDE DEF p
    <3> QED BY <1>1, <2>1, <3>1, <3>2
  <2>2. CASE CountedSent(d, h)
    BY <2>2 DEF CountedSent
  <2> QED BY <2>1, <2>2
<1>3. Kept(d, c, {"out", "seen"}) /\ c.out = "none"
  BY DEF Fine, Kept, IsDev, DevFields
<1>4. d.tx_report = "none"
  BY DEF Fine, EndpointOk
<1>5. /\ c.tx_report = "none" /\ c.failed = d.failed /\ c.data = d.data /\ c.seq = d.seq
      /\ c.count = d.count /\ c.ans = d.ans /\ c.more = d.more /\ c.active_cmd = d.active_cmd
  BY <1>3, <1>4 DEF Kept, DevFields
<1>6. Fine(c) /\ ~InFlight(c)
  BY <1>3, <1>5 DEF Fine, Kept, EndpointOk, InFlight
<1>7. /\ h.waiting /\ h.ans = d.ans
      /\ d.active_cmd = IF d.more = 0 THEN "none" ELSE "READ_ALL_UIDS"
      /\ \A s \in 0 .. p.seq - 1 : h.got[s] = h.ans
      /\ p.seq > 0 => h.more = d.more
  BY <1>2 DEF HostHas
<1>8. /\ got = [s \in 0 .. MaxPackets - 1 |-> got[s]]
      /\ \A s \in 0 .. p.seq : got[s] = h.ans
  <2> HIDE DEF p
  <2>1. h.got = [s \in 0 .. MaxPackets - 1 |-> h.got[s]]
    BY DEF IsHost
  <2>2. DOMAIN h.got = 0 .. MaxPackets - 1
    BY <2>1
  <2>3. got = [s \in 0 .. MaxPackets - 1 |-> IF s = p.seq THEN p.ans ELSE h.got[s]]
    BY <2>1, <2>2
  <2> HIDE DEF got
  <2>4. \A s \in 0 .. p.seq : s \in 0 .. MaxPackets - 1 /\ (s = p.seq \/ s \in 0 .. p.seq - 1)
    BY <1>1, <1>2
  <2> QED BY <1>2, <1>7, <2>3, <2>4
<1>9. more = d.more
  BY <1>2, <1>7
<1>10. CASE p.seq + 1 # p.of
  <2>1. k = [h EXCEPT !.got = got, !.more = more]
    BY <1>7, <1>10 DEF Receives
  <2> HIDE DEF got, more, p
  <2>2. /\ k.got = got /\ k.more = more /\ k.waiting = h.waiting /\ k.ans = h.ans
        /\ k.whole = h.whole /\ k = [f \in HostFields |-> k[f]]
    BY <2>1 DEF IsHost, HostFields
  <2>3. IsHost(k)
    BY <1>8, <2>2 DEF IsHost
  <2>4. HostHas(c, k, c.seq)
    <3>1. c.seq - 1 = p.seq
      BY <1>1, <1>2, <1>5, <1>10
    <3>2. k.waiting /\ k.ans = c.ans /\ k.more = c.more /\ k.ans = h.ans
      BY <1>5, <1>7, <1>9, <2>2
    <3>3. \A s \in 0 .. c.seq - 1 : k.got[s] = k.ans
      BY <1>8, <2>2, <3>1, <3>2
    <3> QED BY <1>5, <1>7, <3>2, <3>3 DEF HostHas
  <2> QED BY <1>2, <1>5, <1>6, <1>10, <2>2, <2>3, <2>4 DEF Unsent
<1>11. CASE p.seq + 1 = p.of
  <2> DEFINE left == [s \in DOMAIN got |-> -1]
             whole == \A s \in 0 .. p.seq : got[s] = h.ans
             waits == more > 0
             next == IF more > 0 THEN NextId(h.ans) ELSE h.ans
  <2>1. k = [h EXCEPT !.got = left, !.more = more, !.whole = whole, !.waiting = waits,
                      !.ans = next]
    BY <1>7, <1>11 DEF Receives
  <2>2. whole = TRUE /\ waits \in BOOLEAN /\ left = [s \in 0 .. MaxPackets - 1 |-> left[s]]
    BY <1>8
  <2>3. next \in 0 .. IdMod - 1
    BY <1>1, <1>7, NextIdFacts
  <2>waits. waits <=> more > 0
    OBVIOUS
  <2> HIDE DEF got, more, p, left, whole, waits, next
  <2>3a. /\ k.got = left /\ k.more = more /\ k.ans = next /\ k = [f \in HostFields |-> k[f]]
    BY <2>1 DEF IsHost, HostFields
  <2>3b. k.waiting = waits /\ k.whole = whole
    BY <2>1 DEF IsHost, HostFields
  <2>4. /\ k.got = left /\ k.more = more /\ (k.waiting <=> more > 0) /\ k.ans = next
        /\ k.waiting \in BOOLEAN /\ k.whole \in BOOLEAN
        /\ k.whole /\ k = [f \in HostFields |-> k[f]]
    BY <2>2, <2>waits, <2>3a, <2>3b
  <2>5. IsHost(k)
    BY <2>2, <2>3, <2>4 DEF IsHost
  <2>6. Between(c, k)
    BY <1>1, <1>2, <1>5, <1>6, <1>7, <1>9, <1>11, <2>4 DEF Between, next
  <2> QED BY <1>6, <2>4, <2>5, <2>6
<1> QED BY <1>2, <1>10, <1>11

KeyboardFields == {"key", "to_type", "typing", "n_chars", "char_pos", "text"}

(* The characters are no part of it. *)
LEMMA KeyboardOnly ==
    ASSUME NEW d, NEW m, NEW h, Sound(d, m, h), NEW e, Kept(d, e, KeyboardFields),
           NEW k, IsHost(k), k.whole, k.waiting = h.waiting, k.ans = h.ans, k.more = h.more,
           k.got = h.got
    PROVE  Sound(e, m, k)
<1>1. /\ IsDev(e) /\ e.active_cmd = d.active_cmd /\ e.ans = d.ans /\ e.more = d.more
      /\ e.data = d.data /\ e.seq = d.seq /\ e.count = d.count /\ e.packet = d.packet
      /\ e.event_mask = d.event_mask /\ e.out = d.out /\ e.seen = d.seen
      /\ e.tx_report = d.tx_report /\ e.failed = d.failed
  BY DEF Kept, DevFields, KeyboardFields
<1>2. EndpointOk(e) /\ ~e.failed /\ LoopOk(e, m)
  BY <1>1 DEF Sound, EndpointOk, LoopOk, OneEvent
<1>3. /\ InFlight(e) <=> InFlight(d)
      /\ \A s : Packet(e, s) = Packet(d, s)
      /\ \A s : HostHas(d, h, s) => HostHas(e, k, s)
  BY <1>1 DEF InFlight, Packet, HostHas
<1>4. /\ Between(d, h) => Between(e, k)
      /\ Unsent(d, h) => Unsent(e, k)
      /\ \A s : OnItsWay(d, h, s) => OnItsWay(e, k, s)
      /\ CountedSent(d, h) => CountedSent(e, k)
      /\ Overtaking(d, m, h) => Overtaking(e, m, k)
  BY <1>1, <1>3 DEF Between, Unsent, OnItsWay, CountedSent, Overtaking
<1>5. Answering(e, m, k)
  BY <1>1, <1>3, <1>4 DEF Sound, Answering
<1> QED BY <1>1, <1>2, <1>5 DEF Sound

(* What the exceptions spare a step. *)
LEMMA Spares ==
    ASSUME Spared(Fatal)', NEW pcs, NEW d, disturbed' = Raced(pcs) \cup Shared(d)
    PROVE  main.pc \notin pcs /\ \A p, q \in d.seen : p = q
BY DEF Spared, Fatal, Raced, Shared

(* A packet made up while the endpoint sends another overwrites it. *)
LEMMA Overwrites ==
    ASSUME NEW d, Fine(d), d.out = "packet", d.data, d.packet # Packet(d, d.seq),
           NEW e, e = maybe_send_raw_hid_packet(d)
    PROVE  \E p, q \in e.seen : p # q
<1>1. e = SendPacket(d)
  BY DEF maybe_send_raw_hid_packet, EventDue
<1>2. e.seen = d.seen \cup {Packet(d, d.seq)}
  BY <1>1, PacketSends DEF Fine
<1> QED BY <1>2 DEF Fine, EndpointOk

(* So does an answer that begins meanwhile. *)
LEMMA AnswerOverwrites ==
    ASSUME NEW d, Fine(d), d.out = "packet", d.packet.ans # d.ans, NEW n \in 1 .. MaxPackets,
           NEW e, e = cmd_packet_send(d, n)
    PROVE  \E p, q \in e.seen : p # q
<1> DEFINE c == [d EXCEPT !.count = n, !.seq = 0, !.data = TRUE]
<1>1. Kept(d, c, {"count", "seq", "data"}) /\ c.count = n /\ c.seq = 0 /\ c.data
  <2>1. n \in 0 .. MaxPackets /\ IsDev(d) BY UsbHidAssumption DEF Fine
  <2> QED BY <2>1, AnswerCounted, Zenon
<1>2. e = maybe_send_raw_hid_packet(c)
  BY DEF cmd_packet_send
<1> HIDE DEF c
<1>3. /\ c.out = d.out /\ c.tx_report = d.tx_report /\ c.seen = d.seen /\ c.failed = d.failed
      /\ c.packet = d.packet /\ c.ans = d.ans
  BY <1>1 DEF Kept, DevFields
<1>4. Fine(c)
  BY <1>1, <1>3 DEF Fine, Kept, EndpointOk
<1>5. c.packet # Packet(c, c.seq)
  <2>1. Packet(c, c.seq).ans = c.ans BY DEF Packet
  <2> QED BY <1>3, <2>1
<1> QED BY <1>1, <1>2, <1>3, <1>4, <1>5, Overwrites

(* The packet behind an event is sent, and the next would overwrite it.         *)
LEMMA QueuedSent ==
    ASSUME NEW d, NEW m, NEW h, Sound(d, m, h), m.pc \notin Sending, d.tx_report = "packet",
           NEW n \in 0 .. MaxPackets, NEW e, e = DataIn(d, n), \A p, q \in e.seen : p = q
    PROVE  Sound(e, m, h)
<1> DEFINE a == [d EXCEPT !.out = "none", !.seen = {}]
           b == USBD_HID_SendReport(a, "packet")
           c == [b EXCEPT !.tx_report = "none"]
<1>1. /\ Fine(d) /\ Outside(m) /\ Calm(d, m) /\ ~SendsPacket(m) /\ IsHost(h) /\ h.whole
      /\ d.out = "event" /\ d.seq > 0 /\ OnItsWay(d, h, d.seq - 1)
  BY Undisturbed DEF Fine, EndpointOk, Between, Unsent, CountedSent, InFlight
<1>2. e = usb_raw_hid_tx(c, n)
  BY DEF DataIn
<1>3. Kept(d, a, {"out", "seen"}) /\ a.out = "none"
  BY <1>1 DEF Fine, Kept, IsDev, DevFields
<1> HIDE DEF a
<1>4. Kept(a, b, {"out", "seen"}) /\ b.out = "packet" /\ b.seen = {a.packet}
  BY <1>3 DEF Kept, IsDev, DevFields, USBD_HID_SendReport
<1> HIDE DEF b
<1>5. Kept(b, c, {"tx_report"}) /\ c.tx_report = "none"
  BY <1>4 DEF Kept, IsDev, DevFields
<1> HIDE DEF c
<1>6. Kept(d, c, {"out", "seen", "tx_report"})
  <2>1. Kept(d, b, {"out", "seen"} \cup {"out", "seen"})
    BY <1>3, <1>4, KeptTwice
  <2> QED BY <1>5, <2>1, KeptTwice DEF Kept
<1>7. c.out = "packet" /\ c.seen = {c.packet} /\ c.tx_report = "none"
  BY <1>3, <1>4, <1>5 DEF Kept, DevFields
<1>8. /\ c.seq = d.seq /\ c.count = d.count /\ c.data = d.data /\ c.ans = d.ans
      /\ c.more = d.more /\ c.packet = d.packet /\ c.active_cmd = d.active_cmd
      /\ c.event_mask = d.event_mask /\ c.failed = d.failed
  BY <1>6 DEF Kept, DevFields
<1>9. Fine(c)
  BY <1>1, <1>6, <1>7, <1>8 DEF Fine, Kept, EndpointOk
<1>10. /\ d.packet = Packet(d, d.seq - 1) /\ d.data /\ HostHas(d, h, d.seq - 1)
       /\ d.seq - 1 < d.count /\ d.seq \in Nat /\ d.count \in 0 .. MaxPackets
       /\ d.ans \in 0 .. IdMod - 1
  BY <1>1 DEF OnItsWay, Fine, IsDev
<1>11. CASE d.seq # d.count
  <2>1. e = maybe_send_raw_hid_packet(c)
    BY <1>2, <1>8, <1>11 DEF usb_raw_hid_tx
  <2>2. c.packet.seq = d.seq - 1 /\ Packet(c, c.seq).seq = d.seq
    BY <1>8, <1>10 DEF Packet
  <2>3. c.packet # Packet(c, c.seq)
    BY <1>10, <2>2
  <2> QED BY <1>7, <1>8, <1>9, <1>10, <2>1, <2>3, Overwrites
<1>12. CASE d.seq = d.count
  <2> DEFINE f == [c EXCEPT !.seq = 0, !.count = 0, !.data = FALSE]
  <2>1. e = cmd_packet_sent(f, n)
    BY <1>2, <1>7, <1>8, <1>10, <1>12 DEF usb_raw_hid_tx, EventDue, AnswerSent
  <2>2. Kept(c, f, {"count", "seq", "data"}) /\ f.count = 0 /\ f.seq = 0 /\ ~f.data
    BY <1>9, CountersCleared DEF Fine
  <2> HIDE DEF f
  <2>3. /\ f.out = "packet" /\ f.seen = {f.packet} /\ f.tx_report = "none"
        /\ f.packet = d.packet /\ f.ans = d.ans /\ f.more = d.more /\ f.failed = d.failed
        /\ f.active_cmd = d.active_cmd /\ f.event_mask = d.event_mask
    BY <1>7, <1>8, <2>2 DEF Kept, DevFields
  <2>4. Fine(f)
    BY <1>1, <2>2, <2>3 DEF Fine, Kept, EndpointOk
  <2>5. /\ d.packet.ans = d.ans /\ d.packet.more = d.more /\ d.packet.seq = d.seq - 1
        /\ d.packet.of = d.count
    BY <1>10 DEF Packet
  <2>6. CASE e = f
    <3>1. HostHas(f, h, f.packet.seq)
      BY <1>10, <2>3, <2>5 DEF HostHas
    <3>2. f.packet.seq \in 0 .. MaxPackets - 1 /\ f.packet.of = f.packet.seq + 1
      BY <1>1, <1>10, <1>12, <2>3, <2>5, UsbHidAssumption
    <3>3. CountedSent(f, h)
      BY <2>2, <2>3, <2>5, <3>1, <3>2 DEF CountedSent
    <3>4. m.pc = "event" => f.event_mask = {}
      BY <1>1, <2>3 DEF Calm
    <3> QED BY <1>1, <2>3, <2>4, <2>6, <3>3, <3>4
            DEF Sound, Fine, LoopOk, Answering, Outside
  <2>7. CASE e # f
    <3> DEFINE g == read_all_uids_cmd_iter(f)
    <3>1. f.active_cmd = "READ_ALL_UIDS" /\ n > 0 /\ e = cmd_packet_send(g, n)
      BY <2>1, <2>7 DEF cmd_packet_sent
    <3>2. /\ Fine(g) /\ Kept(f, g, {"left", "active_cmd", "ans", "more"})
          /\ g.ans = NextId(f.ans)
      BY <2>4, <3>1, IterAnswers
    <3> HIDE DEF g
    <3>3. g.out = "packet" /\ g.packet.ans # g.ans
      <4>1. g.out = "packet" /\ g.packet = d.packet
        BY <2>3, <3>2 DEF Kept, DevFields
      <4> QED BY <1>10, <2>3, <2>5, <3>2, <4>1, NextIdFacts
    <3>4. n \in 1 .. MaxPackets
      BY <3>1, UsbHidAssumption
    <3> QED BY <3>1, <3>2, <3>3, <3>4, AnswerOverwrites
  <2> QED BY <2>6, <2>7
<1> QED BY <1>11, <1>12

(* Where a command is answered, the number of the answer changes: so an         *)
(* interrupt inside a call of the main loop counts as "raced".                  *)
LEMMA NewAnswer ==
    ASSUME NEW d, Fine(d), NEW n \in 1 .. MaxPackets, NEW e, e = FinishAndSend(d, n)
    PROVE  e.ans # d.ans
<1> DEFINE b == finish_command_multi(d, 0)
           c == [b EXCEPT !.count = n, !.seq = 0, !.data = TRUE]
<1>1. Fine(b) /\ b.ans = NextId(d.ans)
  BY Finishes
<1>2. e = maybe_send_raw_hid_packet(c)
  BY DEF FinishAndSend, cmd_packet_send
<1> HIDE DEF b
<1>3. Kept(b, c, {"count", "seq", "data"}) /\ c.data
  <2>1. n \in 0 .. MaxPackets /\ IsDev(b) BY <1>1, UsbHidAssumption DEF Fine
  <2> QED BY <2>1, AnswerCounted, Zenon
<1> HIDE DEF c
<1>4. c.ans = b.ans /\ IsDev(c)
  BY <1>3 DEF Kept, DevFields
<1>5. e.ans = c.ans
  <2>1. CASE EventDue(c)
    <3> DEFINE f == TakeEvent(c)
    <3>1. Kept(c, f, {"event_mask"})
      BY <1>4 DEF Kept, IsDev, DevFields, TakeEvent
    <3>2. e = usb_send_bytes(f, "event")
      BY <1>2, <2>1 DEF maybe_send_raw_hid_packet
    <3> HIDE DEF f
    <3>3. Kept(f, e, {"out", "seen", "tx_report", "failed"})
      <4>1. IsDev(f)
        BY <3>1 DEF Kept
      <4>2. Kept(f, usb_send_bytes(f, "event"), {"out", "seen", "tx_report", "failed"})
        BY <4>1, SentOn
      <4> QED BY <3>2, <4>2
    <3>4. f.ans = c.ans
      BY <3>1 DEF Kept, DevFields
    <3>5. e.ans = f.ans
      BY <3>3 DEF Kept, DevFields
    <3> QED BY <3>4, <3>5
  <2>2. CASE ~EventDue(c)
    <3>1. e = SendPacket(c)
      BY <1>2, <2>2 DEF maybe_send_raw_hid_packet
    <3>2. Kept(c, e, {"packet", "out", "seen", "tx_report", "failed", "seq"})
      BY <1>3, <1>4, <3>1, PacketSends
    <3> QED BY <3>2 DEF Kept, DevFields
  <2> QED BY <2>1, <2>2
<1> QED BY <1>1, <1>4, <1>5, NextIdFacts DEF Fine, IsDev

(* A host that waits for nothing finds no answer on its way.                    *)
LEMMA HostFree ==
    ASSUME NEW d, NEW m, NEW h, Sound(d, m, h), ~h.waiting
    PROVE  Between(d, h) /\ ~SendsPacket(m)
BY DEF Sound, Answering, Unsent, OnItsWay, CountedSent, Overtaking, HostHas

(* It asks for something that takes time, ...                                   *)
LEMMA CommandWaits ==
    ASSUME NEW d, NEW m, NEW h, Sound(d, m, h), ~h.waiting,
           NEW e, Kept(d, e, {"active_cmd", "left"} \cup KeyboardFields),
           e.active_cmd \in {"BUTTON_WAIT", "READ_ALL_UIDS", "TYPE"},
           NEW k, IsHost(k), k.whole, k.waiting, k.ans = NextId(d.ans)
    PROVE  Sound(e, m, k)
<1>1. /\ IsDev(e) /\ e.ans = d.ans /\ e.data = d.data /\ e.seq = d.seq /\ e.count = d.count
      /\ e.packet = d.packet /\ e.event_mask = d.event_mask /\ e.out = d.out /\ e.seen = d.seen
      /\ e.tx_report = d.tx_report /\ e.failed = d.failed
  BY DEF Kept, DevFields, KeyboardFields
<1>2. EndpointOk(e) /\ ~e.failed /\ LoopOk(e, m)
  BY <1>1 DEF Sound, EndpointOk, LoopOk, OneEvent
<1>3. Between(d, h) /\ ~SendsPacket(m)
  BY HostFree
<1>4. Between(e, k)
  BY <1>1, <1>3 DEF Between, InFlight
<1> QED BY <1>1, <1>2, <1>3, <1>4 DEF Sound, Answering

(* ... or is answered at once, which no interrupt may come between.             *)
LEMMA CommandAnswered ==
    ASSUME NEW d, NEW m, NEW h, Sound(d, m, h), ~h.waiting, m.pc \notin Sending,
           NEW c, Kept(d, c, {"active_cmd"} \cup KeyboardFields),
           NEW n \in 1 .. MaxPackets, NEW e, e = FinishAndSend(c, n),
           NEW k, IsHost(k), k.whole, k.waiting, k.ans = NextId(d.ans)
    PROVE  Sound(e, m, k)
<1>1. /\ IsDev(c) /\ c.ans = d.ans /\ c.data = d.data
      /\ c.packet = d.packet /\ c.event_mask = d.event_mask /\ c.out = d.out /\ c.seen = d.seen
      /\ c.tx_report = d.tx_report /\ c.failed = d.failed
  BY DEF Kept, DevFields, KeyboardFields
<1>2. Fine(d) /\ Outside(m) /\ Calm(d, m)
  BY Undisturbed
<1>3. Between(d, h)
  BY HostFree
<1>4. Fine(c) /\ ~InFlight(c) /\ Calm(c, m)
  BY <1>1, <1>2, <1>3 DEF Fine, EndpointOk, InFlight, Between, Calm, OneEvent
<1> QED BY <1>1, <1>2, <1>4, FinishesAndSends

(* USBD_HID_DataIn of the endpoint of commands. *)
LEMMA PollCommandKeeps ==
    ASSUME Sound(dev, main, host), PollCommand, Spared(Fatal)'
    PROVE  Sound(dev', main', host')
<1>1. PICK n \in 0 .. MaxPackets : dev' = DataIn(dev, n)
  BY DEF PollCommand
<1>2. main.pc \notin Sending /\ \A p, q \in dev'.seen : p = q
  BY Spares DEF PollCommand
<1>3. /\ Fine(dev) /\ Outside(main) /\ IsHost(host) /\ host.whole /\ main' = main
      /\ \/ Between(dev, host)
         \/ Unsent(dev, host)
         \/ dev.seq > 0 /\ OnItsWay(dev, host, dev.seq - 1)
         \/ CountedSent(dev, host)
  BY <1>2, Undisturbed DEF PollCommand
<1>4. main.pc = "event" => dev.event_mask = {} \/ dev.out = "none"
  BY DEF Sound, LoopOk
<1>5. dev.out \in {"packet", "event"} /\ dev.tx_report \in {"none", "packet"}
  BY <1>3 DEF Fine, EndpointOk, PollCommand
<1> DEFINE c == [dev EXCEPT !.out = "none", !.seen = {}]
<1>6. dev.tx_report = "none" => dev' = usb_raw_hid_tx(c, n)
  BY <1>1 DEF DataIn
<1>7. Kept(dev, c, {"out", "seen"}) /\ c.out = "none"
  BY <1>3 DEF Fine, Kept, IsDev, DevFields
<1>8. CASE dev.out = "packet"
  <2>1. dev.seen = {dev.packet} /\ dev.tx_report = "none"
    BY <1>3, <1>8 DEF Fine, EndpointOk
  <2>2. host' = Receives(host, dev.packet)
    BY <1>8, <2>1 DEF PollCommand
  <2>3. \/ dev.seq > 0 /\ OnItsWay(dev, host, dev.seq - 1)
        \/ CountedSent(dev, host)
    BY <1>3, <1>8 DEF Between, Unsent, InFlight
  <2>4. Fine(c) /\ IsHost(host') /\ host'.whole /\ (Unsent(c, host') \/ Between(c, host'))
    BY <1>3, <1>8, <2>2, <2>3, PacketTaken
  <2>5. main.pc = "event" => c.event_mask = {}
    BY <1>4, <1>7, <1>8 DEF Kept, DevFields
  <2> HIDE DEF c
  <2> QED BY <1>3, <1>6, <1>7, <2>1, <2>4, <2>5, RawTx
<1>9. CASE dev.out = "event" /\ dev.tx_report = "none"
  <2>1. host' = host
    BY <1>9 DEF PollCommand
  <2> HIDE DEF c
  <2>2. /\ c.tx_report = "none" /\ c.failed = dev.failed /\ c.event_mask = dev.event_mask
        /\ c.data = dev.data
    BY <1>7, <1>9 DEF Kept, DevFields
  <2>3. Fine(c)
    BY <1>3, <1>7, <2>2 DEF Fine, Kept, EndpointOk
  <2>4. Unsent(dev, host) \/ Between(dev, host)
    BY <1>3, <1>9 DEF OnItsWay, CountedSent, InFlight
  <2>5. Unsent(c, host) \/ Between(c, host)
    BY <1>7, <2>2, <2>4 DEF Unsent, Between, InFlight, HostHas, Kept, DevFields
  <2>6. main.pc = "event" => c.event_mask = {}
    BY <1>4, <1>9, <2>2
  <2> QED BY <1>3, <1>6, <1>7, <1>9, <2>1, <2>3, <2>5, <2>6, RawTx
<1>10. CASE dev.out = "event" /\ dev.tx_report = "packet"
  <2>1. host' = host
    BY <1>10 DEF PollCommand
  <2> QED BY <1>1, <1>2, <1>3, <1>10, <2>1, QueuedSent
<1> QED BY <1>5, <1>8, <1>9, <1>10

(* It waits for the next answer (Recv, Type).                                   *)
LEMMA HostAsks ==
    ASSUME Sound(dev, main, host), NEW w, NEW t,
           \/ host' = [host EXCEPT !.waiting = TRUE, !.ans = NextId(dev.ans)]
           \/ host' = [host EXCEPT !.waiting = TRUE, !.ans = NextId(dev.ans),
                                   !.wants = w, !.typed = t]
    PROVE  IsHost(host') /\ host'.whole /\ host'.waiting /\ host'.ans = NextId(dev.ans)
<1>1. /\ host' = [f \in HostFields |-> host'[f]] /\ host'.ans = NextId(dev.ans)
      /\ host'.got = host.got
  BY DEF Sound, IsHost, HostFields
<1>2. host'.waiting = TRUE
  BY DEF Sound, IsHost, HostFields
<1>3. host'.whole = host.whole
  BY DEF Sound, IsHost, HostFields
<1>4. NextId(dev.ans) \in 0 .. IdMod - 1
  BY NextIdFacts DEF Sound, IsDev
<1> QED BY <1>1, <1>2, <1>3, <1>4 DEF Sound, IsHost

(* usb_tx_keyboard goes on typing or answers TYPE. *)
LEMMA TypedOrAnswered ==
    ASSUME NEW d, IsDev(d), NEW e, e = usb_tx_keyboard(d)
    PROVE  \/ Kept(d, e, KeyboardFields)
           \/ /\ d.active_cmd = "TYPE"
              /\ e = FinishAndSend([d EXCEPT !.typing = FALSE], 1)
<1> DEFINE c == [d EXCEPT !.typing = FALSE]
<1>1. Kept(d, c, KeyboardFields) /\ c.active_cmd = d.active_cmd
  BY DEF Kept, IsDev, DevFields, KeyboardFields
<1>2. Kept(d, d, KeyboardFields)
  BY DEF Kept
<1>3. Kept(d, [d EXCEPT !.to_type = d.char_pos], KeyboardFields)
  BY DEF Kept, IsDev, DevFields, KeyboardFields
<1> HIDE DEF c
<1>4. usb_keyboard_typing_done(c) = IF c.active_cmd = "TYPE" THEN FinishAndSend(c, 1) ELSE c
  BY DEF usb_keyboard_typing_done
<1>5. e = d \/ e = usb_keyboard_typing_done(c) \/ e = [d EXCEPT !.to_type = d.char_pos]
  BY DEF usb_tx_keyboard, c
<1> QED BY <1>1, <1>2, <1>3, <1>4, <1>5 DEF c

(* USBD_HID_DataIn of the endpoint of the keyboard. *)
LEMMA PollKeyboardKeeps ==
    ASSUME Sound(dev, main, host), PollKeyboard, Spared(Fatal)'
    PROVE  Sound(dev', main', host')
<1> DEFINE d == [dev EXCEPT !.key = -1]
<1>1. /\ IsHost(host') /\ host'.waiting = host.waiting /\ host'.ans = host.ans
      /\ host'.more = host.more /\ host'.got = host.got /\ host'.whole
  <2>1. PICK t : host' = [host EXCEPT !.typed = t]
    BY DEF PollKeyboard
  <2>2. host' = [f \in HostFields |-> host'[f]] /\ host'.ans = host.ans
        /\ host'.more = host.more /\ host'.got = host.got
    BY <2>1 DEF Sound, IsHost, HostFields
  <2>3. host'.waiting = host.waiting
    BY <2>1 DEF Sound, IsHost, HostFields
  <2>4. host'.whole = host.whole
    BY <2>1 DEF Sound, IsHost, HostFields
  <2> QED BY <2>2, <2>3, <2>4 DEF Sound, IsHost
<1>2. Kept(dev, d, KeyboardFields)
  BY DEF Sound, Kept, IsDev, DevFields, KeyboardFields
<1>3. main' = main /\ dev' = usb_tx_keyboard(d)
  BY DEF PollKeyboard
<1> HIDE DEF d
<1>4. CASE Kept(d, dev', KeyboardFields)
  <2>1. Kept(dev, dev', KeyboardFields \cup KeyboardFields)
    BY <1>2, <1>4, KeptTwice
  <2>2. Kept(dev, dev', KeyboardFields)
    BY <2>1 DEF Kept
  <2> QED BY <1>1, <1>3, <2>2, KeyboardOnly
<1>5. CASE d.active_cmd = "TYPE" /\ dev' = FinishAndSend([d EXCEPT !.typing = FALSE], 1)
  <2> DEFINE c == [d EXCEPT !.typing = FALSE]
  <2>1. Kept(d, c, KeyboardFields)
    BY <1>2 DEF Kept, IsDev, DevFields, KeyboardFields
  <2>2. dev' = FinishAndSend(c, 1)
    BY <1>5
  <2> HIDE DEF c
  <2>3. Kept(dev, c, KeyboardFields)
    <3>1. Kept(dev, c, KeyboardFields \cup KeyboardFields)
      BY <1>2, <2>1, KeptTwice
    <3> QED BY <3>1 DEF Kept
  <2>4. /\ c.active_cmd = "TYPE" /\ IsDev(c) /\ c.ans = dev.ans /\ c.data = dev.data
        /\ c.out = dev.out /\ c.seen = dev.seen /\ c.packet = dev.packet
        /\ c.tx_report = dev.tx_report /\ c.failed = dev.failed
        /\ c.event_mask = dev.event_mask /\ dev.active_cmd = "TYPE"
    BY <1>2, <1>5, <2>3 DEF Kept, DevFields, KeyboardFields
  <2>5. Fine(c)
    BY <2>4 DEF Sound, Fine, EndpointOk
  <2>6. 1 \in 1 .. MaxPackets
    BY UsbHidAssumption
  <2>7. dev'.ans # dev.ans
    BY <2>2, <2>4, <2>5, <2>6, NewAnswer
  <2>8. main.pc \notin Sending
    BY <2>7 DEF PollKeyboard, Spared, Fatal, Raced
  <2>9. Outside(main) /\ Calm(dev, main) /\ Between(dev, host)
    BY <2>4, <2>8, Undisturbed DEF Unsent, OnItsWay, CountedSent, HostHas
  <2>10. Calm(c, main) /\ ~InFlight(c) /\ host'.waiting /\ host'.ans = NextId(c.ans)
    BY <1>1, <2>4, <2>9 DEF Calm, OneEvent, InFlight, Between
  <2> QED BY <1>1, <1>3, <2>2, <2>5, <2>6, <2>9, <2>10, FinishesAndSends
<1>6. IsDev(d)
  BY <1>2 DEF Kept
<1> QED BY <1>3, <1>4, <1>5, <1>6, TypedOrAnswered

(* Commands of the host (cmd_packet_recv). *)
LEMMA AnsweredAtOnceKeeps ==
    ASSUME Sound(dev, main, host), AnsweredAtOnce, Spared(Fatal)'
    PROVE  Sound(dev', main', host')
<1>1. PICK n \in 1 .. MaxPackets : Recv(FinishAndSend(Overwritten, n), {})
  BY DEF AnsweredAtOnce
<1>2. /\ ~host.waiting /\ dev' = FinishAndSend(Overwritten, n) /\ main' = main
      /\ host' = [host EXCEPT !.waiting = TRUE, !.ans = NextId(dev.ans)]
      /\ disturbed' = Raced(IF dev'.ans # dev.ans THEN Sending ELSE {}) \cup Shared(dev') \cup {}
  BY <1>1 DEF Recv
<1>3. Kept(dev, Overwritten, {"text"})
  BY DEF Sound, Kept, IsDev, DevFields, Overwritten
<1> DEFINE c == Overwritten
<1>4. c.ans = dev.ans /\ Fine(c)
  <2>1. /\ c.ans = dev.ans /\ c.out = dev.out /\ c.seen = dev.seen /\ c.packet = dev.packet
        /\ c.tx_report = dev.tx_report /\ c.failed = dev.failed /\ c.data = dev.data
    BY <1>3 DEF Kept, DevFields
  <2> QED BY <1>3, <2>1 DEF Sound, Fine, Kept, EndpointOk
<1>5. dev'.ans # dev.ans
  BY <1>2, <1>4, NewAnswer
<1>6. main.pc \notin Sending
  BY <1>2, <1>5 DEF Spared, Fatal, Raced
<1>7. IsHost(host') /\ host'.whole /\ host'.waiting /\ host'.ans = NextId(dev.ans)
  BY <1>2, HostAsks
<1>8. Kept(dev, c, {"active_cmd"} \cup KeyboardFields)
  BY <1>3 DEF Kept, KeyboardFields
<1> HIDE DEF c
<1> QED BY <1>2, <1>6, <1>7, <1>8, CommandAnswered DEF c

LEMMA ButtonWaitKeeps ==
    ASSUME Sound(dev, main, host), ButtonWait
    PROVE  Sound(dev', main', host')
<1>1. /\ ~host.waiting /\ dev' = [Overwritten EXCEPT !.active_cmd = "BUTTON_WAIT"]
      /\ main' = main
      /\ host' = [host EXCEPT !.waiting = TRUE, !.ans = NextId(dev.ans)]
  BY DEF ButtonWait, Recv
<1>2. /\ Kept(dev, dev', {"active_cmd", "left"} \cup KeyboardFields)
      /\ dev'.active_cmd = "BUTTON_WAIT"
  BY <1>1 DEF Sound, Kept, IsDev, DevFields, KeyboardFields, Overwritten
<1>3. IsHost(host') /\ host'.whole /\ host'.waiting /\ host'.ans = NextId(dev.ans)
  BY <1>1, HostAsks
<1> QED BY <1>1, <1>2, <1>3, CommandWaits

LEMMA ReadAllUidsKeeps ==
    ASSUME Sound(dev, main, host), ReadAllUids
    PROVE  Sound(dev', main', host')
<1>1. PICK n \in 0 .. MaxEntries :
        /\ ~host.waiting
        /\ dev' = [Overwritten EXCEPT !.active_cmd = "READ_ALL_UIDS", !.left = n]
        /\ main' = main
        /\ host' = [host EXCEPT !.waiting = TRUE, !.ans = NextId(dev.ans)]
  BY DEF ReadAllUids, Recv
<1>2. /\ Kept(dev, dev', {"active_cmd", "left"} \cup KeyboardFields)
      /\ dev'.active_cmd = "READ_ALL_UIDS"
  <2>1. n \in Nat BY UsbHidAssumption
  <2> QED BY <1>1, <2>1 DEF Sound, Kept, IsDev, DevFields, KeyboardFields, Overwritten
<1>3. IsHost(host') /\ host'.whole /\ host'.waiting /\ host'.ans = NextId(dev.ans)
  BY <1>1, HostAsks
<1> QED BY <1>1, <1>2, <1>3, CommandWaits

IsRecord(d) == d = [f \in DevFields |-> d[f]]

(* The keyboard takes on a text: nothing but its own fields change.             *)
Typing(d, n) ==
    [d EXCEPT !.n_chars = n, !.typing = TRUE, !.key = 0, !.to_type = -1, !.char_pos = 1]

LEMMA KeyboardTypes ==
    ASSUME NEW d, IsRecord(d), NEW n, NEW e, e = Typing(d, n)
    PROVE  /\ IsRecord(e)
           /\ \A f \in DevFields \ KeyboardFields : e[f] = d[f]
           /\ e.n_chars = n /\ e.key = 0 /\ e.to_type = -1
           /\ e.char_pos = 1 /\ e.text = d.text
<1>1. IsRecord(e)
  BY DEF DevFields, IsRecord, Typing
<1>2. \A f \in DevFields \ KeyboardFields : e[f] = d[f]
  BY DEF DevFields, KeyboardFields, IsRecord, Typing
<1>3. /\ e.n_chars = n /\ e.key = 0 /\ e.to_type = -1
      /\ e.char_pos = 1 /\ e.text = d.text
  BY DEF DevFields, IsRecord, Typing
<1> QED BY <1>1, <1>2, <1>3

LEMMA TypeKeeps ==
    ASSUME Sound(dev, main, host), Type, Spared(Fatal)'
    PROVE  Sound(dev', main', host')
<1> DEFINE d == [dev EXCEPT !.active_cmd = "TYPE", !.text = TRUE]
<1>1. PICK n \in Texts :
        /\ ~host.waiting /\ dev' = usb_keyboard_type(d, n % CharMod) /\ main' = main
        /\ host' = [host EXCEPT !.waiting = TRUE, !.ans = NextId(dev.ans),
                                !.wants = n, !.typed = 0]
        /\ Raced(IF dev'.ans # dev.ans THEN Sending ELSE {}) \ {"busy", "long"}
              \subseteq disturbed'
  BY DEF Type
<1>2. Kept(dev, d, {"active_cmd"} \cup KeyboardFields) /\ d.active_cmd = "TYPE"
  BY DEF Sound, Kept, IsDev, DevFields, KeyboardFields
<1>3. IsHost(host') /\ host'.whole /\ host'.waiting /\ host'.ans = NextId(dev.ans)
  BY <1>1, HostAsks
<1> DEFINE typing == Typing(d, n % CharMod)
<1> HIDE DEF d
<1>4. Kept(d, typing, KeyboardFields)
  <2>1. IsDev(d)
    BY <1>2 DEF Kept
  <2>2. /\ IsRecord(typing)
        /\ \A f \in DevFields \ KeyboardFields : typing[f] = d[f]
    <3> DEFINE k == n % CharMod
    <3>1. IsRecord(d) /\ typing = Typing(d, k)
      BY <2>1 DEF IsDev, IsRecord
    <3> HIDE DEF k, typing
    <3> QED BY <3>1, KeyboardTypes
  <2> HIDE DEF typing
  <2>3. /\ typing.left = d.left /\ typing.more = d.more /\ typing.seq = d.seq
        /\ typing.count = d.count /\ typing.ans = d.ans /\ typing.data = d.data
        /\ typing.failed = d.failed /\ typing.event_mask = d.event_mask
    BY <2>2 DEF DevFields, KeyboardFields
  <2>4. IsDev(typing)
    BY <2>1, <2>2, <2>3 DEF IsDev, IsRecord
  <2> QED BY <2>2, <2>4 DEF Kept
<1>5. dev' = d \/ dev' = FinishAndSend(d, 1) \/ dev' = typing
  BY <1>1, <1>2 DEF usb_keyboard_type, usb_keyboard_typing_done, Typing
<1> HIDE DEF typing
<1>6. CASE dev' = d
  <2>1. Kept(dev, dev', {"active_cmd", "left"} \cup KeyboardFields)
    BY <1>2, <1>6 DEF Kept
  <2> QED BY <1>1, <1>2, <1>3, <1>6, <2>1, CommandWaits
<1>7. CASE dev' = typing
  <2>1. Kept(dev, typing, ({"active_cmd"} \cup KeyboardFields) \cup KeyboardFields)
    BY <1>2, <1>4, KeptTwice
  <2>2. Kept(dev, typing, {"active_cmd", "left"} \cup KeyboardFields)
    BY <2>1 DEF Kept
  <2>3. typing.active_cmd = "TYPE"
    BY <1>2, <1>4 DEF Kept, DevFields, KeyboardFields
  <2> QED BY <1>1, <1>3, <1>7, <2>2, <2>3, CommandWaits
<1>8. CASE dev' = FinishAndSend(d, 1)
  <2>1. d.ans = dev.ans /\ Fine(d)
    <3>1. /\ d.ans = dev.ans /\ d.out = dev.out /\ d.seen = dev.seen /\ d.packet = dev.packet
          /\ d.tx_report = dev.tx_report /\ d.failed = dev.failed /\ d.data = dev.data
      BY <1>2 DEF Kept, DevFields, KeyboardFields
    <3> QED BY <1>2, <3>1 DEF Sound, Fine, Kept, EndpointOk
  <2>2. 1 \in 1 .. MaxPackets
    BY UsbHidAssumption
  <2>3. dev'.ans # dev.ans
    BY <1>8, <2>1, <2>2, NewAnswer
  <2>4. main.pc \notin Sending
    BY <1>1, <2>3 DEF Spared, Fatal, Raced
  <2> QED BY <1>1, <1>2, <1>3, <1>8, <2>2, <2>4, CommandAnswered
<1> QED BY <1>5, <1>6, <1>7, <1>8

LEMMA CancelKeeps ==
    ASSUME Sound(dev, main, host), cancel_button_press, Spared(Fatal)'
    PROVE  Sound(dev', main', host')
<1>1. /\ dev.active_cmd = "BUTTON_WAIT" /\ dev' = FinishAndSend(dev, 1) /\ main' = main
      /\ host' = host /\ disturbed' = Raced(Sending) \cup Shared(dev')
  BY DEF cancel_button_press
<1>2. main.pc \notin Sending
  BY <1>1, Spares
<1>3. /\ Fine(dev) /\ Outside(main) /\ Calm(dev, main) /\ IsHost(host) /\ host.whole
      /\ Between(dev, host)
  BY <1>1, <1>2, Undisturbed DEF Unsent, OnItsWay, CountedSent, HostHas
<1>4. ~InFlight(dev) /\ host.waiting /\ host.ans = NextId(dev.ans)
  BY <1>1, <1>3 DEF Between
<1>5. 1 \in 1 .. MaxPackets
  BY UsbHidAssumption
<1> QED BY <1>1, <1>3, <1>4, <1>5, FinishesAndSends

(* A new program begins when the device has nothing more to send.               *)
LEMMA HostDisconnectsKeeps ==
    ASSUME Sound(dev, main, host), HostDisconnects, Spared(Fatal)'
    PROVE  Sound(dev', main', host')
<1>1. /\ dev' = [dev EXCEPT !.active_cmd = "none"] /\ main' = main
      /\ host' = [host EXCEPT !.waiting = FALSE, !.got = [s \in DOMAIN @ |-> -1]]
  BY DEF HostDisconnects
<1>2. ~dev.data /\ dev.out # "packet" /\ main.pc = "idle"
  BY DEF HostDisconnects, Spared, Fatal
<1>3. Fine(dev) /\ ~SendsPacket(main) /\ Between(dev, host)
  BY <1>2, Undisturbed DEF Unsent, OnItsWay, CountedSent, Sending
<1>4. Kept(dev, dev', {"active_cmd"}) /\ dev'.active_cmd = "none"
  BY <1>1 DEF Sound, Kept, IsDev, DevFields
<1>5. IsHost(host') /\ host'.whole /\ ~host'.waiting
  <2>1. /\ host' = [f \in HostFields |-> host'[f]] /\ host'.ans = host.ans
        /\ host'.got = [s \in 0 .. MaxPackets - 1 |-> host'.got[s]]
    BY <1>1 DEF Sound, IsHost, HostFields
  <2>2. host'.waiting = FALSE
    BY <1>1 DEF Sound, IsHost, HostFields
  <2>3. host'.whole = host.whole
    BY <1>1 DEF Sound, IsHost, HostFields
  <2> QED BY <2>1, <2>2, <2>3 DEF Sound, IsHost
<1>6. /\ dev'.data = dev.data /\ dev'.seq = dev.seq /\ dev'.count = dev.count
      /\ dev'.event_mask = dev.event_mask /\ dev'.out = dev.out /\ dev'.seen = dev.seen
      /\ dev'.tx_report = dev.tx_report /\ dev'.failed = dev.failed /\ IsDev(dev')
      /\ dev'.packet = dev.packet
  BY <1>4 DEF Kept, DevFields
<1>7. EndpointOk(dev') /\ LoopOk(dev', main)
  BY <1>6 DEF Sound, EndpointOk, LoopOk, OneEvent
<1>8. Between(dev', host')
  BY <1>3, <1>4, <1>5, <1>6 DEF Between, InFlight
<1> QED BY <1>1, <1>3, <1>5, <1>6, <1>7, <1>8 DEF Sound, Fine, Answering

------------------------------------------------------------------------------
(* The main loop, away from packets of the answer.                              *)
LEMMA MainElsewhere ==
    ASSUME NEW d, NEW m, NEW h, Sound(d, m, h), ~SendsPacket(m),
           NEW e, Kept(d, e, {"event_mask"}), NEW k, ~SendsPacket(k)
    PROVE  IsDev(e) /\ ~e.failed /\ EndpointOk(e) /\ Answering(e, k, h)
<1>1. /\ IsDev(e) /\ e.active_cmd = d.active_cmd /\ e.ans = d.ans /\ e.more = d.more
      /\ e.data = d.data /\ e.seq = d.seq /\ e.count = d.count /\ e.packet = d.packet
      /\ e.out = d.out /\ e.seen = d.seen
      /\ e.tx_report = d.tx_report /\ e.failed = d.failed
  BY DEF Kept, DevFields
<1>2. m.pc # "data"
  BY DEF Sound, LoopOk, SendsPacket, Sending
<1>3. \/ Between(d, h) \/ Unsent(d, h) \/ CountedSent(d, h)
      \/ d.seq > 0 /\ OnItsWay(d, h, d.seq - 1)
  BY <1>2 DEF Sound, Answering, Overtaking, SendsPacket, Sending
<1>4. \/ Between(e, h) \/ Unsent(e, h) \/ CountedSent(e, h)
      \/ e.seq > 0 /\ OnItsWay(e, h, e.seq - 1)
  BY <1>1, <1>3 DEF Between, Unsent, OnItsWay, CountedSent, InFlight, Packet, HostHas
<1> QED BY <1>1, <1>4 DEF Sound, EndpointOk, Answering

(* An answer overtakes the last packet of READ_ALL_UIDS, or finds nothing on    *)
(* its way.                                                                     *)
LEMMA MainFinishesKeeps ==
    ASSUME Sound(dev, main, host), MainFinishes
    PROVE  Sound(dev', main', host')
<1> DEFINE c == IF dev.active_cmd = "BUTTON_WAIT" THEN finish_command_multi(dev, 0)
                ELSE read_all_uids_cmd_iter(dev)
<1>1. PICK n \in 1 .. MaxPackets : dev' = [c EXCEPT !.count = n]
  BY DEF MainFinishes
<1>2. /\ main.pc = "idle" /\ dev.active_cmd \in {"BUTTON_WAIT", "READ_ALL_UIDS"}
      /\ dev.active_cmd = "READ_ALL_UIDS" => ~dev.data
      /\ main' = [pc |-> "data", buf |-> "packet"] /\ host' = host
  BY DEF MainFinishes, MainAt, Goes
<1>3. /\ Fine(dev) /\ IsHost(host) /\ host.whole
      /\ dev.event_mask = {} \/ dev.out # "none"
      /\ Between(dev, host) \/ (CountedSent(dev, host) /\ dev.active_cmd = "READ_ALL_UIDS")
  BY <1>2, Undisturbed DEF Sending, Unsent, OnItsWay, CountedSent, HostHas
<1>4. /\ Fine(c) /\ Kept(dev, c, {"left", "active_cmd", "ans", "more"})
      /\ c.ans = NextId(dev.ans)
      /\ c.active_cmd = IF c.more = 0 THEN "none" ELSE "READ_ALL_UIDS"
  <2>1. CASE dev.active_cmd = "BUTTON_WAIT"
    <3>1. c = finish_command_multi(dev, 0)
      BY <2>1
    <3> HIDE DEF c
    <3>2. /\ Fine(c) /\ Kept(dev, c, {"active_cmd", "ans", "more"})
          /\ c.ans = NextId(dev.ans) /\ c.more = 0 /\ c.active_cmd = "none"
      BY <1>3, <3>1, Finishes
    <3> QED BY <3>2 DEF Kept
  <2>2. CASE dev.active_cmd = "READ_ALL_UIDS"
    <3>1. c = read_all_uids_cmd_iter(dev)
      BY <2>2
    <3> HIDE DEF c
    <3> QED BY <1>3, <2>2, <3>1, IterAnswers
  <2> QED BY <1>2, <2>1, <2>2
<1> HIDE DEF c
<1>5. Kept(c, dev', {"count"}) /\ dev'.count = n
  <2>1. n \in 0 .. MaxPackets BY UsbHidAssumption
  <2> QED BY <1>1, <1>4, <2>1 DEF Kept, IsDev, DevFields
<1>6. /\ IsDev(dev') /\ dev'.count > 0
      /\ dev'.ans = NextId(dev.ans) /\ dev'.event_mask = dev.event_mask
      /\ dev'.data = dev.data /\ dev'.seq = dev.seq /\ dev'.packet = dev.packet
      /\ dev'.out = dev.out /\ dev'.seen = dev.seen /\ dev'.tx_report = dev.tx_report
      /\ dev'.failed = dev.failed
      /\ dev'.active_cmd = IF dev'.more = 0 THEN "none" ELSE "READ_ALL_UIDS"
  BY <1>4, <1>5 DEF Kept, DevFields
<1>7. EndpointOk(dev') /\ ~dev'.failed
  BY <1>3, <1>6 DEF Fine, EndpointOk
<1>8. LoopOk(dev', main')
  BY <1>2, <1>3, <1>6 DEF LoopOk
<1>9. Answering(dev', main', host)
  <2>1. CASE Between(dev, host)
    <3>1. ~InFlight(dev') /\ HostHas(dev', host, 0)
      BY <1>2, <1>6, <2>1 DEF Between, InFlight, HostHas
    <3> QED BY <1>2, <1>6, <3>1 DEF Answering
  <2>2. CASE CountedSent(dev, host)
    <3>1. Overtaking(dev', main', host)
      BY <1>2, <1>6, <2>2 DEF CountedSent, HostHas, Overtaking
    <3> QED BY <3>1 DEF Answering
  <2> QED BY <1>3, <2>1, <2>2
<1> QED BY <1>2, <1>3, <1>6, <1>7, <1>8, <1>9 DEF Sound

(* cmd_packet_send, called by the main loop, step by step. *)
LEMMA MainSetsDataKeeps ==
    ASSUME Sound(dev, main, host), MainSetsData
    PROVE  Sound(dev', main', host')
<1>1. /\ main.pc = "data" /\ dev' = [dev EXCEPT !.seq = 0, !.data = TRUE]
      /\ main' = [pc |-> "check", buf |-> "packet"] /\ host' = host
  BY DEF MainSetsData, MainAt, Goes
<1>2. dev'.data /\ Kept(dev, dev', {"seq", "data"}) /\ dev'.seq = 0
  <2>1. dev' = [f \in DevFields |-> dev'[f]] /\ dev'.seq = 0
    BY <1>1 DEF Sound, IsDev, DevFields
  <2>2. dev'.data = TRUE
    BY <1>1 DEF Sound, IsDev, DevFields
  <2>3. \A x \in DevFields \ {"seq", "data"} : dev'[x] = dev[x]
    BY <1>1 DEF Sound, IsDev, DevFields
  <2>4. /\ dev'.left = dev.left /\ dev'.more = dev.more /\ dev'.count = dev.count
        /\ dev'.ans = dev.ans /\ dev'.failed = dev.failed /\ dev'.event_mask = dev.event_mask
    BY <2>3 DEF DevFields
  <2>5. dev'.data /\ dev'.data \in BOOLEAN
    BY <2>2
  <2>6. IsDev(dev')
    BY <2>1, <2>4, <2>5 DEF Sound, IsDev
  <2> QED BY <2>1, <2>3, <2>5, <2>6 DEF Kept
<1>3. main.buf = "packet"
  BY <1>1 DEF Sound, LoopOk
<1>4. \/ ~InFlight(dev) /\ HostHas(dev, host, 0) /\ dev.count > 0
      \/ Overtaking(dev, main, host)
  BY <1>1, <1>3 DEF Sound, Answering, SendsPacket, Sending
<1>5. /\ IsDev(dev') /\ dev'.active_cmd = dev.active_cmd /\ dev'.ans = dev.ans
      /\ dev'.more = dev.more /\ dev'.count = dev.count /\ dev'.packet = dev.packet
      /\ dev'.event_mask = dev.event_mask /\ dev'.out = dev.out /\ dev'.seen = dev.seen
      /\ dev'.tx_report = dev.tx_report /\ dev'.failed = dev.failed
  BY <1>2 DEF Kept, DevFields
<1>6. EndpointOk(dev') /\ LoopOk(dev', main') /\ ~dev'.failed
  BY <1>1, <1>2, <1>3, <1>5 DEF Sound, EndpointOk, LoopOk, OneEvent
<1>7. Answering(dev', main', host)
  <2>1. CASE ~InFlight(dev) /\ HostHas(dev, host, 0) /\ dev.count > 0
    <3>1. ~InFlight(dev') /\ HostHas(dev', host, 0)
      BY <1>5, <2>1 DEF InFlight, HostHas
    <3>2. Unsent(dev', host)
      BY <1>2, <1>5, <2>1, <3>1 DEF Unsent
    <3> QED BY <1>1, <1>2, <3>2 DEF Answering
  <2>2. CASE Overtaking(dev, main, host)
    <3>1. Overtaking(dev', main', host)
      BY <1>1, <1>2, <1>5, <2>2 DEF Overtaking
    <3> QED BY <3>1 DEF Answering
  <2> QED BY <1>4, <2>1, <2>2
<1> QED BY <1>1, <1>5, <1>6, <1>7 DEF Sound

(* cmd_event_send. *)
LEMMA EventKeeps ==
    ASSUME Sound(dev, main, host), cmd_event_send
    PROVE  Sound(dev', main', host')
<1>1. PICK n \in Events : dev' = [dev EXCEPT !.event_mask = @ \cup {n}]
  BY DEF cmd_event_send
<1>2. main.pc = "idle" /\ main' = [pc |-> "check", buf |-> "event"] /\ host' = host
  BY DEF cmd_event_send, MainAt, Goes
<1>3. Kept(dev, dev', {"event_mask"}) /\ dev'.event_mask = dev.event_mask \cup {n}
  BY <1>1 DEF Sound, Kept, IsDev, DevFields
<1>4. ~SendsPacket(main) /\ ~SendsPacket(main')
  BY <1>2 DEF SendsPacket, Sending
<1>5. IsDev(dev') /\ ~dev'.failed /\ EndpointOk(dev') /\ Answering(dev', main', host)
  BY <1>3, <1>4, MainElsewhere
<1>6. dev'.out = dev.out
  BY <1>3 DEF Kept, DevFields
<1>7. dev.out = "none" => dev.event_mask = {}
  BY <1>2 DEF Sound, LoopOk
<1>8. dev.event_mask = {} => OneEvent(dev')
  BY <1>3 DEF OneEvent
<1>9. LoopOk(dev', main')
  BY <1>2, <1>6, <1>7, <1>8 DEF LoopOk
<1> QED BY <1>2, <1>5, <1>9 DEF Sound

(* maybe_send_raw_hid_event looks for an event and a free endpoint. *)
LEMMA MainChecksKeeps ==
    ASSUME Sound(dev, main, host), MainChecks
    PROVE  Sound(dev', main', host')
<1>1. main.pc = "check" /\ dev' = dev /\ host' = host
  BY DEF MainChecks, MainAt
<1>2. main.buf \in {"packet", "event"} /\ Kept(dev, dev, {"event_mask"})
  BY <1>1 DEF Sound, LoopOk, Kept
<1>3. CASE EventDue(dev)
  <2>1. main' = [pc |-> "event", buf |-> "event"]
    BY <1>3 DEF MainChecks, Goes
  <2>2. main.buf = "event" /\ OneEvent(dev) /\ dev.out = "none"
    BY <1>3 DEF Sound, LoopOk, EventDue
  <2>3. ~SendsPacket(main) /\ ~SendsPacket(main')
    BY <2>1, <2>2 DEF SendsPacket
  <2>4. Answering(dev, main', host)
    BY <1>2, <2>3, MainElsewhere
  <2>5. LoopOk(dev, main')
    BY <2>1, <2>2 DEF LoopOk
  <2> QED BY <1>1, <2>4, <2>5 DEF Sound
<1>4. CASE ~EventDue(dev) /\ main.buf = "event"
  <2>1. main' = Idle
    BY <1>4 DEF MainChecks
  <2>2. ~SendsPacket(main) /\ ~SendsPacket(main')
    BY <1>4, <2>1 DEF SendsPacket, Idle
  <2>3. Answering(dev, main', host)
    BY <1>2, <2>2, MainElsewhere
  <2>4. LoopOk(dev, main')
    BY <1>4, <2>1 DEF LoopOk, EventDue, Idle
  <2> QED BY <1>1, <2>3, <2>4 DEF Sound
<1>5. CASE ~EventDue(dev) /\ main.buf = "packet"
  <2>1. main' = [pc |-> "packet", buf |-> "packet"]
    BY <1>5 DEF MainChecks, Goes
  <2>2. LoopOk(dev, main')
    BY <1>5, <2>1 DEF LoopOk, EventDue
  <2>3. (Unsent(dev, host) /\ dev.seq = 0) \/ Overtaking(dev, main, host)
    BY <1>1, <1>5 DEF Sound, Answering, SendsPacket, Sending
  <2>4. Answering(dev, main', host)
    BY <1>1, <2>1, <2>3 DEF Answering, Overtaking
  <2> QED BY <1>1, <2>2, <2>4 DEF Sound
<1> QED BY <1>2, <1>3, <1>4, <1>5

(* An interrupt may have sent the event first: then none is left. *)
LEMMA MainTakesEventKeeps ==
    ASSUME Sound(dev, main, host), MainTakesEvent
    PROVE  Sound(dev', main', host')
<1>1. main.pc = "event" /\ host' = host
  BY DEF MainTakesEvent, MainAt
<1>2. main.buf = "event" /\ ~SendsPacket(main)
  BY <1>1 DEF Sound, LoopOk, SendsPacket
<1>3. CASE dev.event_mask = {}
  <2>1. dev' = dev /\ main' = Idle
    BY <1>3 DEF MainTakesEvent
  <2>2. ~SendsPacket(main') /\ Kept(dev, dev', {"event_mask"})
    BY <2>1 DEF SendsPacket, Idle, Sound, Kept
  <2>3. Answering(dev', main', host)
    BY <1>2, <2>2, MainElsewhere
  <2>4. LoopOk(dev', main')
    BY <1>3, <2>1 DEF LoopOk, Idle
  <2> QED BY <1>1, <2>1, <2>3, <2>4 DEF Sound
<1>4. CASE dev.event_mask # {}
  <2>1. dev' = TakeEvent(dev) /\ main' = [pc |-> "test", buf |-> "event"]
    BY <1>4 DEF MainTakesEvent, Goes
  <2>2. dev.out = "none" /\ OneEvent(dev) /\ IsDev(dev)
    BY <1>1, <1>4 DEF Sound, LoopOk
  <2>3. /\ Kept(dev, dev', {"event_mask"})
        /\ dev'.event_mask = dev.event_mask \ {Lowest(dev.event_mask)}
    BY <2>1, <2>2 DEF Kept, IsDev, DevFields, TakeEvent
  <2>4. dev'.event_mask = {}
    BY <1>4, <2>2, <2>3, LastEvent DEF EventDue
  <2>5. ~SendsPacket(main')
    BY <2>1 DEF SendsPacket
  <2>6. IsDev(dev') /\ ~dev'.failed /\ EndpointOk(dev') /\ Answering(dev', main', host)
    BY <1>2, <2>3, <2>5, MainElsewhere
  <2>7. dev'.out = "none"
    BY <2>2, <2>3 DEF Kept, DevFields
  <2>8. LoopOk(dev', main')
    BY <2>1, <2>4, <2>7 DEF LoopOk
  <2> QED BY <1>1, <2>6, <2>8 DEF Sound
<1> QED BY <1>3, <1>4

(* A packet made up while the last one of an answer is on its way is the fault  *)
(* that "shared" excepts.                                                       *)
LEMMA MainFillsPacketKeeps ==
    ASSUME Sound(dev, main, host), MainFillsPacket, Spared(Fatal)'
    PROVE  Sound(dev', main', host')
<1>1. main.pc = "packet" /\ host' = host
  BY DEF MainFillsPacket
<1>2. main.buf = "packet" /\ IsDev(dev)
  BY <1>1 DEF Sound, LoopOk
<1>3. \A p, q \in dev'.seen : p = q
  BY DEF MainFillsPacket, Spared, Fatal, Shared
<1>4. (Unsent(dev, host) /\ dev.seq = 0) \/ Overtaking(dev, main, host)
  BY <1>1, <1>2 DEF Sound, Answering, SendsPacket, Sending
<1>5. dev.data /\ dev.seq # dev.count
  BY <1>1, <1>2, <1>4 DEF Unsent, Overtaking, IsDev
<1>6. dev' = FillPacket(dev) /\ main' = [pc |-> "test", buf |-> "packet"]
  BY <1>5 DEF MainFillsPacket, Goes
<1>7. /\ Kept(dev, dev', {"packet", "seen"}) /\ dev'.packet = Packet(dev, dev.seq)
      /\ dev'.seen = IF dev.out = "packet" THEN dev.seen \cup {Packet(dev, dev.seq)}
                     ELSE dev.seen
  BY <1>2, <1>5, <1>6, Filled
<1>8. CASE Overtaking(dev, main, host)
  <2>1. dev.seen = {dev.packet} /\ dev.out = "packet"
    BY <1>8 DEF Overtaking, Sound, EndpointOk
  <2>2. Packet(dev, dev.seq).ans = dev.ans
    BY DEF Packet
  <2>3. dev.packet.ans # dev.ans
    BY <1>8, NextIdFacts DEF Overtaking, Sound, IsHost
  <2> QED BY <1>3, <1>7, <2>1, <2>2, <2>3
<1>9. CASE Unsent(dev, host)
  <2>1. /\ IsDev(dev') /\ dev'.active_cmd = dev.active_cmd /\ dev'.ans = dev.ans
        /\ dev'.more = dev.more /\ dev'.count = dev.count /\ dev'.seq = dev.seq
        /\ dev'.event_mask = dev.event_mask /\ dev'.out = dev.out /\ dev'.data = dev.data
        /\ dev'.tx_report = dev.tx_report /\ dev'.failed = dev.failed
    BY <1>7 DEF Kept, DevFields
  <2>2. dev.out # "packet" /\ dev'.seen = dev.seen
    BY <1>7, <1>9 DEF Unsent, InFlight
  <2>3. EndpointOk(dev') /\ LoopOk(dev', main') /\ ~dev'.failed
    BY <1>1, <1>2, <1>6, <2>1, <2>2 DEF Sound, EndpointOk, LoopOk, OneEvent
  <2>4. Unsent(dev', host) /\ dev'.packet = Packet(dev', dev'.seq)
    BY <1>7, <1>9, <2>1 DEF Unsent, InFlight, HostHas, Packet
  <2>5. Answering(dev', main', host)
    BY <1>6, <2>4 DEF Answering
  <2> QED BY <1>1, <2>1, <2>3, <2>5 DEF Sound
<1> QED BY <1>4, <1>8, <1>9

(* usb_tx_pending. No interrupt comes before what follows it, or it "raced". *)
LEMMA MainTestsKeeps ==
    ASSUME Sound(dev, main, host), MainTests
    PROVE  Sound(dev', main', host')
<1>1. /\ main.pc = "test" /\ dev' = dev /\ host' = host
      /\ main' = [pc |-> IF dev.out # "none" THEN "queue" ELSE "send", buf |-> main.buf]
  BY DEF MainTests, MainAt, Goes
<1>2. CASE main.buf = "event"
  <2>1. ~SendsPacket(main) /\ ~SendsPacket(main') /\ Kept(dev, dev, {"event_mask"})
    BY <1>1, <1>2 DEF SendsPacket, Sound, Kept
  <2>2. Answering(dev, main', host)
    BY <2>1, MainElsewhere
  <2>3. LoopOk(dev, main')
    BY <1>1, <1>2 DEF Sound, LoopOk
  <2> QED BY <1>1, <2>2, <2>3 DEF Sound
<1>3. CASE main.buf = "packet"
  <2>1. Unsent(dev, host) /\ dev.packet = Packet(dev, dev.seq)
    BY <1>1, <1>3 DEF Sound, Answering, SendsPacket, Sending, Overtaking
  <2>2. dev.out \in {"none", "event"}
    BY <2>1 DEF Sound, EndpointOk, Unsent, InFlight
  <2>3. LoopOk(dev, main')
    BY <1>1, <1>3, <2>2 DEF Sound, LoopOk
  <2>4. Answering(dev, main', host)
    BY <1>1, <2>1 DEF Answering
  <2> QED BY <1>1, <2>3, <2>4 DEF Sound
<1> QED BY <1>1, <1>2, <1>3 DEF Sound, LoopOk

(* USBD_HID_SendReport, or the place behind the event. *)
LEMMA MainSendsKeeps ==
    ASSUME Sound(dev, main, host), MainSends
    PROVE  Sound(dev', main', host')
<1>1. main.pc \in {"queue", "send"} /\ host' = host /\ IsDev(dev)
  BY DEF MainSends, MainAt, Sound
<1>2. CASE main.buf = "event"
  <2>1. main.pc = "send" /\ dev.out = "none" /\ dev.tx_report = "none" /\ ~SendsPacket(main)
    BY <1>1, <1>2 DEF Sound, LoopOk, EndpointOk, SendsPacket
  <2>2. dev' = [dev EXCEPT !.out = "event", !.seen = {NoPacket}] /\ main' = Idle
    BY <1>2, <2>1 DEF MainSends, USBD_HID_SendReport
  <2>3. Kept(dev, dev', {"out", "seen"}) /\ dev'.out = "event" /\ dev'.seen = {NoPacket}
    BY <1>1, <2>2 DEF Kept, IsDev, DevFields
  <2>4. /\ IsDev(dev') /\ dev'.active_cmd = dev.active_cmd /\ dev'.ans = dev.ans
        /\ dev'.more = dev.more /\ dev'.count = dev.count /\ dev'.seq = dev.seq
        /\ dev'.data = dev.data /\ dev'.packet = dev.packet
        /\ dev'.tx_report = dev.tx_report /\ dev'.failed = dev.failed
    BY <2>3 DEF Kept, DevFields
  <2>5. EndpointOk(dev') /\ LoopOk(dev', main') /\ ~dev'.failed
    BY <2>1, <2>2, <2>3, <2>4 DEF Sound, EndpointOk, LoopOk, Idle
  <2>6. Between(dev, host) \/ Unsent(dev, host)
    BY <2>1 DEF Sound, Answering, OnItsWay, CountedSent, Overtaking, InFlight
  <2>7. Between(dev', host) \/ Unsent(dev', host)
    BY <2>1, <2>3, <2>4, <2>6 DEF Between, Unsent, InFlight, HostHas
  <2>8. ~SendsPacket(main')
    BY <2>2 DEF SendsPacket, Idle
  <2> QED BY <1>1, <2>4, <2>5, <2>7, <2>8 DEF Sound, Answering
<1>3. CASE main.buf = "packet"
  <2>1. Unsent(dev, host) /\ dev.packet = Packet(dev, dev.seq)
    BY <1>1, <1>3 DEF Sound, Answering, SendsPacket, Sending, Overtaking
  <2>2. dev.tx_report = "none" /\ dev.data
    BY <2>1 DEF Sound, EndpointOk, Unsent, InFlight
  <2>3. main' = [pc |-> "next", buf |-> "packet"]
    BY <1>3 DEF MainSends, Goes
  <2>4. /\ Kept(dev, dev', {"out", "seen", "tx_report"})
        /\ \/ dev'.out = "event" /\ dev'.seen = dev.seen /\ dev'.tx_report = "packet"
              /\ dev.out = "event"
           \/ dev'.out = "packet" /\ dev'.seen = {dev.packet} /\ dev'.tx_report = "none"
    <3>1. CASE main.pc = "queue"
      <4>1. dev.out = "event" /\ dev' = [dev EXCEPT !.tx_report = "packet"]
        BY <1>3, <2>2, <3>1 DEF Sound, LoopOk, MainSends, Queue
      <4> QED BY <1>1, <4>1 DEF Kept, IsDev, DevFields
    <3>2. CASE main.pc = "send"
      <4>1. dev' = [dev EXCEPT !.out = "packet", !.seen = {dev.packet}]
        BY <1>3, <3>2 DEF Sound, LoopOk, MainSends, USBD_HID_SendReport
      <4> QED BY <1>1, <2>2, <4>1 DEF Kept, IsDev, DevFields
    <3> QED BY <1>1, <3>1, <3>2
  <2>5. /\ IsDev(dev') /\ dev'.active_cmd = dev.active_cmd /\ dev'.ans = dev.ans
        /\ dev'.more = dev.more /\ dev'.count = dev.count /\ dev'.seq = dev.seq
        /\ dev'.data = dev.data /\ dev'.packet = dev.packet
        /\ dev'.event_mask = dev.event_mask /\ dev'.failed = dev.failed
    BY <2>4 DEF Kept, DevFields
  <2>6. EndpointOk(dev') /\ LoopOk(dev', main') /\ ~dev'.failed
    BY <2>2, <2>3, <2>4, <2>5 DEF Sound, EndpointOk, LoopOk
  <2>7. OnItsWay(dev', host, dev'.seq)
    BY <2>1, <2>4, <2>5 DEF OnItsWay, Unsent, InFlight, HostHas, Packet
  <2>8. Answering(dev', main', host)
    BY <2>3, <2>7 DEF Answering, SendsPacket, Sending
  <2> QED BY <1>1, <2>5, <2>6, <2>8 DEF Sound
<1> QED BY <1>1, <1>2, <1>3 DEF Sound, LoopOk

(* raw_hid_tx_seq++. *)
LEMMA MainNextPacketKeeps ==
    ASSUME Sound(dev, main, host), MainNextPacket
    PROVE  Sound(dev', main', host')
<1>1. main.pc = "next" /\ dev' = [dev EXCEPT !.seq = @ + 1] /\ main' = Idle /\ host' = host
  BY DEF MainNextPacket, MainAt
<1>2. OnItsWay(dev, host, dev.seq) /\ dev.seq \in Nat
  BY <1>1 DEF Sound, LoopOk, Answering, SendsPacket, Sending, Overtaking, IsDev
<1>3. Kept(dev, dev', {"seq"}) /\ dev'.seq = dev.seq + 1
  BY <1>1 DEF Sound, Kept, IsDev, DevFields
<1>4. /\ IsDev(dev') /\ dev'.active_cmd = dev.active_cmd /\ dev'.ans = dev.ans
      /\ dev'.more = dev.more /\ dev'.count = dev.count
      /\ dev'.data = dev.data /\ dev'.packet = dev.packet /\ dev'.event_mask = dev.event_mask
      /\ dev'.out = dev.out /\ dev'.seen = dev.seen
      /\ dev'.tx_report = dev.tx_report /\ dev'.failed = dev.failed
  BY <1>3 DEF Kept, DevFields
<1>5. EndpointOk(dev') /\ dev'.out # "none" /\ ~dev'.failed
  BY <1>2, <1>4 DEF Sound, EndpointOk, OnItsWay, InFlight
<1>6. LoopOk(dev', main')
  BY <1>1, <1>5 DEF LoopOk, Idle
<1>7. dev'.seq > 0 /\ dev'.seq - 1 = dev.seq
  BY <1>2, <1>3
<1>8. OnItsWay(dev', host, dev'.seq - 1)
  BY <1>2, <1>4, <1>7 DEF OnItsWay, InFlight, HostHas, Packet
<1>9. Answering(dev', main', host)
  BY <1>1, <1>7, <1>8 DEF Answering, SendsPacket, Idle
<1> QED BY <1>1, <1>4, <1>5, <1>6, <1>9 DEF Sound

(* usb_keyboard_idle. *)
LEMMA KeyboardKeeps ==
    ASSUME Sound(dev, main, host), KeyboardIdle \/ KeyboardTyped
    PROVE  Sound(dev', main', host')
<1>1. host' = host /\ main.pc \in {"idle", "typed"} /\ main'.pc \in {"idle", "typed"}
      /\ main'.buf = "none"
  BY DEF KeyboardIdle, KeyboardTyped, MainAt, Goes, Idle
<1>2. Kept(dev, dev', KeyboardFields)
  BY DEF KeyboardIdle, KeyboardTyped, Sound, Kept, IsDev, DevFields, KeyboardFields
<1>3. Sound(dev', main, host)
  BY <1>2, KeyboardOnly DEF Sound
<1>4. ~SendsPacket(main) /\ ~SendsPacket(main') /\ Kept(dev', dev', {"event_mask"})
  BY <1>1, <1>3 DEF SendsPacket, Sending, Sound, Kept
<1>5. Answering(dev', main', host)
  BY <1>3, <1>4, MainElsewhere
<1>6. LoopOk(dev', main')
  BY <1>1, <1>3 DEF Sound, LoopOk
<1> QED BY <1>1, <1>3, <1>5, <1>6 DEF Sound

------------------------------------------------------------------------------
(* Behind a disturbance no step is explored. *)
LEMMA StepsRunning == HidNext => Running
  BY DEF HidNext, PollCommand, PollKeyboard, Host, AnsweredAtOnce, ButtonWait,
         ReadAllUids, Recv, Type, cancel_button_press, HostDisconnects, MainFinishes,
         cmd_event_send, KeyboardIdle, MainGoesOn, MainSetsData, MainChecks,
         MainTakesEvent, MainFillsPacket, MainTests, MainSends, MainNextPacket,
         KeyboardTyped, MainAt

(* The inductive invariant of UsbHid holds at first and is kept by every        *)
(* step.                                                                        *)
LEMMA HidInitially == HidInit => HidInv
<1> SUFFICES ASSUME HidInit PROVE Sound(dev, main, host)
  BY DEF HidInv
<1>1. IsDev(dev)
  <2>1. /\ dev = [f \in DevFields |-> dev[f]] /\ dev.left = 0 /\ dev.more = 0 /\ dev.seq = 0
        /\ dev.count = 0 /\ dev.ans = 0 /\ dev.event_mask = {}
    BY DEF HidInit, DevFields
  <2>2. dev.data = FALSE
    BY DEF HidInit
  <2>3. dev.failed = FALSE
    BY DEF HidInit
  <2>4. dev.data \in BOOLEAN /\ dev.failed \in BOOLEAN
    BY <2>2, <2>3
  <2>5. 0 \in 0 .. MaxPackets /\ 0 \in 0 .. IdMod - 1
    BY UsbHidAssumption
  <2> QED BY <2>1, <2>4, <2>5 DEF IsDev
<1>2. IsHost(host) /\ host.whole
  <2>1. /\ host = [f \in HostFields |-> host[f]] /\ host.ans = 0
        /\ host.got = [s \in 0 .. MaxPackets - 1 |-> host.got[s]]
    BY DEF HidInit, HostFields
  <2>2. host.waiting = FALSE
    BY DEF HidInit
  <2>3. host.whole = TRUE
    BY DEF HidInit
  <2>4. host.waiting \in BOOLEAN /\ host.whole \in BOOLEAN /\ host.whole
    BY <2>2, <2>3
  <2>5. 0 \in 0 .. IdMod - 1
    BY UsbHidAssumption
  <2> QED BY <2>1, <2>4, <2>5 DEF IsHost
<1>3. EndpointOk(dev) /\ LoopOk(dev, main) /\ ~dev.failed
  BY DEF HidInit, EndpointOk, LoopOk, Idle
<1>4. Between(dev, host) /\ ~SendsPacket(main)
  BY DEF HidInit, Between, InFlight, SendsPacket, Idle
<1> QED BY <1>1, <1>2, <1>3, <1>4 DEF Sound, Answering

LEMMA HidSteps == HidInv /\ [HidNext]_hidVars => HidInv'
<1> SUFFICES ASSUME HidInv, [HidNext]_hidVars, Spared(Fatal)'
             PROVE  Sound(dev', main', host')
  BY DEF HidInv
<1>1. ASSUME HidNext
      PROVE  Sound(dev', main', host')
  <2>1. Sound(dev, main, host)
    <3>1. Spared(Fatal)
      BY <1>1, StepsRunning DEF Running
    <3> QED BY <3>1 DEF HidInv
  <2>2. CASE PollCommand     BY <2>1, <2>2, PollCommandKeeps
  <2>3. CASE PollKeyboard    BY <2>1, <2>3, PollKeyboardKeeps
  <2>4. CASE AnsweredAtOnce  BY <2>1, <2>4, AnsweredAtOnceKeeps
  <2>5. CASE ButtonWait      BY <2>1, <2>5, ButtonWaitKeeps
  <2>6. CASE ReadAllUids     BY <2>1, <2>6, ReadAllUidsKeeps
  <2>7. CASE Type            BY <2>1, <2>7, TypeKeeps
  <2>8. CASE cancel_button_press BY <2>1, <2>8, CancelKeeps
  <2>9. CASE HostDisconnects BY <2>1, <2>9, HostDisconnectsKeeps
  <2>10. CASE MainFinishes   BY <2>1, <2>10, MainFinishesKeeps
  <2>11. CASE cmd_event_send BY <2>1, <2>11, EventKeeps
  <2>12. CASE MainSetsData   BY <2>1, <2>12, MainSetsDataKeeps
  <2>13. CASE MainChecks     BY <2>1, <2>13, MainChecksKeeps
  <2>14. CASE MainTakesEvent BY <2>1, <2>14, MainTakesEventKeeps
  <2>15. CASE MainFillsPacket BY <2>1, <2>15, MainFillsPacketKeeps
  <2>16. CASE MainTests      BY <2>1, <2>16, MainTestsKeeps
  <2>17. CASE MainSends      BY <2>1, <2>17, MainSendsKeeps
  <2>18. CASE MainNextPacket BY <2>1, <2>18, MainNextPacketKeeps
  <2>19. CASE KeyboardIdle \/ KeyboardTyped BY <2>1, <2>19, KeyboardKeeps
  <2> QED BY <1>1, <2>2, <2>3, <2>4, <2>5, <2>6, <2>7, <2>8, <2>9, <2>10, <2>11, <2>12,
             <2>13, <2>14, <2>15, <2>16, <2>17, <2>18, <2>19 DEF HidNext, Host, MainGoesOn
<1>2. ASSUME UNCHANGED hidVars
      PROVE  Sound(dev', main', host')
  <2>1. dev' = dev /\ main' = main /\ host' = host /\ disturbed' = disturbed
    BY <1>2 DEF hidVars
  <2> QED BY <2>1 DEF HidInv, Spared
<1> QED BY <1>1, <1>2

(* For any number of packets and entries and any texts: an answer that the host *)
(* has put together is the one it waits for, whole, and the endpoint has never  *)
(* been given a packet it could not take (usb_raw_hid.c, usbd_hid.c), as long   *)
(* as none of the four disturbances has come (see AnswersWhole).                *)
THEOREM AnswersAreWhole == HidSpec => []AnswersWhole
<1>1. HidInv => AnswersWhole
  BY DEF HidInv, Sound, AnswersWhole
<1> QED BY <1>1, HidInitially, HidSteps, PTL DEF HidSpec

------------------------------------------------------------------------------
(* UsbHid: the characters of TYPE. *)

(* The text of TYPE is typed: its next character is in the endpoint, or there   *)
(* and still to be counted by usb_keyboard_idle, or waits for that.             *)
TypingText(d, m, h) ==
    /\ d.typing = TRUE /\ d.text = TRUE /\ d.n_chars = h.wants /\ d.char_pos \in Nat \ {0}
    /\ \/ d.key = d.char_pos - 1 /\ d.to_type = -1 /\ m.pc # "typed" /\ h.typed = d.char_pos - 1
       \/ d.key = d.char_pos /\ d.to_type = d.char_pos /\ m.pc = "typed" /\ h.typed = d.char_pos
       \/ d.key = -1 /\ d.to_type = d.char_pos /\ m.pc # "typed" /\ h.typed = d.char_pos

KeysInv ==
    /\ Spared(Fatal) /\ main.pc = "typed" => dev.typing = TRUE
    /\ disturbed = {} /\ dev.active_cmd = "TYPE" => TypingText(dev, main, host)

(* What the endpoint of commands does leaves the keyboard alone, and TYPE at    *)
(* work.                                                                        *)
Framed(d, e) ==
    /\ IsRecord(e) /\ \A f \in KeyboardFields : e[f] = d[f]
    /\ e.active_cmd = d.active_cmd \/ (e.active_cmd = "none" /\ d.active_cmd # "TYPE")

(* So does one such call after another. *)
LEMMA FramedTwice ==
    ASSUME NEW c, NEW d, NEW e, Framed(c, d), Framed(d, e)
    PROVE  Framed(c, e)
BY DEF Framed

(* The calls that touch the endpoint. *)
LEMMA SendingFramed ==
    ASSUME NEW d, IsRecord(d)
    PROVE  /\ \A buf : Framed(d, usb_send_bytes(d, buf))
           /\ \A buf : Framed(d, USBD_HID_SendReport(d, buf)) /\ Framed(d, Queue(d, buf))
           /\ Framed(d, TakeEvent(d)) /\ Framed(d, FillPacket(d))
<1>1. Framed(d, [d EXCEPT !.failed = TRUE])
  BY DEF Framed, IsRecord, DevFields, KeyboardFields
<1>2. ASSUME NEW x PROVE Framed(d, [d EXCEPT !.tx_report = x])
  BY DEF Framed, IsRecord, DevFields, KeyboardFields
<1>4. ASSUME NEW x, NEW y PROVE Framed(d, [d EXCEPT !.packet = x, !.seen = y])
  BY DEF Framed, IsRecord, DevFields, KeyboardFields
<1>5. Framed(d, TakeEvent(d))
  BY DEF Framed, IsRecord, DevFields, KeyboardFields, TakeEvent
<1>6. Framed(d, FillPacket(d))
  BY <1>4, Zenon DEF FillPacket
<1>7. ASSUME NEW buf PROVE Framed(d, USBD_HID_SendReport(d, buf)) /\ Framed(d, Queue(d, buf))
  <2>1. Framed(d, USBD_HID_SendReport(d, buf))
    <3>1. CASE d.out # "none" BY <1>1, <3>1 DEF USBD_HID_SendReport
    <3>2. CASE d.out = "none"
      <4> DEFINE y == {IF buf = "packet" THEN d.packet ELSE NoPacket}
      <4>1. USBD_HID_SendReport(d, buf) = [d EXCEPT !.out = buf, !.seen = y]
        BY <3>2 DEF USBD_HID_SendReport
      <4> HIDE DEF y
      <4>2. Framed(d, [d EXCEPT !.out = buf, !.seen = y])
        BY DEF Framed, IsRecord, DevFields, KeyboardFields
      <4> QED BY <4>1, <4>2
    <3> QED BY <3>1, <3>2
  <2>2. Framed(d, Queue(d, buf))
    BY <1>1, <1>2, Zenon DEF Queue
  <2> QED BY <2>1, <2>2
<1>8. ASSUME NEW buf PROVE Framed(d, usb_send_bytes(d, buf))
  BY <1>7, Zenon DEF usb_send_bytes
<1> QED BY <1>5, <1>6, <1>7, <1>8, Zenon

(* maybe_send_raw_hid_packet. *)
LEMMA MaybeFramed ==
    ASSUME NEW d, IsRecord(d)
    PROVE  Framed(d, maybe_send_raw_hid_packet(d))
<1>1. ASSUME NEW e, e = usb_send_bytes(TakeEvent(d), "event")
      PROVE  Framed(d, e)
  <2> DEFINE f == TakeEvent(d)
  <2>1. Framed(d, f)
    BY SendingFramed
  <2>2. e = usb_send_bytes(f, "event")
    BY <1>1
  <2> HIDE DEF f
  <2>3. Framed(f, e)
    BY <2>1, <2>2, SendingFramed DEF Framed
  <2> QED BY <2>1, <2>3, FramedTwice
<1>2. Framed(d, SendPacket(d))
  <2> DEFINE f == FillPacket(d)
             g == usb_send_bytes(f, "packet")
             e == [g EXCEPT !.seq = @ + 1]
  <2>1. Framed(d, f)
    BY SendingFramed
  <2> HIDE DEF f
  <2>2. Framed(f, g)
    BY <2>1, SendingFramed DEF Framed
  <2> HIDE DEF g
  <2>3. Framed(g, e)
    BY <2>2 DEF Framed, IsRecord, DevFields, KeyboardFields
  <2>4. SendPacket(d) = e
    BY DEF SendPacket, e, f, g
  <2> HIDE DEF e
  <2> QED BY <2>1, <2>2, <2>3, <2>4, FramedTwice
<1> QED BY <1>1, <1>2 DEF maybe_send_raw_hid_packet

(* cmd_packet_send. *)
LEMMA CmdPacketFramed ==
    ASSUME NEW d, IsRecord(d), NEW n, NEW e, e = cmd_packet_send(d, n)
    PROVE  Framed(d, e)
<1> DEFINE c == [d EXCEPT !.count = n, !.seq = 0, !.data = TRUE]
<1>1. Framed(d, c)
  BY DEF Framed, IsRecord, DevFields, KeyboardFields
<1>2. e = maybe_send_raw_hid_packet(c)
  BY DEF cmd_packet_send
<1> HIDE DEF c
<1>3. Framed(c, e)
  BY <1>1, <1>2, MaybeFramed DEF Framed
<1> QED BY <1>1, <1>3, FramedTwice

(* Answers of READ_ALL_UIDS, or of a wait for the button. *)
LEMMA IterFramed ==
    ASSUME NEW d, IsRecord(d), d.active_cmd # "TYPE"
    PROVE  /\ Framed(d, read_all_uids_cmd_iter(d))
           /\ \A more : Framed(d, finish_command_multi(d, more))
<1>1. ASSUME NEW c, NEW more, IsRecord(c), c.active_cmd # "TYPE"
      PROVE  Framed(c, finish_command_multi(c, more))
  BY <1>1 DEF Framed, IsRecord, DevFields, KeyboardFields, finish_command_multi
<1> DEFINE c == [d EXCEPT !.left = @ - 1]
<1>2. Framed(d, c)
  BY DEF Framed, IsRecord, DevFields, KeyboardFields
<1>3. read_all_uids_cmd_iter(d) \in {finish_command_multi(d, 0),
                                     finish_command_multi(c, d.left - 1)}
  BY DEF read_all_uids_cmd_iter
<1> HIDE DEF c
<1>4. Framed(c, finish_command_multi(c, d.left - 1))
  BY <1>1, <1>2 DEF Framed
<1>5. Framed(d, finish_command_multi(c, d.left - 1))
  BY <1>2, <1>4, FramedTwice
<1> QED BY <1>1, <1>3, <1>5

(* The end of an answer. *)
LEMMA AnswerFramed ==
    ASSUME NEW d, IsRecord(d), NEW n, NEW e, e = AnswerSent(d, n)
    PROVE  Framed(d, e)
<1> DEFINE c == [d EXCEPT !.seq = 0, !.count = 0, !.data = FALSE]
           b == read_all_uids_cmd_iter(c)
<1>1. Framed(d, c)
  BY DEF Framed, IsRecord, DevFields, KeyboardFields
<1>2. e = c \/ (c.active_cmd = "READ_ALL_UIDS" /\ e = cmd_packet_send(b, n))
  BY DEF AnswerSent, cmd_packet_sent
<1> HIDE DEF c
<1>3. c.active_cmd = "READ_ALL_UIDS" => Framed(c, b)
  BY <1>1, IterFramed DEF Framed
<1> HIDE DEF b
<1>4. CASE e = c
  BY <1>1, <1>4
<1>5. CASE c.active_cmd = "READ_ALL_UIDS" /\ e = cmd_packet_send(b, n)
  <2>1. Framed(b, e)
    BY <1>3, <1>5, CmdPacketFramed DEF Framed
  <2> QED BY <1>1, <1>3, <1>5, <2>1, FramedTwice
<1> QED BY <1>2, <1>4, <1>5

(* USBD_HID_DataIn of the endpoint of commands. *)
LEMMA DataInFramed ==
    ASSUME NEW d, IsRecord(d), NEW n, NEW e, e = DataIn(d, n)
    PROVE  Framed(d, e)
<1> DEFINE a == [d EXCEPT !.out = "none", !.seen = {}]
           b == USBD_HID_SendReport(a, d.tx_report)
           g == [b EXCEPT !.tx_report = "none"]
           c == IF d.tx_report = "none" THEN a ELSE g
<1>1. Framed(d, a)
  BY DEF Framed, IsRecord, DevFields, KeyboardFields
<1>2. c = IF d.tx_report = "none" THEN a ELSE g
  OBVIOUS
<1>3. e = usb_raw_hid_tx(c, n)
  BY DEF DataIn
<1> HIDE DEF c
<1> HIDE DEF a
<1>4. Framed(a, b)
  BY <1>1, SendingFramed DEF Framed
<1> HIDE DEF b
<1>5. Framed(b, g)
  BY <1>4 DEF Framed, IsRecord, DevFields, KeyboardFields
<1> HIDE DEF g
<1>6. Framed(d, g)
  BY <1>1, <1>4, <1>5, FramedTwice
<1>7. Framed(d, c)
  BY <1>1, <1>2, <1>6
<1>8. Framed(c, e)
  BY <1>3, <1>7, MaybeFramed, AnswerFramed DEF Framed, usb_raw_hid_tx
<1> QED BY <1>7, <1>8, FramedTwice

(* The keyboard stays as it is when a command is answered (finish_command).     *)
LEMMA FinishFramed ==
    ASSUME NEW d, IsRecord(d), NEW n, NEW e, e = FinishAndSend(d, n)
    PROVE  e.active_cmd = "none" /\ \A f \in KeyboardFields : e[f] = d[f]
<1> DEFINE c == finish_command_multi(d, 0)
<1>1. c.active_cmd = "none" /\ IsRecord(c) /\ \A f \in KeyboardFields : c[f] = d[f]
  BY DEF finish_command_multi, IsRecord, DevFields, KeyboardFields
<1>2. e = cmd_packet_send(c, n)
  BY DEF FinishAndSend
<1> HIDE DEF c
<1> QED BY <1>1, <1>2, CmdPacketFramed DEF Framed

(* What the host has of the text does not depend on the packets it takes.       *)
LEMMA ReceivesFramed ==
    ASSUME NEW h, h = [f \in HostFields |-> h[f]], NEW p, NEW k, k = Receives(h, p)
    PROVE  k.typed = h.typed /\ k.wants = h.wants
<1> DEFINE got == [h.got EXCEPT ![p.seq] = p.ans]
           more == IF p.seq = 0 THEN p.more ELSE h.more
           left == [s \in DOMAIN got |-> -1]
           whole == \A s \in 0 .. p.seq : got[s] = h.ans
           waits == more > 0
           next == IF more > 0 THEN NextId(h.ans) ELSE h.ans
<1>3. \/ k = h
      \/ k = [h EXCEPT !.got = got, !.more = more]
      \/ k = [h EXCEPT !.got = left, !.more = more, !.whole = whole, !.waiting = waits,
                       !.ans = next]
  BY DEF Receives
<1> HIDE DEF got, more, left, whole, waits, next
<1>4. CASE k = [h EXCEPT !.got = got, !.more = more]
  BY <1>4 DEF HostFields
<1>5. CASE k = [h EXCEPT !.got = left, !.more = more, !.whole = whole, !.waiting = waits,
                         !.ans = next]
  BY <1>5 DEF HostFields
<1> QED BY <1>3, <1>4, <1>5

(* A step that has nothing to do with the keyboard.                             *)
KeysAlone ==
    /\ dev'.typing = dev.typing /\ (main'.pc = "typed" <=> main.pc = "typed")
    /\ dev.active_cmd = "TYPE" => dev'.active_cmd = "TYPE"
    /\ dev'.active_cmd = "TYPE" =>
         /\ dev.active_cmd = "TYPE" /\ \A f \in KeyboardFields : dev'[f] = dev[f]
         /\ host'.typed = host.typed /\ host'.wants = host.wants
    /\ disturbed \subseteq disturbed'

AnswersType == dev.active_cmd = "TYPE" /\ dev'.active_cmd = "none" /\ dev'.ans # dev.ans

(* Such a step leaves the text being typed as it is, and answers no TYPE. *)
LEMMA AloneKeeps ==
    ASSUME KeysInv, KeysAlone
    PROVE  KeysInv' /\ ~AnswersType
<1>1. (Spared(Fatal) /\ main.pc = "typed" => dev.typing = TRUE)'
  BY DEF KeysInv, KeysAlone, Spared
<1>2. ASSUME disturbed' = {}, dev'.active_cmd = "TYPE"
      PROVE  TypingText(dev', main', host')
  <2>1. disturbed = {} /\ dev.active_cmd = "TYPE"
    BY <1>2 DEF KeysAlone
  <2>2. TypingText(dev, main, host)
    BY <2>1 DEF KeysInv
  <2>3. \A f \in KeyboardFields : dev'[f] = dev[f]
    BY <1>2 DEF KeysAlone
  <2>4. /\ dev'.typing = dev.typing /\ dev'.text = dev.text /\ dev'.n_chars = dev.n_chars
        /\ dev'.char_pos = dev.char_pos /\ dev'.key = dev.key /\ dev'.to_type = dev.to_type
    BY <2>3 DEF KeyboardFields
  <2>5. /\ host'.typed = host.typed /\ host'.wants = host.wants
        /\ main'.pc = "typed" <=> main.pc = "typed"
    BY <1>2 DEF KeysAlone
  <2> QED BY <2>2, <2>4, <2>5 DEF TypingText
<1>3. ~AnswersType
  BY DEF KeysAlone, AnswersType
<1>4. (disturbed = {} /\ dev.active_cmd = "TYPE" => TypingText(dev, main, host))'
  BY <1>2
<1> QED BY <1>1, <1>3, <1>4 DEF KeysInv

(* A step that only calls such functions is one. *)
LEMMA FramedAlone ==
    ASSUME Framed(dev, dev'), main'.pc = "typed" <=> main.pc = "typed",
           host'.typed = host.typed, host'.wants = host.wants, disturbed \subseteq disturbed'
    PROVE  KeysAlone
BY DEF Framed, KeysAlone, KeyboardFields

(* The steps of the main loop, and the polls of the endpoint of commands.       *)
LEMMA MainAlone ==
    ASSUME IsRecord(dev),
           \/ MainFinishes \/ cmd_event_send \/ MainSetsData \/ MainChecks \/ MainTakesEvent
           \/ MainFillsPacket \/ MainTests \/ MainSends \/ MainNextPacket
    PROVE  KeysAlone
<1>1. /\ host' = host /\ disturbed \subseteq disturbed'
      /\ main'.pc # "typed" /\ main.pc # "typed"
  BY DEF MainFinishes, cmd_event_send, MainSetsData, MainChecks, MainTakesEvent,
         MainFillsPacket, MainTests, MainSends, MainNextPacket, MainAt, Goes, Idle
<1>2. Framed(dev, dev)
  BY DEF Framed
<1>3. Framed(dev, dev')
  <2>1. CASE MainFinishes
    <3> DEFINE c == IF dev.active_cmd = "BUTTON_WAIT" THEN finish_command_multi(dev, 0)
                    ELSE read_all_uids_cmd_iter(dev)
    <3>1. PICK n \in 1 .. MaxPackets : dev' = [c EXCEPT !.count = n]
      BY <2>1 DEF MainFinishes
    <3>2. Framed(dev, c)
      <4>1. dev.active_cmd # "TYPE" BY <2>1 DEF MainFinishes
      <4> QED BY <4>1, IterFramed, Zenon
    <3> HIDE DEF c
    <3>3. Framed(c, dev')
      BY <3>1, <3>2 DEF Framed, IsRecord, DevFields, KeyboardFields
    <3> QED BY <3>2, <3>3, FramedTwice
  <2>2. CASE cmd_event_send
    <3>1. PICK n \in Events : dev' = [dev EXCEPT !.event_mask = @ \cup {n}]
      BY <2>2 DEF cmd_event_send
    <3> QED BY <3>1 DEF Framed, IsRecord, DevFields, KeyboardFields
  <2>3. CASE MainSetsData \/ MainNextPacket
    BY <2>3 DEF MainSetsData, MainNextPacket, Framed, IsRecord, DevFields, KeyboardFields
  <2>4. CASE MainChecks \/ MainTests
    BY <1>2, <2>4 DEF MainChecks, MainTests
  <2>5. CASE MainTakesEvent
    BY <1>2, <2>5, SendingFramed DEF MainTakesEvent
  <2>6. CASE MainFillsPacket
    <3>1. dev' = FillPacket(dev) \/ \E n : dev' = AnswerSent(dev, n)
      BY <2>6 DEF MainFillsPacket
    <3> QED BY <3>1, SendingFramed, AnswerFramed
  <2>7. CASE MainSends
    <3>1. dev' \in {Queue(dev, main.buf), USBD_HID_SendReport(dev, main.buf)}
      BY <2>7 DEF MainSends
    <3> QED BY <3>1, SendingFramed
  <2> QED BY <2>1, <2>2, <2>3, <2>4, <2>5, <2>6, <2>7
<1> QED BY <1>1, <1>3, FramedAlone

LEMMA PollAlone ==
    ASSUME IsRecord(dev), IsHost(host), PollCommand
    PROVE  KeysAlone
<1>1. PICK n : dev' = DataIn(dev, n)
  BY DEF PollCommand
<1>2. Framed(dev, dev')
  BY <1>1, DataInFramed
<1>3. host' = host \/ \E p : host' = Receives(host, p)
  BY DEF PollCommand
<1>4. host'.typed = host.typed /\ host'.wants = host.wants
  BY <1>3, ReceivesFramed DEF IsHost
<1>5. main' = main /\ disturbed \subseteq disturbed'
  BY DEF PollCommand, Raced
<1> QED BY <1>2, <1>4, <1>5, FramedAlone

(* Any other command, or the end of a wait: it is not TYPE that is at work.     *)
LEMMA OthersAlone ==
    ASSUME IsRecord(dev), AnsweredAtOnce \/ ButtonWait \/ ReadAllUids \/ cancel_button_press
    PROVE  KeysAlone
<1>1. CASE AnsweredAtOnce
  <2>1. PICK n \in 1 .. MaxPackets : Recv(FinishAndSend(Overwritten, n), {})
    BY <1>1 DEF AnsweredAtOnce
  <2>2. /\ dev' = FinishAndSend(Overwritten, n) /\ dev.active_cmd = "none" /\ main' = main
        /\ disturbed \subseteq disturbed'
    BY <2>1 DEF Recv, Raced
  <2>3. IsRecord(Overwritten) /\ Overwritten.typing = dev.typing
    BY DEF Overwritten, IsRecord, DevFields
  <2>4. dev'.active_cmd = "none" /\ dev'.typing = Overwritten.typing
    BY <2>2, <2>3, FinishFramed DEF KeyboardFields
  <2> QED BY <2>2, <2>3, <2>4 DEF KeysAlone
<1>2. CASE ButtonWait
  <2>1. /\ dev' = [Overwritten EXCEPT !.active_cmd = "BUTTON_WAIT"] /\ dev.active_cmd = "none"
        /\ main' = main /\ disturbed \subseteq disturbed'
    BY <1>2 DEF ButtonWait, Recv, Raced
  <2>2. dev'.active_cmd = "BUTTON_WAIT" /\ dev'.typing = dev.typing
    BY <2>1 DEF Overwritten, IsRecord, DevFields
  <2> QED BY <2>1, <2>2 DEF KeysAlone
<1>3. CASE ReadAllUids
  <2>1. PICK n \in 0 .. MaxEntries :
          /\ dev' = [Overwritten EXCEPT !.active_cmd = "READ_ALL_UIDS", !.left = n]
          /\ dev.active_cmd = "none" /\ main' = main /\ disturbed \subseteq disturbed'
    BY <1>3 DEF ReadAllUids, Recv, Raced
  <2>2. dev'.active_cmd = "READ_ALL_UIDS" /\ dev'.typing = dev.typing
    BY <2>1 DEF Overwritten, IsRecord, DevFields
  <2> QED BY <2>1, <2>2 DEF KeysAlone
<1>4. CASE cancel_button_press
  <2>1. /\ dev' = FinishAndSend(dev, 1) /\ dev.active_cmd = "BUTTON_WAIT" /\ main' = main
        /\ disturbed \subseteq disturbed'
    BY <1>4 DEF cancel_button_press, Raced
  <2>2. dev'.active_cmd = "none" /\ dev'.typing = dev.typing
    BY <2>1, FinishFramed DEF KeyboardFields
  <2> QED BY <2>1, <2>2 DEF KeysAlone
<1> QED BY <1>1, <1>2, <1>3, <1>4

(* DISCONNECT: nothing is answered.                                             *)
LEMMA DisconnectsKeys ==
    ASSUME IsRecord(dev), KeysInv, HostDisconnects
    PROVE  KeysInv' /\ ~AnswersType
<1>1. /\ dev' = [dev EXCEPT !.active_cmd = "none"] /\ main' = main
      /\ disturbed \subseteq disturbed'
  BY DEF HostDisconnects
<1>2. dev'.active_cmd = "none" /\ dev'.typing = dev.typing /\ dev'.ans = dev.ans
  BY <1>1 DEF IsRecord, DevFields
<1> QED BY <1>1, <1>2 DEF KeysInv, AnswersType, Spared

(* usb_keyboard_type: a text begins.                                            *)
LEMMA TypeKeys ==
    ASSUME IsRecord(dev), IsHost(host), KeysInv, Type
    PROVE  KeysInv' /\ ~AnswersType
<1> DEFINE d == [dev EXCEPT !.active_cmd = "TYPE", !.text = TRUE]
<1>1. PICK n \in Texts :
        /\ dev.active_cmd = "none" /\ dev' = usb_keyboard_type(d, n % CharMod)
        /\ main' = main /\ Spared(Fatal)
        /\ host' = [host EXCEPT !.waiting = TRUE, !.ans = NextId(dev.ans),
                                !.wants = n, !.typed = 0]
        /\ dev.typing => "busy" \in disturbed'
        /\ n >= CharMod => "long" \in disturbed'
  BY DEF Type, Running
<1>2. IsRecord(d) /\ d.typing = dev.typing /\ d.active_cmd = "TYPE"
  BY DEF IsRecord, DevFields
<1>3. d.text = TRUE
  BY DEF IsRecord, DevFields
<1> DEFINE typing == Typing(d, n % CharMod)
<1> HIDE DEF d
<1>4. \/ dev.typing /\ dev' = d
      \/ ~dev.typing /\ n % CharMod = 0 /\ dev' = FinishAndSend(d, 1)
      \/ ~dev.typing /\ dev' = typing
  BY <1>1, <1>2 DEF usb_keyboard_type, usb_keyboard_typing_done, Typing
<1>5. main.pc = "typed" => dev.typing = TRUE
  BY <1>1 DEF KeysInv
<1>6. CASE dev.typing /\ dev' = d
  <2>1. dev'.typing = dev.typing /\ disturbed' # {}
    BY <1>1, <1>2, <1>6
  <2> QED BY <1>1, <1>5, <2>1 DEF KeysInv, AnswersType
<1>7. CASE ~dev.typing /\ n % CharMod = 0 /\ dev' = FinishAndSend(d, 1)
  <2>1. dev'.active_cmd = "none"
    BY <1>2, <1>7, FinishFramed
  <2> QED BY <1>1, <1>5, <1>7, <2>1 DEF KeysInv, AnswersType
<1>8. CASE ~dev.typing /\ dev' = typing
  <2>1. main'.pc # "typed"
    BY <1>1, <1>5, <1>8
  <2>2. /\ dev'.n_chars = n % CharMod /\ dev'.key = 0
        /\ dev'.to_type = -1 /\ dev'.char_pos = 1 /\ dev'.text = d.text
    <3> DEFINE k == n % CharMod
    <3>1. dev' = Typing(d, k)
      BY <1>8
    <3> HIDE DEF k
    <3>2. /\ dev'.n_chars = k /\ dev'.key = 0
          /\ dev'.to_type = -1 /\ dev'.char_pos = 1 /\ dev'.text = d.text
      BY <1>2, <3>1, KeyboardTypes
    <3> QED BY <3>2 DEF k
  <2>3. dev'.typing = TRUE
    BY <1>2, <1>8 DEF IsRecord, DevFields, Typing
  <2>4. dev'.text = d.text
    BY <2>2
  <2>5. host'.wants = n /\ host'.typed = 0
    BY <1>1 DEF IsHost, HostFields
  <2>6. ASSUME disturbed' = {}
        PROVE  TypingText(dev', main', host')
    <3>1. ~(n >= CharMod) /\ n \in Nat /\ CharMod \in Nat \ {0}
      BY <1>1, <2>6, UsbHidAssumption
    <3>2. n % CharMod = n
      BY <3>1
    <3> QED BY <1>3, <2>1, <2>2, <2>3, <2>4, <2>5, <3>2 DEF TypingText
  <2> QED BY <1>1, <2>1, <2>6 DEF KeysInv, AnswersType
<1> QED BY <1>4, <1>6, <1>7, <1>8

(* usb_tx_keyboard: TYPE is answered behind its last character.                 *)
LEMMA PollKeyboardKeys ==
    ASSUME IsRecord(dev), IsHost(host), KeysInv, PollKeyboard
    PROVE  KeysInv' /\ (AnswersType /\ disturbed' = {} => host'.typed = host'.wants)
<1> DEFINE d == [dev EXCEPT !.key = -1]
           t == IF dev.text /\ dev.key = host.typed THEN host.typed + 1 ELSE -1
<1>1. /\ dev' = usb_tx_keyboard(d) /\ main' = main /\ dev.key >= 0 /\ Spared(Fatal)
      /\ host' = [host EXCEPT !.typed = t]
      /\ disturbed \subseteq disturbed'
      /\ main.pc = "typed" => "raced" \in disturbed'
  BY DEF PollKeyboard, Raced, Running
<1>2. /\ IsRecord(d) /\ d.key = -1 /\ d.typing = dev.typing /\ d.char_pos = dev.char_pos
      /\ d.n_chars = dev.n_chars /\ d.active_cmd = dev.active_cmd /\ d.text = dev.text
      /\ d.to_type = dev.to_type /\ d.ans = dev.ans
  BY DEF IsRecord, DevFields
<1>3. host'.typed = t /\ host'.wants = host.wants
  BY <1>1 DEF IsHost, HostFields
<1>4. Spared(Fatal)' => main'.pc # "typed"
  BY <1>1 DEF Spared, Fatal
<1>5. ASSUME disturbed' = {}, dev.active_cmd = "TYPE"
      PROVE  /\ dev.typing = TRUE /\ dev.text = TRUE /\ dev.n_chars = host.wants
             /\ dev.char_pos \in Nat \ {0} /\ main.pc # "typed"
             /\ dev.to_type = -1 /\ t = dev.char_pos
  <2>1. TypingText(dev, main, host) /\ main.pc # "typed"
    <3>1. disturbed = {} BY <1>1, <1>5
    <3> QED BY <1>1, <1>5, <3>1 DEF KeysInv
  <2>2. dev.key = dev.char_pos - 1 /\ dev.to_type = -1 /\ host.typed = dev.char_pos - 1
    BY <1>1, <2>1 DEF TypingText
  <2>3. t = dev.char_pos
    BY <2>1, <2>2 DEF TypingText
  <2> QED BY <2>1, <2>2, <2>3 DEF TypingText
<1> HIDE DEF d, t
<1> DEFINE c == [d EXCEPT !.typing = FALSE]
           g == [d EXCEPT !.to_type = d.char_pos]
<1>6. IsRecord(c) /\ c.active_cmd = d.active_cmd
  BY <1>2 DEF IsRecord, DevFields
<1>7. \/ dev' = d /\ ~d.typing
      \/ /\ d.typing /\ d.char_pos = d.n_chars
         /\ dev' = IF d.active_cmd = "TYPE" THEN FinishAndSend(c, 1) ELSE c
      \/ d.typing /\ dev' = g
  BY <1>1, <1>6 DEF usb_tx_keyboard, usb_keyboard_typing_done
<1>8. CASE dev' = d /\ ~d.typing
  <2>1. ~(disturbed' = {} /\ dev'.active_cmd = "TYPE") /\ ~AnswersType
    BY <1>2, <1>5, <1>8 DEF AnswersType
  <2> QED BY <1>4, <2>1 DEF KeysInv
<1>9. CASE /\ d.typing /\ d.char_pos = d.n_chars
           /\ dev' = IF d.active_cmd = "TYPE" THEN FinishAndSend(c, 1) ELSE c
  <2>1. dev'.active_cmd # "TYPE"
    BY <1>6, <1>9, FinishFramed
  <2>2. AnswersType /\ disturbed' = {} => host'.typed = host'.wants
    BY <1>2, <1>3, <1>5, <1>9 DEF AnswersType
  <2> QED BY <1>4, <2>1, <2>2 DEF KeysInv
<1>10. CASE d.typing /\ dev' = g
  <2>1. /\ dev'.key = -1 /\ dev'.typing = dev.typing /\ dev'.char_pos = dev.char_pos
        /\ dev'.n_chars = dev.n_chars /\ dev'.active_cmd = dev.active_cmd
        /\ dev'.text = dev.text /\ dev'.to_type = dev.char_pos
    BY <1>2, <1>10 DEF IsRecord, DevFields
  <2>2. ASSUME disturbed' = {}, dev'.active_cmd = "TYPE"
        PROVE  TypingText(dev', main', host')
    BY <1>1, <1>3, <1>5, <2>1, <2>2 DEF TypingText
  <2>3. ~AnswersType
    BY <2>1 DEF AnswersType
  <2> QED BY <1>4, <2>2, <2>3 DEF KeysInv
<1> QED BY <1>7, <1>8, <1>9, <1>10

(* usb_keyboard_idle gives the next character to the endpoint, and counts it.   *)
LEMMA KeyboardIdleKeys ==
    ASSUME IsRecord(dev), KeysInv, KeyboardIdle \/ KeyboardTyped
    PROVE  KeysInv' /\ ~AnswersType
<1>1. CASE KeyboardIdle
  <2>1. /\ main.pc = "idle" /\ dev.typing /\ dev.to_type >= 0
        /\ dev' = [dev EXCEPT !.key = dev.to_type] /\ main'.pc = "typed"
        /\ host' = host /\ disturbed' = disturbed
    BY <1>1 DEF KeyboardIdle, MainAt, Goes
  <2>2. /\ dev'.key = dev.to_type /\ dev'.typing = dev.typing /\ dev'.char_pos = dev.char_pos
        /\ dev'.n_chars = dev.n_chars /\ dev'.active_cmd = dev.active_cmd
        /\ dev'.text = dev.text /\ dev'.to_type = dev.to_type
    BY <2>1 DEF IsRecord, DevFields
  <2>3. ASSUME disturbed' = {}, dev'.active_cmd = "TYPE"
        PROVE  TypingText(dev', main', host')
    <3>1. TypingText(dev, main, host)
      BY <2>1, <2>2, <2>3 DEF KeysInv
    <3> QED BY <2>1, <2>2, <3>1 DEF TypingText
  <2>4. dev.typing = TRUE
    BY <2>1
  <2> QED BY <2>2, <2>3, <2>4 DEF KeysInv, AnswersType
<1>2. CASE KeyboardTyped
  <2>1. /\ main.pc = "typed" /\ dev' = [dev EXCEPT !.to_type = -1, !.char_pos = @ + 1]
        /\ main'.pc = "idle" /\ host' = host /\ disturbed' = disturbed
    BY <1>2 DEF KeyboardTyped, MainAt, Idle
  <2>2. /\ dev'.key = dev.key /\ dev'.typing = dev.typing /\ dev'.char_pos = dev.char_pos + 1
        /\ dev'.n_chars = dev.n_chars /\ dev'.active_cmd = dev.active_cmd
        /\ dev'.text = dev.text /\ dev'.to_type = -1
    BY <2>1 DEF IsRecord, DevFields
  <2>3. ASSUME disturbed' = {}, dev'.active_cmd = "TYPE"
        PROVE  TypingText(dev', main', host')
    <3>1. TypingText(dev, main, host)
      BY <2>1, <2>2, <2>3 DEF KeysInv
    <3>2. /\ dev.char_pos \in Nat \ {0} /\ dev.key = dev.char_pos /\ host.typed = dev.char_pos
          /\ dev.typing = TRUE /\ dev.text = TRUE /\ dev.n_chars = host.wants
      BY <2>1, <3>1 DEF TypingText
    <3> QED BY <2>1, <2>2, <3>2 DEF TypingText
  <2> QED BY <2>1, <2>2, <2>3 DEF KeysInv, AnswersType
<1> QED BY <1>1, <1>2

(* Nothing is typed at first. *)
LEMMA KeysInitially == HidInit => KeysInv
<1> SUFFICES ASSUME HidInit PROVE KeysInv
  OBVIOUS
<1>1. main.pc # "typed" /\ dev.active_cmd # "TYPE"
  BY DEF HidInit, Idle
<1> QED BY <1>1 DEF KeysInv

(* Every step keeps the text in order, and TYPE is answered when it is typed. *)
LEMMA KeysSteps ==
    ASSUME HidInv, KeysInv, [HidNext]_hidVars
    PROVE  KeysInv' /\ (AnswersType /\ disturbed' = {} => host'.typed = host'.wants)
<1>1. ASSUME HidNext
      PROVE  KeysInv' /\ (AnswersType /\ disturbed' = {} => host'.typed = host'.wants)
  <2>1. IsRecord(dev) /\ IsHost(host)
    <3>1. Spared(Fatal)
      BY <1>1, StepsRunning DEF Running
    <3> QED BY <3>1 DEF HidInv, Sound, IsDev, IsRecord
  <2>2. CASE PollCommand
    BY <2>1, <2>2, PollAlone, AloneKeeps
  <2>3. CASE PollKeyboard
    BY <2>1, <2>3, PollKeyboardKeys
  <2>4. CASE AnsweredAtOnce \/ ButtonWait \/ ReadAllUids \/ cancel_button_press
    BY <2>1, <2>4, OthersAlone, AloneKeeps
  <2>5. CASE Type
    BY <2>1, <2>5, TypeKeys
  <2>6. CASE HostDisconnects
    BY <2>1, <2>6, DisconnectsKeys
  <2>7. CASE KeyboardIdle \/ KeyboardTyped
    BY <2>1, <2>7, KeyboardIdleKeys
  <2>8. CASE \/ MainFinishes \/ cmd_event_send \/ MainSetsData \/ MainChecks \/ MainTakesEvent
             \/ MainFillsPacket \/ MainTests \/ MainSends \/ MainNextPacket
    BY <2>1, <2>8, MainAlone, AloneKeeps
  <2> QED BY <1>1, <2>2, <2>3, <2>4, <2>5, <2>6, <2>7, <2>8 DEF HidNext, Host, MainGoesOn
<1>2. ASSUME UNCHANGED hidVars
      PROVE  KeysInv' /\ ~AnswersType
  <2>1. dev' = dev /\ main' = main /\ host' = host /\ disturbed' = disturbed
    BY <1>2 DEF hidVars
  <2> QED BY <2>1 DEF KeysInv, Spared, TypingText, AnswersType
<1> QED BY <1>1, <1>2

(* For texts of any length and any width of n_chars: when TYPE is answered, the *)
(* host has been typed all of its text and nothing else (usb_tx_keyboard and    *)
(* usb_keyboard_idle count every character once), if nothing has disturbed it.  *)
THEOREM TextIsTyped == HidSpec => TypedTrue
<1>1. HidInv /\ KeysInv /\ [HidNext]_hidVars =>
        [dev.active_cmd = "TYPE" /\ dev'.active_cmd = "none" /\ dev'.ans # dev.ans
           /\ disturbed' = {} => host'.typed = host'.wants]_hidVars
  BY KeysSteps DEF AnswersType
<1>2. HidInv /\ KeysInv /\ [HidNext]_hidVars => (HidInv /\ KeysInv)'
  BY KeysSteps, HidSteps
<1> QED BY <1>1, <1>2, HidInitially, HidSteps, KeysInitially, PTL DEF HidSpec, TypedTrue
==============================================================================
