------------------------------- MODULE UsbHid -------------------------------
(* The HID interfaces of the device: answers and events cut into packets        *)
(* (usb_raw_hid.c), the keyboard that types for TYPE (usb_keyboard.c), and the  *)
(* endpoints below both (usbd_hid.c), with the host that puts the packets       *)
(* together (signetdev_priv_process_rx_packet). The interrupts of USB call      *)
(* these functions whole; the main loop calls them too, for the button, its     *)
(* timeout and the completions of the eMMC (command_idle), and may be           *)
(* interrupted between its steps. An endpoint is given the address of a packet, *)
(* not its contents.                                                            *)
EXTENDS Integers

CONSTANTS MaxPackets,    \* packets of the longest answer
          MaxEntries,    \* entries READ_ALL_UIDS finds
          Texts,         \* lengths of the texts of TYPE
          CharMod,       \* 2^8: n_chars is a u8
          IdMod,         \* bound: answers are numbered modulo IdMod
          Disturbances   \* which of "restart" and "event" (from the main loop
                         \* while it may be interrupted) may happen

ASSUME UsbHidAssumption ==
    /\ MaxPackets \in Nat \ {0} /\ MaxEntries \in Nat /\ Texts \subseteq Nat
    /\ CharMod \in Nat \ {0} /\ IdMod \in Nat /\ IdMod > 2

VARIABLES dev,           \* the device
          main,          \* where the main loop is in a call of its own
          host,          \* the host
          disturbed      \* history: see the properties

hidVars == <<dev, main, host, disturbed>>

Events == {1, 2}         \* a press of the button, the seconds left of a wait

NextId(id) == (id + 1) % IdMod

NoPacket == [ans |-> -1, seq |-> 0, of |-> 1, more |-> 0]

Idle == [pc |-> "idle", buf |-> "none"]

HidInit ==
    /\ dev = [active_cmd |-> "none",
              left |-> 0,                       \* READ_ALL_UIDS: entries to read
              ans |-> 0, more |-> 0,            \* cmd_resp: its number, its header
              data |-> FALSE, seq |-> 0, count |-> 0,   \* raw_hid_tx_...
              packet |-> NoPacket,              \* raw_hid_tx_cmd_packet
              event_mask |-> {},
              out |-> "none",                   \* the endpoint of commands: the
              seen |-> {},                      \* packet it sends, what that has
              tx_report |-> "none",             \* held since; the one that waits
              typing |-> FALSE, n_chars |-> 0, char_pos |-> 0,
              to_type |-> -1, key |-> -1,       \* the character being sent
              text |-> FALSE,                   \* chars is the text of TYPE
              failed |-> FALSE]
    /\ main = Idle
    /\ host = [waiting |-> FALSE, ans |-> 0, more |-> 0,
               got |-> [s \in 0 .. MaxPackets - 1 |-> -1],
               whole |-> TRUE, wants |-> 0, typed |-> 0]
    /\ disturbed = {}

------------------------------------------------------------------------------
(* Every operator below takes the state of the device and returns the state the *)
(* C function leaves.                                                           *)

USBD_HID_SendReport(d, buf) ==
    IF d.out # "none" THEN [d EXCEPT !.failed = TRUE]
    ELSE [d EXCEPT !.out = buf, !.seen = {IF buf = "packet" THEN d.packet ELSE NoPacket}]

(* Behind a packet that is being sent, one more may wait. *)
Queue(d, buf) ==
    IF d.tx_report # "none" THEN [d EXCEPT !.failed = TRUE] ELSE [d EXCEPT !.tx_report = buf]

(* Mutant: a packet does not wait behind the one under way, but is lost. *)
MutantSendBytes(d, buf) ==
    IF d.out # "none" THEN d ELSE USBD_HID_SendReport(d, buf)

usb_send_bytes(d, buf) ==
    IF d.out # "none" THEN Queue(d, buf) ELSE USBD_HID_SendReport(d, buf)

Lowest(mask) == CHOOSE n \in mask : \A m \in mask : n <= m

TakeEvent(d) == [d EXCEPT !.event_mask = @ \ {Lowest(@)}]

(* The next packet of the answer is made up in the one buffer, whatever the     *)
(* endpoint is doing with it.                                                   *)
FillPacket(d) ==
    LET p == [ans |-> IF d.data THEN d.ans ELSE -1, seq |-> d.seq, of |-> d.count,
              more |-> d.more]
    IN [d EXCEPT !.packet = p, !.seen = IF d.out = "packet" THEN @ \cup {p} ELSE @]

SendPacket(d) == [usb_send_bytes(FillPacket(d), "packet") EXCEPT !.seq = @ + 1]

EventDue(d) == d.event_mask # {} /\ d.out = "none"

(* Events go before packets. *)
maybe_send_raw_hid_packet(d) ==
    IF EventDue(d) THEN usb_send_bytes(TakeEvent(d), "event") ELSE SendPacket(d)

finish_command_multi(d, more) ==
    [d EXCEPT !.active_cmd = IF more = 0 THEN "none" ELSE @, !.ans = NextId(@), !.more = more]

cmd_packet_send(d, packets) ==
    maybe_send_raw_hid_packet([d EXCEPT !.count = packets, !.seq = 0, !.data = TRUE])

FinishAndSend(d, packets) == cmd_packet_send(finish_command_multi(d, 0), packets)

(* One entry more is answered, or none is left. *)
read_all_uids_cmd_iter(d) ==
    IF d.left = 0 THEN finish_command_multi(d, 0)
    ELSE finish_command_multi([d EXCEPT !.left = @ - 1], d.left - 1)

(* READ_ALL_UIDS goes on when its last answer is sent, at once if the block is  *)
(* in the cache; with packets = 0 it is not, and has to be read first.          *)
cmd_packet_sent(d, packets) ==
    IF d.active_cmd = "READ_ALL_UIDS" /\ packets > 0
      THEN cmd_packet_send(read_all_uids_cmd_iter(d), packets) ELSE d

AnswerSent(d, packets) ==
    LET e == [d EXCEPT !.seq = 0, !.count = 0, !.data = FALSE]
    IN IF d.data THEN cmd_packet_sent(e, packets) ELSE e

(* Mutant: the answer counts as sent with its last packet still to go. *)
MutantTx(d, packets) ==
    IF EventDue(d) THEN usb_send_bytes(TakeEvent(d), "event")
    ELSE IF d.seq + 1 < d.count THEN SendPacket(d) ELSE AnswerSent(d, packets)

usb_raw_hid_tx(d, packets) ==
    IF EventDue(d) \/ d.seq # d.count THEN maybe_send_raw_hid_packet(d)
    ELSE AnswerSent(d, packets)

(* USBD_HID_DataIn: the packet that waits is sent, and the next is made up.     *)
DataIn(d, packets) ==
    LET e == [d EXCEPT !.out = "none", !.seen = {}]
    IN usb_raw_hid_tx(
         IF d.tx_report = "none" THEN e
         ELSE [USBD_HID_SendReport(e, d.tx_report) EXCEPT !.tx_report = "none"], packets)

------------------------------------------------------------------------------
(* The keyboard.                                                                *)

usb_keyboard_typing_done(d) == IF d.active_cmd = "TYPE" THEN FinishAndSend(d, 1) ELSE d

usb_keyboard_type(d, n) ==
    IF d.typing THEN d
    ELSE IF n = 0 THEN usb_keyboard_typing_done(d)
    ELSE [d EXCEPT !.n_chars = n, !.typing = TRUE, !.key = 0, !.to_type = -1, !.char_pos = 1]

(* Mutant: the last character is not waited for. *)
MutantKeyboard(d) ==
    IF ~d.typing THEN d
    ELSE IF d.char_pos + 1 >= d.n_chars THEN usb_keyboard_typing_done([d EXCEPT !.typing = FALSE])
    ELSE [d EXCEPT !.to_type = d.char_pos]

usb_tx_keyboard(d) ==
    IF ~d.typing THEN d
    ELSE IF d.char_pos = d.n_chars THEN usb_keyboard_typing_done([d EXCEPT !.typing = FALSE])
    ELSE [d EXCEPT !.to_type = d.char_pos]

------------------------------------------------------------------------------
(* The host.                                                                    *)

Fatal == {"shared", "raced", "restart", "early"}
Spared(events) == disturbed \cap events = {}

(* Bound: what follows a fatal disturbance is not explored, since no property   *)
(* says anything of it.                                                         *)
Running == ~dev.failed /\ Spared(Fatal)

(* It takes packet p. An answer ends with the packet marked as its last.        *)
Receives(h, p) ==
    LET got == [h.got EXCEPT ![p.seq] = p.ans]
        more == IF p.seq = 0 THEN p.more ELSE h.more
    IN IF ~h.waiting THEN h
       ELSE IF p.seq + 1 # p.of THEN [h EXCEPT !.got = got, !.more = more]
       ELSE [h EXCEPT !.got = [s \in DOMAIN got |-> -1], !.more = more,
                      !.whole = \A s \in 0 .. p.seq : got[s] = h.ans,
                      !.waiting = more > 0, !.ans = IF more > 0 THEN NextId(@) ELSE @]

(* What the interrupts must not come between (see the properties). *)
Raced(pcs) == disturbed \cup (IF main.pc \in pcs THEN {"raced"} ELSE {})
Shared(d) == IF \E p, q \in d.seen : p # q THEN {"shared"} ELSE {}

Sending == {"data", "check", "packet", "test", "queue", "send", "next"}

(* The host takes a packet from the endpoint of commands. *)
PollCommand ==
    /\ Running /\ dev.out # "none"
    /\ \E packets \in 0 .. MaxPackets : dev' = DataIn(dev, packets)
    /\ \E p \in dev.seen : host' = IF dev.out = "event" THEN host ELSE Receives(host, p)
    /\ disturbed' = Raced(Sending) \cup Shared(dev')
    /\ UNCHANGED main

(* The host takes a character from the endpoint of the keyboard. *)
PollKeyboard ==
    /\ Running /\ dev.key >= 0
    /\ dev' = usb_tx_keyboard([dev EXCEPT !.key = -1])
    /\ host' = [host EXCEPT !.typed = IF dev.text /\ dev.key = @ THEN @ + 1 ELSE -1]
    /\ disturbed' = Raced({"typed"} \cup IF dev'.ans # dev.ans THEN Sending ELSE {})
                    \cup Shared(dev')
    /\ UNCHANGED main

(* A command of the host arrives: it is answered at once, or waits.             *)
Recv(d, new) ==
    /\ Running /\ ~host.waiting /\ dev.active_cmd = "none"
    /\ dev' = d
    /\ host' = [host EXCEPT !.waiting = TRUE, !.ans = NextId(dev.ans)]
    /\ disturbed' = Raced(IF d.ans # dev.ans THEN Sending ELSE {}) \cup Shared(d) \cup new
    /\ UNCHANGED main

(* cmd_data is a union: a command may overwrite the text being typed.           *)
Overwritten == [dev EXCEPT !.text = FALSE]

AnsweredAtOnce == \E packets \in 1 .. MaxPackets : Recv(FinishAndSend(Overwritten, packets), {})
ButtonWait == Recv([Overwritten EXCEPT !.active_cmd = "BUTTON_WAIT"], {})

(* An answer before it that does not count as sent yet would set it going early. *)
ReadAllUids ==
    \E n \in 0 .. MaxEntries :
        Recv([Overwritten EXCEPT !.active_cmd = "READ_ALL_UIDS", !.left = n],
             IF dev.data THEN {"early"} ELSE {})

Type ==
    \E n \in Texts :
        LET d == [dev EXCEPT !.active_cmd = "TYPE", !.text = TRUE]
        IN /\ Running /\ ~host.waiting /\ dev.active_cmd = "none"
           /\ dev' = usb_keyboard_type(d, n % CharMod)
           /\ host' = [host EXCEPT !.waiting = TRUE, !.ans = NextId(dev.ans),
                                   !.wants = n, !.typed = 0]
           /\ disturbed' = (IF dev.typing THEN {"busy"} ELSE {})
                           \cup (IF n >= CharMod THEN {"long"} ELSE {})
                           \cup (Raced(IF dev'.ans # dev.ans THEN Sending ELSE {}) \ {"busy", "long"})
                           \cup Shared(dev')
           /\ UNCHANGED main

cancel_button_press ==
    /\ Running /\ dev.active_cmd = "BUTTON_WAIT"
    /\ dev' = FinishAndSend(dev, 1)
    /\ disturbed' = Raced(Sending) \cup Shared(dev')
    /\ UNCHANGED <<main, host>>

(* DISCONNECT, and another program begins. *)
HostDisconnects ==
    /\ Running /\ "restart" \in Disturbances
    /\ dev' = [dev EXCEPT !.active_cmd = "none"]
    /\ host' = [host EXCEPT !.waiting = FALSE, !.got = [s \in DOMAIN @ |-> -1]]
    /\ disturbed' = disturbed \cup
         (IF dev.data \/ dev.out = "packet" \/ main.pc # "idle" THEN {"restart"} ELSE {})
    /\ UNCHANGED main

------------------------------------------------------------------------------
(* The main loop.                                                               *)

MainAt(pc) == Running /\ main.pc = pc /\ UNCHANGED <<host, disturbed>>

Goes(pc, buf) == main' = [pc |-> pc, buf |-> buf]

(* The button, its timeout or the eMMC ends a wait. *)
MainFinishes ==
    /\ MainAt("idle") /\ dev.active_cmd \in {"BUTTON_WAIT", "READ_ALL_UIDS"}
    /\ dev.active_cmd = "READ_ALL_UIDS" => ~dev.data
    /\ \E packets \in 1 .. MaxPackets :
          dev' = [(IF dev.active_cmd = "BUTTON_WAIT" THEN finish_command_multi(dev, 0)
                   ELSE read_all_uids_cmd_iter(dev)) EXCEPT !.count = packets]
    /\ Goes("data", "packet")

MainSetsData ==
    /\ MainAt("data")
    /\ dev' = [dev EXCEPT !.seq = 0, !.data = TRUE]
    /\ Goes("check", "packet")

cmd_event_send ==
    /\ MainAt("idle") /\ "event" \in Disturbances
    /\ \E n \in Events : dev' = [dev EXCEPT !.event_mask = @ \cup {n}]
    /\ Goes("check", "event")

(* maybe_send_raw_hid_event, and maybe_send_raw_hid_packet after it. *)
MainChecks ==
    /\ MainAt("check")
    /\ IF EventDue(dev) THEN Goes("event", "event")
       ELSE IF main.buf = "event" THEN main' = Idle ELSE Goes("packet", "packet")
    /\ UNCHANGED dev

MainTakesEvent ==
    /\ MainAt("event")
    /\ dev' = IF dev.event_mask = {} THEN dev ELSE TakeEvent(dev)
    /\ IF dev.event_mask = {} THEN main' = Idle ELSE Goes("test", "event")

MainFillsPacket ==
    /\ Running /\ main.pc = "packet"
    /\ IF dev.seq # dev.count
         THEN dev' = FillPacket(dev) /\ Goes("test", "packet")
         ELSE /\ \E packets \in 0 .. MaxPackets : dev' = AnswerSent(dev, packets)
              /\ main' = Idle
    /\ disturbed' = disturbed \cup Shared(dev')
    /\ UNCHANGED host

MainTests ==
    /\ MainAt("test")
    /\ Goes(IF dev.out # "none" THEN "queue" ELSE "send", main.buf)
    /\ UNCHANGED dev

MainSends ==
    /\ MainAt(main.pc) /\ main.pc \in {"queue", "send"}
    /\ dev' = IF main.pc = "queue" THEN Queue(dev, main.buf)
              ELSE USBD_HID_SendReport(dev, main.buf)
    /\ IF main.buf = "packet" THEN Goes("next", "packet") ELSE main' = Idle

MainNextPacket ==
    /\ MainAt("next")
    /\ dev' = [dev EXCEPT !.seq = @ + 1]
    /\ main' = Idle

(* usb_keyboard_idle: 25 ms after the last character, which the host has taken, *)
(* since only usb_tx_keyboard sets char_pos_to_type.                            *)
KeyboardIdle ==
    /\ MainAt("idle") /\ dev.typing /\ dev.to_type >= 0
    /\ dev' = [dev EXCEPT !.key = dev.to_type]
    /\ Goes("typed", "none")

KeyboardTyped ==
    /\ MainAt("typed")
    /\ dev' = [dev EXCEPT !.to_type = -1, !.char_pos = @ + 1]
    /\ main' = Idle

MainGoesOn ==
    \/ MainSetsData \/ MainChecks \/ MainTakesEvent \/ MainFillsPacket \/ MainTests
    \/ MainSends \/ MainNextPacket \/ KeyboardTyped
Host == AnsweredAtOnce \/ ButtonWait \/ ReadAllUids \/ Type \/ cancel_button_press \/ HostDisconnects

HidNext == PollCommand \/ PollKeyboard \/ Host \/ MainFinishes \/ cmd_event_send
        \/ KeyboardIdle \/ MainGoesOn

(* The host polls, waits for the button end, and the main loop goes round.      *)
HidFairness ==
    /\ WF_hidVars(PollCommand) /\ WF_hidVars(PollKeyboard) /\ WF_hidVars(MainFinishes)
    /\ WF_hidVars(KeyboardIdle) /\ WF_hidVars(MainGoesOn)

HidSpec == HidInit /\ [][HidNext]_hidVars /\ HidFairness

------------------------------------------------------------------------------
(* Properties.                                                                  *)

(* An answer the host has put together is the one it waits for, whole, and no   *)
(* assertion of usbd_hid.c has failed: maybe_send_raw_hid_packet, DataIn and    *)
(* the host's packets fit together. Excepted by name: a packet overwritten in   *)
(* the endpoint ("shared"), an interrupt inside a call of the main loop         *)
(* ("raced"), a new program while an answer is in flight ("restart"), and       *)
(* READ_ALL_UIDS while the answer before it is ("early").                       *)
AnswersWhole == Spared(Fatal) => host.whole /\ ~dev.failed

(* When TYPE is answered, all of its text has been typed, and nothing else,     *)
(* unless usb_keyboard_type was still typing or took its length modulo 2^8.     *)
TypedTrue ==
    [][dev.active_cmd = "TYPE" /\ dev'.active_cmd = "none" /\ dev'.ans # dev.ans /\ disturbed' = {}
         => host'.typed = host'.wants]_hidVars

(* Every command is answered, if events do not come faster for ever than the    *)
(* host takes them: each goes before what is left of an answer.                 *)
Answered ==
    <>[][~cmd_event_send]_hidVars
      => (host.waiting ~> ~host.waiting \/ ~Spared(Fatal))

=============================================================================
