------------------------------- MODULE RandPool -------------------------------
(* firmware-hc/rand.c: two rings of random words, filled by the interrupts of   *)
(* the random number generator and of the real-time clock, and read by Signet   *)
(* commands and FIDO2 messages. A FIDO2 message that runs out of words is       *)
(* carried through again from its rewind point when more have been gathered.    *)
EXTENDS Integers, Sequences

CONSTANTS Size,       \* the length of a ring, 1024 in the code
          MaxNeed,    \* bound: words a command or a message needs
          Preempt,    \* whether pushes may interrupt rand_get: it also runs in
                      \* the main loop
          BootRewind  \* whether the pools start with the rewind point that main
                      \* leaves when FIDO2 could not be initialized at boot

ASSUME RandPoolAssumption ==
    /\ Size \in Nat \ {0, 1}
    /\ MaxNeed \in Nat \ {0}
    /\ 2 * MaxNeed <= Size
    /\ Preempt \in BOOLEAN /\ BootRewind \in BOOLEAN

Sources == {"RTC", "TRNG"}
Slots == 0 .. Size - 1

VARIABLES
    pool,     \* rtc_rand_state, rng_rand_state
    irq,      \* whether the interrupt of the source is enabled
    client,   \* who has the device
    need,     \* words it needs
    words,    \* words it got so far
    first,    \* words of the earlier attempt of the same FIDO2 message
    at,       \* the source whose `level--' is under way, or "idle"
    loaded    \* the level it has loaded

user == <<client, need, words, first>>
vars == <<pool, irq, user, at, loaded>>

Succ(i) == (i + 1) % Size
Distance(from, to) == (to - from) % Size

(* What a ring really holds. *)
Count(p) == Distance(p.tail, p.head)

rand_avail == IF pool["RTC"].level > pool["TRNG"].level
                THEN pool["TRNG"].level ELSE pool["RTC"].level

(* Slots are exclusive-ored with the word pushed: a push flips the slot.        *)
Init ==
    /\ pool = [s \in Sources |->
                 [buf |-> [i \in Slots |-> 0], head |-> 0, tail |-> 0, level |-> 0,
                  rewind_tail |-> IF BootRewind THEN 0 ELSE -1, rewind_level |-> 0]]
    /\ irq = [s \in Sources |-> TRUE]
    /\ client = "NONE" /\ need = 0 /\ words = <<>> /\ first = <<>>
    /\ at = "idle" /\ loaded = 0

------------------------------------------------------------------------------
(* Operations on one ring. *)

HasRewindPoint(p) == p.rewind_tail >= 0

(* Mutant: the rewind point does not protect the words read since. *)
MutantPushBase(p) == p.tail

PushBase(p) == IF HasRewindPoint(p) THEN p.rewind_tail ELSE p.tail

IsFull(p) == Succ(p.head) = PushBase(p)

Pushed(p) ==
    [p EXCEPT !.buf[p.head] = 1 - @,
              !.level = @ + 1,
              !.head = Succ(@),
              !.rewind_level = IF HasRewindPoint(p) THEN @ + 1 ELSE @]

Rewound(p) ==
    IF HasRewindPoint(p)
      THEN [p EXCEPT !.level = p.rewind_level, !.tail = p.rewind_tail]
      ELSE p

WithRewindPoint(p) == [p EXCEPT !.rewind_tail = p.tail, !.rewind_level = p.level]
Cleared(p) == [p EXCEPT !.rewind_tail = -1]

------------------------------------------------------------------------------
(* rand_push, in the interrupt of source s. *)
rand_push(s) ==
    /\ irq[s]
    /\ Preempt \/ at = "idle"
    /\ IF IsFull(pool[s])
         THEN irq' = [irq EXCEPT ![s] = FALSE] /\ UNCHANGED pool
         ELSE pool' = [pool EXCEPT ![s] = Pushed(@)] /\ UNCHANGED irq
    /\ UNCHANGED <<user, at, loaded>>

(* What rand_src_get returns: 0 if the ring is empty.                           *)
Zero == <<-1, 0>>
Taken(p) == IF p.head = p.tail THEN Zero ELSE <<p.tail, p.buf[p.tail]>>

TailMoved(p) == IF p.head = p.tail THEN p ELSE [p EXCEPT !.tail = Succ(@)]

(* Mutant: a word is taken without counting it. *)
MutantLevelStored(p, word) == p

(* The second half of `level--', unless the ring was empty. *)
LevelStored(p, word) == IF word = Zero THEN p ELSE [p EXCEPT !.level = loaded - 1]

(* crypto_random_func fills up with a constant when the pool is exhausted.      *)
Filler == <<<<-1, 1>>, <<-1, 1>>>>
Complete(w) == Len(w) = need /\ \A k \in 1 .. need : w[k] # Filler

(* rand_get takes a word from the ring of the clock, then one from that of the  *)
(* generator, and enables both interrupts. A Signet command waits for all it    *)
(* needs before it takes the first.                                             *)
TakeRtc ==
    /\ at = "idle" /\ Len(words) < need
    /\ IF client = "SIGNET" THEN words # <<>> \/ rand_avail >= need
                            ELSE rand_avail > 0
    /\ at' = "RTC" /\ loaded' = pool["RTC"].level
    /\ words' = Append(words, <<Taken(pool["RTC"])>>)
    /\ pool' = [pool EXCEPT !["RTC"] = TailMoved(@)]
    /\ UNCHANGED <<irq, client, need, first>>

TakeTrng ==
    /\ at = "RTC"
    /\ at' = "TRNG" /\ loaded' = pool["TRNG"].level
    /\ words' = [words EXCEPT ![Len(words)] = Append(@, Taken(pool["TRNG"]))]
    /\ pool' = [pool EXCEPT !["RTC"] = LevelStored(@, words[Len(words)][1]),
                            !["TRNG"] = TailMoved(@)]
    /\ UNCHANGED <<irq, client, need, first>>

(* Mutant: the interrupts are not enabled again. *)
MutantTakeDone ==
    /\ at = "TRNG"
    /\ at' = "idle" /\ loaded' = 0
    /\ pool' = [pool EXCEPT !["TRNG"] = LevelStored(@, words[Len(words)][2])]
    /\ UNCHANGED <<irq, user>>

TakeDone ==
    /\ at = "TRNG"
    /\ at' = "idle" /\ loaded' = 0
    /\ pool' = [pool EXCEPT !["TRNG"] = LevelStored(@, words[Len(words)][2])]
    /\ irq' = [s \in Sources |-> TRUE]
    /\ UNCHANGED user

TakeFiller ==
    /\ at = "idle" /\ client = "CTAP" /\ Len(words) < need
    /\ rand_avail <= 0
    /\ words' = Append(words, Filler)
    /\ UNCHANGED <<pool, irq, client, need, first, at, loaded>>

(* GET_RAND_BITS, LOGIN, and the start-up of FIDO2. *)
SignetCommand(n) ==
    /\ client = "NONE"
    /\ client' = "SIGNET" /\ need' = n
    /\ UNCHANGED <<pool, irq, words, first, at, loaded>>

(* The command is answered, or a DISCONNECT finds it waiting. *)
SignetDone ==
    /\ client = "SIGNET" /\ at = "idle"
    /\ words = <<>> \/ Len(words) = need
    /\ client' = "NONE" /\ need' = 0 /\ words' = <<>>
    /\ UNCHANGED <<pool, irq, first, at, loaded>>

(* ctaphid_handle_packet drops the rewind point, restart_command sets another.  *)
CtapMessage(n) ==
    /\ client = "NONE"
    /\ client' = "CTAP" /\ need' = n
    /\ pool' = [s \in Sources |-> WithRewindPoint(Cleared(pool[s]))]
    /\ irq' = [s \in Sources |-> TRUE]
    /\ UNCHANGED <<words, first, at, loaded>>

(* restart_command once more: after the (one) button press a message waits for, *)
(* or when ctap_rand_update finds enough words for the whole message.           *)
CtapRestart ==
    /\ client = "CTAP" /\ at = "idle" /\ Len(words) = need
    /\ IF Complete(words) THEN ~Complete(first) ELSE rand_avail >= need
    /\ pool' = [s \in Sources |-> WithRewindPoint(Rewound(pool[s]))]
    /\ first' = words /\ words' = <<>>
    /\ UNCHANGED <<irq, client, need, at, loaded>>

(* The message is answered: the rewind point goes. *)
CtapDone ==
    /\ client = "CTAP" /\ at = "idle" /\ Complete(words)
    /\ client' = "NONE" /\ need' = 0 /\ words' = <<>> /\ first' = <<>>
    /\ pool' = [s \in Sources |-> Cleared(pool[s])]
    /\ irq' = [s \in Sources |-> TRUE]
    /\ UNCHANGED <<at, loaded>>

Next ==
    \/ \E s \in Sources : rand_push(s)
    \/ TakeRtc \/ TakeTrng \/ TakeDone \/ TakeFiller
    \/ \E n \in 1 .. MaxNeed : SignetCommand(n) \/ CtapMessage(n)
    \/ SignetDone \/ CtapRestart \/ CtapDone

(* The sources go on producing words while their interrupts are enabled, and    *)
(* whoever has the device goes on.                                              *)
Fairness ==
    /\ \A s \in Sources : WF_vars(rand_push(s))
    /\ WF_vars(TakeRtc) /\ WF_vars(TakeTrng) /\ WF_vars(TakeDone)
    /\ WF_vars(TakeFiller)
    /\ WF_vars(SignetDone /\ words # <<>>)
    /\ WF_vars(CtapRestart) /\ WF_vars(CtapDone)

Spec == Init /\ [][Next]_vars /\ Fairness

------------------------------------------------------------------------------
(* The types of struct rand_src_state and of the clients.                       *)
Ring ==
    [buf : [Slots -> 0 .. 1], head : Slots, tail : Slots, level : Int,
     rewind_tail : Slots \cup {-1}, rewind_level : Int]

TypeOK ==
    /\ pool \in [Sources -> Ring]
    /\ \A s \in Sources : pool[s].level <= Size
    /\ irq \in [Sources -> BOOLEAN]
    /\ client \in {"NONE", "SIGNET", "CTAP"}
    /\ need \in 0 .. MaxNeed
    /\ Len(words) <= need
    /\ at \in {"idle"} \cup Sources

(* The level a ring has, or is about to have. *)
Level(s) == IF at = s THEN loaded - 1 ELSE pool[s].level

(* Lost updates of `level', which pushes and rand_get change in different       *)
(* contexts, never make a ring look fuller than it is, now or after a rewind.   *)
NeverOverstated ==
    \A s \in Sources :
        /\ Level(s) <= Count(pool[s])
        /\ HasRewindPoint(pool[s]) =>
              pool[s].rewind_level <= Distance(pool[s].rewind_tail, pool[s].head)

(* Nobody who asked rand_avail first is given the 0 of an empty ring.           *)
NoZero ==
    \A k \in DOMAIN words : \A part \in DOMAIN words[k] : words[k][part] # Zero

(* A FIDO2 message carried through again gets the words it got before:          *)
(* rand_push leaves alone what lies behind the rewind point.                    *)
Replayed ==
    \A k \in DOMAIN words \cap DOMAIN first :
        (\A j \in 1 .. k : Filler \notin {words[j], first[j]}) =>
            \A part \in DOMAIN words[k] : words[k][part] = first[k][part]

(* Where rand_get cannot be interrupted, the level is what the ring holds.      *)
LevelIsCount ==
    at = "idle" => \A s \in Sources : pool[s].level = Count(pool[s])

(* There are exactly two ways to starve: an interrupted `level--' has lost the  *)
(* count of a push, for good, or a Signet command comes after main has left the *)
(* rewind point of its own attempt to start FIDO2 behind. Otherwise whoever     *)
(* waits for random words gets them.                                            *)
LevelLost == \E s \in Sources : Level(s) < Count(pool[s])
LeftBehind == client = "SIGNET" /\ \E s \in Sources : HasRewindPoint(pool[s])
Served == client # "NONE" ~> client = "NONE" \/ LevelLost \/ LeftBehind

------------------------------------------------------------------------------
(* The inductive invariant behind the safety properties. *)

(* The rewind point, the tail and the head follow one another round the ring.   *)
InTurn(p) ==
    HasRewindPoint(p) =>
        Distance(p.rewind_tail, p.tail) + Count(p) = Distance(p.rewind_tail, p.head)

(* What the level of s may be at most: one too many while `level--' is under    *)
(* way. Without interruptions it is just that.                                  *)
Ceiling(s) == Count(pool[s]) + (IF at = s THEN 1 ELSE 0)

LevelBounded(s) ==
    LET p == pool[s]  ahead == Distance(p.rewind_tail, p.head)
    IN /\ p.level <= Ceiling(s)
       /\ at = s => loaded <= Ceiling(s)
       /\ HasRewindPoint(p) => p.rewind_level <= ahead
       /\ ~Preempt =>
            /\ p.level = Ceiling(s)
            /\ at = s => loaded = Ceiling(s)
            /\ HasRewindPoint(p) => p.rewind_level = ahead

(* The words a Signet command was promised, and the second half of the word     *)
(* being taken, are still there.                                                *)
Promised ==
    /\ client = "SIGNET" /\ words # <<>> =>
          /\ need - Len(words) <= Count(pool["RTC"])
          /\ need - Len(words) + (IF at = "RTC" THEN 1 ELSE 0) <= Count(pool["TRNG"])
    /\ at = "RTC" => Count(pool["TRNG"]) >= 1

Words == Seq(Seq(Int \X Int))

Clients ==
    /\ words \in Words /\ loaded \in Int
    /\ client = "NONE" => need = 0
    /\ at # "idle" => words # <<>>
    /\ at = "RTC" => Len(words[Len(words)]) = 1
    /\ at = "TRNG" => Len(words[Len(words)]) = 2

IInv ==
    /\ TypeOK
    /\ \A s \in Sources : InTurn(pool[s]) /\ LevelBounded(s)
    /\ Promised
    /\ Clients
    /\ NoZero

------------------------------------------------------------------------------
(* The invariant behind Replayed. *)

(* The source of each part of a word. *)
From(part) == IF part = 1 THEN "RTC" ELSE "TRNG"

(* The word x is still in ring p, n places on from the rewind point. *)
Held(p, x, n) ==
    /\ x[1] \in Slots /\ x = <<x[1], p.buf[x[1]]>>
    /\ Distance(p.rewind_tail, x[1]) = n
    /\ n < Distance(p.rewind_tail, p.head)

(* No filler among the first k words. *)
Plain(w, k) == \A j \in 1 .. k : w[j] # Filler

AllHeld(rings, w) ==
    \A k \in DOMAIN w : Plain(w, k) =>
        \A part \in DOMAIN w[k] : Held(rings[From(part)], w[k][part], k - 1)

(* As many words have been read since the rewind point as the message has. *)
ReadSince(s, n) == Distance(pool[s].rewind_tail, pool[s].tail) = n

(* Words have two parts, except the one being taken. *)
TwoParts ==
    /\ first \in Words
    /\ \A k \in DOMAIN first : Len(first[k]) = 2
    /\ \A k \in DOMAIN words :
          Len(words[k]) = IF at = "RTC" /\ k = Len(words) THEN 1 ELSE 2

ReplayInv ==
    /\ TwoParts
    /\ client # "CTAP" => first = <<>>
    /\ client = "CTAP" =>
          /\ \A s \in Sources : HasRewindPoint(pool[s])
          /\ AllHeld(pool, words) /\ AllHeld(pool, first)
          /\ Plain(words, Len(words)) =>
                /\ ReadSince("RTC", Len(words))
                /\ ReadSince("TRNG", Len(words) - (IF at = "RTC" THEN 1 ELSE 0))
==============================================================================
