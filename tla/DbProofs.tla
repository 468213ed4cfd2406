------------------------------- MODULE DbProofs -------------------------------
(* Proofs about Db, for any number of blocks, ids and contents, as long as a    *)
(* host program does not start anew while an operation is under way. First the  *)
(* operations and the cache (Inv): the database never has two operations of the *)
(* eMMC, and its cache is the disk. Then the disk, the tables and the answers   *)
(* (DataInv, inductive beside Inv): the tables say what a scan would say, no id *)
(* is in two blocks, answers are true and complete, and the database implements *)
(* EntryStore. Both hold until the completion of FIDO2's root page is taken for *)
(* that of an update or of STARTUP (misled).                                    *)
EXTENDS Db, FiniteSetTheorems, TLAPS

(* The forms of the cache and of the operations. No operation waits.            *)
CacheForm(k) ==
    \E b, x : \E u \in BOOLEAN : k = [idx |-> b, updating |-> u, data |-> x]

Op(op) == op = NoOp \/ \E b, x : op = Read(b, x) \/ op = Write(b, x)

IoRecord(op, f) == [now |-> op, next |-> NoOp, flash |-> f, failed |-> FALSE]

IoForm(i) ==
    \E op, f : Op(op) /\ i = IoRecord(op, f)

Forms ==
    /\ disk = [b \in Blocks |-> disk[b]]
    /\ CacheForm(cache)
    /\ IoForm(io)

(* An operation under way has a command that waits for it, not for the button;  *)
(* only a DISCONNECT leaves one without.                                        *)
UnderWay(i) == i.now # NoOp \/ i.flash # NoOp
Attended ==
    UnderWay(io) =>
        /\ waiting = "NONE"
        /\ reply.code = "WAITING" \/ g_device_state = "DISCONNECTED"

(* A device that is not started has no command that could start an operation.   *)
NothingBeforeStartup ==
    g_device_state = "DISCONNECTED" => active_cmd \in {"NONE", "STARTUP"}

(* The cache waits for the block that is being read into it, and does not hold  *)
(* the one that is being written.                                               *)
Follows(k, i) ==
    /\ k.updating => i.now = Read(k.idx, "CACHE")
    /\ i.now.act = "READ" /\ i.now.dest = "CACHE" => k.updating
    /\ i.now.act = "WRITE" => k.idx \notin Blocks \/ k.idx # i.now.idx

(* CacheCoherent of a cache and a disk. *)
Coherent(k, d) == k.idx \in Blocks /\ ~k.updating => k.data = d[k.idx]

OneOperation(i) == i.now = NoOp \/ i.flash = NoOp

Inv ==
    /\ Forms /\ OneOperation(io)
    /\ Attended /\ NothingBeforeStartup
    /\ Follows(cache, io) /\ Coherent(cache, disk)

LEMMA OpsDiffer ==
    ASSUME NEW b, NEW x
    PROVE  /\ Read(b, x).act = "READ" /\ Read(b, x).idx = b /\ Read(b, x).dest = x
           /\ Write(b, x).act = "WRITE" /\ Write(b, x).idx = b
           /\ NoOp.act = "NONE"
           /\ Read(b, x) # NoOp /\ Write(b, x) # NoOp
           /\ Op(Read(b, x)) /\ Op(Write(b, x)) /\ Op(NoOp)
  <1>1. /\ Read(b, x).act = "READ" /\ Read(b, x).idx = b /\ Read(b, x).dest = x
        /\ Write(b, x).act = "WRITE" /\ Write(b, x).idx = b /\ Write(b, x).data = x
        /\ NoOp.act = "NONE"
    BY DEF Read, Write, NoOp
  <1> QED BY <1>1 DEF Op

LEMMA IoRecordForm ==
    ASSUME NEW op, Op(op), NEW f
    PROVE  /\ IoForm(IoRecord(op, f))
           /\ IoRecord(op, f).now = op /\ IoRecord(op, f).flash = f
  <1> QED BY DEF IoForm, IoRecord

LEMMA IoUpdated ==
    ASSUME NEW i, IoForm(i), NEW op, Op(op), NEW j, j = [i EXCEPT !.now = op]
    PROVE  IoForm(j) /\ j.now = op /\ j.flash = i.flash
  <1>1. PICK n, h : Op(n) /\ i = IoRecord(n, h)
    BY DEF IoForm
  <1>2. i = [now |-> n, next |-> NoOp, flash |-> h, failed |-> FALSE]
    BY <1>1 DEF IoRecord
  <1>3. j = [now |-> op, next |-> NoOp, flash |-> h, failed |-> FALSE]
    BY <1>2
  <1>4. j = IoRecord(op, h) BY <1>3 DEF IoRecord
  <1> QED BY <1>1, <1>4, IoRecordForm

LEMMA FlashUpdated ==
    ASSUME NEW i, IoForm(i), NEW f, NEW j, j = [i EXCEPT !.flash = f]
    PROVE  IoForm(j) /\ j.now = i.now /\ j.flash = f
  <1>1. PICK n, h : Op(n) /\ i = IoRecord(n, h)
    BY DEF IoForm
  <1>2. i = [now |-> n, next |-> NoOp, flash |-> h, failed |-> FALSE]
    BY <1>1 DEF IoRecord
  <1>3. j = [now |-> n, next |-> NoOp, flash |-> f, failed |-> FALSE]
    BY <1>2
  <1>4. j = IoRecord(n, f) BY <1>3 DEF IoRecord
  <1> QED BY <1>1, <1>4, IoRecordForm

LEMMA CacheForgotten ==
    ASSUME NEW k, CacheForm(k), NEW b, NEW j, j = [k EXCEPT !.idx = b]
    PROVE  CacheForm(j) /\ j.idx = b /\ j.updating = k.updating
  <1>1. PICK n, x : \E u \in BOOLEAN : k = [idx |-> n, updating |-> u, data |-> x]
    BY DEF CacheForm
  <1>2. PICK u \in BOOLEAN : k = [idx |-> n, updating |-> u, data |-> x]
    BY <1>1
  <1>3. j = [idx |-> b, updating |-> u, data |-> x] BY <1>2
  <1>4. j.idx = b /\ j.updating = u BY <1>3
  <1>5. k.updating = u BY <1>2
  <1>6. CacheForm(j) BY <1>3 DEF CacheForm
  <1> QED BY <1>4, <1>5, <1>6

LEMMA CacheLoading ==
    ASSUME NEW k, CacheForm(k), NEW b, NEW j, j = [k EXCEPT !.idx = b, !.updating = TRUE]
    PROVE  CacheForm(j) /\ j.idx = b /\ j.updating = TRUE
  <1>1. PICK n, x : \E u \in BOOLEAN : k = [idx |-> n, updating |-> u, data |-> x]
    BY DEF CacheForm
  <1>2. PICK u \in BOOLEAN : k = [idx |-> n, updating |-> u, data |-> x]
    BY <1>1
  <1>3. j = [idx |-> b, updating |-> TRUE, data |-> x] BY <1>2
  <1>4. j.idx = b /\ j.updating = TRUE BY <1>3
  <1>5. CacheForm(j) BY <1>3 DEF CacheForm
  <1> QED BY <1>4, <1>5

LEMMA FollowsIdle ==
    ASSUME NEW k, NEW i, ~k.updating, i.now = NoOp PROVE Follows(k, i)
  <1>1. i.now.act = "NONE" BY DEF NoOp
  <1> QED BY <1>1 DEF Follows

LEMMA FollowsCacheRead ==
    ASSUME NEW k, NEW i, k.updating, i.now = Read(k.idx, "CACHE") PROVE Follows(k, i)
  <1>1. i.now.act = "READ" BY DEF Read
  <1> QED BY <1>1 DEF Follows

LEMMA FollowsScan ==
    ASSUME NEW k, NEW i, ~k.updating, NEW b, i.now = Read(b, "SCAN") PROVE Follows(k, i)
  <1>1. i.now.act = "READ" /\ i.now.dest = "SCAN" BY DEF Read
  <1> QED BY <1>1 DEF Follows

LEMMA FollowsWrite ==
    ASSUME NEW k, NEW i, ~k.updating, NEW b, NEW x, i.now = Write(b, x),
           k.idx \notin Blocks \/ k.idx # b
    PROVE  Follows(k, i)
  <1>1. i.now.act = "WRITE" /\ i.now.idx = b BY DEF Write
  <1> QED BY <1>1 DEF Follows

------------------------------------------------------------------------------
(* What a handler does when it finds no operation under way.                    *)

(* The cache and the operations a handler may find. *)
Settled(k, i, d) ==
    /\ CacheForm(k) /\ ~k.updating
    /\ IoForm(i) /\ ~UnderWay(i)
    /\ Coherent(k, d)

(* A handler changes nothing, or starts one operation and leaves its command    *)
(* waiting for it: a block is read for the cache or for the scan, or one is     *)
(* written that is no longer cached.                                            *)
Starts(k, i) ==
    \/ \E b : /\ cache' = [k EXCEPT !.idx = b, !.updating = TRUE]
              /\ io' = Queued(i, Read(b, "CACHE"))
    \/ \E b : cache' = k /\ io' = Queued(i, Read(b, "SCAN"))
    \/ \E b, x : cache' = Invalidated(k, b) /\ io' = Queued(i, Write(b, x))
    \/ \E b, op : cache' = Invalidated(k, b) /\ io' = [i EXCEPT !.flash = op]

Outcome(k, i) ==
    \/ cache' = k /\ io' = i
    \/ waiting' = "NONE" /\ reply'.code = "WAITING" /\ Starts(k, i)

LEMMA OutcomeKeeps ==
    ASSUME NEW k, NEW i, NEW d, Settled(k, i, d), Outcome(k, i)
    PROVE  /\ CacheForm(cache') /\ IoForm(io')
           /\ Follows(cache', io') /\ Coherent(cache', d)
           /\ OneOperation(io')
           /\ UnderWay(io') => waiting' = "NONE" /\ reply'.code = "WAITING"
  <1>1. CASE cache' = k /\ io' = i
    BY <1>1, FollowsIdle DEF Settled, UnderWay, OneOperation
  <1>2. CASE waiting' = "NONE" /\ reply'.code = "WAITING" /\ Starts(k, i)
    <2>1. ASSUME NEW b, cache' = [k EXCEPT !.idx = b, !.updating = TRUE],
                 io' = Queued(i, Read(b, "CACHE"))
          PROVE  /\ CacheForm(cache') /\ IoForm(io')
                 /\ Follows(cache', io') /\ Coherent(cache', d)
                 /\ OneOperation(io')
      <3>1. io' = [i EXCEPT !.now = Read(b, "CACHE")]
        BY <2>1 DEF Settled, UnderWay, Queued
      <3>2. IoForm(io') /\ io'.now = Read(b, "CACHE") /\ io'.flash = NoOp
        BY <3>1, OpsDiffer, IoUpdated DEF Settled, UnderWay
      <3>3. CacheForm(cache') /\ cache'.idx = b /\ cache'.updating = TRUE
        <4>1. CacheForm(k) BY DEF Settled
        <4>2. LET l == [k EXCEPT !.idx = b, !.updating = TRUE]
              IN  CacheForm(l) /\ l.idx = b /\ l.updating = TRUE
          BY <4>1, CacheLoading
        <4> QED BY <2>1, <4>2
      <3> QED BY <3>2, <3>3, FollowsCacheRead DEF Coherent, OneOperation
    <2>2. ASSUME NEW b, cache' = k, io' = Queued(i, Read(b, "SCAN"))
          PROVE  /\ CacheForm(cache') /\ IoForm(io')
                 /\ Follows(cache', io') /\ Coherent(cache', d)
                 /\ OneOperation(io')
      <3>1. io' = [i EXCEPT !.now = Read(b, "SCAN")]
        BY <2>2 DEF Settled, UnderWay, Queued
      <3>2. IoForm(io') /\ io'.now = Read(b, "SCAN") /\ io'.flash = NoOp
        BY <3>1, OpsDiffer, IoUpdated DEF Settled, UnderWay
      <3> QED BY <2>2, <3>2, FollowsScan DEF Settled, OneOperation
    <2>3. ASSUME NEW b, cache' = Invalidated(k, b)
          PROVE  /\ CacheForm(cache') /\ ~cache'.updating /\ Coherent(cache', d)
                 /\ cache'.idx \notin Blocks \/ cache'.idx # b
      <3>1. CASE k.idx = b
        <4>1. cache' = [k EXCEPT !.idx = -1] BY <2>3, <3>1 DEF Invalidated
        <4>2. CacheForm(cache') /\ ~cache'.updating /\ cache'.idx = -1
          BY <4>1, CacheForgotten DEF Settled
        <4> QED BY <4>2 DEF Coherent, Blocks
      <3>2. CASE k.idx # b
        BY <2>3, <3>2 DEF Invalidated, Settled
      <3> QED BY <3>1, <3>2
    <2>4. ASSUME NEW b, NEW x, cache' = Invalidated(k, b),
                 io' = Queued(i, Write(b, x))
          PROVE  /\ CacheForm(cache') /\ IoForm(io')
                 /\ Follows(cache', io') /\ Coherent(cache', d)
                 /\ OneOperation(io')
      <3>1. io' = [i EXCEPT !.now = Write(b, x)]
        BY <2>4 DEF Settled, UnderWay, Queued
      <3>2. IoForm(io') /\ io'.now = Write(b, x) /\ io'.flash = NoOp
        BY <3>1, OpsDiffer, IoUpdated DEF Settled, UnderWay
      <3> QED BY <2>3, <2>4, <3>2, FollowsWrite DEF OneOperation
    <2>5. ASSUME NEW b, NEW op, cache' = Invalidated(k, b),
                 io' = [i EXCEPT !.flash = op]
          PROVE  /\ CacheForm(cache') /\ IoForm(io')
                 /\ Follows(cache', io') /\ Coherent(cache', d)
                 /\ OneOperation(io')
      <3>1. IoForm(io') /\ io'.now = NoOp
        BY <2>5, FlashUpdated DEF Settled, UnderWay
      <3> QED BY <2>3, <2>5, <3>1, FollowsIdle DEF OneOperation
    <2> QED BY <1>2, <2>1, <2>2, <2>4, <2>5 DEF Starts
  <1> QED BY <1>1, <1>2 DEF Outcome

------------------------------------------------------------------------------
(* The handlers, from the ways out of them to the commands.                     *)

LEMMA WaysOut ==
    ASSUME NEW name, NEW c, NEW k, NEW i
    PROVE  /\ \A rest, answer :
                 finish_command_multi(name, rest, answer, c, k, i) => Outcome(k, i)
           /\ \A press : Return(name, press, c, k, i) => Outcome(k, i)
           /\ \A b : Load(name, b, c, k, i) => Outcome(k, i)
           /\ update_uid_cmd_complete(name, c, k, i) => Outcome(k, i)
  <1>1. Pending(name).code = "WAITING" BY DEF Pending
  <1>2. \A rest, answer :
           finish_command_multi(name, rest, answer, c, k, i) => Outcome(k, i)
    BY DEF finish_command_multi, Outcome
  <1>3. \A press : Return(name, press, c, k, i) => Outcome(k, i)
    BY DEF Return, Outcome
  <1>4. ASSUME NEW b, Load(name, b, c, k, i) PROVE Outcome(k, i)
    <2>1. /\ waiting' = "NONE" /\ reply'.code = "WAITING"
          /\ cache' = [k EXCEPT !.idx = b, !.updating = TRUE]
          /\ io' = Queued(i, Read(b, "CACHE"))
      BY <1>1, <1>4 DEF Load, Return
    <2> QED BY <2>1 DEF Outcome, Starts
  <1>5. ASSUME update_uid_cmd_complete(name, c, k, i) PROVE Outcome(k, i)
    <2> DEFINE op == Write(c.block_num, c.block)
    <2>1. /\ waiting' = "NONE" /\ reply'.code = "WAITING"
          /\ cache' = Invalidated(k, c.block_num)
          /\ io' = Queued(i, op) \/ io' = [i EXCEPT !.flash = op]
      BY <1>1, <1>5 DEF update_uid_cmd_complete, Return
    <2>2. CASE io' = Queued(i, op) BY <2>1, <2>2 DEF Outcome, Starts
    <2>3. CASE io' = [i EXCEPT !.flash = op] BY <2>1, <2>3 DEF Outcome, Starts
    <2> QED BY <2>1, <2>2, <2>3
  <1> QED BY <1>2, <1>3, <1>4, <1>5

LEMMA PreparedOutcome ==
    ASSUME NEW name, NEW c, NEW b, NEW block, NEW blk_info, NEW k, NEW i,
           Prepared(name, c, b, block, blk_info, k, i)
    PROVE  Outcome(k, i)
  <1> DEFINE d == [c EXCEPT !.block_num = b, !.block = block, !.blk_info = blk_info]
  <1> HIDE DEF d
  <1>1. \/ update_uid_cmd_complete(name, d, k, i)
        \/ Return(name, "SHORT", d, k, i)
        \/ Return(name, "LONG", d, k, i)
    BY DEF Prepared, d
  <1> QED BY <1>1, WaysOut

LEMMA UpdateOutcome ==
    ASSUME NEW name, NEW c, NEW k, NEW i, update_uid_cmd_iter(name, c, k, i)
    PROVE  Outcome(k, i)
  <1>1. ASSUME allocate_uid(name, c, k, i) PROVE Outcome(k, i)
    BY <1>1, WaysOut, PreparedOutcome DEF allocate_uid
  <1> QED BY <1>1, WaysOut, PreparedOutcome DEF update_uid_cmd_iter

LEMMA ReadCompleteOutcome ==
    ASSUME NEW c, NEW k, NEW i, read_uid_cmd_complete(c, k, i) PROVE Outcome(k, i)
  <1> QED BY WaysOut DEF read_uid_cmd_complete

LEMMA ReadOutcome ==
    ASSUME NEW c, NEW k, NEW i, read_uid_cmd_iter(c, k, i) PROVE Outcome(k, i)
  <1> QED BY WaysOut, ReadCompleteOutcome DEF read_uid_cmd_iter

LEMMA ReadAllOutcome ==
    ASSUME NEW c, NEW k, NEW i, read_all_uids_cmd_iter(c, k, i) PROVE Outcome(k, i)
  <1> QED BY WaysOut DEF read_all_uids_cmd_iter

LEMMA ScanOutcome ==
    ASSUME NEW k, NEW i, NEW b, Return("STARTUP", "NONE", NoCmd, k, ScanRead(i, b))
    PROVE  Outcome(k, i)
  <1>1. Pending("STARTUP").code = "WAITING" BY DEF Pending
  <1> QED BY <1>1 DEF Return, ScanRead, Outcome, Starts

------------------------------------------------------------------------------
(* The steps.                                                                   *)

LEMMA QuietIsSettled ==
    ASSUME Inv, ~UnderWay(io) PROVE Settled(cache, io, disk)
  <1>1. io.now = NoOp BY DEF UnderWay
  <1>2. ~cache.updating BY <1>1, OpsDiffer DEF Inv, Follows
  <1> QED BY <1>2 DEF Inv, Forms, Settled

LEMMA Kept ==
    ASSUME NEW k, NEW i, Settled(k, i, disk'), Outcome(k, i),
           disk' = [b \in Blocks |-> disk'[b]], NothingBeforeStartup'
    PROVE  Inv'
  <1>1. /\ CacheForm(cache') /\ IoForm(io')
        /\ Follows(cache', io') /\ Coherent(cache', disk')
        /\ OneOperation(io')
        /\ UnderWay(io') => waiting' = "NONE" /\ reply'.code = "WAITING"
    BY OutcomeKeeps
  <1>2. Attended' BY <1>1 DEF Attended, UnderWay
  <1>3. Forms' BY <1>1 DEF Forms, CacheForm, IoForm
  <1> QED BY <1>1, <1>2, <1>3 DEF Inv, Follows, Coherent, OneOperation

LEMMA InitInv == Init => Inv
  <1> SUFFICES ASSUME Init PROVE Inv OBVIOUS
  <1>1. CacheForm(cache) /\ cache.idx = -1 /\ ~cache.updating
    BY DEF Init, NoCache, CacheForm
  <1>2. io = IoRecord(NoOp, NoOp) BY DEF Init, IdleIo, IoRecord
  <1>3. IoForm(io) /\ io.now = NoOp /\ io.flash = NoOp BY <1>2, IoRecordForm, OpsDiffer
  <1>4. disk = [b \in Blocks |-> disk[b]] BY DEF Init
  <1>5. Follows(cache, io) BY <1>1, <1>3, FollowsIdle
  <1>6. Coherent(cache, disk) BY <1>1 DEF Coherent, Blocks
  <1> QED BY <1>3, <1>1, <1>4, <1>5, <1>6
      DEF Init, Inv, Forms, OneOperation, Attended, UnderWay, NothingBeforeStartup

LEMMA LoginStep ==
    ASSUME Inv, LOGIN PROVE Inv'
  <1>1. Settled(cache, io, disk) /\ g_device_state # "DISCONNECTED"
    BY QuietIsSettled DEF Inv, Attended, Receive, Unanswered, LOGIN
  <1>2. Outcome(cache, io)
    BY WaysOut DEF LOGIN
  <1>3. g_device_state' # "DISCONNECTED" /\ UNCHANGED disk
    BY <1>1 DEF Receive, stored, LOGIN
  <1> QED BY <1>1, <1>2, <1>3, Kept DEF Inv, Forms, NothingBeforeStartup

LEMMA LogoutStep ==
    ASSUME Inv, LOGOUT PROVE Inv'
  <1>1. Settled(cache, io, disk) /\ g_device_state # "DISCONNECTED"
    BY QuietIsSettled DEF Inv, Attended, Receive, Unanswered, LOGOUT
  <1>2. Outcome(cache, io)
    BY WaysOut DEF LOGOUT
  <1>3. g_device_state' # "DISCONNECTED" /\ UNCHANGED disk
    BY <1>1 DEF Receive, stored, LOGOUT
  <1> QED BY <1>1, <1>2, <1>3, Kept DEF Inv, Forms, NothingBeforeStartup

LEMMA UpdateUidStep ==
    ASSUME Inv, NEW u, NEW d, UPDATE_UID(u, d)
    PROVE  Inv'
  <1>1. Settled(cache, io, disk) /\ g_device_state # "DISCONNECTED"
    BY QuietIsSettled DEF Inv, Attended, Receive, Unanswered, UPDATE_UID
  <1>2. Outcome(cache, io)
    BY UpdateOutcome DEF UPDATE_UID
  <1>3. g_device_state' # "DISCONNECTED" /\ UNCHANGED disk
    BY <1>1 DEF Receive, stored, UPDATE_UID
  <1> QED BY <1>1, <1>2, <1>3, Kept DEF Inv, Forms, NothingBeforeStartup

LEMMA UpdateUidsStep ==
    ASSUME Inv, NEW u, NEW d, NEW remaining, UPDATE_UIDS(u, d, remaining)
    PROVE  Inv'
  <1>1. Settled(cache, io, disk) /\ g_device_state # "DISCONNECTED"
    BY QuietIsSettled DEF Inv, Attended, Receive, Unanswered, UPDATE_UIDS
  <1>2. Outcome(cache, io)
    BY UpdateOutcome DEF UPDATE_UIDS
  <1>3. g_device_state' # "DISCONNECTED" /\ UNCHANGED disk
    BY <1>1 DEF Receive, stored, UPDATE_UIDS
  <1> QED BY <1>1, <1>2, <1>3, Kept DEF Inv, Forms, NothingBeforeStartup

LEMMA ReadUidStep ==
    ASSUME Inv, NEW u, NEW masked, READ_UID(u, masked)
    PROVE  Inv'
  <1>1. Settled(cache, io, disk) /\ g_device_state # "DISCONNECTED"
    BY QuietIsSettled DEF Inv, Attended, Receive, Unanswered, READ_UID
  <1>2. Outcome(cache, io)
    BY ReadOutcome DEF READ_UID
  <1>3. g_device_state' # "DISCONNECTED" /\ UNCHANGED disk
    BY <1>1 DEF Receive, stored, READ_UID
  <1> QED BY <1>1, <1>2, <1>3, Kept DEF Inv, Forms, NothingBeforeStartup

LEMMA ReadAllUidsStep ==
    ASSUME Inv, NEW masked, READ_ALL_UIDS(masked)
    PROVE  Inv'
  <1>1. Settled(cache, io, disk) /\ g_device_state # "DISCONNECTED"
    BY QuietIsSettled DEF Inv, Attended, Receive, Unanswered, READ_ALL_UIDS
  <1>2. Outcome(cache, io)
    BY ReadAllOutcome, WaysOut DEF READ_ALL_UIDS
  <1>3. g_device_state' # "DISCONNECTED" /\ UNCHANGED disk
    BY <1>1 DEF Receive, stored, READ_ALL_UIDS
  <1> QED BY <1>1, <1>2, <1>3, Kept DEF Inv, Forms, NothingBeforeStartup

LEMMA StartupStep ==
    ASSUME "overlap" \notin Events, Inv, STARTUP PROVE Inv'
  <1>1. io = IdleIo BY DEF STARTUP
  <1>2. io.now.act = "NONE" /\ ~UnderWay(io) BY <1>1 DEF IdleIo, NoOp, UnderWay
  <1>3. Settled(cache, io, disk) BY <1>2, QuietIsSettled
  <1>4. UNCHANGED disk BY DEF STARTUP, stored
  <1>5. CASE root = "overwritten"
    <2>1. finish_command_multi("STARTUP", FALSE, Said("STARTUP", "UNKNOWN_DB_FORMAT"),
                               NoCmd, cache, io)
      BY <1>5 DEF STARTUP
    <2>2. Outcome(cache, io) BY <2>1, WaysOut
    <2>3. active_cmd' = "NONE" BY <2>1 DEF finish_command_multi
    <2> QED BY <1>3, <1>4, <2>2, <2>3, Kept DEF Inv, Forms, NothingBeforeStartup
  <1>6. CASE root # "overwritten"
    <2>1. ScanStart(io) BY <1>2, <1>6 DEF STARTUP
    <2>2. Outcome(cache, io) BY <2>1, ScanOutcome DEF ScanStart
    <2>3. active_cmd' = "STARTUP" BY <2>1 DEF ScanStart, Return
    <2> QED BY <1>3, <1>4, <2>2, <2>3, Kept DEF Inv, Forms, NothingBeforeStartup
  <1> QED BY <1>5, <1>6

(* The completion of an operation leaves none.                                  *)
LEMMA DoneIsQuiet ==
    ASSUME Inv, io.now # NoOp
    PROVE  IoForm(Done(io)) /\ ~UnderWay(Done(io))
  <1>1. PICK n, h : Op(n) /\ io = IoRecord(n, h)
    BY DEF Inv, Forms, IoForm
  <1>2. io = [now |-> n, next |-> NoOp, flash |-> h, failed |-> FALSE]
    BY <1>1 DEF IoRecord
  <1>3. Done(io) = [now |-> NoOp, next |-> NoOp, flash |-> h, failed |-> FALSE]
    <2>1. io.next = NoOp BY <1>2
    <2>2. Done(io) = [io EXCEPT !.now = NoOp, !.next = NoOp] BY <2>1 DEF Done
    <2> QED BY <1>2, <2>2
  <1>4. Done(io) = IoRecord(NoOp, h) BY <1>3 DEF IoRecord
  <1>5. h = NoOp BY <1>2 DEF Inv, OneOperation
  <1>6. Op(NoOp) BY DEF Op
  <1> QED BY <1>4, <1>5, <1>6, IoRecordForm DEF UnderWay

(* The cache that a completed read leaves to the handler.                       *)
Filled == [cache EXCEPT !.updating = FALSE,
                        !.data = IF io.now.dest = "CACHE"
                                   THEN disk[io.now.idx] ELSE @]

LEMMA FilledSettles ==
    ASSUME Inv, Reading PROVE Settled(Filled, Done(io), disk)
  <1> DEFINE i == Done(io)  k == Filled
  <1>1. io.now.act = "READ" /\ io.now # NoOp BY OpsDiffer DEF Reading
  <1>2. IoForm(i) /\ ~UnderWay(i) BY <1>1, DoneIsQuiet
  <1>3. CacheForm(k) /\ ~k.updating /\ k.idx = cache.idx
        /\ k.data = IF io.now.dest = "CACHE" THEN disk[io.now.idx] ELSE cache.data
    <2>1. PICK n, x : \E u \in BOOLEAN : cache = [idx |-> n, updating |-> u, data |-> x]
      BY DEF Inv, Forms, CacheForm
    <2>2. PICK u \in BOOLEAN : cache = [idx |-> n, updating |-> u, data |-> x]
      BY <2>1
    <2> DEFINE y == IF io.now.dest = "CACHE" THEN disk[io.now.idx] ELSE x
    <2>3. cache.idx = n /\ cache.data = x
      BY <2>2
    <2>4. k = [cache EXCEPT !.updating = FALSE, !.data = y]
      BY <2>3 DEF Filled
    <2> HIDE DEF k, y
    <2>5. k = [idx |-> n, updating |-> FALSE, data |-> y]
      BY <2>2, <2>4
    <2>6. k.idx = n /\ k.updating = FALSE /\ k.data = y BY <2>5
    <2>7. CacheForm(k) BY <2>5 DEF CacheForm
    <2> QED BY <2>3, <2>6, <2>7 DEF y
  <1> HIDE DEF k
  <1>4. Coherent(k, disk)
    <2>1. CASE io.now.dest = "CACHE"
      <3>1. io.now = Read(cache.idx, "CACHE") BY <1>1, <2>1 DEF Inv, Follows
      <3>2. io.now.idx = cache.idx BY <3>1, OpsDiffer
      <3> QED BY <1>3, <2>1, <3>2 DEF Coherent
    <2>2. CASE io.now.dest # "CACHE"
      <3>1. ~cache.updating BY <2>2, OpsDiffer DEF Inv, Follows
      <3> QED BY <1>3, <2>2, <3>1 DEF Inv, Coherent
    <2> QED BY <2>1, <2>2
  <1> QED BY <1>2, <1>3, <1>4 DEF Settled, k

LEMMA ReadBlockComplete ==
    ASSUME Inv, read_block_complete PROVE Inv'
  <1> DEFINE i == Done(io)  k == Filled
  <1>5. Settled(k, i, disk') /\ UNCHANGED disk
    BY FilledSettles DEF read_block_complete, stored
  <1>6. Outcome(k, i)
    <2>1. CASE cache.updating /\ UNCHANGED g_device_state
               /\ (\/ active_cmd \in Updates /\ update_uid_cmd_iter(active_cmd, cmd, k, i)
                   \/ read_uid_cmd_iter(cmd, k, i)
                   \/ read_all_uids_cmd_iter(cmd, k, i))
      BY <2>1, UpdateOutcome, ReadOutcome, ReadAllOutcome
    <2>2. ASSUME NEW block, db3_startup_scan_resume(block, k, i) PROVE Outcome(k, i)
      BY <2>2, WaysOut, ScanOutcome DEF db3_startup_scan_resume
    <2>3. CASE cache' = k /\ io' = i BY <2>3 DEF Outcome
    <2> QED BY <2>1, <2>2, <2>3 DEF read_block_complete, Filled
  <1>7. NothingBeforeStartup'
    <2>1. CASE active_cmd \in Updates \cup {"READ_UID", "READ_ALL_UIDS"}
      BY <2>1 DEF Inv, NothingBeforeStartup, Updates, read_block_complete
    <2>2. ASSUME NEW block, db3_startup_scan_resume(block, k, i)
          PROVE  NothingBeforeStartup'
      BY <2>2 DEF db3_startup_scan_resume, NothingBeforeStartup, Return,
                  finish_command_multi
    <2>3. CASE UNCHANGED <<active_cmd, g_device_state>>
      BY <2>3 DEF Inv, NothingBeforeStartup
    <2> QED BY <2>1, <2>2, <2>3 DEF read_block_complete, Filled
  <1> QED BY <1>5, <1>6, <1>7, Kept DEF Inv, Forms

(* The input and output a completed write leaves to the handler.                *)
Left(w) == IF w = "now" THEN Done(io) ELSE [io EXCEPT !.flash = NoOp]

LEMMA WriteBlockComplete ==
    ASSUME Inv, write_block_complete PROVE Inv'
  <1>1. PICK w \in Writing :
          /\ IF w = "now"
               THEN disk' = [disk EXCEPT ![io[w].idx] = io[w].data]
               ELSE UNCHANGED disk
          /\ active_cmd \in Updates => update_uid_cmd_write_finished(Left(w))
          /\ active_cmd = "STARTUP" => ScanStart(Left(w))
          /\ active_cmd \notin Updates /\ active_cmd # "STARTUP"
                => io' = Left(w) /\ UNCHANGED <<active_cmd, cache>>
    BY DEF write_block_complete, WriteFinished, Left, Updates
  <1>2. w \in {"now", "flash"} /\ io[w].act = "WRITE" BY DEF Writing
  <1>3. Settled(cache, Left(w), disk') /\ disk' = [b \in Blocks |-> disk'[b]]
    <2>1. CASE w = "now"
      <3>1. io.now.act = "WRITE" /\ io.now # NoOp BY <1>2, <2>1, OpsDiffer
      <3>2. ~cache.updating BY <3>1, OpsDiffer DEF Inv, Follows
      <3>3. cache.idx \in Blocks => cache.idx # io.now.idx BY <3>1 DEF Inv, Follows
      <3>4. disk' = [disk EXCEPT ![io.now.idx] = io.now.data] BY <1>1, <2>1
      <3>5. /\ disk' = [b \in Blocks |-> disk'[b]]
            /\ \A b \in Blocks : b # io.now.idx => disk'[b] = disk[b]
        BY <3>4 DEF Inv, Forms
      <3> QED BY <2>1, <3>1, <3>2, <3>3, <3>5, DoneIsQuiet DEF Settled, Coherent, Inv, Forms, Left
    <2>2. CASE w # "now"
      <3>1. io.flash.act = "WRITE" /\ io.flash # NoOp BY <1>2, <2>2, OpsDiffer
      <3>2. io.now = NoOp BY <3>1 DEF Inv, OneOperation
      <3>3. IoForm(Left(w)) /\ ~UnderWay(Left(w))
        BY <2>2, <3>2, FlashUpdated DEF Inv, Forms, UnderWay, Left
      <3>4. ~cache.updating BY <3>2, OpsDiffer DEF Inv, Follows
      <3>5. UNCHANGED disk BY <1>1, <2>2
      <3> QED BY <3>3, <3>4, <3>5 DEF Inv, Forms, Settled
    <2> QED BY <2>1, <2>2
  <1>4. UNCHANGED g_device_state BY DEF write_block_complete
  <1>5. Outcome(cache, Left(w)) /\ NothingBeforeStartup'
    <2>1. CASE active_cmd \in Updates
      <3>1. update_uid_cmd_write_finished(Left(w)) BY <1>1, <2>1
      <3>2. g_device_state # "DISCONNECTED"
        BY <2>1 DEF Inv, NothingBeforeStartup, Updates
      <3> QED BY <1>4, <3>1, <3>2, WaysOut
          DEF update_uid_cmd_write_finished, NothingBeforeStartup
    <2>2. CASE active_cmd = "STARTUP"
      <3>1. ScanStart(Left(w)) BY <1>1, <2>2
      <3>2. Outcome(cache, Left(w)) BY <3>1, ScanOutcome DEF ScanStart
      <3>3. active_cmd' = "STARTUP" BY <3>1 DEF ScanStart, Return
      <3> QED BY <3>2, <3>3 DEF NothingBeforeStartup
    <2>3. CASE active_cmd \notin Updates /\ active_cmd # "STARTUP"
      <3>1. io' = Left(w) /\ UNCHANGED <<active_cmd, cache>> BY <1>1, <2>3
      <3> QED BY <1>4, <3>1 DEF Outcome, Inv, NothingBeforeStartup
    <2> QED BY <2>1, <2>2, <2>3
  <1> QED BY <1>3, <1>5, Kept

LEMMA CmdPacketSent ==
    ASSUME Inv, cmd_packet_sent PROVE Inv'
  <1>1. Settled(cache, io, disk) /\ g_device_state # "DISCONNECTED"
    BY QuietIsSettled DEF Inv, Attended, NothingBeforeStartup, cmd_packet_sent
  <1>2. Outcome(cache, io) BY ReadAllOutcome DEF cmd_packet_sent
  <1>3. UNCHANGED <<g_device_state, disk>> BY DEF cmd_packet_sent, stored
  <1> QED BY <1>1, <1>2, <1>3, Kept DEF Inv, Forms, NothingBeforeStartup

LEMMA ButtonPress ==
    ASSUME Inv, button_press PROVE Inv'
  <1>1. Settled(cache, io, disk)
    BY QuietIsSettled DEF Inv, Attended, button_press
  <1>2. g_device_state # "DISCONNECTED"
    BY DEF Inv, NothingBeforeStartup, button_press
  <1>3. Outcome(cache, io) BY WaysOut, ReadCompleteOutcome DEF button_press
  <1>4. g_device_state' # "DISCONNECTED" /\ UNCHANGED disk
    BY <1>2 DEF button_press, stored
  <1> QED BY <1>1, <1>3, <1>4, Kept DEF Inv, Forms, NothingBeforeStartup

LEMMA LongButtonPress ==
    ASSUME Inv, long_button_press PROVE Inv'
  <1>1. Settled(cache, io, disk)
    BY QuietIsSettled DEF Inv, Attended, long_button_press
  <1>2. g_device_state # "DISCONNECTED"
    BY DEF Inv, NothingBeforeStartup, long_button_press
  <1>3. Outcome(cache, io) BY WaysOut, ReadAllOutcome DEF long_button_press
  <1>4. UNCHANGED <<g_device_state, disk>> BY DEF long_button_press, stored
  <1> QED BY <1>1, <1>2, <1>3, <1>4, Kept DEF Inv, Forms, NothingBeforeStartup

(* blink_timeout and CANCEL_BUTTON_PRESS answer the command that waits. *)
LEMMA EndButtonWait ==
    ASSUME Inv, blink_timeout \/ CANCEL_BUTTON_PRESS PROVE Inv'
  <1>1. Settled(cache, io, disk)
    BY QuietIsSettled DEF Inv, Attended, blink_timeout, CANCEL_BUTTON_PRESS
  <1>2. PICK answer : finish_command_multi(active_cmd, more, answer, cmd, cache, io)
    BY DEF blink_timeout, CANCEL_BUTTON_PRESS
  <1>3. Outcome(cache, io) BY <1>2, WaysOut
  <1>4. active_cmd' \in {active_cmd, "NONE"} BY <1>2 DEF finish_command_multi
  <1>5. UNCHANGED <<g_device_state, disk>>
    BY DEF blink_timeout, CANCEL_BUTTON_PRESS, stored
  <1> QED BY <1>1, <1>3, <1>4, <1>5, Kept DEF Inv, Forms, NothingBeforeStartup

LEMMA Disconnect ==
    ASSUME Inv, DISCONNECT PROVE Inv'
  <1>1. /\ UNCHANGED <<disk, cache, io>>
        /\ waiting' = "NONE" /\ active_cmd' = "NONE"
        /\ g_device_state' = "DISCONNECTED"
    BY DEF DISCONNECT, stored
  <1> QED BY <1>1 DEF Inv, Forms, CacheForm, IoForm, OneOperation, Attended,
                      UnderWay, NothingBeforeStartup, Follows, Coherent

LEMMA RestartStep ==
    ASSUME Inv, Restart PROVE Inv'
  <1>1. disk' = [b \in Blocks |-> disk'[b]]
    <2>1. ASSUME NEW n, NEW x, disk' = [disk EXCEPT ![n] = x]
          PROVE  disk' = [b \in Blocks |-> disk'[b]]
      BY <2>1 DEF Inv, Forms
    <2> QED BY <2>1 DEF Restart, Inv, Forms
  <1>2. Settled(NoCache, IdleIo, disk')
    <2>1. CacheForm(NoCache) /\ NoCache.idx = -1 /\ ~NoCache.updating
      BY DEF NoCache, CacheForm
    <2>2. IdleIo = IoRecord(NoOp, NoOp) BY DEF IdleIo, IoRecord
    <2> QED BY <2>1, <2>2, IoRecordForm, OpsDiffer DEF Settled, UnderWay, Coherent, Blocks
  <1>3. cache' = NoCache /\ io' = IdleIo /\ active_cmd' = "NONE" BY DEF Restart
  <1>4. Outcome(NoCache, IdleIo) BY <1>3 DEF Outcome
  <1> QED BY <1>1, <1>2, <1>3, <1>4, Kept DEF NothingBeforeStartup

LEMMA Stuttering ==
    ASSUME Inv, UNCHANGED db PROVE Inv'
  <1>1. UNCHANGED <<disk, cache, io, waiting, reply, active_cmd, g_device_state>>
    BY DEF db, stored
  <1> QED BY <1>1 DEF Inv, Forms, CacheForm, IoForm, OneOperation, Attended,
                      UnderWay, NothingBeforeStartup, Follows, Coherent

LEMMA CommandStep ==
    ASSUME "overlap" \notin Events, Inv, Command PROVE Inv'
  <1> QED BY StartupStep, LoginStep, LogoutStep, UpdateUidStep, UpdateUidsStep,
             ReadUidStep, ReadAllUidsStep
      DEF Command

(* A packet that waits finds no operation under way: the last command has been  *)
(* answered and, after a DISCONNECT, only STARTUP is allowed.                   *)
LEMMA WaitingPacket ==
    ASSUME Inv, cmd_packet_waits PROVE ~UnderWay(io)
  <1>1. CASE g_device_state = "DISCONNECTED"
    <2>1. Commands = {"STARTUP"} BY <1>1 DEF Commands
    <2>2. io = IdleIo BY <2>1 DEF cmd_packet_waits
    <2> QED BY <2>2 DEF IdleIo, UnderWay
  <1>2. CASE g_device_state # "DISCONNECTED"
    BY <1>2 DEF Inv, Attended, cmd_packet_waits, Unanswered
  <1> QED BY <1>1, <1>2

LEMMA PacketWaits ==
    ASSUME Inv, cmd_packet_waits PROVE Inv'
  <1>1. ~UnderWay(io) BY WaitingPacket
  <1>2. UNCHANGED <<disk, cache, io, g_device_state>> BY DEF cmd_packet_waits, stored
  <1>3. g_device_state = "DISCONNECTED" => active_cmd' \in {"NONE", "STARTUP"}
    BY DEF cmd_packet_waits, Commands
  <1> QED BY <1>1, <1>2, <1>3 DEF Inv, Forms, CacheForm, IoForm, OneOperation,
             Attended, UnderWay, NothingBeforeStartup, Follows, Coherent

LEMMA ToldIs ==
    ASSUME NEW name, NEW code, NEW u, NEW d, NEW n
    PROVE  /\ Told(name, code, u, d, n).to = name /\ Told(name, code, u, d, n).code = code
           /\ Told(name, code, u, d, n).uid = u /\ Told(name, code, u, d, n).data = d
           /\ Told(name, code, u, d, n).remaining = n
           /\ Said(name, code).to = name /\ Said(name, code).code = code
           /\ Said(name, code).uid = 0 /\ Said(name, code).remaining = 0
  BY DEF Told, Said

(* FIDO2 and mass storage touch nothing of the database, but a release of the   *)
(* device restarts the packet that waits.                                       *)
Besides ==
    FidoTakes \/ FidoWrites \/ FidoEnds \/ RootWritten \/ StorageTakes \/ StorageEnds

LEMMA BesidesDo ==
    ASSUME Besides PROVE (Command \/ UNCHANGED db) /\ UNCHANGED misled
  <1> QED BY DEF Besides, FidoTakes, FidoWrites, FidoEnds, RootWritten, StorageTakes,
                 StorageEnds, Restarted

(* The end of FIDO2's completion misleads the database or leaves it alone.      *)
LEMMA FinishedOf ==
    ASSUME RootFinished
    PROVE  /\ UNCHANGED <<disk, root, cache>>
           /\ misled' => active_cmd \in Updates \cup {"STARTUP"}
           /\ ~misled' => UNCHANGED db
           /\ UNCHANGED reply \/ reply'.to \in Updates \/ reply'.code = "WAITING"
           /\ \/ UNCHANGED io
              \/ io' = Queued(io, Read(1, "SCAN"))
  <1>1. CASE reply.code = "HELD"
    BY <1>1 DEF RootFinished, db, stored
  <1>2. CASE reply.code # "HELD"
    <2>1. WriteFinished(io) /\ UNCHANGED <<stored, g_device_state, command>>
      BY <1>2 DEF RootFinished
    <2>2. UNCHANGED cache
      BY <2>1 DEF WriteFinished, update_uid_cmd_write_finished, finish_command_multi,
                  ScanStart, Return
    <2>3. ~misled' => active_cmd \notin Updates /\ active_cmd # "STARTUP"
      BY DEF RootFinished
    <2>4. ~misled' => UNCHANGED <<io, tables, active_cmd, waiting, cmd, cache, reply>>
      BY <2>1, <2>3 DEF WriteFinished
    <2>5. ASSUME active_cmd \in Updates PROVE io' = io /\ reply'.to \in Updates
      <3>1. update_uid_cmd_write_finished(io)
        BY <2>1, <2>5 DEF WriteFinished, Updates
      <3>2. io' = io /\ reply' = Told(active_cmd, "OKAY", cmd.uid, cmd.entry, 0)
        BY <3>1 DEF update_uid_cmd_write_finished, finish_command_multi
      <3> QED BY <2>5, <3>2, ToldIs
    <2>6. ASSUME active_cmd = "STARTUP"
          PROVE  reply'.code = "WAITING" /\ io' = Queued(io, Read(1, "SCAN"))
      <3>1. ScanStart(io) BY <2>1, <2>6 DEF WriteFinished, Updates
      <3>2. reply' = Pending("STARTUP") /\ io' = Queued(io, Read(1, "SCAN"))
        BY <3>1 DEF ScanStart, Return, ScanRead
      <3> QED BY <3>2 DEF Pending
    <2>7. ASSUME active_cmd \notin Updates, active_cmd # "STARTUP"
          PROVE  UNCHANGED <<io, reply>>
      BY <2>1, <2>7 DEF WriteFinished
    <2> QED BY <2>1, <2>2, <2>4, <2>5, <2>6, <2>7 DEF db, stored, RootFinished
  <1> QED BY <1>1, <1>2 DEF db

(* The steps, but for the end of FIDO2's completion. *)
LEMMA Steps ==
    ASSUME [Next]_vars
    PROVE  \/ misled /\ UNCHANGED vars
           \/ ~misled /\ RootFinished
           \/ /\ ~misled /\ UNCHANGED misled
              /\ \/ Command \/ cmd_packet_waits \/ DISCONNECT \/ CANCEL_BUTTON_PRESS
                 \/ read_block_complete \/ write_block_complete \/ cmd_packet_sent
                 \/ button_press \/ long_button_press \/ blink_timeout
                 \/ Restart \/ UNCHANGED db
  <1>1. CASE UNCHANGED vars BY <1>1 DEF vars, beside
  <1>2. CASE RootFinished BY <1>2 DEF RootFinished
  <1>3. CASE cmd_packet_recv BY <1>3 DEF cmd_packet_recv, Goes, beside
  <1>4. CASE Besides
    <2>1. ~misled
      BY <1>4 DEF Besides, FidoTakes, FidoWrites, FidoEnds, RootWritten, StorageTakes,
                  StorageEnds, Goes
    <2> QED BY <1>4, <2>1, BesidesDo
  <1>5. CASE \/ cmd_packet_waits \/ DISCONNECT \/ CANCEL_BUTTON_PRESS
             \/ cmd_packet_sent \/ button_press \/ long_button_press \/ blink_timeout
    <2>1. ~misled
      BY <1>5 DEF cmd_packet_waits, DISCONNECT, CANCEL_BUTTON_PRESS, cmd_packet_sent,
                  button_press, long_button_press, blink_timeout, Goes
    <2>2. UNCHANGED misled
      BY <1>5 DEF cmd_packet_waits, DISCONNECT, CANCEL_BUTTON_PRESS, cmd_packet_sent,
                  button_press, long_button_press, blink_timeout, beside
    <2> QED BY <1>5, <2>1, <2>2
  <1>6. CASE read_block_complete \/ write_block_complete \/ Restart
    BY <1>6 DEF read_block_complete, write_block_complete, Restart, Goes
  <1> QED BY <1>1, <1>2, <1>3, <1>4, <1>5, <1>6 DEF Next, Besides

------------------------------------------------------------------------------
LEMMA InvStep ==
    ASSUME "overlap" \notin Events, Inv, ~misled, [Next]_vars, ~RootFinished PROVE Inv'
  <1> QED BY Steps, CommandStep, PacketWaits, ReadBlockComplete, WriteBlockComplete,
             CmdPacketSent, ButtonPress, LongButtonPress, EndButtonWait, Disconnect,
             RestartStep, Stuttering

(* Without the start of another host program in the middle of an operation      *)
(* ("overlap"), the invariant holds of every behaviour, even with a full disk,  *)
(* until the database is misled.                                                *)
THEOREM Inductive ==
    ASSUME "overlap" \notin Events PROVE Spec => [](misled \/ Inv)
  <1>1. (misled \/ Inv) /\ [Next]_vars => misled' \/ Inv'
    <2> SUFFICES ASSUME misled \/ Inv, [Next]_vars PROVE misled' \/ Inv' OBVIOUS
    <2>1. CASE misled BY <2>1, Steps DEF vars, beside
    <2>2. CASE Inv /\ ~misled /\ ~RootFinished BY <2>2, InvStep
    <2>3. CASE Inv /\ RootFinished BY <2>3, FinishedOf, Stuttering
    <2> QED BY <2>1, <2>2, <2>3
  <1> QED BY InitInv, <1>1, PTL DEF Spec

(* The assertion of emmc_user_queue, that no operation of the user waits, holds *)
(* of the database, because no handler starts an operation while another is     *)
(* under way or waits for mass storage, up to the moment FIDO2's completion is  *)
(* taken for an update's or STARTUP's (then STARTUP does start a second).       *)
THEOREM NeverQueuedTwice ==
    ASSUME "overlap" \notin Events PROVE Spec => []NoAssertion
  <1>1. misled \/ Inv => NoAssertion
    <2> SUFFICES ASSUME Inv PROVE NoAssertion BY DEF NoAssertion
    <2>1. PICK n, h : io = IoRecord(n, h) BY DEF Inv, Forms, IoForm
    <2> QED BY <2>1 DEF NoAssertion, IoRecord
  <1> QED BY Inductive, <1>1, PTL

(* The cached block is the block on disk, across waits for the button, aborted  *)
(* updates and DISCONNECT (get_cached_data_block, invalidate_data_block_cache), *)
(* up to the completion that misleads an update.                                *)
THEOREM CacheIsDisk ==
    ASSUME "overlap" \notin Events PROVE Spec => []CacheCoherent
  <1>1. misled \/ Inv => CacheCoherent BY DEF Inv, Coherent, CacheCoherent
  <1> QED BY Inductive, <1>1, PTL

------------------------------------------------------------------------------
(* The disk, the tables and the answers.                                        *)

(* No id is in two blocks.                                                      *)
Single(d) ==
    /\ d \in [Blocks -> AnyBlock]
    /\ \A u \in Uids : \A b1, b2 \in Holders(d, u) : b1 = b2

(* The tables say what there is in the first n blocks. *)
Matches(d, n) ==
    /\ \A b \in Blocks : b <= n => info[b] = ScanInfo(d[b])
    /\ \A u \in Uids :
          \/ uid_map[u] = INVALID_BLOCK /\ \A b \in Holders(d, u) : b > n
          \/ uid_map[u] \in Holders(d, u) /\ uid_map[u] <= n

BlockInfos == [valid : BOOLEAN, occupied : BOOLEAN, part_occupancy : 0 .. 1]
UpdateCmds ==
    [uid : Uids, entry : Data \cup {NoData}, press_type : 0 .. 2,
     block_num : Blocks \cup {INVALID_BLOCK}, block : AnyBlock,
     blk_info : BlockInfos]
ReadCmds == [uid : Uids, masked : BOOLEAN, block_num : Blocks \cup {INVALID_BLOCK}]
ReadAllCmds == [uid : 0 .. MaxUid, remaining : Nat]

(* A block that can take the entry of id u, or has it. *)
Takes(block, u) ==
    block \in {EmptyBlock, FreeBlock} \cup {Holding(u, d) : d \in Data}

(* The update c has been prepared: its block is the one place where its id is   *)
(* or may go, and the rest of it says what will be true when it is written.     *)
Ready(c) ==
    /\ Holders(disk, c.uid) \subseteq {c.block_num}
    /\ \/ c.block_num = INVALID_BLOCK /\ "full" \in Events
       \/ /\ c.block_num \in Blocks /\ Takes(disk[c.block_num], c.uid)
          /\ c.block = IF c.entry = NoData THEN FreeBlock
                                           ELSE Holding(c.uid, c.entry)
          /\ c.blk_info = ScanInfo(c.block)

MappedFrom(n) == {u \in Uids : u >= n /\ uid_map[u] # INVALID_BLOCK}

(* What the command name, waiting for w, has in c. *)
Carries(name, w, c) ==
    /\ name \in Updates =>
          /\ c \in UpdateCmds /\ Fits(c.uid, c.entry)
          /\ w # "NONE" => Ready(c)
    /\ name = "READ_UID" =>
          /\ c \in ReadCmds
          /\ w # "NONE" => c.block_num = uid_map[c.uid] /\ c.block_num \in Blocks
    /\ name = "READ_ALL_UIDS" =>
          /\ c \in ReadAllCmds
          /\ c.remaining = Cardinality(MappedFrom(c.uid))
          /\ c.uid = 0 \/ c.remaining # 0

(* READ_ALL_UIDS with an answer being sent goes on after the id it has sent. *)
Sending ==
    active_cmd = "READ_ALL_UIDS" /\ ~Unanswered =>
        /\ cmd \in ReadAllCmds
        /\ cmd.remaining = Cardinality(MappedFrom(cmd.uid + 1))
        /\ cmd.remaining # 0

(* A write carries out the prepared update, even if nobody waits for it. *)
Writes(i, c) ==
    /\ i.now.act = "WRITE" =>
          i.now = Write(c.block_num, c.block) /\ c.block_num \in Blocks
    /\ i.flash # NoOp =>
          i.flash = Write(c.block_num, c.block) /\ c.block_num = INVALID_BLOCK
    /\ i.now.act = "WRITE" \/ i.flash # NoOp => c \in UpdateCmds /\ Ready(c)

(* The progress of the startup scan. *)
Scanning ==
    active_cmd = "STARTUP" /\ reply.code # "HELD" =>
        /\ scan_num \in Blocks /\ io.now = Read(scan_num, "SCAN")
        /\ Matches(disk, scan_num - 1)
        /\ reply.code = "WAITING"

Idle == {"NONE", "STARTUP"}

(* AnswersAreTrue, as long as the database is not misled. *)
KnownTrue ==
    reply.code \in {"OKAY", "ID_INVALID"} /\ reply.uid # 0 =>
        Contents(disk)[reply.uid] = reply.data

DataInv ==
    /\ Single(disk)
    /\ info = [b \in Blocks |-> info[b]] /\ uid_map = [u \in Uids |-> uid_map[u]]
    /\ waiting # "NONE" => reply.code = "WAITING" /\ active_cmd \notin Idle
    /\ active_cmd \notin Idle => g_device_state \in {"LOGGED_OUT", "LOGGED_IN"}
    /\ active_cmd = "READ_ALL_UIDS" /\ reply.code # "HELD" => ~more
    /\ Open => Matches(disk, MaxDataBlock)
    /\ Scanning
    /\ reply.code = "WAITING" => Carries(active_cmd, waiting, cmd)
    /\ Sending
    /\ Writes(io, cmd)
    /\ Writing # {} => active_cmd \in Updates \/ g_device_state = "DISCONNECTED"
    /\ UnderWay(io) => reply.code \in {"WAITING", "NONE"}
    /\ "full" \notin Events => KnownTrue
    /\ RemainingExact

------------------------------------------------------------------------------
(* Blocks.                                                                      *)

LEMMA BlockNumbers ==
    \A b \in Blocks : /\ b \in Nat /\ b >= 1 /\ b <= MaxDataBlock
                      /\ b # INVALID_BLOCK /\ ~(b > MaxDataBlock)
  BY DbAssumption DEF Blocks, INVALID_BLOCK

(* A set of natural numbers has a least element: the sets 1 .. n are well     *)
(* founded by strict inclusion.                                               *)
LEMMA LeastOf ==
    ASSUME NEW S \in SUBSET Nat, S # {}
    PROVE  \E b \in S : \A c \in S : b <= c
  <1> DEFINE Below == {1 .. n : n \in S}  F == FiniteSubsetsOf(Nat)
  <1>1. IsWellFoundedOn(StrictSubsetOrdering(Nat), F)
    BY FS_StrictSubsetOrderingWellFounded
  <1>2. Below \subseteq F /\ Below # {}
    <2>1. ASSUME NEW n \in S PROVE 1 .. n \in F
      <3>1. IsFiniteSet(1 .. n) BY FS_Interval
      <3>2. 1 .. n \in SUBSET Nat OBVIOUS
      <3> QED BY <3>1, <3>2 DEF FiniteSubsetsOf
    <2> QED BY <2>1
  <1>3. \E x \in Below : \A y \in Below : ~(<<y, x>> \in StrictSubsetOrdering(Nat))
    BY <1>1, <1>2, WFMin
  <1>4. PICK b \in S : \A y \in Below : ~(<<y, 1 .. b>> \in StrictSubsetOrdering(Nat))
    BY <1>3
  <1>5. ASSUME NEW c \in S PROVE b <= c
    <2>1. ~(<<1 .. c, 1 .. b>> \in StrictSubsetOrdering(Nat)) BY <1>4
    <2>2. 1 .. c \in SUBSET Nat /\ 1 .. b \in SUBSET Nat OBVIOUS
    <2>3. ~(1 .. c \subseteq 1 .. b /\ 1 .. c # 1 .. b)
      BY <2>1, <2>2 DEF StrictSubsetOrdering
    <2>4. CASE c < b
      <3>1. 1 .. c \subseteq 1 .. b BY <2>4
      <3>2. b \in 1 .. b /\ b \notin 1 .. c BY <2>4
      <3> QED BY <2>3, <3>1, <3>2
    <2> QED BY <2>4
  <1> QED BY <1>5

LEMMA LeastBlock ==
    ASSUME NEW S \in SUBSET Blocks, S # {}
    PROVE  Least(S) \in S
  <1>1. S \in SUBSET Nat BY BlockNumbers
  <1>2. \E b \in S : \A b2 \in S : b <= b2 BY <1>1, LeastOf
  <1> QED BY <1>2 DEF Least

LEMMA Kinds ==
    ASSUME NEW x \in AnyBlock
    PROVE  \/ x = EmptyBlock \/ x = FreeBlock \/ x = TornBlock
           \/ \E u \in Uids, d \in Data : x = Holding(u, d)
  BY DEF AnyBlock

LEMMA Scans ==
    /\ ScanInfo(EmptyBlock) = Info(TRUE, TRUE, 0)
    /\ ScanInfo(FreeBlock) = Info(TRUE, FALSE, 0)
    /\ ScanInfo(TornBlock) = Info(FALSE, TRUE, 0)
    /\ \A u, d : ScanInfo(Holding(u, d)) = Info(TRUE, TRUE, 1)
  <1>1. ScanInfo(FreeBlock) = Info(TRUE, FALSE, 0)
    BY DEF ScanInfo, FreeBlock
  <1>2. ScanInfo(TornBlock) = Info(FALSE, TRUE, 0)
    BY DEF ScanInfo, TornBlock
  <1>3. ScanInfo(EmptyBlock) = Info(TRUE, TRUE, 0)
    BY FS_EmptySet DEF ScanInfo, EmptyBlock
  <1>4. ASSUME NEW u, NEW d PROVE ScanInfo(Holding(u, d)) = Info(TRUE, TRUE, 1)
    <2>1. Cardinality({Entry(u, d)}) = 1 BY FS_Singleton
    <2> QED BY <2>1 DEF ScanInfo, Holding
  <1> QED BY <1>1, <1>2, <1>3, <1>4

LEMMA Infos ==
    /\ Info(TRUE, TRUE, 1) \in BlockInfos /\ Info(TRUE, FALSE, 0) \in BlockInfos
    /\ Info(TRUE, TRUE, 0) \in BlockInfos /\ Info(FALSE, TRUE, 0) \in BlockInfos
  BY DEF Info, BlockInfos

LEMMA HoldingIs ==
    ASSUME NEW u \in Uids, NEW d \in Data
    PROVE  /\ Holding(u, d) \in AnyBlock /\ Holding(u, d).whole
           /\ Holding(u, d).uid_tbl = {Entry(u, d)}
           /\ DataOf(Holding(u, d), u) = d
           /\ Holding(u, d) \notin {EmptyBlock, FreeBlock, TornBlock}
  <1>1. Holding(u, d) \in AnyBlock BY DEF AnyBlock
  <1>2. Holding(u, d).whole /\ Holding(u, d).uid_tbl = {Entry(u, d)} BY DEF Holding
  <1>3. Entry(u, d).uid = u /\ Entry(u, d).data = d BY DEF Entry
  <1>4. DataOf(Holding(u, d), u) = d BY <1>2, <1>3 DEF DataOf
  <1>5. EmptyBlock.uid_tbl = {} /\ FreeBlock.uid_tbl = {} /\ TornBlock.uid_tbl = {}
    BY DEF EmptyBlock, FreeBlock, TornBlock
  <1> QED BY <1>1, <1>2, <1>4, <1>5

(* The blocks that hold an entry of u. *)
LEMMA HoldersAre ==
    ASSUME NEW d \in [Blocks -> AnyBlock], NEW b \in Blocks, NEW u \in Uids
    PROVE  b \in Holders(d, u) <=> \E x \in Data : d[b] = Holding(u, x)
  <1>1. CASE d[b] \in {EmptyBlock, FreeBlock, TornBlock}
    <2>1. d[b].uid_tbl = {} BY <1>1 DEF EmptyBlock, FreeBlock, TornBlock
    <2> QED BY <1>1, <2>1, HoldingIs DEF Holders
  <1>2. ASSUME NEW v \in Uids, NEW y \in Data, d[b] = Holding(v, y)
        PROVE  b \in Holders(d, u) <=> \E x \in Data : d[b] = Holding(u, x)
    <2>1. d[b].whole /\ d[b].uid_tbl = {Entry(v, y)} BY <1>2, HoldingIs
    <2>2. Entry(v, y).uid = v BY DEF Entry
    <2>3. b \in Holders(d, u) <=> v = u BY <2>1, <2>2 DEF Holders
    <2>4. ASSUME NEW x \in Data, Holding(v, y) = Holding(u, x) PROVE v = u
      <3>1. Entry(v, y) = Entry(u, x) BY <2>4, HoldingIs
      <3>2. Entry(u, x).uid = u BY DEF Entry
      <3> QED BY <2>2, <3>1, <3>2
    <2> QED BY <1>2, <2>3, <2>4
  <1> QED BY <1>1, <1>2, Kinds

LEMMA WithIs ==
    ASSUME NEW u \in Uids, NEW x \in Data, NEW block, Takes(block, u)
    PROVE  block # FreeBlock => With(block, u, x) = Holding(u, x)
  <1> DEFINE S == {e \in block.uid_tbl : e.uid # u} \cup {Entry(u, x)}
  <1>1. CASE block = EmptyBlock
    <2>1. block = [part_size |-> "MAX", whole |-> TRUE, uid_tbl |-> {}]
      BY <1>1 DEF EmptyBlock
    <2>2. S = {Entry(u, x)} BY <2>1
    <2>3. With(block, u, x) = [block EXCEPT !.whole = TRUE, !.uid_tbl = S]
      BY <2>1 DEF With
    <2> HIDE DEF S
    <2> QED BY <2>1, <2>2, <2>3 DEF Holding
  <1>2. ASSUME NEW y \in Data, block = Holding(u, y)
        PROVE  With(block, u, x) = Holding(u, x)
    <2>1. Entry(u, y).uid = u BY DEF Entry
    <2>2. block = [part_size |-> "MAX", whole |-> TRUE, uid_tbl |-> {Entry(u, y)}]
      BY <1>2 DEF Holding
    <2>3. S = {Entry(u, x)} BY <2>1, <2>2
    <2>4. With(block, u, x) = [block EXCEPT !.whole = TRUE, !.uid_tbl = S]
      BY <2>2 DEF With
    <2> HIDE DEF S
    <2> QED BY <2>2, <2>3, <2>4 DEF Holding
  <1> QED BY <1>1, <1>2 DEF Takes

(* What is stored under an id. *)
LEMMA Stored ==
    ASSUME NEW d, Single(d), NEW u \in Uids
    PROVE  /\ Holders(d, u) = {} => Contents(d)[u] = NoData
           /\ \A b \in Holders(d, u), x \in Data :
                 d[b] = Holding(u, x) => Contents(d)[u] = x
           /\ \A b \in Holders(d, u) : Least(Holders(d, u)) = b
  <1>1. Holders(d, u) = {} => Contents(d)[u] = NoData BY DEF Contents
  <1>2. ASSUME NEW b \in Holders(d, u)
        PROVE  Least(Holders(d, u)) = b
    <2>1. Holders(d, u) = {b} BY <1>2 DEF Single
    <2>2. b <= b BY DEF Holders, Blocks
    <2> QED BY <2>1, <2>2 DEF Least
  <1>3. ASSUME NEW b \in Holders(d, u), NEW x \in Data, d[b] = Holding(u, x)
        PROVE  Contents(d)[u] = x
    <2>1. Least(Holders(d, u)) = b BY <1>2
    <2>2. Contents(d)[u] = DataOf(d[b], u) BY <2>1 DEF Contents, DataOf
    <2> QED BY <1>3, <2>2, HoldingIs
  <1> QED BY <1>1, <1>2, <1>3

------------------------------------------------------------------------------
(* What a handler finds, and what it leaves.                                    *)

Serving(k, i) ==
    /\ Settled(k, i, disk) /\ Single(disk) /\ Matches(disk, MaxDataBlock)

(* An answer says what is on the disk. *)
Truthful(a) ==
    /\ "full" \notin Events =>
          (a.code \in {"OKAY", "ID_INVALID"} /\ a.uid # 0
              => Contents(disk)[a.uid] = a.data)
    /\ a.to = "READ_ALL_UIDS" /\ a.code \in {"OKAY", "ID_INVALID"} =>
          a.remaining =
              Cardinality({u \in Uids : u > a.uid /\ Contents(disk)[u] # NoData})

(* READ_ALL_UIDS has sent a and goes on from c. *)
Continues(name, c, a) ==
    name = "READ_ALL_UIDS" /\ a.code # "WAITING" =>
        /\ c \in ReadAllCmds
        /\ c.remaining = Cardinality(MappedFrom(c.uid + 1))
        /\ c.remaining # 0

(* A handler of the command name leaves c, waiting for w with the operations i  *)
(* and the answer a.                                                            *)
Leaves(name, w, c, i, a) ==
    /\ name # "STARTUP"
    /\ w # "NONE" => a.code = "WAITING" /\ name \notin Idle
    /\ a.code = "WAITING" => Carries(name, w, c)
    /\ Continues(name, c, a)
    /\ Writes(i, c)
    /\ i.now.act = "WRITE" \/ i.flash # NoOp => name \in Updates
    /\ UnderWay(i) => a.code = "WAITING"
    /\ Truthful(a)

HandlerLeaves == Leaves(active_cmd', waiting', cmd', io', reply')

LEMMA FoundUid ==
    ASSUME NEW k, NEW i, Serving(k, i), NEW u \in Uids
    PROVE  /\ find_uid(u, k) = "INVALID" => uid_map[u] = INVALID_BLOCK
           /\ find_uid(u, k) = "SUCCESS" => k.idx = uid_map[u]
           /\ find_uid(u, k) \in {"INVALID", "LOADING", "SUCCESS"}
           /\ uid_map[u] = INVALID_BLOCK =>
                 find_uid(u, k) = "INVALID" /\ Holders(disk, u) = {}
           /\ uid_map[u] # INVALID_BLOCK =>
                 /\ uid_map[u] \in Blocks
                 /\ Holders(disk, u) = {uid_map[u]}
                 /\ \E x \in Data :
                       /\ disk[uid_map[u]] = Holding(u, x)
                       /\ Contents(disk)[u] = x
                 /\ k.idx = uid_map[u] => k.data = disk[uid_map[u]]
  <1> DEFINE b == uid_map[u]
  <1>1. Single(disk) /\ Matches(disk, MaxDataBlock) /\ Coherent(k, disk) /\ ~k.updating
    BY DEF Serving, Settled
  <1>2. \A h \in Holders(disk, u) : h \in Blocks /\ h # INVALID_BLOCK /\ ~(h > MaxDataBlock)
    BY BlockNumbers DEF Holders
  <1>3. CASE b = INVALID_BLOCK
    <2>1. find_uid(u, k) = "INVALID" BY <1>3 DEF find_uid
    <2>2. Holders(disk, u) = {} BY <1>1, <1>2, <1>3 DEF Matches
    <2> QED BY <1>3, <2>1, <2>2
  <1>4. CASE b # INVALID_BLOCK
    <2>1. b \in Holders(disk, u) BY <1>1, <1>4 DEF Matches
    <2>2. b \in Blocks /\ Holders(disk, u) = {b} BY <1>1, <1>2, <2>1 DEF Single
    <2>3. PICK x \in Data : disk[b] = Holding(u, x)
      BY <1>1, <2>1, <2>2, HoldersAre DEF Single
    <2>4. Contents(disk)[u] = x BY <1>1, <2>1, <2>3, Stored
    <2>5. k.idx = b => k.data = disk[b] BY <1>1, <2>2 DEF Coherent
    <2>6. k.idx = b => find_uid(u, k) = "SUCCESS"
      <3> SUFFICES ASSUME k.idx = b PROVE find_uid(u, k) = "SUCCESS" OBVIOUS
      <3>2. info[b].part_occupancy > 0
        <4>0. info[b] = ScanInfo(disk[b]) BY <1>1, <2>2, BlockNumbers DEF Matches
        <4>1. info[b] = Info(TRUE, TRUE, 1) BY <2>3, <4>0, Scans, Zenon
        <4>2. info[b].part_occupancy = 1 BY <4>1 DEF Info
        <4> QED BY <4>2
      <3>3. \E e \in k.data.uid_tbl : e.uid = u
        <4>1. k.data.uid_tbl = {Entry(u, x)} BY <2>3, <2>5, HoldingIs
        <4> QED BY <4>1 DEF Entry
      <3> QED BY <1>4, <3>2, <3>3 DEF find_uid
    <2>7. k.idx # b => find_uid(u, k) = "LOADING" BY <1>4 DEF find_uid
    <2> HIDE DEF b
    <2>8. find_uid(u, k) \in {"LOADING", "SUCCESS"} /\ (find_uid(u, k) = "SUCCESS" => k.idx = b)
      BY <2>6, <2>7
    <2>9. \E y \in Data : disk[b] = Holding(u, y) /\ Contents(disk)[u] = y
      BY <2>3, <2>4
    <2> QED BY <1>4, <2>2, <2>5, <2>8, <2>9 DEF b
  <1> QED BY <1>3, <1>4

LEMMA NothingWritten ==
    ASSUME NEW i, NEW c, i.now.act # "WRITE", i.flash = NoOp
    PROVE  Writes(i, c)
  BY DEF Writes

LEMMA NotSaid ==
    ASSUME NEW a, a.code \notin {"OKAY", "ID_INVALID"} PROVE Truthful(a)
  BY DEF Truthful

LEMMA PendingIs ==
    ASSUME NEW name
    PROVE  Pending(name).code = "WAITING" /\ Truthful(Pending(name))
  <1>1. Pending(name).code = "WAITING" BY DEF Pending
  <1> QED BY <1>1, NotSaid

(* The ways out of a handler. *)
LEMMA Returns ==
    ASSUME NEW k, NEW i, Serving(k, i), NEW name, name \notin Idle, NEW press, NEW c,
           Carries(name, press, c), Return(name, press, c, k, i)
    PROVE  HandlerLeaves
  <1>1. ~UnderWay(i) BY DEF Serving, Settled
  <1>2. i.now = NoOp /\ i.flash = NoOp /\ i.now.act # "WRITE"
    BY <1>1, OpsDiffer DEF UnderWay
  <1>3. Writes(i, c) BY <1>2, NothingWritten
  <1>4. active_cmd' = name /\ waiting' = press /\ cmd' = c /\ io' = i
        /\ reply' = Pending(name)
    BY DEF Return
  <1>5. reply'.code = "WAITING" /\ Truthful(reply') BY <1>4, PendingIs
  <1> QED BY <1>1, <1>2, <1>3, <1>4, <1>5 DEF HandlerLeaves, Leaves, Continues, Idle

LEMMA Loads ==
    ASSUME NEW k, NEW i, Serving(k, i), NEW name, name \notin Idle, NEW c,
           Carries(name, "NONE", c), NEW b, Load(name, b, c, k, i)
    PROVE  HandlerLeaves
  <1>1. IoForm(i) /\ ~UnderWay(i) BY DEF Serving, Settled
  <1>2. active_cmd' = name /\ waiting' = "NONE" /\ cmd' = c
        /\ io' = Queued(i, Read(b, "CACHE")) /\ reply' = Pending(name)
    BY DEF Load, Return
  <1>3. io' = [i EXCEPT !.now = Read(b, "CACHE")]
    BY <1>1, <1>2 DEF UnderWay, Queued
  <1>4. io'.now = Read(b, "CACHE") /\ io'.flash = NoOp
    BY <1>1, <1>3, OpsDiffer, IoUpdated DEF UnderWay
  <1>5. io'.now.act # "WRITE" BY <1>4, OpsDiffer
  <1>6. Writes(io', c) BY <1>4, <1>5, NothingWritten
  <1>7. reply'.code = "WAITING" /\ Truthful(reply') BY <1>2, PendingIs
  <1> QED BY <1>2, <1>4, <1>5, <1>6, <1>7 DEF HandlerLeaves, Leaves, Continues, Idle

LEMMA Completes ==
    ASSUME NEW k, NEW i, Serving(k, i), NEW name \in Updates, NEW c \in UpdateCmds,
           Fits(c.uid, c.entry), Ready(c), update_uid_cmd_complete(name, c, k, i)
    PROVE  HandlerLeaves
  <1> DEFINE op == Write(c.block_num, c.block)
  <1>1. IoForm(i) /\ ~UnderWay(i) BY DEF Serving, Settled
  <1>2. active_cmd' = name /\ waiting' = "NONE" /\ cmd' = c /\ reply' = Pending(name)
        /\ io' = IF c.block_num = INVALID_BLOCK THEN [i EXCEPT !.flash = op]
                                                ELSE Queued(i, op)
    BY DEF update_uid_cmd_complete, Return
  <1>3. Carries(name, "NONE", c) /\ name \notin Idle BY DEF Carries, Updates, Idle
  <1>4. Writes(io', c)
    <2>1. CASE c.block_num = INVALID_BLOCK
      <3>1. io' = [i EXCEPT !.flash = op] BY <1>2, <2>1
      <3>2. io'.flash = op /\ io'.now = NoOp BY <1>1, <3>1, FlashUpdated DEF UnderWay
      <3>3. io'.now.act # "WRITE" BY <3>2, OpsDiffer
      <3> QED BY <2>1, <3>2, <3>3 DEF Writes
    <2>2. CASE c.block_num # INVALID_BLOCK
      <3>1. io' = [i EXCEPT !.now = op] BY <1>1, <1>2, <2>2 DEF UnderWay, Queued
      <3>2. io'.now = op /\ io'.flash = NoOp
        BY <1>1, <3>1, OpsDiffer, IoUpdated DEF UnderWay
      <3>3. c.block_num \in Blocks BY <2>2 DEF UpdateCmds
      <3> QED BY <3>2, <3>3 DEF Writes
    <2> QED BY <2>1, <2>2
  <1>5. reply'.code = "WAITING" /\ Truthful(reply') BY <1>2, PendingIs
  <1> QED BY <1>2, <1>3, <1>4, <1>5 DEF HandlerLeaves, Leaves, Continues, Idle, Updates

LEMMA Finishes ==
    ASSUME NEW k, NEW i, ~UnderWay(i), NEW name, name # "STARTUP", NEW rest,
           NEW a, a.code # "WAITING", Truthful(a), NEW c,
           rest => Continues(name, c, a),
           finish_command_multi(name, rest, a, c, k, i)
    PROVE  HandlerLeaves
  <1>1. i.now = NoOp /\ i.flash = NoOp /\ i.now.act # "WRITE"
    BY OpsDiffer DEF UnderWay
  <1>2. /\ active_cmd' = IF rest THEN name ELSE "NONE"
        /\ waiting' = "NONE" /\ io' = i /\ reply' = a
        /\ rest => cmd' = c
    BY DEF finish_command_multi
  <1>3. Writes(io', cmd') BY <1>1, <1>2, NothingWritten
  <1>4. Continues(active_cmd', cmd', reply') BY <1>2 DEF Continues
  <1> QED BY <1>1, <1>2, <1>3, <1>4 DEF HandlerLeaves, Leaves

------------------------------------------------------------------------------
(* Handlers of updates.                                                         *)

LEMMA PreparedLeaves ==
    ASSUME NEW k, NEW i, Serving(k, i), NEW name \in Updates, NEW c \in UpdateCmds,
           Fits(c.uid, c.entry), NEW b \in Blocks \cup {INVALID_BLOCK},
           NEW block \in AnyBlock, NEW y \in BlockInfos,
           Holders(disk, c.uid) \subseteq {b},
           \/ b = INVALID_BLOCK /\ "full" \in Events
           \/ /\ b \in Blocks /\ Takes(disk[b], c.uid)
              /\ block = IF c.entry = NoData THEN FreeBlock ELSE Holding(c.uid, c.entry)
              /\ y = ScanInfo(block),
           Prepared(name, c, b, block, y, k, i)
    PROVE  HandlerLeaves
  <1> DEFINE d == [c EXCEPT !.block_num = b, !.block = block, !.blk_info = y]
  <1>2. /\ d \in UpdateCmds /\ d.uid = c.uid /\ d.entry = c.entry
        /\ d.block_num = b /\ d.block = block /\ d.blk_info = y
    BY DEF UpdateCmds
  <1> HIDE DEF d
  <1>3. Ready(d) BY <1>2 DEF Ready
  <1>4. Fits(d.uid, d.entry) BY <1>2
  <1>5. name \notin Idle /\ name # "READ_UID" /\ name # "READ_ALL_UIDS"
    BY DEF Updates, Idle
  <1>6. \A press : Carries(name, press, d) BY <1>2, <1>3, <1>4, <1>5 DEF Carries
  <1>7. \/ update_uid_cmd_complete(name, d, k, i)
        \/ Return(name, "SHORT", d, k, i)
        \/ Return(name, "LONG", d, k, i)
    BY DEF Prepared, d
  <1> QED BY <1>2, <1>3, <1>4, <1>5, <1>6, <1>7, Completes, Returns

LEMMA AllocateLeaves ==
    ASSUME NEW k, NEW i, Serving(k, i), NEW name \in Updates, NEW c \in UpdateCmds,
           Fits(c.uid, c.entry), c.entry # NoData, uid_map[c.uid] = INVALID_BLOCK,
           allocate_uid(name, c, k, i)
    PROVE  HandlerLeaves
  <1> DEFINE roomy == {b \in Blocks : HasRoom(b)}
             free  == {b \in Blocks : IsFree(b)}
             u == c.uid
  <1>1. u \in Uids /\ c.entry \in Data BY DEF UpdateCmds
  <1>2. Single(disk) /\ Matches(disk, MaxDataBlock) /\ Coherent(k, disk) /\ ~k.updating
    BY DEF Serving, Settled
  <1>3. Holders(disk, u) = {} BY <1>1, FoundUid
  <1>4. Carries(name, "NONE", c) /\ name \notin Idle BY DEF Carries, Updates, Idle
  <1>5. ASSUME NEW b \in Blocks
        PROVE  /\ HasRoom(b) => disk[b] = EmptyBlock
               /\ IsFree(b) => disk[b] = FreeBlock
    <2>1. info[b] = ScanInfo(disk[b]) /\ disk[b] \in AnyBlock
      BY <1>2, BlockNumbers DEF Matches, Single
    <2>2. CASE disk[b] = EmptyBlock
      <3>0. info[b] = Info(TRUE, TRUE, 0) BY <2>1, <2>2, Scans, Zenon
      <3>1. info[b].occupied BY <3>0 DEF Info
      <3> QED BY <2>2, <3>1 DEF IsFree
    <2>3. CASE disk[b] = FreeBlock
      <3>0. info[b] = Info(TRUE, FALSE, 0) BY <2>1, <2>3, Scans, Zenon
      <3>1. ~info[b].occupied BY <3>0 DEF Info
      <3> QED BY <2>3, <3>1 DEF HasRoom
    <2>4. CASE disk[b] = TornBlock
      <3>0. info[b] = Info(FALSE, TRUE, 0) BY <2>1, <2>4, Scans, Zenon
      <3>1. ~info[b].valid BY <3>0 DEF Info
      <3> QED BY <3>1 DEF HasRoom, IsFree
    <2>5. ASSUME NEW v \in Uids, NEW x \in Data, disk[b] = Holding(v, x)
          PROVE  ~HasRoom(b) /\ ~IsFree(b)
      <3>1. info[b] = Info(TRUE, TRUE, 1) BY <2>1, <2>5, Scans, Zenon
      <3>2. info[b].occupied /\ info[b].part_occupancy = 1 BY <3>1 DEF Info
      <3> QED BY <3>2 DEF HasRoom, IsFree
    <2> QED BY <2>1, <2>2, <2>3, <2>4, <2>5, Kinds
  <1>7. Holding(u, c.entry) \in AnyBlock BY <1>1, HoldingIs
  <1>8. ASSUME NEW b \in Blocks, NEW block, block = EmptyBlock,
               disk[b] \in {EmptyBlock, FreeBlock},
               Prepared(name, c, b, With(block, u, c.entry), Info(TRUE, TRUE, 1), k, i)
        PROVE  HandlerLeaves
    <2>1. Takes(EmptyBlock, u) /\ EmptyBlock # FreeBlock
      BY DEF Takes, EmptyBlock, FreeBlock
    <2>2. With(EmptyBlock, u, c.entry) = Holding(u, c.entry) BY <1>1, <2>1, WithIs
    <2>3. Takes(disk[b], u) BY <1>8 DEF Takes
    <2>4. Info(TRUE, TRUE, 1) = ScanInfo(Holding(u, c.entry)) BY Scans
    <2>5. Prepared(name, c, b, Holding(u, c.entry), Info(TRUE, TRUE, 1), k, i)
      BY <1>8, <2>2
    <2> QED BY <1>3, <1>7, <2>3, <2>4, <2>5, Infos, PreparedLeaves
  <1>9. CASE roomy # {}
    <2>1. Least(roomy) \in Blocks /\ HasRoom(Least(roomy)) BY LeastBlock, <1>9
    <2>2. CASE k.idx # Least(roomy)
      <3>1. Load(name, Least(roomy), c, k, i) BY <1>9, <2>2 DEF allocate_uid
      <3> QED BY <1>4, <3>1, Loads
    <2>3. CASE k.idx = Least(roomy)
      <3>1. Prepared(name, c, Least(roomy), With(k.data, u, c.entry),
                     Info(TRUE, TRUE, 1), k, i)
        BY <1>9, <2>3 DEF allocate_uid
      <3>2. k.data = disk[Least(roomy)] BY <1>2, <2>1, <2>3 DEF Coherent
      <3> HIDE DEF roomy
      <3>3. disk[Least(roomy)] = EmptyBlock BY <1>5, <2>1
      <3> QED BY <1>8, <2>1, <3>1, <3>2, <3>3
    <2> QED BY <2>2, <2>3
  <1>10. CASE roomy = {} /\ free # {}
    <2>1. Least(free) \in Blocks /\ IsFree(Least(free)) BY LeastBlock, <1>10
    <2>2. Prepared(name, c, Least(free), With(EmptyBlock, u, c.entry),
                   Info(TRUE, TRUE, 1), k, i)
      BY <1>10 DEF allocate_uid
    <2> HIDE DEF free
    <2>3. disk[Least(free)] = FreeBlock BY <1>5, <2>1
    <2> QED BY <1>8, <2>1, <2>2, <2>3
  <1>11. CASE roomy = {} /\ free = {}
    <2>1. Prepared(name, c, INVALID_BLOCK, With(EmptyBlock, u, c.entry),
                   Info(TRUE, TRUE, 1), k, i)
      BY <1>11 DEF allocate_uid
    <2>2. "full" \in Events BY <1>11 DEF Fits
    <2>3. With(EmptyBlock, u, c.entry) \in AnyBlock
      <3>1. Takes(EmptyBlock, u) /\ EmptyBlock # FreeBlock
        BY DEF Takes, EmptyBlock, FreeBlock
      <3> QED BY <1>1, <1>7, <3>1, WithIs
    <2> QED BY <1>3, <2>1, <2>2, <2>3, Infos, PreparedLeaves
  <1> QED BY <1>9, <1>10, <1>11

LEMMA UpdateLeaves ==
    ASSUME NEW k, NEW i, Serving(k, i), NEW name \in Updates, NEW c \in UpdateCmds,
           Fits(c.uid, c.entry), update_uid_cmd_iter(name, c, k, i)
    PROVE  HandlerLeaves
  <1> DEFINE u == c.uid  b == uid_map[u]
  <1>1. u \in Uids /\ c.entry \in Data \cup {NoData} BY DEF UpdateCmds
  <1>2. Carries(name, "NONE", c) /\ name \notin Idle BY DEF Carries, Updates, Idle
  <1>3. CASE find_uid(u, k) = "LOADING"
    <2>1. Load(name, b, c, k, i) BY <1>3 DEF update_uid_cmd_iter
    <2> QED BY <1>2, <2>1, Loads
  <1>4. CASE find_uid(u, k) = "SUCCESS"
    <2>1. PICK x \in Data :
             /\ b \in Blocks /\ Holders(disk, u) = {b}
             /\ disk[b] = Holding(u, x) /\ k.data = disk[b]
      BY <1>1, <1>4, FoundUid
    <2> HIDE DEF b
    <2>2. Takes(disk[b], u) /\ disk[b] # FreeBlock
      <3>1. Takes(disk[b], u) BY <2>1 DEF Takes
      <3>2. Holding(u, x) # FreeBlock BY <1>1, HoldingIs
      <3> QED BY <2>1, <3>1, <3>2
    <2>3. CASE c.entry = NoData
      <3>1. Prepared(name, c, b, FreeBlock, Info(TRUE, FALSE, 0), k, i)
        BY <1>4, <2>3 DEF update_uid_cmd_iter, b
      <3>2. FreeBlock \in AnyBlock BY DEF AnyBlock
      <3>3. Info(TRUE, FALSE, 0) = ScanInfo(FreeBlock) BY Scans
      <3> QED BY <2>1, <2>2, <2>3, <3>1, <3>2, <3>3, Infos, PreparedLeaves
    <2>4. CASE c.entry # NoData
      <3>1. Prepared(name, c, b, With(k.data, u, c.entry), Info(TRUE, TRUE, 1), k, i)
        BY <1>4, <2>4 DEF update_uid_cmd_iter, b
      <3>2. c.entry \in Data BY <1>1, <2>4
      <3>3. With(k.data, u, c.entry) = Holding(u, c.entry)
        BY <1>1, <2>1, <2>2, <3>2, WithIs
      <3>4. Holding(u, c.entry) \in AnyBlock BY <1>1, <3>2, HoldingIs
      <3>5. Info(TRUE, TRUE, 1) = ScanInfo(Holding(u, c.entry)) BY Scans
      <3>6. Prepared(name, c, b, Holding(u, c.entry), Info(TRUE, TRUE, 1), k, i)
        BY <3>1, <3>3
      <3> QED BY <2>1, <2>2, <2>4, <3>4, <3>5, <3>6, Infos, PreparedLeaves
    <2> QED BY <2>3, <2>4
  <1>5. CASE find_uid(u, k) = "INVALID"
    <2>1. b = INVALID_BLOCK BY <1>1, <1>5, FoundUid
    <2>2. CASE c.entry = NoData
      <3>1. Return(name, "NONE", c, k, i) BY <1>5, <2>2 DEF update_uid_cmd_iter
      <3> QED BY <1>2, <3>1, Returns
    <2>3. CASE c.entry # NoData
      <3>1. allocate_uid(name, c, k, i) BY <1>5, <2>3 DEF update_uid_cmd_iter
      <3> QED BY <2>1, <2>3, <3>1, AllocateLeaves
    <2> QED BY <2>2, <2>3
  <1> QED BY <1>1, <1>3, <1>4, <1>5, FoundUid

------------------------------------------------------------------------------
(* Handlers of reads.                                                           *)

LEMMA ReadCompleteLeaves ==
    ASSUME NEW k, NEW i, Serving(k, i), NEW c \in ReadCmds,
           c.block_num = uid_map[c.uid], c.block_num \in Blocks,
           read_uid_cmd_complete(c, k, i)
    PROVE  HandlerLeaves
  <1> DEFINE u == c.uid  b == uid_map[u]
  <1>1. u \in Uids /\ b # INVALID_BLOCK BY BlockNumbers DEF ReadCmds
  <1>2. PICK x \in Data :
           /\ disk[b] = Holding(u, x) /\ Contents(disk)[u] = x
           /\ k.idx = b => k.data = disk[b]
    BY <1>1, FoundUid
  <1>3. Carries("READ_UID", "NONE", c) /\ "READ_UID" \notin Idle
    BY DEF Carries, Updates, Idle
  <1>4. CASE k.idx = b
    <2> DEFINE a == Told("READ_UID", "OKAY", u, DataOf(k.data, u), 0)
    <2>1. finish_command_multi("READ_UID", FALSE, a, c, k, i)
      BY <1>4 DEF read_uid_cmd_complete
    <2>2. DataOf(k.data, u) = Contents(disk)[u] BY <1>1, <1>2, <1>4, HoldingIs
    <2>3. a.code = "OKAY" /\ a.uid = u /\ a.data = Contents(disk)[u] /\ a.to = "READ_UID"
      BY <2>2, ToldIs
    <2> HIDE DEF a
    <2>4. Truthful(a) /\ a.code # "WAITING" BY <2>3 DEF Truthful
    <2>5. ~UnderWay(i) BY DEF Serving, Settled
    <2> QED BY <2>1, <2>4, <2>5, Finishes
  <1>5. CASE k.idx # b
    <2>1. Load("READ_UID", c.block_num, c, k, i) BY <1>5 DEF read_uid_cmd_complete
    <2> QED BY <1>3, <2>1, Loads
  <1> QED BY <1>4, <1>5

LEMMA ReadLeaves ==
    ASSUME NEW k, NEW i, Serving(k, i), NEW c \in ReadCmds, read_uid_cmd_iter(c, k, i)
    PROVE  HandlerLeaves
  <1> DEFINE u == c.uid  b == uid_map[u]  d == [c EXCEPT !.block_num = b]
  <1>1. u \in Uids BY DEF ReadCmds
  <1>2. b \in Blocks \cup {INVALID_BLOCK} BY <1>1, FoundUid
  <1>3. d \in ReadCmds /\ d.uid = u /\ d.block_num = b /\ d.masked = c.masked
    <2> HIDE DEF b
    <2> QED BY <1>2 DEF ReadCmds
  <1> HIDE DEF d
  <1>4. CASE find_uid(u, k) = "INVALID"
    <2> DEFINE a == Told("READ_UID", "ID_INVALID", u, NoData, 0)
    <2>1. finish_command_multi("READ_UID", FALSE, a, c, k, i)
      BY <1>4 DEF read_uid_cmd_iter
    <2>2. Contents(disk)[u] = NoData
      <3>1. Holders(disk, u) = {} BY <1>1, <1>4, FoundUid
      <3> QED BY <1>1, <3>1, Stored DEF Serving
    <2>3. a.code = "ID_INVALID" /\ a.uid = u /\ a.data = NoData /\ a.to = "READ_UID"
      BY ToldIs
    <2> HIDE DEF a
    <2>4. Truthful(a) /\ a.code # "WAITING" BY <2>2, <2>3 DEF Truthful
    <2>5. ~UnderWay(i) BY DEF Serving, Settled
    <2> QED BY <2>1, <2>4, <2>5, Finishes
  <1>5. CASE find_uid(u, k) # "INVALID"
    <2>1. b \in Blocks BY <1>1, <1>5, FoundUid
    <2>2. \A press : Carries("READ_UID", press, d) /\ "READ_UID" \notin Idle
      BY <1>3, <2>1 DEF Carries, Updates, Idle
    <2>3. \/ Load("READ_UID", b, d, k, i)
          \/ read_uid_cmd_complete(d, k, i)
          \/ Return("READ_UID", "SHORT", d, k, i)
      BY <1>3, <1>5 DEF read_uid_cmd_iter, d
    <2> QED BY <1>3, <2>1, <2>2, <2>3, Loads, ReadCompleteLeaves, Returns
  <1> QED BY <1>4, <1>5

(* The entries stored are those mapped. *)
LEMMA MappedAre ==
    ASSUME NEW k, NEW i, Serving(k, i), NEW n \in Nat
    PROVE  /\ {u \in Uids : u > n /\ Contents(disk)[u] # NoData} = MappedFrom(n + 1)
           /\ IsFiniteSet(MappedFrom(n)) /\ Cardinality(MappedFrom(n)) \in Nat
           /\ Cardinality(MappedFrom(n)) = 0 <=> MappedFrom(n) = {}
  <1>1. ASSUME NEW u \in Uids
        PROVE  /\ u > n <=> u >= n + 1
               /\ Contents(disk)[u] # NoData <=> uid_map[u] # INVALID_BLOCK
    <2>1. u \in Nat BY DbAssumption DEF Uids
    <2>2. CASE uid_map[u] = INVALID_BLOCK
      <3>1. Holders(disk, u) = {} BY <2>2, FoundUid
      <3>2. Contents(disk)[u] = NoData BY <3>1, Stored DEF Serving
      <3> QED BY <2>1, <2>2, <3>2
    <2>3. CASE uid_map[u] # INVALID_BLOCK
      <3>1. Contents(disk)[u] \in Data BY <2>3, FoundUid
      <3> QED BY <2>1, <2>3, <3>1, DbAssumption
    <2> QED BY <2>2, <2>3
  <1>2. MappedFrom(n) \in SUBSET Uids BY DEF MappedFrom
  <1>3. IsFiniteSet(Uids) BY DbAssumption, FS_Interval DEF Uids
  <1>4. IsFiniteSet(MappedFrom(n)) BY <1>2, <1>3, FS_Subset
  <1> QED BY <1>1, <1>4, FS_CardinalityType, FS_EmptySet DEF MappedFrom

LEMMA ReadAllLeaves ==
    ASSUME NEW k, NEW i, Serving(k, i), NEW c \in ReadAllCmds,
           c.remaining = Cardinality(MappedFrom(c.uid)), c.uid = 0 \/ c.remaining # 0,
           read_all_uids_cmd_iter(c, k, i)
    PROVE  HandlerLeaves
  <1> DEFINE name == "READ_ALL_UIDS"
             left == {u \in Uids : u >= c.uid /\ uid_map[u] # INVALID_BLOCK}
             u == Least(left)
             d == [c EXCEPT !.uid = u]
             n == c.remaining - 1
  <1>1. c.uid \in 0 .. MaxUid /\ c.remaining \in Nat /\ left = MappedFrom(c.uid)
    BY DEF ReadAllCmds, MappedFrom
  <1>2. ~UnderWay(i) BY DEF Serving, Settled
  <1>3. CASE left = {}
    <2> DEFINE a == Said(name, "ID_INVALID")
    <2>1. finish_command_multi(name, FALSE, a, c, k, i)
      BY <1>3 DEF read_all_uids_cmd_iter
    <2>2. c.uid = 0 BY <1>1, <1>3, FS_EmptySet
    <2>3. a.uid = 0 /\ a.remaining = 0 /\ a.code = "ID_INVALID" BY ToldIs
    <2>4. MappedFrom(0 + 1) = {}
      <3> SUFFICES ASSUME NEW v \in MappedFrom(0 + 1) PROVE FALSE OBVIOUS
      <3>1. v \in Uids /\ v \in Nat /\ v >= 1 /\ uid_map[v] # INVALID_BLOCK
        BY DbAssumption DEF MappedFrom, Uids
      <3>2. v \in left BY <2>2, <3>1
      <3> QED BY <1>3, <3>2
    <2>5. Cardinality({v \in Uids : v > 0 /\ Contents(disk)[v] # NoData}) = 0
      <3>1. 0 \in Nat OBVIOUS
      <3>2. {v \in Uids : v > 0 /\ Contents(disk)[v] # NoData} = MappedFrom(0 + 1)
        BY <3>1, MappedAre
      <3> QED BY <2>4, <3>2, FS_EmptySet
    <2> HIDE DEF a
    <2>6. Truthful(a) /\ a.code # "WAITING" BY <2>3, <2>5 DEF Truthful
    <2> QED BY <1>2, <2>1, <2>6, Finishes
  <1>4. CASE left # {}
    <2>0. left \in SUBSET Nat BY DbAssumption DEF Uids
    <2>1. u \in left /\ \A v \in left : u <= v
      <3>1. \E b \in left : \A b2 \in left : b <= b2 BY <1>4, <2>0, LeastOf
      <3> HIDE DEF left
      <3> QED BY <3>1 DEF Least
    <2>2. u \in Uids /\ uid_map[u] # INVALID_BLOCK /\ u \in Nat /\ u >= c.uid
      BY <2>0, <2>1
    <2>3. left = MappedFrom(u)
      <3>1. ASSUME NEW v \in left PROVE v \in MappedFrom(u)
        BY <2>1, <3>1 DEF MappedFrom
      <3>2. ASSUME NEW v \in MappedFrom(u) PROVE v \in left
        <4>1. v \in Nat /\ c.uid \in Nat BY <1>1, DbAssumption DEF MappedFrom, Uids
        <4> QED BY <2>2, <3>2, <4>1 DEF MappedFrom
      <3> QED BY <3>1, <3>2
    <2>4. MappedFrom(u + 1) = left \ {u}
      <3>1. ASSUME NEW v \in Uids PROVE v >= u + 1 <=> v >= u /\ v # u
        BY <2>2, DbAssumption DEF Uids
      <3> HIDE DEF u
      <3> QED BY <2>3, <3>1 DEF MappedFrom
    <2>5. IsFiniteSet(left) /\ c.remaining # 0
      <3>1. c.uid \in Nat BY <1>1
      <3> HIDE DEF left
      <3> QED BY <1>1, <1>4, <3>1, MappedAre
    <2> HIDE DEF left, u
    <2>6. n \in Nat /\ n = Cardinality(MappedFrom(u + 1))
      <3>1. Cardinality(left \ {u}) = Cardinality(left) - 1
        BY <2>1, <2>5, FS_RemoveElement
      <3>2. c.remaining = Cardinality(left) /\ c.remaining \in Nat \ {0}
        BY <1>1, <2>5
      <3> QED BY <2>4, <3>1, <3>2
    <2>7. /\ d \in ReadAllCmds /\ d.uid = u /\ d.remaining = c.remaining
          /\ [d EXCEPT !.remaining = n] \in ReadAllCmds
          /\ [d EXCEPT !.remaining = n].uid = u
          /\ [d EXCEPT !.remaining = n].remaining = n
      <3>1. u \in 0 .. MaxUid BY <2>2, DbAssumption DEF Uids
      <3> HIDE DEF n
      <3> QED BY <2>6, <3>1 DEF ReadAllCmds
    <2> HIDE DEF d, n
    <2>8. Carries(name, "NONE", d) /\ name \notin Idle
      BY <1>1, <2>3, <2>5, <2>7 DEF Carries, Updates, Idle
    <2>9. PICK x \in Data :
             /\ disk[uid_map[u]] = Holding(u, x) /\ Contents(disk)[u] = x
             /\ k.idx = uid_map[u] => k.data = disk[uid_map[u]]
      BY <2>2, FoundUid
    <2>10. CASE find_uid(u, k) = "LOADING"
      <3>1. Load(name, uid_map[u], d, k, i)
        BY <1>4, <2>10 DEF read_all_uids_cmd_iter, left, u, d
      <3> QED BY <2>8, <3>1, Loads
    <2>11. CASE find_uid(u, k) = "INVALID"
      BY <2>2, <2>11, FoundUid
    <2>12. CASE find_uid(u, k) = "SUCCESS"
      <3> DEFINE a == Told(name, "OKAY", u, DataOf(k.data, u), n)
                 e == [d EXCEPT !.remaining = n]
      <3>1. finish_command_multi(name, n # 0, a, e, k, i)
        BY <1>4, <2>12 DEF read_all_uids_cmd_iter, left, u, d, n
      <3>2. DataOf(k.data, u) = Contents(disk)[u]
        BY <2>2, <2>9, <2>12, FoundUid, HoldingIs
      <3>3. a.uid = u /\ a.code = "OKAY" /\ a.remaining = n /\ a.data = Contents(disk)[u]
        BY <3>2, ToldIs
      <3> HIDE DEF a
      <3>4. n = Cardinality({v \in Uids : v > u /\ Contents(disk)[v] # NoData})
        BY <2>2, <2>6, MappedAre
      <3>5. Truthful(a) /\ a.code # "WAITING" BY <3>3, <3>4 DEF Truthful
      <3>6. n # 0 => Continues(name, e, a) BY <2>6, <2>7 DEF Continues
      <3> HIDE DEF e
      <3> QED BY <1>2, <3>1, <3>5, <3>6, Finishes
    <2> QED BY <2>2, <2>10, <2>11, <2>12, FoundUid
  <1> QED BY <1>3, <1>4

------------------------------------------------------------------------------
(* What a write changes.                                                        *)

LEMMA TornHolds ==
    ASSUME NEW u, NEW x \in Data
    PROVE  TornBlock # Holding(u, x)
  <1>1. TornBlock.uid_tbl = {} /\ Holding(u, x).uid_tbl = {Entry(u, x)}
    BY DEF TornBlock, Holding
  <1> QED BY <1>1

LEMMA WrittenIs ==
    ASSUME Single(disk), NEW c \in UpdateCmds, Ready(c),
           NEW x \in {c.block, TornBlock}, NEW d,
           d = [b \in Blocks |-> IF b = c.block_num THEN x ELSE disk[b]]
    PROVE  /\ Single(d)
           /\ \A v \in Uids : v # c.uid => Holders(d, v) = Holders(disk, v)
           /\ x = TornBlock \/ c.entry = NoData \/ c.block_num = INVALID_BLOCK
                => Holders(d, c.uid) = {}
           /\ c.block_num \in Blocks /\ c.entry # NoData /\ x = c.block
                => /\ Holders(d, c.uid) = {c.block_num}
                   /\ d[c.block_num] = Holding(c.uid, c.entry)
           /\ c.block_num \in Blocks => d = [disk EXCEPT ![c.block_num] = x]
           /\ c.block_num \notin Blocks => d = disk /\ "full" \in Events
  <1> DEFINE u == c.uid  b == c.block_num
  <1>1. /\ u \in Uids /\ c.entry \in Data \cup {NoData} /\ c.block \in AnyBlock
        /\ disk \in [Blocks -> AnyBlock] /\ Holders(disk, u) \subseteq {b}
    BY DEF UpdateCmds, Single, Ready
  <1>2. x \in AnyBlock BY <1>1 DEF AnyBlock
  <1>3. /\ d \in [Blocks -> AnyBlock]
        /\ \A y \in Blocks : d[y] = IF y = b THEN x ELSE disk[y]
    BY <1>1, <1>2
  <1>4. CASE b \notin Blocks
    <2>1. d = disk /\ "full" \in Events /\ b = INVALID_BLOCK BY <1>1, <1>4 DEF Ready
    <2>2. Holders(disk, u) = {} BY <1>1, <1>4 DEF Holders
    <2> QED BY <1>4, <2>1, <2>2
  <1>5. CASE b \in Blocks
    <2>1. /\ Takes(disk[b], u) /\ b # INVALID_BLOCK
          /\ c.block = IF c.entry = NoData THEN FreeBlock ELSE Holding(u, c.entry)
      BY <1>5, BlockNumbers DEF Ready
    <2>2. ASSUME NEW y \in Blocks, NEW v \in Uids, y # b
          PROVE  y \in Holders(d, v) <=> y \in Holders(disk, v)
      BY <1>1, <1>3, <2>2, HoldersAre
    <2>3. ASSUME NEW v \in Uids, v # u
          PROVE  b \notin Holders(disk, v) /\ b \notin Holders(d, v)
      <3>1. ASSUME NEW e \in Data, NEW e2 \in Data PROVE Holding(u, e) # Holding(v, e2)
        <4>1. Entry(u, e).uid = u /\ Entry(v, e2).uid = v BY DEF Entry
        <4>2. Entry(u, e) # Entry(v, e2) BY <2>3, <4>1
        <4> QED BY <1>1, <4>2, HoldingIs
      <3>2. ASSUME NEW e2 \in Data PROVE Holding(v, e2) \notin {EmptyBlock, FreeBlock, TornBlock}
        BY HoldingIs
      <3>3. b \notin Holders(disk, v)
        BY <1>1, <1>5, <2>1, <3>1, <3>2, HoldersAre DEF Takes
      <3>4. x \in {FreeBlock, TornBlock} \/ \E e \in Data : x = Holding(u, e)
        BY <1>1, <2>1
      <3>5. b \notin Holders(d, v)
        BY <1>3, <1>5, <3>1, <3>2, <3>4, HoldersAre
      <3> QED BY <3>3, <3>5
    <2>4. ASSUME NEW v \in Uids, v # u PROVE Holders(d, v) = Holders(disk, v)
      <3>1. \A y \in Blocks : y \in Holders(d, v) <=> y \in Holders(disk, v)
        BY <2>2, <2>3, <2>4
      <3>2. Holders(d, v) \subseteq Blocks /\ Holders(disk, v) \subseteq Blocks
        BY DEF Holders
      <3> QED BY <3>1, <3>2
    <2>5. Holders(d, u) \subseteq {b}
      BY <1>1, <2>2 DEF Holders
    <2>6. b \in Holders(d, u) <=> \E e \in Data : x = Holding(u, e)
      BY <1>1, <1>3, <1>5, HoldersAre
    <2>7. Single(d)
      <3> SUFFICES ASSUME NEW v \in Uids, NEW b1 \in Holders(d, v), NEW b2 \in Holders(d, v)
                   PROVE  b1 = b2
        BY <1>3 DEF Single
      <3>1. CASE v = u BY <2>5, <3>1
      <3>2. CASE v # u BY <2>4, <3>2 DEF Single
      <3> QED BY <3>1, <3>2
    <2>8. x = TornBlock \/ c.entry = NoData => Holders(d, u) = {}
      <3>1. \A e \in Data : FreeBlock # Holding(u, e) /\ TornBlock # Holding(u, e)
        BY <1>1, HoldingIs
      <3> QED BY <2>1, <2>5, <2>6, <3>1
    <2>9. c.entry # NoData /\ x = c.block =>
             Holders(d, u) = {b} /\ d[b] = Holding(u, c.entry)
      BY <1>1, <1>3, <1>5, <2>1, <2>5, <2>6
    <2>10. d = [disk EXCEPT ![b] = x] BY <1>1, <1>3
    <2> QED BY <1>5, <2>1, <2>4, <2>7, <2>8, <2>9, <2>10
  <1> QED BY <1>4, <1>5

(* After a write the id has what was asked for, and nothing else has changed.   *)
LEMMA WrittenContents ==
    ASSUME Single(disk), NEW c \in UpdateCmds, Ready(c), c.block_num \in Blocks,
           NEW x \in {c.block, TornBlock}, NEW d,
           d = [b \in Blocks |-> IF b = c.block_num THEN x ELSE disk[b]]
    PROVE  Contents(d) = [Contents(disk) EXCEPT ![c.uid] =
                             IF x = TornBlock THEN NoData ELSE c.entry]
  <1> DEFINE e == IF x = TornBlock THEN NoData ELSE c.entry
  <1>1. /\ c.uid \in Uids /\ c.entry \in Data \cup {NoData} /\ Single(d)
        /\ \A v \in Uids : v # c.uid => Holders(d, v) = Holders(disk, v)
    BY WrittenIs DEF UpdateCmds
  <1>2. Contents(d)[c.uid] = e
    <2>1. CASE x = TornBlock \/ c.entry = NoData
      <3>1. Holders(d, c.uid) = {} BY <2>1, WrittenIs
      <3> QED BY <1>1, <2>1, <3>1, Stored
    <2>2. CASE x # TornBlock /\ c.entry # NoData
      <3>1. Holders(d, c.uid) = {c.block_num} /\ d[c.block_num] = Holding(c.uid, c.entry)
        BY <2>2, WrittenIs
      <3>2. c.entry \in Data BY <1>1, <2>2
      <3> QED BY <1>1, <2>2, <3>1, <3>2, Stored
    <2> QED BY <2>1, <2>2
  <1>3. ASSUME NEW v \in Uids, v # c.uid PROVE Contents(d)[v] = Contents(disk)[v]
    <2>1. Holders(d, v) = Holders(disk, v) BY <1>1, <1>3
    <2>2. CASE Holders(disk, v) = {} BY <1>1, <2>1, <2>2, Stored
    <2>3. ASSUME NEW h \in Holders(disk, v) PROVE Contents(d)[v] = Contents(disk)[v]
      <3>1. h \in Blocks /\ h \in Holders(d, v) BY <2>1, <2>3 DEF Holders
      <3>2. PICK y \in Data : disk[h] = Holding(v, y)
        BY <2>3, <3>1, HoldersAre DEF Single
      <3>3. h # c.block_num
        <4>1. h = c.block_num => Takes(Holding(v, y), c.uid)
          BY <3>2, BlockNumbers DEF Ready
        <4>2. ASSUME NEW z \in Data PROVE Holding(v, y) # Holding(c.uid, z)
          <5>1. Entry(v, y).uid = v /\ Entry(c.uid, z).uid = c.uid BY DEF Entry
          <5>2. Entry(v, y) # Entry(c.uid, z) BY <1>3, <5>1
          <5> QED BY <1>1, <5>2, HoldingIs
        <4> QED BY <4>1, <4>2, HoldingIs DEF Takes
      <3>4. d[h] = disk[h] BY <3>1, <3>3
      <3> QED BY <1>1, <2>3, <3>1, <3>2, <3>4, Stored
    <2> QED BY <2>2, <2>3
  <1>4. /\ Contents(d) = [v \in Uids |-> Contents(d)[v]]
        /\ Contents(disk) = [v \in Uids |-> Contents(disk)[v]]
    BY DEF Contents
  <1> HIDE DEF e
  <1>5. Contents(d) = [Contents(disk) EXCEPT ![c.uid] = e]
    BY <1>1, <1>2, <1>3, <1>4
  <1> QED BY <1>5 DEF e

------------------------------------------------------------------------------
(* The steps, once more.                                                        *)

LEMMA ServingNow ==
    ASSUME Inv, DataInv, ~UnderWay(io), active_cmd # "STARTUP",
           g_device_state \in {"LOGGED_OUT", "LOGGED_IN"}
    PROVE  Serving(cache, io)
  BY QuietIsSettled DEF DataInv, Open, Serving

(* A handler keeps the invariant, whatever it does, if it leaves what it should. *)
LEMMA DataKept ==
    ASSUME Inv, DataInv, HandlerLeaves, UNCHANGED <<disk, info, uid_map>>,
           Matches(disk, MaxDataBlock),
           g_device_state' \in {"LOGGED_OUT", "LOGGED_IN"},
           active_cmd' = "READ_ALL_UIDS" => ~more'
    PROVE  DataInv'
  <1>1. /\ Single(disk)'
        /\ (info = [b \in Blocks |-> info[b]])'
        /\ (uid_map = [u \in Uids |-> uid_map[u]])'
        /\ Matches(disk, MaxDataBlock)'
    BY DEF DataInv, Single, Matches, Holders
  <1>2. Carries(active_cmd', waiting', cmd') => Carries(active_cmd, waiting, cmd)'
    BY DEF Carries, Fits, HasRoom, IsFree, Ready, Holders, MappedFrom
  <1>3. Continues(active_cmd', cmd', reply') => Sending'
    BY DEF Continues, Sending, MappedFrom, Unanswered
  <1>4. Writes(io', cmd') => Writes(io, cmd)'
    BY DEF Writes, Ready, Holders
  <1>5. Truthful(reply') => ("full" \notin Events => KnownTrue') /\ RemainingExact'
    <2>1. Contents(disk)' = Contents(disk) BY DEF Contents, Holders
    <2>2. Truthful(reply') /\ "full" \notin Events => KnownTrue'
      BY <2>1 DEF Truthful, KnownTrue
    <2>3. Truthful(reply') => RemainingExact' BY <2>1 DEF Truthful, RemainingExact
    <2> QED BY <2>2, <2>3
  <1>6. Writing' # {} => active_cmd' \in Updates
    <2>1. Writing' # {} => io'.now.act = "WRITE" \/ io'.flash.act = "WRITE"
      BY DEF Writing
    <2>2. io'.flash.act = "WRITE" => io'.flash # NoOp BY OpsDiffer
    <2> QED BY <2>1, <2>2 DEF HandlerLeaves, Leaves
  <1>7. Scanning' BY DEF HandlerLeaves, Leaves, Scanning
  <1>8. UnderWay(io)' => reply'.code = "WAITING" BY DEF HandlerLeaves, Leaves, UnderWay
  <1>9. waiting' # "NONE" => reply'.code = "WAITING" /\ active_cmd' \notin Idle
    BY DEF HandlerLeaves, Leaves
  <1>10. /\ reply'.code = "WAITING" => Carries(active_cmd, waiting, cmd)'
         /\ Sending' /\ Writes(io, cmd)'
         /\ ("full" \notin Events => KnownTrue') /\ RemainingExact'
    BY <1>2, <1>3, <1>4, <1>5 DEF HandlerLeaves, Leaves
  <1> QED BY <1>1, <1>6, <1>7, <1>8, <1>9, <1>10 DEF DataInv

LEMMA InitData == Init => DataInv
  <1> SUFFICES ASSUME Init PROVE DataInv OBVIOUS
  <1>1. /\ disk = [b \in Blocks |-> EmptyBlock] /\ info = NoInfo /\ uid_map = NoMap
        /\ reply = Said("NONE", "NONE") /\ g_device_state = "DISCONNECTED"
        /\ active_cmd = "NONE" /\ waiting = "NONE" /\ io = IdleIo
    BY DEF Init
  <1>2. io.now = NoOp /\ io.flash = NoOp BY <1>1 DEF IdleIo
  <1>3. io.now.act = "NONE" /\ io.flash.act = "NONE" BY <1>2, OpsDiffer
  <1>4. Writes(io, cmd) /\ Writing = {} /\ ~UnderWay(io)
    BY <1>2, <1>3 DEF Writes, Writing, UnderWay
  <1>5. Single(disk)
    <2>1. disk \in [Blocks -> AnyBlock] BY <1>1 DEF AnyBlock
    <2>2. \A u \in Uids : Holders(disk, u) = {}
      BY <1>1 DEF Holders, EmptyBlock
    <2> QED BY <2>1, <2>2 DEF Single
  <1>6. reply.code = "NONE" /\ reply.to = "NONE" BY <1>1, ToldIs
  <1>7. KnownTrue /\ RemainingExact BY <1>6 DEF KnownTrue, RemainingExact
  <1> QED BY <1>1, <1>2, <1>4, <1>5, <1>6, <1>7
      DEF DataInv, NoInfo, NoMap, Idle, Open, Scanning, Sending

LEMMA LoginData ==
    ASSUME Inv, DataInv, LOGIN PROVE DataInv'
  <1>1. Serving(cache, io) /\ Matches(disk, MaxDataBlock)
    <2>1. ~UnderWay(io) BY DEF Inv, Attended, Receive, Unanswered, LOGIN
    <2>2. active_cmd # "STARTUP" BY DEF DataInv, Scanning, Receive, Unanswered, LOGIN
    <2> QED BY <2>1, <2>2, ServingNow DEF LOGIN, Serving
  <1>2. Carries("LOGIN", "SHORT", NoCmd) /\ "LOGIN" \notin Idle
    BY DEF Carries, Idle, Updates
  <1>3. HandlerLeaves BY <1>1, <1>2, Returns DEF LOGIN
  <1>4. UNCHANGED <<disk, info, uid_map, g_device_state>> /\ active_cmd' = "LOGIN"
    BY DEF LOGIN, Receive, stored, tables, Return
  <1> QED BY <1>1, <1>3, <1>4, DataKept DEF LOGIN

LEMMA LogoutData ==
    ASSUME Inv, DataInv, LOGOUT PROVE DataInv'
  <1>1. Serving(cache, io) /\ Matches(disk, MaxDataBlock) /\ ~UnderWay(io)
    <2>1. ~UnderWay(io) BY DEF Inv, Attended, Receive, Unanswered, LOGOUT
    <2>2. active_cmd # "STARTUP" BY DEF DataInv, Scanning, Receive, Unanswered, LOGOUT
    <2> QED BY <2>1, <2>2, ServingNow DEF LOGOUT, Serving
  <1> DEFINE a == Said("LOGOUT", "OKAY")
  <1>2. a.code = "OKAY" /\ a.uid = 0 /\ a.to = "LOGOUT" BY ToldIs
  <1>3. finish_command_multi("LOGOUT", FALSE, a, NoCmd, cache, io) BY DEF LOGOUT
  <1> HIDE DEF a
  <1>4. HandlerLeaves
    <2>1. Truthful(a) /\ a.code # "WAITING" BY <1>2 DEF Truthful
    <2> QED BY <1>1, <1>3, <2>1, Finishes
  <1>5. UNCHANGED <<disk, info, uid_map>> /\ active_cmd' = "NONE"
        /\ g_device_state' = "LOGGED_OUT"
    BY DEF LOGOUT, Receive, stored, tables, finish_command_multi
  <1> QED BY <1>1, <1>4, <1>5, DataKept

LEMMA CommandServed ==
    ASSUME Inv, DataInv, NEW name, name # "STARTUP", NEW remaining,
           Receive(name, remaining), g_device_state = "LOGGED_IN"
    PROVE  /\ Serving(cache, io) /\ Matches(disk, MaxDataBlock)
           /\ UNCHANGED <<disk, info, uid_map>> /\ more' = remaining
  <1>1. ~UnderWay(io) BY DEF Inv, Attended, Receive, Unanswered
  <1>2. active_cmd # "STARTUP" BY DEF DataInv, Scanning, Receive, Unanswered
  <1>3. UNCHANGED <<disk, info, uid_map>> /\ more' = remaining
    BY DEF Receive, stored, tables
  <1> QED BY <1>1, <1>2, <1>3, ServingNow DEF Serving

LEMMA UpdateCmdIs ==
    ASSUME NEW u \in Uids, NEW d \in Data \cup {NoData}, NEW p \in 0 .. 2
    PROVE  UpdateCmd(u, d, p) \in UpdateCmds
           /\ UpdateCmd(u, d, p).uid = u /\ UpdateCmd(u, d, p).entry = d
  <1>1. FreeBlock \in AnyBlock BY DEF AnyBlock
  <1>2. Info(FALSE, FALSE, 0) \in BlockInfos BY DEF Info, BlockInfos
  <1> QED BY <1>1, <1>2 DEF UpdateCmd, UpdateCmds

LEMMA UpdateUidData ==
    ASSUME Inv, DataInv, NEW u \in Uids, NEW d \in Data \cup {NoData}, UPDATE_UID(u, d)
    PROVE  DataInv'
  <1> DEFINE c == UpdateCmd(u, d, 1)
  <1>1. /\ Serving(cache, io) /\ Matches(disk, MaxDataBlock)
        /\ UNCHANGED <<disk, info, uid_map>> /\ more' = FALSE
    BY CommandServed DEF UPDATE_UID
  <1>2. c \in UpdateCmds /\ c.uid = u /\ c.entry = d BY UpdateCmdIs
  <1>3. update_uid_cmd_iter("UPDATE_UID", c, cache, io) /\ Fits(u, d)
        /\ g_device_state' = "LOGGED_IN"
    BY DEF UPDATE_UID
  <1> HIDE DEF c
  <1>4. HandlerLeaves
    <2>1. "UPDATE_UID" \in Updates BY DEF Updates
    <2> QED BY <1>1, <1>2, <1>3, <2>1, UpdateLeaves
  <1> QED BY <1>1, <1>3, <1>4, DataKept

LEMMA UpdateOutcomeName ==
    ASSUME NEW name \in Updates, NEW c, NEW k, NEW i, update_uid_cmd_iter(name, c, k, i)
    PROVE  active_cmd' = name
  <1>1. ASSUME NEW d, update_uid_cmd_complete(name, d, k, i) PROVE active_cmd' = name
    BY <1>1 DEF update_uid_cmd_complete, Return
  <1>2. ASSUME NEW b, NEW x, NEW y, Prepared(name, c, b, x, y, k, i) PROVE active_cmd' = name
    BY <1>1, <1>2 DEF Prepared, Return
  <1>3. ASSUME NEW b, Load(name, b, c, k, i) PROVE active_cmd' = name
    BY <1>3 DEF Load, Return
  <1>4. ASSUME allocate_uid(name, c, k, i) PROVE active_cmd' = name
    BY <1>2, <1>3, <1>4 DEF allocate_uid
  <1> QED BY <1>2, <1>3, <1>4 DEF update_uid_cmd_iter, Return

LEMMA UpdateUidsData ==
    ASSUME Inv, DataInv, NEW u \in Uids, NEW d \in Data \cup {NoData},
           NEW remaining \in BOOLEAN, UPDATE_UIDS(u, d, remaining)
    PROVE  DataInv'
  <1> DEFINE p == IF active_cmd = "UPDATE_UIDS" /\ iterated THEN 0 ELSE 2
             c == UpdateCmd(u, d, p)
  <1>1. /\ Serving(cache, io) /\ Matches(disk, MaxDataBlock)
        /\ UNCHANGED <<disk, info, uid_map>>
    BY CommandServed DEF UPDATE_UIDS
  <1>2. c \in UpdateCmds /\ c.uid = u /\ c.entry = d
    <2>1. p \in 0 .. 2 OBVIOUS
    <2> HIDE DEF p
    <2> QED BY <2>1, UpdateCmdIs
  <1>3. update_uid_cmd_iter("UPDATE_UIDS", c, cache, io) /\ Fits(u, d)
        /\ g_device_state' = "LOGGED_IN"
    BY DEF UPDATE_UIDS
  <1> HIDE DEF c
  <1>4. "UPDATE_UIDS" \in Updates BY DEF Updates
  <1>5. HandlerLeaves BY <1>1, <1>2, <1>3, <1>4, UpdateLeaves
  <1>6. active_cmd' = "UPDATE_UIDS" BY <1>3, <1>4, UpdateOutcomeName
  <1> QED BY <1>1, <1>3, <1>5, <1>6, DataKept

LEMMA ReadUidData ==
    ASSUME Inv, DataInv, NEW u \in Uids, NEW masked \in BOOLEAN, READ_UID(u, masked)
    PROVE  DataInv'
  <1> DEFINE c == ReadCmd(u, masked)
  <1>1. /\ Serving(cache, io) /\ Matches(disk, MaxDataBlock)
        /\ UNCHANGED <<disk, info, uid_map>> /\ more' = FALSE
    BY CommandServed DEF READ_UID
  <1>2. c \in ReadCmds BY DEF ReadCmd, ReadCmds
  <1>3. read_uid_cmd_iter(c, cache, io) /\ g_device_state' = "LOGGED_IN"
    BY DEF READ_UID
  <1> HIDE DEF c
  <1>4. HandlerLeaves BY <1>1, <1>2, <1>3, ReadLeaves
  <1> QED BY <1>1, <1>3, <1>4, DataKept

LEMMA ReadAllUidsData ==
    ASSUME Inv, DataInv, NEW masked \in BOOLEAN, READ_ALL_UIDS(masked)
    PROVE  DataInv'
  <1> DEFINE n == Cardinality({u \in Uids : uid_map[u] # INVALID_BLOCK})
             c == ReadAllCmd(0, n)
  <1>1. /\ Serving(cache, io) /\ Matches(disk, MaxDataBlock)
        /\ UNCHANGED <<disk, info, uid_map>> /\ more' = FALSE
    BY CommandServed DEF READ_ALL_UIDS
  <1>2. \/ masked /\ read_all_uids_cmd_iter(c, cache, io)
        \/ ~masked /\ Return("READ_ALL_UIDS", "LONG", c, cache, io)
    BY DEF READ_ALL_UIDS
  <1>3. n = Cardinality(MappedFrom(0)) /\ n \in Nat
    <2>1. \A u \in Uids : u >= 0 BY DbAssumption DEF Uids
    <2>2. {u \in Uids : uid_map[u] # INVALID_BLOCK} = MappedFrom(0)
      BY <2>1 DEF MappedFrom
    <2>3. 0 \in Nat OBVIOUS
    <2>4. Cardinality(MappedFrom(0)) \in Nat BY <1>1, <2>3, MappedAre
    <2> QED BY <2>2, <2>4
  <1> HIDE DEF n
  <1>4. c \in ReadAllCmds /\ c.uid = 0 /\ c.remaining = n
    BY <1>3, DbAssumption DEF ReadAllCmd, ReadAllCmds
  <1> HIDE DEF c
  <1>5. \A w : Carries("READ_ALL_UIDS", w, c) /\ "READ_ALL_UIDS" \notin Idle
    BY <1>3, <1>4 DEF Carries, Updates, Idle
  <1>6. HandlerLeaves BY <1>1, <1>2, <1>3, <1>4, <1>5, ReadAllLeaves, Returns
  <1>7. g_device_state' = "LOGGED_IN" BY DEF READ_ALL_UIDS
  <1> QED BY <1>1, <1>6, <1>7, DataKept

LEMMA NothingUnderWay ==
    ASSUME ~UnderWay(io)
    PROVE  /\ io.now = NoOp /\ io.flash = NoOp
           /\ io.now.act = "NONE" /\ io.flash.act = "NONE"
  BY OpsDiffer DEF UnderWay

LEMMA StartupData ==
    ASSUME "overlap" \notin Events, Inv, DataInv, STARTUP PROVE DataInv'
  <1>1. io = IdleIo BY DEF STARTUP
  <1>2. io.now.act = "NONE" /\ ~UnderWay(io) /\ IoForm(io)
    BY <1>1 DEF IdleIo, NoOp, UnderWay, Inv, Forms
  <1>3. UNCHANGED disk BY DEF STARTUP, stored
  <1>4. Single(disk)' BY <1>3 DEF DataInv, Single, Holders
  <1>5. CASE root = "overwritten"
    <2> DEFINE a == Said("STARTUP", "UNKNOWN_DB_FORMAT")
    <2>1. finish_command_multi("STARTUP", FALSE, a, NoCmd, cache, io)
          /\ UNCHANGED <<info, uid_map>> /\ g_device_state' = "UNINITIALIZED"
      BY <1>5 DEF STARTUP, tables
    <2>2. a.code = "UNKNOWN_DB_FORMAT" /\ a.to = "STARTUP" BY ToldIs
    <2> HIDE DEF a
    <2>3. active_cmd' = "NONE" /\ waiting' = "NONE" /\ reply' = a /\ io' = io
      BY <2>1 DEF finish_command_multi
    <2>4. Writes(io, cmd)' /\ Writing' = {} /\ ~UnderWay(io)'
      BY <1>2, <2>3, NothingUnderWay DEF Writes, Writing, UnderWay
    <2>5. KnownTrue' /\ RemainingExact'
      BY <2>2, <2>3 DEF KnownTrue, RemainingExact
    <2> QED BY <1>4, <2>1, <2>2, <2>3, <2>4, <2>5
        DEF DataInv, Idle, Open, Scanning, Sending
  <1>6. CASE root # "overwritten"
    <2>1. ScanStart(io) BY <1>2, <1>6 DEF STARTUP
    <2>2. /\ uid_map' = NoMap /\ scan_num' = 1 /\ UNCHANGED info
          /\ active_cmd' = "STARTUP" /\ waiting' = "NONE"
          /\ reply' = Pending("STARTUP")
          /\ io' = Queued(io, Read(1, "SCAN"))
      BY <2>1 DEF ScanStart, Return, ScanRead
    <2>3. io' = [io EXCEPT !.now = Read(1, "SCAN")]
      BY <1>2, <2>2, NothingUnderWay DEF Queued
    <2>4. io'.now = Read(1, "SCAN") /\ io'.flash = NoOp
      BY <1>2, <2>3, OpsDiffer, IoUpdated, NothingUnderWay
    <2>5. Writes(io, cmd)' /\ Writing' = {}
      BY <2>4, OpsDiffer DEF Writes, Writing
    <2>6. reply'.code = "WAITING" /\ reply'.to = "STARTUP" BY <2>2 DEF Pending
    <2>7. KnownTrue' /\ RemainingExact'
      BY <2>6 DEF KnownTrue, RemainingExact
    <2>8. Scanning'
      <3>1. Matches(disk, 0)'
        <4>1. \A b \in Blocks : ~(b <= 0) /\ b > 0 BY BlockNumbers
        <4>2. \A u \in Uids : Holders(disk', u) \subseteq Blocks BY DEF Holders
        <4>3. \A u \in Uids : uid_map'[u] = INVALID_BLOCK BY <2>2 DEF NoMap
        <4> QED BY <4>1, <4>2, <4>3 DEF Matches, Holders
      <3>2. 1 \in Blocks BY DbAssumption DEF Blocks
      <3>3. scan_num' - 1 = 0 BY <2>2
      <3> QED BY <2>2, <2>4, <2>6, <3>1, <3>2, <3>3 DEF Scanning
    <2>9. (info = [b \in Blocks |-> info[b]])' /\ (uid_map = [u \in Uids |-> uid_map[u]])'
      BY <2>2 DEF DataInv, NoMap
    <2>10. Carries(active_cmd, waiting, cmd)'
      BY <2>2 DEF Carries, Updates
    <2> QED BY <1>4, <2>2, <2>5, <2>6, <2>7, <2>8, <2>9, <2>10
        DEF DataInv, Idle, Open, Sending
  <1> QED BY <1>5, <1>6

(* One more block scanned. *)
LEMMA ScannedMore ==
    ASSUME Single(disk), NEW n \in Blocks, Matches(disk, n - 1), UNCHANGED disk,
           info = [b \in Blocks |-> info[b]], uid_map = [u \in Uids |-> uid_map[u]],
           info' = [info EXCEPT ![n] = ScanInfo(disk[n])],
           uid_map' = [u \in Uids |->
                         IF disk[n].whole /\ \E e \in disk[n].uid_tbl : e.uid = u
                           THEN n ELSE uid_map[u]]
    PROVE  /\ Matches(disk, n)'
           /\ (info = [b \in Blocks |-> info[b]])'
           /\ (uid_map = [u \in Uids |-> uid_map[u]])'
  <1>1. ASSUME NEW b \in Blocks, b <= n PROVE info'[b] = ScanInfo(disk[b])
    <2>1. CASE b = n BY <2>1
    <2>2. CASE b # n
      <3>1. b <= n - 1 BY <1>1, <2>2, BlockNumbers
      <3>2. info[b] = ScanInfo(disk[b]) BY <3>1 DEF Matches
      <3> QED BY <2>2, <3>2
    <2> QED BY <2>1, <2>2
  <1>2. ASSUME NEW u \in Uids
        PROVE  \/ uid_map'[u] = INVALID_BLOCK /\ \A b \in Holders(disk, u) : b > n
               \/ uid_map'[u] \in Holders(disk, u) /\ uid_map'[u] <= n
    <2>1. CASE n \in Holders(disk, u)
      <3>1. uid_map'[u] = n BY <2>1 DEF Holders
      <3> QED BY <2>1, <3>1, BlockNumbers
    <2>2. CASE n \notin Holders(disk, u)
      <3>1. uid_map'[u] = uid_map[u] BY <2>2 DEF Holders
      <3>2. ASSUME NEW b \in Holders(disk, u), b > n - 1 PROVE b > n
        <4>1. b \in Blocks /\ b # n BY <2>2 DEF Holders
        <4> QED BY <3>2, <4>1, BlockNumbers
      <3>3. ASSUME uid_map[u] \in Holders(disk, u), uid_map[u] <= n - 1
            PROVE  uid_map[u] <= n
        <4>1. uid_map[u] \in Nat BY <3>3, BlockNumbers DEF Holders
        <4> QED BY <3>3, <4>1, BlockNumbers
      <3> QED BY <3>1, <3>2, <3>3 DEF Matches
    <2> QED BY <2>1, <2>2
  <1>3. Matches(disk, n)' BY <1>1, <1>2 DEF Matches, Holders
  <1> QED BY <1>3

LEMMA ScanStep ==
    ASSUME Inv, DataInv, active_cmd = "STARTUP", reply.code # "HELD",
           UNCHANGED <<disk, more>>, NEW k, NEW i, IoForm(i), ~UnderWay(i),
           db3_startup_scan_resume(disk[scan_num], k, i)
    PROVE  DataInv'
  <1>0. PICK n \in Blocks : n = scan_num BY DEF DataInv, Scanning
  <1>1. Matches(disk, n - 1) BY <1>0 DEF DataInv, Scanning
  <1>2. /\ Matches(disk, n)'
        /\ (info = [b \in Blocks |-> info[b]])' /\ (uid_map = [u \in Uids |-> uid_map[u]])'
    BY <1>0, <1>1, ScannedMore DEF DataInv, db3_startup_scan_resume
  <1>3. Single(disk)' BY DEF DataInv, Single, Holders
  <1>4. i.now = NoOp /\ i.flash = NoOp /\ i.now.act = "NONE" /\ i.flash.act = "NONE"
    BY OpsDiffer DEF UnderWay
  <1>5. CASE n = MaxDataBlock
    <2> DEFINE a == Said("STARTUP", "OKAY")
    <2>1. finish_command_multi("STARTUP", FALSE, a, NoCmd, k, i)
          /\ g_device_state' = "LOGGED_OUT"
      BY <1>0, <1>5 DEF db3_startup_scan_resume
    <2>2. a.code = "OKAY" /\ a.to = "STARTUP" /\ a.uid = 0 BY ToldIs
    <2> HIDE DEF a
    <2>3. active_cmd' = "NONE" /\ waiting' = "NONE" /\ reply' = a /\ io' = i
      BY <2>1 DEF finish_command_multi
    <2>4. Writes(io, cmd)' /\ Writing' = {} /\ ~UnderWay(io)'
      BY <1>4, <2>3 DEF Writes, Writing, UnderWay
    <2>5. KnownTrue' /\ RemainingExact'
      BY <2>2, <2>3 DEF KnownTrue, RemainingExact
    <2>6. Matches(disk, MaxDataBlock)' BY <1>2, <1>5
    <2> QED BY <1>2, <1>3, <2>1, <2>2, <2>3, <2>4, <2>5, <2>6
        DEF DataInv, Idle, Scanning, Sending
  <1>6. CASE n # MaxDataBlock
    <2>1. Return("STARTUP", "NONE", NoCmd, k, ScanRead(i, n + 1)) /\ scan_num' = n + 1
      BY <1>0, <1>6 DEF db3_startup_scan_resume
    <2>2. /\ active_cmd' = "STARTUP" /\ waiting' = "NONE"
          /\ reply' = Pending("STARTUP")
          /\ io' = [i EXCEPT !.now = Read(n + 1, "SCAN")]
      BY <1>4, <2>1 DEF Return, ScanRead, Queued
    <2>3. io'.now = Read(n + 1, "SCAN") /\ io'.flash = NoOp
      BY <1>4, <2>2, OpsDiffer, IoUpdated
    <2>4. Writes(io, cmd)' /\ Writing' = {}
      BY <2>3, OpsDiffer DEF Writes, Writing
    <2>5. reply'.code = "WAITING" /\ reply'.to = "STARTUP" BY <2>2 DEF Pending
    <2>6. KnownTrue' /\ RemainingExact'
      BY <2>5 DEF KnownTrue, RemainingExact
    <2>7. Scanning'
      <3>1. n + 1 \in Blocks /\ (n + 1) - 1 = n
        BY <1>1, <1>6, DbAssumption DEF Blocks
      <3>2. Matches(disk, scan_num - 1)' BY <1>2, <2>1, <3>1 DEF Matches
      <3> QED BY <2>1, <2>3, <2>5, <3>1, <3>2 DEF Scanning
    <2>8. Carries(active_cmd, waiting, cmd)'
      BY <2>2 DEF Carries, Updates
    <2> QED BY <1>2, <1>3, <2>2, <2>4, <2>5, <2>6, <2>7, <2>8
        DEF DataInv, Idle, Open, Sending
  <1> QED BY <1>5, <1>6

LEMMA ReadBlockData ==
    ASSUME Inv, DataInv, read_block_complete PROVE DataInv'
  <1> DEFINE k == Filled  i == Done(io)
  <1>1. Reading /\ UNCHANGED <<disk, more>>
    BY DEF read_block_complete, stored, command
  <1>2. io.now.act = "READ" /\ io.now # NoOp BY <1>1, OpsDiffer DEF Reading
  <1>3. IoForm(i) /\ ~UnderWay(i) BY <1>2, DoneIsQuiet
  <1>4. Settled(k, i, disk) BY <1>1, FilledSettles
  <1>5. UnderWay(io) /\ reply.code # "HELD" BY <1>2 DEF UnderWay, DataInv
  <1>6. active_cmd \notin Idle => reply.code = "WAITING" /\ g_device_state \in {"LOGGED_OUT", "LOGGED_IN"}
    BY <1>5 DEF Inv, Attended, DataInv
  <1>7. active_cmd \notin Idle => Serving(k, i) /\ Matches(disk, MaxDataBlock)
    BY <1>4, <1>6 DEF DataInv, Open, Serving, Idle
  <1>8. CASE active_cmd \in Updates /\ update_uid_cmd_iter(active_cmd, cmd, k, i)
             /\ UNCHANGED <<tables, g_device_state>>
    <2>1. active_cmd \notin Idle BY <1>8 DEF Updates, Idle
    <2>2. cmd \in UpdateCmds /\ Fits(cmd.uid, cmd.entry)
      BY <1>6, <1>8, <2>1 DEF DataInv, Carries
    <2>3. HandlerLeaves BY <1>7, <1>8, <2>1, <2>2, UpdateLeaves
    <2>4. active_cmd' = active_cmd BY <1>8, UpdateOutcomeName
    <2> QED BY <1>1, <1>6, <1>7, <1>8, <2>1, <2>3, <2>4, DataKept DEF tables, Updates
  <1>9. CASE active_cmd = "READ_UID" /\ read_uid_cmd_iter(cmd, k, i)
             /\ UNCHANGED <<tables, g_device_state>>
    <2>1. active_cmd \notin Idle BY <1>9 DEF Idle
    <2>2. cmd \in ReadCmds BY <1>6, <1>9, <2>1 DEF DataInv, Carries
    <2>3. HandlerLeaves BY <1>7, <1>9, <2>1, <2>2, ReadLeaves
    <2>4. active_cmd' # "READ_ALL_UIDS"
      BY <1>9 DEF read_uid_cmd_iter, read_uid_cmd_complete, finish_command_multi,
                  Return, Load
    <2> QED BY <1>1, <1>6, <1>7, <1>9, <2>1, <2>3, <2>4, DataKept DEF tables
  <1>10. CASE active_cmd = "READ_ALL_UIDS" /\ read_all_uids_cmd_iter(cmd, k, i)
              /\ UNCHANGED <<tables, g_device_state>>
    <2>1. active_cmd \notin Idle BY <1>10 DEF Idle
    <2>2. /\ cmd \in ReadAllCmds /\ cmd.remaining = Cardinality(MappedFrom(cmd.uid))
          /\ cmd.uid = 0 \/ cmd.remaining # 0
      BY <1>6, <1>10, <2>1 DEF DataInv, Carries
    <2>3. HandlerLeaves BY <1>7, <1>10, <2>1, <2>2, ReadAllLeaves
    <2>4. ~more BY <1>5, <1>10 DEF DataInv
    <2> QED BY <1>1, <1>6, <1>7, <1>10, <2>1, <2>3, <2>4, DataKept DEF tables
  <1>11. ASSUME active_cmd = "STARTUP", NEW block \in Scanned,
                db3_startup_scan_resume(block, k, i)
         PROVE  DataInv'
    <2>1. io.now = Read(scan_num, "SCAN") BY <1>5, <1>11 DEF DataInv, Scanning
    <2>2. block = disk[scan_num] BY <1>11, <2>1, OpsDiffer DEF Scanned
    <2> QED BY <1>1, <1>3, <1>5, <1>11, <2>2, ScanStep
  <1>12. CASE /\ active_cmd # "STARTUP" /\ io' = i
              /\ UNCHANGED <<tables, g_device_state, active_cmd, waiting, cmd, reply>>
    <2>1. i.now = NoOp /\ i.flash = NoOp /\ i.now.act = "NONE" /\ i.flash.act = "NONE"
      BY <1>3, OpsDiffer DEF UnderWay
    <2>2. Writes(io, cmd)' /\ Writing' = {} /\ ~UnderWay(io)'
      BY <1>12, <2>1 DEF Writes, Writing, UnderWay
    <2>3. UNCHANGED <<disk, info, uid_map, more, reply, waiting, active_cmd, cmd,
                      g_device_state>>
      BY <1>1, <1>12 DEF tables
    <2> HIDE <1>12
    <2>4. Carries(active_cmd, waiting, cmd) => Carries(active_cmd, waiting, cmd)'
      BY <2>3 DEF Carries, Fits, HasRoom, IsFree, Ready, Holders, MappedFrom
    <2>5. Sending => Sending' BY <2>3 DEF Sending, MappedFrom, Unanswered
    <2>6. KnownTrue => KnownTrue'
      <3>1. Contents(disk)' = Contents(disk) BY <2>3 DEF Contents, Holders
      <3> QED BY <2>3, <3>1 DEF KnownTrue
    <2>7. RemainingExact => RemainingExact'
      <3>1. Contents(disk)' = Contents(disk) BY <2>3 DEF Contents, Holders
      <3> QED BY <2>3, <3>1 DEF RemainingExact
    <2>8. Single(disk) => Single(disk)' BY <2>3 DEF Single, Holders
    <2>9. Matches(disk, MaxDataBlock) => Matches(disk, MaxDataBlock)'
      BY <2>3 DEF Matches, Holders
    <2>10. active_cmd # "STARTUP" BY <1>12
    <2> QED BY <2>2, <2>3, <2>4, <2>5, <2>6, <2>7, <2>8, <2>9, <2>10
       DEF DataInv, Open, Scanning
  <1> QED BY <1>8, <1>9, <1>10, <1>11, <1>12 DEF read_block_complete, Filled

(* What a write that is under way is, and what its completion leaves. *)
LEMMA WriteIs ==
    ASSUME Inv, DataInv, NEW w \in Writing
    PROVE  /\ cmd \in UpdateCmds /\ Ready(cmd) /\ active_cmd # "STARTUP"
           /\ io[w] = Write(cmd.block_num, cmd.block)
           /\ w = "now" => cmd.block_num \in Blocks
           /\ w # "now" => cmd.block_num = INVALID_BLOCK
           /\ UnderWay(io) /\ IoForm(Left(w)) /\ ~UnderWay(Left(w))
  <1>1. w \in {"now", "flash"} /\ io[w].act = "WRITE" BY DEF Writing
  <1>2. active_cmd # "STARTUP"
    <2>1. io.flash.act = "WRITE" => io.flash # NoOp BY OpsDiffer
    <2>2. reply.code # "HELD"
      BY <1>1, <2>1, OpsDiffer DEF DataInv, UnderWay
    <2>3. active_cmd = "STARTUP" => io.now.act = "READ" /\ io.now # NoOp
      BY <2>2, OpsDiffer DEF DataInv, Scanning
    <2> QED BY <1>1, <2>1, <2>3 DEF Inv, OneOperation
  <1>3. CASE w = "now"
    <2>1. io.now.act = "WRITE" /\ io.now # NoOp BY <1>1, <1>3, OpsDiffer
    <2>2. IoForm(Left(w)) /\ ~UnderWay(Left(w)) BY <1>3, <2>1, DoneIsQuiet DEF Left
    <2> QED BY <1>2, <1>3, <2>1, <2>2 DEF DataInv, Writes, UnderWay
  <1>4. CASE w = "flash"
    <2>1. io.flash # NoOp BY <1>1, <1>4, OpsDiffer
    <2>2. io.now = NoOp BY <2>1 DEF Inv, OneOperation
    <2>3. IoForm(Left(w)) /\ ~UnderWay(Left(w))
      BY <1>4, <2>2, FlashUpdated DEF Inv, Forms, UnderWay, Left
    <2> QED BY <1>2, <1>4, <2>1, <2>3 DEF DataInv, Writes, UnderWay
  <1> QED BY <1>1, <1>3, <1>4

(* After the tables have followed the write, they match the disk again. *)
LEMMA MatchedAgain ==
    ASSUME Single(disk), Matches(disk, MaxDataBlock), NEW c \in UpdateCmds, Ready(c),
           info = [b \in Blocks |-> info[b]], uid_map = [u \in Uids |-> uid_map[u]],
           NEW d, d = [b \in Blocks |-> IF b = c.block_num THEN c.block ELSE disk[b]],
           info' = [b \in Blocks |-> IF b = c.block_num THEN c.blk_info ELSE info[b]],
           uid_map' = Mapped(c)
    PROVE  /\ \A b \in Blocks : info'[b] = ScanInfo(d[b])
           /\ \A u \in Uids :
                 \/ uid_map'[u] = INVALID_BLOCK /\ Holders(d, u) = {}
                 \/ uid_map'[u] \in Holders(d, u)
           /\ (info = [b \in Blocks |-> info[b]])'
           /\ (uid_map = [u \in Uids |-> uid_map[u]])'
  <1>1. c.uid \in Uids BY DEF UpdateCmds
  <1>2. uid_map' = [uid_map EXCEPT ![c.uid] = IF c.entry = NoData THEN INVALID_BLOCK
                                                                 ELSE c.block_num]
    BY DEF Mapped
  <1>3. ASSUME NEW b \in Blocks PROVE info'[b] = ScanInfo(d[b])
    <2>1. CASE b = c.block_num
      <3>1. c.blk_info = ScanInfo(c.block) BY <1>3, <2>1, BlockNumbers DEF Ready
      <3> QED BY <2>1, <3>1
    <2>2. CASE b # c.block_num
      <3>1. info[b] = ScanInfo(disk[b]) BY BlockNumbers DEF Matches
      <3> QED BY <2>2, <3>1
    <2> QED BY <2>1, <2>2
  <1>4. ASSUME NEW u \in Uids
        PROVE  \/ uid_map'[u] = INVALID_BLOCK /\ Holders(d, u) = {}
               \/ uid_map'[u] \in Holders(d, u)
    <2>1. c.block \in {c.block, TornBlock} OBVIOUS
    <2>2. CASE u # c.uid
      <3>1. uid_map'[u] = uid_map[u] BY <1>2, <2>2
      <3>2. Holders(d, u) = Holders(disk, u) BY <2>1, <2>2, WrittenIs
      <3>3. \A b \in Holders(disk, u) : ~(b > MaxDataBlock)
        BY BlockNumbers DEF Holders
      <3> QED BY <3>1, <3>2, <3>3 DEF Matches
    <2>3. CASE u = c.uid
      <3>1. uid_map'[u] = IF c.entry = NoData THEN INVALID_BLOCK ELSE c.block_num
        BY <1>1, <1>2, <2>3
      <3>2. c.entry = NoData \/ c.block_num = INVALID_BLOCK => Holders(d, u) = {}
        BY <2>1, <2>3, WrittenIs
      <3>3. c.entry # NoData /\ c.block_num # INVALID_BLOCK
               => Holders(d, u) = {c.block_num}
        BY <2>1, <2>3, WrittenIs DEF UpdateCmds
      <3> QED BY <3>1, <3>2, <3>3
    <2> QED BY <2>2, <2>3
  <1>5. uid_map' = [u \in Uids |-> uid_map'[u]] BY <1>2
  <1> QED BY <1>3, <1>4, <1>5

(* What the completion of a write does to the disk, whoever is active by then.  *)
LEMMA WriteDone ==
    ASSUME Inv, DataInv, write_block_complete
    PROVE  /\ cmd \in UpdateCmds /\ Ready(cmd) /\ active_cmd # "STARTUP"
           /\ UnderWay(io) /\ Writing # {}
           /\ disk' = [b \in Blocks |-> IF b = cmd.block_num THEN cmd.block ELSE disk[b]]
           /\ \E i :
                 /\ ~UnderWay(i)
                 /\ active_cmd \in Updates => update_uid_cmd_write_finished(i)
                 /\ active_cmd \notin Updates =>
                       /\ io' = i
                       /\ UNCHANGED <<tables, active_cmd, waiting, cmd, cache, reply>>
  <1>1. PICK w \in Writing :
          /\ IF w = "now"
               THEN disk' = [disk EXCEPT ![io[w].idx] = io[w].data]
               ELSE UNCHANGED disk
          /\ active_cmd \in Updates => update_uid_cmd_write_finished(Left(w))
          /\ active_cmd \notin Updates /\ active_cmd # "STARTUP"
                => /\ io' = Left(w)
                   /\ UNCHANGED <<tables, active_cmd, waiting, cmd, cache, reply>>
    BY DEF write_block_complete, WriteFinished, Left, Updates
  <1>2. /\ cmd \in UpdateCmds /\ Ready(cmd) /\ active_cmd # "STARTUP"
        /\ io[w] = Write(cmd.block_num, cmd.block)
        /\ w = "now" => cmd.block_num \in Blocks
        /\ w # "now" => cmd.block_num = INVALID_BLOCK
        /\ UnderWay(io) /\ ~UnderWay(Left(w))
    BY WriteIs
  <1>3. disk = [b \in Blocks |-> disk[b]] BY DEF Inv, Forms
  <1>4. disk' = [b \in Blocks |-> IF b = cmd.block_num THEN cmd.block ELSE disk[b]]
    <2>1. CASE w = "now"
      <3>1. io[w].idx = cmd.block_num /\ io[w].data = cmd.block BY <1>2 DEF Write
      <3>2. disk' = [disk EXCEPT ![cmd.block_num] = cmd.block] BY <1>1, <2>1, <3>1
      <3> QED BY <1>3, <3>2
    <2>2. CASE w # "now"
      <3>1. \A b \in Blocks : b # cmd.block_num BY <1>2, <2>2, BlockNumbers
      <3> QED BY <1>1, <1>3, <2>2, <3>1
    <2> QED BY <2>1, <2>2
  <1> QED BY <1>1, <1>2, <1>4

LEMMA WriteBlockData ==
    ASSUME Inv, DataInv, write_block_complete PROVE DataInv'
  <1> DEFINE c == cmd
             d == [b \in Blocks |-> IF b = c.block_num THEN c.block ELSE disk[b]]
  <1>1. PICK i :
          /\ ~UnderWay(i)
          /\ active_cmd \in Updates => update_uid_cmd_write_finished(i)
          /\ active_cmd \notin Updates =>
                /\ io' = i
                /\ UNCHANGED <<tables, active_cmd, waiting, cmd, cache, reply>>
    BY WriteDone
  <1>2. /\ cmd \in UpdateCmds /\ Ready(cmd) /\ active_cmd # "STARTUP"
        /\ UnderWay(io) /\ Writing # {}
    BY WriteDone
  <1>3. Single(disk) BY DEF DataInv
  <1>4. disk' = d BY WriteDone
  <1>5. Single(d) BY <1>2, <1>3, WrittenIs
  <1>6. UNCHANGED <<g_device_state, more>> BY DEF write_block_complete, command
  <1>7. i.now = NoOp /\ i.flash = NoOp /\ i.now.act = "NONE" /\ i.flash.act = "NONE"
    BY <1>1, OpsDiffer DEF UnderWay
  <1> HIDE DEF c, d
  <1>8. Single(disk)' BY <1>4, <1>5 DEF Single, Holders
  <1>9. CASE active_cmd \in Updates
    <2> DEFINE a == Told(active_cmd, "OKAY", c.uid, c.entry, 0)
    <2>1. /\ info' = [b \in Blocks |-> IF b = c.block_num THEN c.blk_info ELSE info[b]]
          /\ uid_map' = Mapped(c)
          /\ finish_command_multi(active_cmd, more, a, c, cache, i)
      BY <1>1, <1>9 DEF update_uid_cmd_write_finished, c
    <2>2. a.to = active_cmd /\ a.code = "OKAY" /\ a.uid = c.uid /\ a.data = c.entry
      BY ToldIs
    <2> HIDE DEF a
    <2>3. /\ active_cmd' \in Updates \cup {"NONE"} /\ waiting' = "NONE" /\ reply' = a
          /\ io' = i
      BY <1>9, <2>1 DEF finish_command_multi
    <2>4. g_device_state \in {"LOGGED_OUT", "LOGGED_IN"} /\ Matches(disk, MaxDataBlock)
      BY <1>2, <1>9 DEF DataInv, Open, Idle, Updates
    <2>5. /\ \A b \in Blocks : info'[b] = ScanInfo(d[b])
          /\ \A u \in Uids :
                \/ uid_map'[u] = INVALID_BLOCK /\ Holders(d, u) = {}
                \/ uid_map'[u] \in Holders(d, u)
          /\ (info = [b \in Blocks |-> info[b]])'
          /\ (uid_map = [u \in Uids |-> uid_map[u]])'
      BY <1>2, <2>1, <2>4, MatchedAgain DEF DataInv, c, d
    <2>6. Matches(disk, MaxDataBlock)'
      <3>1. \A u \in Uids : \A b \in Holders(d, u) : b <= MaxDataBlock
        BY BlockNumbers DEF Holders
      <3>2. \A u \in Uids : Holders(disk, u)' = Holders(d, u)
        BY <1>4 DEF Holders
      <3> QED BY <1>4, <2>5, <3>1, <3>2 DEF Matches, Holders
    <2>7. "full" \notin Events => KnownTrue'
      <3>0. Contents(disk)' = Contents(d) BY <1>4 DEF Contents, Holders
      <3> SUFFICES ASSUME "full" \notin Events PROVE Contents(d)[c.uid] = c.entry
        BY <2>2, <2>3, <3>0 DEF KnownTrue
      <3>1. c.block_num \in Blocks /\ c.uid \in Uids /\ c.block # TornBlock
        <4>1. c.block_num \in Blocks
              /\ (c.block = IF c.entry = NoData THEN FreeBlock ELSE Holding(c.uid, c.entry))
          BY <1>2 DEF Ready, c
        <4>2. c.uid \in Uids /\ c.entry \in Data \cup {NoData} BY <1>2 DEF UpdateCmds, c
        <4>3. FreeBlock # TornBlock BY DEF FreeBlock, TornBlock
        <4> QED BY <4>1, <4>2, <4>3, HoldingIs
      <3>2. Contents(d) = [Contents(disk) EXCEPT ![c.uid] =
                              IF c.block = TornBlock THEN NoData ELSE c.entry]
        BY <1>2, <1>3, <3>1, WrittenContents DEF c, d
      <3>3. Contents(disk) = [u \in Uids |-> Contents(disk)[u]] BY DEF Contents
      <3> QED BY <3>1, <3>2, <3>3
    <2>8. RemainingExact' BY <1>9, <2>2, <2>3 DEF RemainingExact, Updates
    <2>9. Writes(io, cmd)' /\ Writing' = {} /\ ~UnderWay(io)'
      BY <1>7, <2>3 DEF Writes, Writing, UnderWay
    <2>10. reply'.code = "OKAY" BY <2>2, <2>3
    <2>11. active_cmd' # "STARTUP" /\ active_cmd' # "READ_ALL_UIDS" BY <2>3 DEF Updates
    <2> QED BY <1>6, <1>8, <2>3, <2>4, <2>5, <2>6, <2>7, <2>8, <2>9, <2>10, <2>11
        DEF DataInv, Idle, Scanning, Sending
  <1>10. CASE active_cmd \notin Updates
    <2>1. io' = i /\ UNCHANGED <<info, uid_map, active_cmd, waiting, cmd, reply>>
      BY <1>1, <1>2, <1>10 DEF tables
    <2>2. g_device_state = "DISCONNECTED" /\ active_cmd = "NONE"
      BY <1>2, <1>10 DEF DataInv, Inv, NothingBeforeStartup
    <2>3. reply.code \in {"WAITING", "NONE"} BY <1>2 DEF DataInv
    <2>4. Writes(io, cmd)' /\ Writing' = {} /\ ~UnderWay(io)'
      BY <1>7, <2>1 DEF Writes, Writing, UnderWay
    <2>5. KnownTrue' /\ RemainingExact'
      BY <2>1, <2>3 DEF KnownTrue, RemainingExact
    <2>6. Carries(active_cmd, waiting, cmd)' BY <2>1, <2>2 DEF Carries, Updates
    <2>7. (info = [b \in Blocks |-> info[b]])' /\ (uid_map = [u \in Uids |-> uid_map[u]])'
      BY <2>1 DEF DataInv
    <2>8. waiting' # "NONE" => FALSE BY <2>1, <2>2 DEF DataInv, Idle
    <2> QED BY <1>6, <1>8, <2>1, <2>2, <2>4, <2>5, <2>6, <2>7, <2>8
        DEF DataInv, Idle, Open, Scanning, Sending
  <1> QED BY <1>9, <1>10

LEMMA CmdPacketSentData ==
    ASSUME Inv, DataInv, cmd_packet_sent PROVE DataInv'
  <1> DEFINE c == [cmd EXCEPT !.uid = @ + 1]
  <1>1. /\ active_cmd = "READ_ALL_UIDS" /\ reply.code = "OKAY"
        /\ read_all_uids_cmd_iter(c, cache, io)
        /\ UNCHANGED <<disk, info, uid_map, g_device_state, more>>
    BY DEF cmd_packet_sent, stored, tables, command
  <1>2. active_cmd \notin Idle /\ active_cmd # "STARTUP" BY <1>1 DEF Idle
  <1>3. g_device_state \in {"LOGGED_OUT", "LOGGED_IN"} /\ ~UnderWay(io) /\ ~more
    BY <1>1, <1>2 DEF DataInv
  <1>4. Serving(cache, io) /\ Matches(disk, MaxDataBlock)
    BY <1>2, <1>3, ServingNow DEF Serving
  <1>5. /\ cmd \in ReadAllCmds /\ cmd.remaining # 0
        /\ cmd.remaining = Cardinality(MappedFrom(cmd.uid + 1))
    BY <1>1 DEF DataInv, Sending, Unanswered
  <1>6. cmd.uid \in Nat /\ cmd.remaining \in Nat BY <1>5 DEF ReadAllCmds
  <1>7. cmd.uid + 1 \in 0 .. MaxUid
    <2>1. PICK u : u \in MappedFrom(cmd.uid + 1)
      <3>1. MappedFrom(cmd.uid + 1) # {} BY <1>5, FS_EmptySet
      <3> QED BY <3>1
    <2>2. u \in Uids /\ u >= cmd.uid + 1 BY <2>1 DEF MappedFrom
    <2> QED BY <1>6, <2>2, DbAssumption DEF Uids
  <1>8. c \in ReadAllCmds /\ c.uid = cmd.uid + 1 /\ c.remaining = cmd.remaining
    BY <1>5, <1>7 DEF ReadAllCmds
  <1> HIDE DEF c
  <1>9. HandlerLeaves BY <1>1, <1>4, <1>5, <1>8, ReadAllLeaves
  <1> QED BY <1>1, <1>3, <1>4, <1>9, DataKept

(* What the button finds, and the ends of the wait for it. *)
LEMMA WaitingForButton ==
    ASSUME Inv, DataInv, waiting # "NONE"
    PROVE  /\ Serving(cache, io) /\ Matches(disk, MaxDataBlock) /\ ~UnderWay(io)
           /\ active_cmd \notin Idle /\ reply.code = "WAITING"
           /\ Carries(active_cmd, waiting, cmd)
           /\ g_device_state \in {"LOGGED_OUT", "LOGGED_IN"}
           /\ active_cmd = "READ_ALL_UIDS" => ~more
  <1>1. ~UnderWay(io) BY DEF Inv, Attended
  <1>2. active_cmd \notin Idle /\ reply.code = "WAITING" BY DEF DataInv
  <1>3. active_cmd # "STARTUP" BY <1>2 DEF Idle
  <1>4. /\ g_device_state \in {"LOGGED_OUT", "LOGGED_IN"}
        /\ Carries(active_cmd, waiting, cmd)
        /\ active_cmd = "READ_ALL_UIDS" => ~more
    BY <1>2 DEF DataInv
  <1> QED BY <1>1, <1>2, <1>3, <1>4, ServingNow DEF Serving

LEMMA ButtonPressData ==
    ASSUME Inv, DataInv, button_press PROVE DataInv'
  <1>1. waiting # "NONE" /\ UNCHANGED <<disk, info, uid_map, more>>
    BY DEF button_press, stored, tables, command
  <1>2. /\ Serving(cache, io) /\ Matches(disk, MaxDataBlock) /\ ~UnderWay(io)
        /\ Carries(active_cmd, waiting, cmd)
        /\ g_device_state \in {"LOGGED_OUT", "LOGGED_IN"}
    BY <1>1, WaitingForButton
  <1>3. ASSUME NEW ok \in BOOLEAN,
               g_device_state' = IF ok THEN "LOGGED_IN" ELSE g_device_state,
               finish_command_multi("LOGIN", FALSE,
                   Said("LOGIN", IF ok THEN "OKAY" ELSE "BAD_PASSWORD"),
                   cmd, cache, io)
        PROVE  DataInv'
    <2> DEFINE a == Said("LOGIN", IF ok THEN "OKAY" ELSE "BAD_PASSWORD")
    <2>1. a.to = "LOGIN" /\ a.code # "WAITING" /\ a.uid = 0 BY ToldIs
    <2>2. finish_command_multi("LOGIN", FALSE, a, cmd, cache, io) BY <1>3
    <2>3. g_device_state' \in {"LOGGED_OUT", "LOGGED_IN"} BY <1>2, <1>3
    <2> HIDE DEF a
    <2>4. HandlerLeaves
      <3>1. Truthful(a) BY <2>1 DEF Truthful
      <3> QED BY <1>2, <2>1, <2>2, <3>1, Finishes
    <2>5. active_cmd' = "NONE" BY <2>2 DEF finish_command_multi
    <2> QED BY <1>1, <1>2, <2>3, <2>4, <2>5, DataKept
  <1>4. CASE /\ active_cmd = "UPDATE_UID" /\ UNCHANGED g_device_state
             /\ update_uid_cmd_complete("UPDATE_UID", cmd, cache, io)
    <2>1. "UPDATE_UID" \in Updates BY DEF Updates
    <2>2. cmd \in UpdateCmds /\ Fits(cmd.uid, cmd.entry) /\ Ready(cmd)
      BY <1>1, <1>2, <1>4, <2>1 DEF Carries
    <2>3. HandlerLeaves BY <1>2, <1>4, <2>1, <2>2, Completes
    <2>4. active_cmd' = "UPDATE_UID" BY <1>4 DEF update_uid_cmd_complete, Return
    <2> QED BY <1>1, <1>2, <1>4, <2>3, <2>4, DataKept
  <1>5. CASE /\ active_cmd = "READ_UID" /\ UNCHANGED g_device_state
             /\ read_uid_cmd_complete(cmd, cache, io)
    <2>1. cmd \in ReadCmds /\ cmd.block_num = uid_map[cmd.uid] /\ cmd.block_num \in Blocks
      BY <1>1, <1>2, <1>5 DEF Carries
    <2>2. HandlerLeaves BY <1>2, <1>5, <2>1, ReadCompleteLeaves
    <2>3. active_cmd' \in {"NONE", "READ_UID"}
      BY <1>5 DEF read_uid_cmd_complete, finish_command_multi, Load, Return
    <2> QED BY <1>1, <1>2, <1>5, <2>2, <2>3, DataKept
  <1> QED BY <1>3, <1>4, <1>5 DEF button_press

LEMMA LongButtonPressData ==
    ASSUME Inv, DataInv, long_button_press PROVE DataInv'
  <1>1. waiting # "NONE" /\ UNCHANGED <<disk, info, uid_map, more, g_device_state>>
    BY DEF long_button_press, stored, tables, command
  <1>2. /\ Serving(cache, io) /\ Matches(disk, MaxDataBlock)
        /\ Carries(active_cmd, waiting, cmd)
        /\ g_device_state \in {"LOGGED_OUT", "LOGGED_IN"}
        /\ active_cmd = "READ_ALL_UIDS" => ~more
    BY <1>1, WaitingForButton
  <1>3. CASE /\ active_cmd = "UPDATE_UIDS"
             /\ update_uid_cmd_complete("UPDATE_UIDS", cmd, cache, io)
    <2>1. "UPDATE_UIDS" \in Updates BY DEF Updates
    <2>2. cmd \in UpdateCmds /\ Fits(cmd.uid, cmd.entry) /\ Ready(cmd)
      BY <1>1, <1>2, <1>3, <2>1 DEF Carries
    <2>3. HandlerLeaves BY <1>2, <1>3, <2>1, <2>2, Completes
    <2>4. active_cmd' = "UPDATE_UIDS" BY <1>3 DEF update_uid_cmd_complete, Return
    <2> QED BY <1>1, <1>2, <2>3, <2>4, DataKept
  <1>4. CASE active_cmd = "READ_ALL_UIDS" /\ read_all_uids_cmd_iter(cmd, cache, io)
    <2>1. /\ cmd \in ReadAllCmds /\ cmd.remaining = Cardinality(MappedFrom(cmd.uid))
          /\ cmd.uid = 0 \/ cmd.remaining # 0
      BY <1>2, <1>4 DEF Carries
    <2>2. HandlerLeaves BY <1>2, <1>4, <2>1, ReadAllLeaves
    <2> QED BY <1>1, <1>2, <1>4, <2>2, DataKept
  <1> QED BY <1>3, <1>4 DEF long_button_press

LEMMA EndButtonWaitData ==
    ASSUME Inv, DataInv, blink_timeout \/ CANCEL_BUTTON_PRESS PROVE DataInv'
  <1>1. /\ waiting # "NONE"
        /\ UNCHANGED <<disk, info, uid_map, more, g_device_state>>
    BY DEF blink_timeout, CANCEL_BUTTON_PRESS, stored, tables, command
  <1>2. PICK code \in {"BUTTON_PRESS_TIMEOUT", "BUTTON_PRESS_CANCELED"} :
           finish_command_multi(active_cmd, more, Said(active_cmd, code), cmd, cache, io)
    BY DEF blink_timeout, CANCEL_BUTTON_PRESS
  <1>3. /\ Matches(disk, MaxDataBlock) /\ ~UnderWay(io) /\ active_cmd \notin Idle
        /\ g_device_state \in {"LOGGED_OUT", "LOGGED_IN"}
        /\ active_cmd = "READ_ALL_UIDS" => ~more
    BY <1>1, WaitingForButton
  <1> DEFINE a == Said(active_cmd, code)
  <1>4. a.code \notin {"OKAY", "ID_INVALID"} /\ a.code # "WAITING" BY ToldIs
  <1>5. finish_command_multi(active_cmd, more, a, cmd, cache, io) BY <1>2
  <1> HIDE DEF a
  <1>6. HandlerLeaves
    <2>1. Truthful(a) BY <1>4, NotSaid
    <2>2. active_cmd # "STARTUP" BY <1>3 DEF Idle
    <2>3. more => Continues(active_cmd, cmd, a) BY <1>3 DEF Continues
    <2> QED BY <1>3, <1>4, <1>5, <2>1, <2>2, <2>3, Finishes
  <1>7. active_cmd' \in {active_cmd, "NONE"} BY <1>5 DEF finish_command_multi
  <1> QED BY <1>1, <1>3, <1>6, <1>7, DataKept

LEMMA Dropped ==
    ASSUME DropReply
    PROVE  /\ reply'.code \notin {"WAITING", "HELD"}
           /\ reply.code \in {"WAITING", "NONE"} => reply'.code = "NONE"
           /\ reply' = reply \/ reply'.code = "NONE"
  <1>1. Said("NONE", "NONE").code = "NONE" BY ToldIs
  <1> QED BY <1>1 DEF DropReply, Unanswered

LEMMA DisconnectData ==
    ASSUME Inv, DataInv, DISCONNECT PROVE DataInv'
  <1>1. /\ UNCHANGED <<disk, info, uid_map, cmd, io>>
        /\ waiting' = "NONE" /\ active_cmd' = "NONE"
        /\ g_device_state' = "DISCONNECTED" /\ DropReply
    BY DEF DISCONNECT, stored, tables
  <1>2. /\ reply'.code # "WAITING"
        /\ reply.code \in {"WAITING", "NONE"} => reply'.code = "NONE"
        /\ reply' = reply \/ reply'.code = "NONE"
    BY <1>1, Dropped
  <1>3. /\ KnownTrue => KnownTrue'
        /\ RemainingExact => RemainingExact'
    <2>1. Contents(disk)' = Contents(disk) BY <1>1 DEF Contents, Holders
    <2> QED BY <1>2, <2>1 DEF KnownTrue, RemainingExact
  <1>4. Single(disk)' /\ Writes(io, cmd)' /\ UnderWay(io)' = UnderWay(io)
    BY <1>1 DEF DataInv, Single, Holders, Writes, Ready, UnderWay
  <1>5. (info = [b \in Blocks |-> info[b]])' /\ (uid_map = [u \in Uids |-> uid_map[u]])'
    BY <1>1 DEF DataInv
  <1> QED BY <1>1, <1>2, <1>3, <1>4, <1>5 DEF DataInv, Idle, Open, Scanning, Sending

LEMMA RestartData ==
    ASSUME Inv, DataInv, Restart PROVE DataInv'
  <1>1. /\ info' = NoInfo /\ uid_map' = NoMap /\ io' = IdleIo /\ waiting' = "NONE"
        /\ active_cmd' = "NONE" /\ g_device_state' = "DISCONNECTED" /\ DropReply
    BY DEF Restart
  <1>2. /\ reply'.code # "WAITING"
        /\ reply.code \in {"WAITING", "NONE"} => reply'.code = "NONE"
        /\ reply' = reply \/ reply'.code = "NONE"
    BY <1>1, Dropped
  <1>3. Single(disk') /\ (disk' = disk \/ reply'.code = "NONE")
    <2>1. CASE disk' = disk BY <2>1 DEF DataInv
    <2>2. ASSUME io.now.act = "WRITE", NEW x \in {io.now.data, TornBlock},
                 disk' = [disk EXCEPT ![io.now.idx] = x]
          PROVE  Single(disk') /\ reply'.code = "NONE"
      <3>1. "now" \in Writing BY <2>2 DEF Writing
      <3>2. /\ cmd \in UpdateCmds /\ Ready(cmd) /\ UnderWay(io)
            /\ io.now = Write(cmd.block_num, cmd.block)
        BY <3>1, WriteIs
      <3>3. io.now.idx = cmd.block_num /\ io.now.data = cmd.block BY <3>2 DEF Write
      <3>4. disk = [b \in Blocks |-> disk[b]] BY DEF Inv, Forms
      <3> DEFINE d == [b \in Blocks |-> IF b = cmd.block_num THEN x ELSE disk[b]]
      <3>5. disk' = d BY <2>2, <3>3, <3>4
      <3>6. Single(disk) /\ x \in {cmd.block, TornBlock} BY <2>2, <3>3 DEF DataInv
      <3>7. Single(d) BY <3>2, <3>6, WrittenIs
      <3>8. reply.code \in {"WAITING", "NONE"} BY <3>2 DEF DataInv
      <3> QED BY <1>2, <3>5, <3>7, <3>8
    <2> QED BY <2>1, <2>2 DEF Restart
  <1>4. Single(disk)' BY <1>3 DEF Single, Holders
  <1>5. /\ KnownTrue => KnownTrue'
        /\ RemainingExact => RemainingExact'
    <2>1. disk' = disk => Contents(disk)' = Contents(disk) BY DEF Contents, Holders
    <2> QED BY <1>2, <1>3, <2>1 DEF KnownTrue, RemainingExact
  <1>6. Writes(io, cmd)' /\ Writing' = {} /\ ~UnderWay(io)'
    <2>1. io'.now = NoOp /\ io'.flash = NoOp BY <1>1 DEF IdleIo
    <2>2. io'.now.act = "NONE" /\ io'.flash.act = "NONE" BY <2>1, OpsDiffer
    <2> QED BY <2>1, <2>2 DEF Writes, Writing, UnderWay
  <1>7. (info = [b \in Blocks |-> info[b]])' /\ (uid_map = [u \in Uids |-> uid_map[u]])'
    BY <1>1 DEF NoInfo, NoMap
  <1> QED BY <1>1, <1>2, <1>4, <1>5, <1>6, <1>7
      DEF DataInv, Idle, Open, Scanning, Sending

LEMMA StutteringData ==
    ASSUME DataInv, UNCHANGED db PROVE DataInv'
  <1>1. UNCHANGED <<disk, info, uid_map, scan_num, waiting, cmd, io, reply, more,
                    active_cmd, g_device_state>>
    BY DEF db, stored, command, tables
  <1>2. /\ (Single(disk) => Single(disk)') /\ (Scanning => Scanning')
        /\ (Matches(disk, MaxDataBlock) => Matches(disk, MaxDataBlock)')
    BY <1>1 DEF Single, Holders, Scanning, Matches
  <1>3. Carries(active_cmd, waiting, cmd) => Carries(active_cmd, waiting, cmd)'
    BY <1>1 DEF Carries, Fits, HasRoom, IsFree, Ready, Holders, MappedFrom
  <1>4. /\ (Sending => Sending') /\ (Writes(io, cmd) => Writes(io, cmd)')
    BY <1>1 DEF Sending, MappedFrom, Unanswered, Writes, Ready, Holders
  <1>5. /\ (KnownTrue => KnownTrue') /\ (RemainingExact => RemainingExact')
    <2>1. Contents(disk)' = Contents(disk) BY <1>1 DEF Contents, Holders
    <2> QED BY <1>1, <2>1 DEF KnownTrue, RemainingExact
  <1>6. Writing' = Writing /\ UnderWay(io)' = UnderWay(io) /\ Open' = Open
    BY <1>1 DEF Writing, UnderWay, Open
  <1> QED BY <1>1, <1>2, <1>3, <1>4, <1>5, <1>6 DEF DataInv

LEMMA CommandData ==
    ASSUME "overlap" \notin Events, Inv, DataInv, Command PROVE DataInv'
  <1> QED BY StartupData, LoginData, LogoutData, UpdateUidData, UpdateUidsData,
             ReadUidData, ReadAllUidsData
      DEF Command

(* A packet that waits for FIDO2 changes nothing but the active command, and    *)
(* leaves the answers for those of the command to come.                         *)
LEMMA PacketWaitsData ==
    ASSUME Inv, DataInv, cmd_packet_waits PROVE DataInv'
  <1>1. PICK name \in Commands : active_cmd' = name /\ reply' = Held(name)
    BY DEF cmd_packet_waits
  <1>2. /\ UNCHANGED <<disk, info, uid_map, g_device_state, waiting, cmd, io>>
        /\ reply.code \notin {"WAITING", "HELD"} /\ ~UnderWay(io)
    BY WaitingPacket DEF cmd_packet_waits, stored, tables, Unanswered
  <1>3. reply'.code = "HELD" BY <1>1, ToldIs DEF Held
  <1>4. io'.now = NoOp /\ io'.flash = NoOp /\ io'.now.act = "NONE" /\ io'.flash.act = "NONE"
    BY <1>2, NothingUnderWay
  <1>5. Writes(io, cmd)' /\ Writing' = {} /\ ~UnderWay(io)'
    BY <1>4 DEF Writes, Writing, UnderWay
  <1>6. /\ Single(disk)' /\ (info = [b \in Blocks |-> info[b]])'
        /\ (uid_map = [u \in Uids |-> uid_map[u]])'
    BY <1>2 DEF DataInv, Single, Holders
  <1>7. Open' => Matches(disk, MaxDataBlock)'
    <2>1. active_cmd # "STARTUP" BY <1>2 DEF DataInv, Scanning
    <2>2. Open' => Matches(disk, MaxDataBlock) BY <1>2, <2>1 DEF DataInv, Open
    <2> QED BY <1>2, <2>2 DEF Matches, Holders
  <1>8. waiting' = "NONE" BY <1>2 DEF DataInv
  <1>9. active_cmd' \notin Idle => g_device_state' \in {"LOGGED_OUT", "LOGGED_IN"}
    BY <1>1, <1>2 DEF Commands, Idle
  <1>10. KnownTrue' /\ RemainingExact' /\ Sending' /\ Scanning'
    BY <1>3 DEF KnownTrue, RemainingExact, Sending, Scanning, Unanswered
  <1> QED BY <1>3, <1>5, <1>6, <1>7, <1>8, <1>9, <1>10 DEF DataInv

------------------------------------------------------------------------------
LEMMA DataStep ==
    ASSUME "overlap" \notin Events, Inv, DataInv, ~misled, [Next]_vars, ~RootFinished
    PROVE  DataInv'
  <1> QED BY Steps, CommandData, PacketWaitsData, ReadBlockData, WriteBlockData,
             CmdPacketSentData, ButtonPressData, LongButtonPressData, EndButtonWaitData,
             DisconnectData, RestartData, StutteringData

(* The disk, the tables and the answers together, on a full disk too, until the *)
(* database is misled.                                                          *)
THEOREM DataInductive ==
    ASSUME "overlap" \notin Events PROVE Spec => [](misled \/ DataInv)
  <1>1. (misled \/ Inv) /\ (misled \/ DataInv) /\ [Next]_vars => misled' \/ DataInv'
    <2> SUFFICES ASSUME misled \/ (Inv /\ DataInv), [Next]_vars
                 PROVE  misled' \/ DataInv'
      OBVIOUS
    <2>1. CASE misled BY <2>1, Steps DEF vars, beside
    <2>2. CASE Inv /\ DataInv /\ ~misled /\ ~RootFinished BY <2>2, DataStep
    <2>3. CASE DataInv /\ RootFinished BY <2>3, FinishedOf, StutteringData
    <2> QED BY <2>1, <2>2, <2>3
  <1> QED BY Inductive, InitData, <1>1, PTL DEF Spec

(* From the startup scan on, between writes, the tables say what a new scan     *)
(* would say (db3_startup_scan_resume against update_uid_cmd_write_finished),   *)
(* unless the completion of FIDO2's root page has been taken for an update's:   *)
(* that changes them with nothing written (write_block_complete).               *)
THEOREM TablesFollowDisk ==
    ASSUME "overlap" \notin Events PROVE Spec => []MapMatchesDisk
  <1>1. misled \/ DataInv => MapMatchesDisk
    <2> SUFFICES ASSUME DataInv, Open PROVE /\ \A b \in Blocks : info[b] = ScanInfo(disk[b])
                                            /\ \A u \in Uids : uid_map[u] =
                                                  IF Holders(disk, u) = {} THEN INVALID_BLOCK
                                                  ELSE Least(Holders(disk, u))
      BY DEF MapMatchesDisk
    <2>1. Single(disk) /\ Matches(disk, MaxDataBlock) BY DEF DataInv
    <2>2. \A b \in Blocks : info[b] = ScanInfo(disk[b])
      BY <2>1, BlockNumbers DEF Matches
    <2>3. ASSUME NEW u \in Uids
          PROVE  uid_map[u] = IF Holders(disk, u) = {} THEN INVALID_BLOCK
                              ELSE Least(Holders(disk, u))
      <3>1. \A b \in Holders(disk, u) : ~(b > MaxDataBlock)
        BY BlockNumbers DEF Holders
      <3>2. \/ uid_map[u] = INVALID_BLOCK /\ Holders(disk, u) = {}
            \/ uid_map[u] \in Holders(disk, u)
        BY <2>1, <3>1 DEF Matches
      <3> QED BY <2>1, <3>2, Stored
    <2> QED BY <2>2, <2>3
  <1> QED BY DataInductive, <1>1, PTL

(* Whatever is cut off, timed out or torn, an id is never in two blocks, so the *)
(* order of the scan does not matter (allocate_uid, write_data_block).          *)
THEOREM OneBlockEach ==
    ASSUME "overlap" \notin Events PROVE Spec => []OneBlockPerUid
  <1>1. misled \/ DataInv => OneBlockPerUid
    <2> SUFFICES ASSUME Single(disk), NEW u \in Uids
                 PROVE  Cardinality(Holders(disk, u)) <= 1
      BY DEF OneBlockPerUid, DataInv
    <2>1. CASE Holders(disk, u) = {} BY <2>1, FS_EmptySet
    <2>2. ASSUME NEW b \in Holders(disk, u) PROVE Cardinality(Holders(disk, u)) <= 1
      <3>1. Holders(disk, u) = {b} BY <2>2 DEF Single
      <3>2. Cardinality({b}) = 1 BY FS_Singleton
      <3> QED BY <3>1, <3>2
    <2> QED BY <2>1, <2>2
  <1> QED BY DataInductive, <1>1, PTL

(* While there is room, what an answer said of an entry is on the disk: a read  *)
(* entry, an acknowledged update, the absence of an entry (finish_command_multi *)
(* in update_uid_cmd_write_finished and in the reads), up to the moment the     *)
(* completion of FIDO2's root page is taken for an update's: that update is     *)
(* answered OKAY and is not written (write_block_complete).                     *)
THEOREM AnswersHold ==
    ASSUME "overlap" \notin Events, "full" \notin Events
    PROVE  Spec => []AnswersAreTrue
  <1>1. misled \/ DataInv => AnswersAreTrue
    BY DEF DataInv, KnownTrue, AnswersAreTrue
  <1> QED BY DataInductive, <1>1, PTL

(* READ_ALL_UIDS counts exactly the entries still to come in every answer, on a *)
(* full disk too (read_all_uids_cmd_iter).                                      *)
THEOREM AllEntriesRead ==
    ASSUME "overlap" \notin Events PROVE Spec => []ReadAllExact
  <1>1. misled \/ DataInv => ReadAllExact BY DEF DataInv, ReadAllExact
  <1> QED BY DataInductive, <1>1, PTL

LEMMA CommandStores ==
    ASSUME Command PROVE UNCHANGED stored
  <1> QED BY DEF Command, STARTUP, LOGIN, LOGOUT, UPDATE_UID, UPDATE_UIDS, READ_UID,
                 READ_ALL_UIDS, Receive

LEMMA OnlyWritesStore ==
    ASSUME [Next]_vars
    PROVE  UNCHANGED stored \/ write_block_complete \/ Restart
  <1>1. CASE UNCHANGED vars \/ UNCHANGED db BY <1>1 DEF vars, db
  <1>2. CASE RootFinished BY <1>2, FinishedOf DEF stored
  <1>3. CASE \/ cmd_packet_waits \/ DISCONNECT \/ CANCEL_BUTTON_PRESS
             \/ read_block_complete \/ cmd_packet_sent \/ button_press
             \/ long_button_press \/ blink_timeout
    BY <1>3 DEF cmd_packet_waits, DISCONNECT, CANCEL_BUTTON_PRESS, read_block_complete,
                cmd_packet_sent, button_press, long_button_press, blink_timeout
  <1> QED BY <1>1, <1>2, <1>3, Steps, CommandStores

(* While there is room, no entry reaches the flash writer (write_data_block).   *)
THEOREM RootUntouched ==
    ASSUME "overlap" \notin Events, "full" \notin Events
    PROVE  Spec => []EntriesOnEmmcOnly
  <1>1. Init => EntriesOnEmmcOnly BY DEF Init, IdleIo, EntriesOnEmmcOnly
  <1>2. EntriesOnEmmcOnly /\ [Next]_vars /\ (misled \/ Inv) /\ (misled' \/ DataInv')
           => EntriesOnEmmcOnly'
    <2> SUFFICES ASSUME EntriesOnEmmcOnly, [Next]_vars, misled \/ Inv, misled' \/ DataInv'
                 PROVE  EntriesOnEmmcOnly'
      OBVIOUS
    <2>1. CASE misled /\ UNCHANGED vars
      BY <2>1 DEF vars, db, stored, EntriesOnEmmcOnly
    <2>2. CASE RootFinished /\ Inv
      <3>1. UNCHANGED root BY <2>2, FinishedOf
      <3>2. io'.flash = io.flash
        <4>1. PICK n, h : io = [now |-> n, next |-> NoOp, flash |-> h, failed |-> FALSE]
          BY <2>2 DEF Inv, Forms, IoForm, IoRecord
        <4>2. Queued(io, Read(1, "SCAN")).flash = io.flash BY <4>1 DEF Queued
        <4> QED BY <2>2, <4>2, FinishedOf
      <3> QED BY <3>1, <3>2 DEF EntriesOnEmmcOnly
    <2>3. CASE ~misled /\ UNCHANGED misled
      <3>1. io'.flash = NoOp BY <2>3, BlockNumbers DEF DataInv, Writes, Ready
      <3>2. root' = "whole"
        <4>1. UNCHANGED root \/ write_block_complete \/ Restart
          BY OnlyWritesStore DEF stored
        <4>2. ASSUME write_block_complete PROVE UNCHANGED root
          <5>1. io.flash.act # "WRITE" BY OpsDiffer DEF EntriesOnEmmcOnly
          <5> QED BY <4>2, <5>1 DEF write_block_complete, Writing
        <4>3. ASSUME Restart PROVE UNCHANGED root
          BY <4>3 DEF Restart, EntriesOnEmmcOnly
        <4> QED BY <4>1, <4>2, <4>3 DEF EntriesOnEmmcOnly
      <3> QED BY <3>1, <3>2 DEF EntriesOnEmmcOnly
    <2> QED BY <2>1, <2>2, <2>3, Steps
  <1> QED BY Inductive, DataInductive, <1>1, <1>2, PTL DEF Spec

------------------------------------------------------------------------------
(* The database is an entry store.                                              *)

(* The update that EntryStore says is under way. *)
Asked == IF /\ ~misled
            /\ \/ active_cmd \in Updates /\ reply.code = "WAITING"
               \/ Writing # {}
         THEN {<<cmd.uid, cmd.entry>>} ELSE {}

StoreStep == [Store!Ask \/ Store!GiveUp \/ Store!Commit \/ Store!Lose]_<<Contents(disk), Asked>>

(* A step that writes nothing asks for something or gives it up. *)
LEMMA NothingStored ==
    ASSUME misled' \/ DataInv', UNCHANGED disk PROVE StoreStep
  <1>1. Contents(disk)' = Contents(disk) BY DEF Contents, Holders
  <1>2. CASE Asked' = {} BY <1>1, <1>2 DEF StoreStep, Store!GiveUp, Asked
  <1>3. CASE Asked' # {}
    <2>1. Writing' # {} => io'.now.act = "WRITE" \/ io'.flash.act = "WRITE"
      BY DEF Writing
    <2>2. io'.flash.act = "WRITE" => io'.flash # NoOp BY OpsDiffer
    <2>3. cmd' \in UpdateCmds
      BY <1>3, <2>1, <2>2 DEF Asked, DataInv, Carries, Writes
    <2>4. cmd'.uid \in Uids /\ cmd'.entry \in Data \cup {NoData} BY <2>3 DEF UpdateCmds
    <2>5. Asked' = {<<cmd'.uid, cmd'.entry>>} BY <1>3 DEF Asked
    <2>6. Store!Ask
      <3>1. \E u \in Uids, e \in Data \cup {NoData} : Asked' = {<<u, e>>}
        BY <2>4, <2>5
      <3> QED BY <1>1, <3>1 DEF Store!Ask, Asked
    <2> QED BY <2>6 DEF StoreStep
  <1> QED BY <1>2, <1>3

LEMMA UpdateStored ==
    ASSUME Inv, DataInv, write_block_complete PROVE StoreStep
  <1>0. ~misled BY DEF write_block_complete, Goes
  <1> DEFINE d == [b \in Blocks |-> IF b = cmd.block_num THEN cmd.block ELSE disk[b]]
  <1>1. PICK i :
          /\ ~UnderWay(i)
          /\ active_cmd \in Updates => update_uid_cmd_write_finished(i)
          /\ active_cmd \notin Updates => io' = i /\ UNCHANGED active_cmd
    BY WriteDone
  <1>2. cmd \in UpdateCmds /\ Ready(cmd) /\ Writing # {} /\ disk' = d /\ Single(disk)
    BY WriteDone DEF DataInv
  <1>3. Contents(disk)' = Contents(d) BY <1>2 DEF Contents, Holders
  <1>4. Asked = {<<cmd.uid, cmd.entry>>} BY <1>0, <1>2 DEF Asked
  <1>5. i.now.act = "NONE" /\ i.flash.act = "NONE" BY <1>1, OpsDiffer DEF UnderWay
  <1>6. Asked' = {}
    <2>1. io' = i BY <1>1 DEF update_uid_cmd_write_finished, finish_command_multi
    <2>2. Writing' = {} BY <1>5, <2>1 DEF Writing
    <2>3. CASE active_cmd \in Updates
      <3>1. reply' = Told(active_cmd, "OKAY", cmd.uid, cmd.entry, 0)
        BY <1>1, <2>3 DEF update_uid_cmd_write_finished, finish_command_multi
      <3>2. reply'.code = "OKAY" BY <3>1, ToldIs
      <3> QED BY <2>2, <3>2 DEF Asked
    <2>4. CASE active_cmd \notin Updates BY <1>1, <2>2, <2>4 DEF Asked
    <2> QED BY <2>3, <2>4
  <1> HIDE DEF d
  <1>7. CASE cmd.block_num \in Blocks
    <2>1. cmd.block # TornBlock
      <3>1. cmd.block = IF cmd.entry = NoData THEN FreeBlock ELSE Holding(cmd.uid, cmd.entry)
        BY <1>2, <1>7, BlockNumbers DEF Ready
      <3>2. FreeBlock # TornBlock BY DEF FreeBlock, TornBlock
      <3> QED BY <1>2, <3>1, <3>2, HoldingIs DEF UpdateCmds
    <2>2. Contents(d) = [Contents(disk) EXCEPT ![cmd.uid] = cmd.entry]
      BY <1>2, <1>7, <2>1, WrittenContents DEF d
    <2>3. <<cmd.uid, cmd.entry>> \in Asked BY <1>4
    <2>4. Store!Commit
      <3>1. \E a \in Asked : Contents(d) = [Contents(disk) EXCEPT ![a[1]] = a[2]]
        BY <2>2, <2>3
      <3> QED BY <1>3, <1>6, <3>1 DEF Store!Commit, Asked
    <2> QED BY <2>4 DEF StoreStep
  <1>8. CASE cmd.block_num \notin Blocks
    <2>1. d = disk BY <1>2, <1>8, WrittenIs DEF d
    <2>2. Store!GiveUp BY <1>3, <1>6, <2>1 DEF Store!GiveUp, Asked
    <2> QED BY <2>2 DEF StoreStep
  <1> QED BY <1>7, <1>8

LEMMA PowerFailed ==
    ASSUME Inv, DataInv, DataInv', Restart PROVE StoreStep
  <1>0. ~misled BY DEF Restart, Goes
  <1>1. CASE disk' = disk BY <1>1, NothingStored
  <1>2. ASSUME io.now.act = "WRITE", NEW x \in {io.now.data, TornBlock},
               disk' = [disk EXCEPT ![io.now.idx] = x]
        PROVE  StoreStep
    <2>1. "now" \in Writing BY <1>2 DEF Writing
    <2>2. /\ cmd \in UpdateCmds /\ Ready(cmd) /\ cmd.block_num \in Blocks
          /\ io.now = Write(cmd.block_num, cmd.block)
      BY <2>1, WriteIs
    <2>3. io.now.idx = cmd.block_num /\ io.now.data = cmd.block BY <2>2 DEF Write
    <2>4. disk = [b \in Blocks |-> disk[b]] BY DEF Inv, Forms
    <2> DEFINE d == [b \in Blocks |-> IF b = cmd.block_num THEN x ELSE disk[b]]
    <2>5. disk' = d BY <1>2, <2>3, <2>4
    <2>6. Single(disk) /\ x \in {cmd.block, TornBlock} BY <1>2, <2>3 DEF DataInv
    <2>7. Contents(d) = [Contents(disk) EXCEPT ![cmd.uid] =
                            IF x = TornBlock THEN NoData ELSE cmd.entry]
      BY <2>2, <2>6, WrittenContents
    <2> HIDE DEF d
    <2>8. Contents(disk)' = Contents(d) BY <2>5 DEF Contents, Holders
    <2>9. <<cmd.uid, cmd.entry>> \in Asked BY <1>0, <2>1 DEF Asked
    <2>10. Asked' = {}
      <3>1. io' = IdleIo /\ active_cmd' = "NONE" BY DEF Restart
      <3>2. io'.now = NoOp /\ io'.flash = NoOp BY <3>1 DEF IdleIo
      <3>3. Writing' = {} BY <3>2, OpsDiffer DEF Writing
      <3> QED BY <3>1, <3>3 DEF Asked, Updates
    <2>11. CASE x = TornBlock
      <3>1. \E a \in Asked : Contents(d) = [Contents(disk) EXCEPT ![a[1]] = NoData]
        BY <2>7, <2>9, <2>11
      <3>2. Store!Lose BY <2>8, <2>10, <3>1 DEF Store!Lose, Asked
      <3> QED BY <3>2 DEF StoreStep
    <2>12. CASE x # TornBlock
      <3>1. \E a \in Asked : Contents(d) = [Contents(disk) EXCEPT ![a[1]] = a[2]]
        BY <2>7, <2>9, <2>12
      <3>2. Store!Commit BY <2>8, <2>10, <3>1 DEF Store!Commit, Asked
      <3> QED BY <3>2 DEF StoreStep
    <2> QED BY <2>11, <2>12
  <1> QED BY <1>1, <1>2 DEF Restart

(* The database implements EntryStore, on a full disk too: seen from outside,   *)
(* through every power failure and disconnection, an update happens at once or  *)
(* not at all, except that the entry being written may be lost (write_data_block*)
(* writes in place). An update answered by the completion of FIDO2's root page  *)
(* has been given up (write_block_complete).                                    *)
THEOREM UpdatesAtomic ==
    ASSUME "overlap" \notin Events PROVE Spec => EntriesAtomic
  <1>1. Init => Store!Init
    <2> SUFFICES ASSUME Init PROVE Store!Init OBVIOUS
    <2>1. disk = [b \in Blocks |-> EmptyBlock] /\ active_cmd = "NONE" /\ io = IdleIo
      BY DEF Init
    <2>2. \A u \in Uids : Holders(disk, u) = {} BY <2>1 DEF Holders, EmptyBlock
    <2>3. Contents(disk) = [u \in Uids |-> NoData] BY <2>2 DEF Contents
    <2>4. io.now = NoOp /\ io.flash = NoOp BY <2>1 DEF IdleIo
    <2>5. Writing = {} BY <2>4, OpsDiffer DEF Writing
    <2> QED BY <2>1, <2>3, <2>5 DEF Store!Init, Updates
  <1>2. (misled \/ Inv) /\ (misled \/ DataInv) /\ (misled' \/ DataInv') /\ [Next]_vars
           => StoreStep
    <2> SUFFICES ASSUME misled \/ (Inv /\ DataInv), misled' \/ DataInv', [Next]_vars
                 PROVE  StoreStep
      OBVIOUS
    <2>1. CASE UNCHANGED disk BY <2>1, NothingStored
    <2>2. CASE write_block_complete
      BY <2>2, UpdateStored DEF write_block_complete, Goes
    <2>3. CASE Restart BY <2>3, PowerFailed DEF Restart, Goes
    <2> QED BY <2>1, <2>2, <2>3, OnlyWritesStore DEF stored
  <1>3. Spec => [](misled \/ Inv) /\ [](misled \/ DataInv)
    BY Inductive, DataInductive, PTL
  <1>4. Store!Init /\ [][StoreStep]_<<Contents(disk), Asked>> => EntriesAtomic
    BY PTL DEF EntriesAtomic, Store!Spec, StoreStep, Asked
  <1> QED BY <1>1, <1>2, <1>3, <1>4, PTL DEF Spec
===============================================================================
