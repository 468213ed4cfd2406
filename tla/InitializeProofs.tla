-------------------------- MODULE InitializeProofs --------------------------
(* Proofs about Initialize: that nothing fails, that WIPE and INITIALIZE leave  *)
(* nothing of before. The firmware counts completions and does not ask of what: *)
(* the invariant says which write, of a block or of the root page, is under way *)
(* for every value of the counter, so that each completion is counted for the   *)
(* write that it is of. It is lost with a FIDO2 message, which adds a write of  *)
(* the root page; that the blocks are replaced survives that.                   *)
EXTENDS Initialize, TLAPS

(* The state of the firmware is a record of these fields.                       *)
Fields ==
    {"state", "active_cmd", "long", "owner", "release_requested", "sync", "root_page",
     "writing", "n", "level", "g_progress_check", "target", "data",
     "uninitialized_wiped", "g_emmc_user", "ready", "g_db_action", "op", "scan",
     "rand_avail", "failed"}
IsDev(d) == d = [f \in Fields |-> d[f]]

(* e is d, but for the fields S. *)
Changes(d, e, S) == IsDev(e) /\ \A f \in Fields \ S : e[f] = d[f]

(* The fields the invariant says nothing about. *)
Free == {"owner", "release_requested", "n", "level", "g_progress_check", "target",
         "rand_avail"}

LEMMA ReleaseChanges ==
    ASSUME NEW d, IsDev(d), NEW system
    PROVE  Changes(d, release_device_request(d, system), Free)
BY DEF IsDev, Fields, Changes, Free, release_device_request

LEMMA IdleChanges ==
    ASSUME NEW d, IsDev(d)
    PROVE  Changes(d, subsystem_idle_check(d), Free)
<1>1. Changes(d, d, Free)
  BY DEF Changes
<1> QED
  BY <1>1, ReleaseChanges DEF subsystem_idle_check

LEMMA FinishChanges ==
    ASSUME NEW d, IsDev(d), NEW e, e = finish_command(d)
    PROVE  Changes(d, e, Free \cup {"active_cmd"}) /\ e.active_cmd = "none"
<1> DEFINE c == [d EXCEPT !.active_cmd = "none", !.target = "none", !.g_progress_check = 0]
<1>1. Changes(d, c, Free \cup {"active_cmd"}) /\ c.active_cmd = "none"
  BY DEF Changes, IsDev, Fields, Free
<1>2. IsDev(c) /\ e = subsystem_idle_check(c)
  BY <1>1 DEF Changes, finish_command
<1> HIDE DEF c
<1>3. Changes(c, e, Free)
  BY <1>2, IdleChanges
<1> QED
  BY <1>1, <1>3 DEF Changes, Fields, Free

(* What get_progress_check may do to the command. *)
Answers(d, e) ==
    /\ Changes(d, e, Free \cup {"active_cmd"})
    /\ e.active_cmd # d.active_cmd => d.active_cmd = "GET_PROGRESS" /\ e.active_cmd = "none"

LEMMA ProgressAnswers ==
    ASSUME NEW d, IsDev(d)
    PROVE  Answers(d, get_progress_check(d))
<1>1. Changes(d, d, Free \cup {"active_cmd"})
  BY DEF Changes
<1>2. CASE get_progress_check(d) = d
  BY <1>1, <1>2 DEF Answers
<1>3. CASE get_progress_check(d) = finish_command(d) /\ d.active_cmd = "GET_PROGRESS"
  BY <1>3, FinishChanges DEF Answers
<1> QED
  BY <1>2, <1>3 DEF get_progress_check

LEMMA EnterAnswers ==
    ASSUME NEW d, IsDev(d), NEW state, NEW n, NEW e, e = enter_progressing_state(d, state, n)
    PROVE  Answers([d EXCEPT !.state = state], e)
<1> DEFINE c == [d EXCEPT !.state = state]
           b == [d EXCEPT !.state = state, !.n = n, !.level = <<0, 0>>,
                          !.g_progress_check = 0]
           g == get_progress_check(b)
<1>1. Changes(c, b, Free) /\ c.active_cmd = b.active_cmd
  BY DEF Changes, IsDev, Fields, Free
<1>2. IsDev(b) /\ e = subsystem_idle_check(g)
  BY <1>1 DEF Changes, enter_progressing_state
<1>3. Answers(b, g)
  BY <1>2, ProgressAnswers
<1> HIDE DEF b, c, g
<1>4. Changes(g, e, Free)
  BY <1>2, <1>3, IdleChanges DEF Answers, Changes
<1>5. Changes(c, e, Free \cup {"active_cmd"}) /\ e.active_cmd = g.active_cmd
  BY <1>1, <1>3, <1>4 DEF Answers, Changes, Fields, Free
<1>6. Answers(c, e)
  BY <1>1, <1>3, <1>5 DEF Answers
<1> QED
  BY <1>6 DEF c

LEMMA EnterStateAnswers ==
    ASSUME NEW d, IsDev(d), NEW state, NEW e, e = enter_state(d, state)
    PROVE  Answers([d EXCEPT !.data = NoData, !.state = state], e)
<1> DEFINE c == [d EXCEPT !.data = NoData]
<1>1. IsDev(c) /\ [c EXCEPT !.state = state] = [d EXCEPT !.data = NoData, !.state = state]
  BY DEF IsDev, Fields
<1>2. e = enter_progressing_state(c, state, 0)
  BY DEF enter_state
<1> HIDE DEF c
<1> QED
  BY <1>1, <1>2, EnterAnswers

------------------------------------------------------------------------------
(* The operations of the database on the eMMC: the one under way and the one    *)
(* that waits.                                                                  *)
Using(d)   == d.g_emmc_user = "DB"
Waiting(d) == "DB" \in d.ready
Quiet(d)   == ~Using(d) /\ ~Waiting(d)

Ops ==
    [kind : {"read", "write"}, idx : 1 .. N, data : {"none", "empty", "zero"},
     mixed : BOOLEAN]

Does(o, kind, idx, data) == o.kind = kind /\ o.idx = idx /\ o.data = data

(* Exactly one operation, with the eMMC or waiting for mass storage. *)
One(d, kind, idx, data) ==
    \/ Using(d) /\ ~Waiting(d) /\ Does(d.op, kind, idx, data)
    \/ ~Using(d) /\ Waiting(d) /\ Does(d.g_db_action, kind, idx, data)
OneRead(d) == \E idx \in 1 .. N : One(d, "read", idx, "none")

Emmc(d) ==
    /\ d.g_emmc_user \in {"NONE", "DB", "STORAGE"} /\ d.ready \subseteq {"DB", "STORAGE"}
    /\ d.ready # {} => d.g_emmc_user # "NONE"
    /\ IF Using(d) THEN d.op \in Ops ELSE d.op = NoOp
    /\ Waiting(d) => d.g_db_action \in Ops
    /\ d.scan \in 0 .. N

EmmcFields == {"g_emmc_user", "ready", "g_db_action", "op"}

(* The end of an operation, and of a transfer: what waits for the eMMC has it.  *)
LEMMA DoneGoesOn ==
    ASSUME NEW d, IsDev(d), Emmc(d), NEW e, e = emmc_user_done(d)
    PROVE  /\ Changes(d, e, EmmcFields) /\ Emmc(e)
           /\ ~Waiting(e)
           /\ IF Waiting(d) THEN Using(e) /\ e.op = d.g_db_action ELSE ~Using(e)
<1> DEFINE c == [d EXCEPT !.g_emmc_user = "NONE", !.op = NoOp]
<1>1. Changes(d, c, EmmcFields) /\ c.g_emmc_user = "NONE" /\ c.op = NoOp /\ c.ready = d.ready
      /\ c.g_db_action = d.g_db_action /\ c.scan = d.scan
  BY DEF Changes, IsDev, Fields, EmmcFields
<1>2. IsDev(c) /\ e = emmc_user_schedule(c)
  BY <1>1 DEF Changes, emmc_user_done
<1> HIDE DEF c
<1>3. Changes(c, e, EmmcFields) /\ e.scan = c.scan
  BY <1>2 DEF Changes, IsDev, Fields, EmmcFields, emmc_user_schedule
<1>4. Changes(d, e, EmmcFields)
  BY <1>1, <1>3 DEF Changes
<1>5. CASE Waiting(d)
  <2>1. e.g_emmc_user = "DB" /\ e.ready = d.ready \ {"DB"} /\ e.op = d.g_db_action
    <3>1. c.g_emmc_user = "NONE" /\ "DB" \in c.ready
      BY <1>1, <1>5 DEF Waiting
    <3>2. e = [c EXCEPT !.g_emmc_user = "DB", !.ready = @ \ {"DB"}, !.op = c.g_db_action,
                        !.g_db_action = NoOp]
      BY <1>2, <3>1 DEF emmc_user_schedule
    <3>3. e.g_emmc_user = "DB" /\ e.ready = c.ready \ {"DB"} /\ e.op = c.g_db_action
      BY <1>2, <3>2 DEF IsDev, Fields
    <3> QED BY <1>1, <3>3
  <2>2. Using(e)
    BY <2>1 DEF Using
  <2>3. ~Waiting(e)
    BY <2>1 DEF Waiting
  <2>4. /\ d.g_db_action \in Ops /\ e.ready \subseteq {"DB", "STORAGE"}
        /\ e.scan \in 0 .. N
    BY <1>1, <1>3, <1>5, <2>1 DEF Emmc
  <2>5. Emmc(e)
    BY <2>1, <2>2, <2>3, <2>4 DEF Emmc
  <2> QED
    BY <1>4, <1>5, <2>1, <2>2, <2>3, <2>5
<1>6. CASE ~Waiting(d) /\ "STORAGE" \in d.ready
  <2>1. e.g_emmc_user = "STORAGE" /\ e.ready = d.ready \ {"STORAGE"} /\ e.op = NoOp
    <3>1. c.g_emmc_user = "NONE" /\ "DB" \notin c.ready /\ "STORAGE" \in c.ready
      BY <1>1, <1>6 DEF Waiting
    <3>2. e = [c EXCEPT !.g_emmc_user = "STORAGE", !.ready = @ \ {"STORAGE"}]
      BY <1>2, <3>1 DEF emmc_user_schedule
    <3>3. e.g_emmc_user = "STORAGE" /\ e.ready = c.ready \ {"STORAGE"} /\ e.op = c.op
      BY <1>2, <3>2 DEF IsDev, Fields
    <3> QED BY <1>1, <3>3
  <2> QED
    BY <1>1, <1>3, <1>4, <1>6, <2>1 DEF Emmc, Using, Waiting
<1>7. CASE ~Waiting(d) /\ "STORAGE" \notin d.ready
  <2>1. e = c
    BY <1>1, <1>2, <1>7 DEF emmc_user_schedule, Waiting
  <2>2. d.ready = {}
    BY <1>7 DEF Emmc, Waiting
  <2> QED
    BY <1>1, <1>4, <2>1, <2>2 DEF Emmc, Using, Waiting
<1> QED
  BY <1>5, <1>6, <1>7

(* Mass storage asks for the eMMC. *)
LEMMA StorageQueues ==
    ASSUME NEW d, IsDev(d), Emmc(d), "STORAGE" \notin d.ready,
           NEW e, e = emmc_user_queue(d, "STORAGE")
    PROVE  /\ Changes(d, e, EmmcFields) /\ Emmc(e)
           /\ Using(e) = Using(d) /\ Waiting(e) = Waiting(d)
           /\ e.op = d.op /\ e.g_db_action = d.g_db_action
<1> DEFINE c == [d EXCEPT !.ready = @ \cup {"STORAGE"}]
<1>1. Changes(d, c, EmmcFields) /\ c.ready = d.ready \cup {"STORAGE"}
      /\ c.g_emmc_user = d.g_emmc_user /\ c.op = d.op
      /\ c.g_db_action = d.g_db_action /\ c.scan = d.scan
  BY DEF Changes, IsDev, Fields, EmmcFields
<1>2. IsDev(c) /\ e = emmc_user_schedule(c)
  BY <1>1 DEF Changes, emmc_user_queue
<1> HIDE DEF c
<1>3. Changes(c, e, EmmcFields) /\ e.scan = c.scan
  BY <1>2 DEF Changes, IsDev, Fields, EmmcFields, emmc_user_schedule
<1>4. Changes(d, e, EmmcFields)
  BY <1>1, <1>3 DEF Changes
<1>5. CASE d.g_emmc_user # "NONE"
  <2>1. e = c
    BY <1>1, <1>2, <1>5 DEF emmc_user_schedule
  <2> QED
    BY <1>1, <1>4, <1>5, <2>1 DEF Emmc, Using, Waiting
<1>6. CASE d.g_emmc_user = "NONE"
  <2>1. d.ready = {} /\ c.ready = {"STORAGE"}
    BY <1>1, <1>6 DEF Emmc
  <2>2. e = [c EXCEPT !.g_emmc_user = "STORAGE", !.ready = @ \ {"STORAGE"}]
    BY <1>1, <1>2, <1>6, <2>1 DEF emmc_user_schedule
  <2>3. e.g_emmc_user = "STORAGE" /\ e.ready = {} /\ e.op = d.op /\ e.g_db_action = d.g_db_action
    BY <1>1, <1>2, <2>1, <2>2 DEF IsDev, Fields
  <2> QED
    BY <1>1, <1>3, <1>4, <1>6, <2>1, <2>3 DEF Emmc, Using, Waiting
<1> QED
  BY <1>5, <1>6

(* The database asks for the eMMC: it has it, or it waits, also behind its own  *)
(* operation; to wait twice fails.                                              *)
Queued(d, e, o) ==
    /\ Changes(d, e, EmmcFields) /\ Emmc(e)
    /\ IF Using(d) THEN Using(e) /\ e.op = d.op ELSE Using(e) = ~Waiting(e)
    /\ Using(e) /\ ~Using(d) => e.op = o
    /\ Using(d) => Waiting(e)
    /\ Waiting(e) => e.g_db_action = o

LEMMA DbQueues ==
    ASSUME NEW d, IsDev(d), Emmc(d), ~Waiting(d),
           NEW kind, NEW idx, NEW data, NEW e, e = Db(d, kind, idx, data),
           NEW o, o = [kind |-> kind, idx |-> idx, data |-> data, mixed |-> FALSE], o \in Ops
    PROVE  Queued(d, e, o)
<1> DEFINE c == [d EXCEPT !.g_db_action = o]
           b == [c EXCEPT !.ready = @ \cup {"DB"}]
<1>1. /\ Changes(d, b, EmmcFields) /\ b.ready = d.ready \cup {"DB"}
      /\ b.g_emmc_user = d.g_emmc_user /\ b.op = d.op
      /\ b.g_db_action = o /\ b.scan = d.scan /\ c.ready = d.ready
  BY DEF Changes, IsDev, Fields, EmmcFields
<1>2. IsDev(b) /\ e = emmc_user_schedule(b)
  BY <1>1 DEF Changes, emmc_user_queue, Db, Waiting
<1> HIDE DEF c, b
<1>3. Changes(b, e, EmmcFields) /\ e.scan = b.scan
  BY <1>2 DEF Changes, IsDev, Fields, EmmcFields, emmc_user_schedule
<1>4. Changes(d, e, EmmcFields)
  BY <1>1, <1>3 DEF Changes
<1>5. CASE d.g_emmc_user # "NONE"
  <2>1. e = b
    BY <1>1, <1>2, <1>5 DEF emmc_user_schedule
  <2> QED
    BY <1>1, <1>4, <1>5, <2>1 DEF Emmc, Using, Waiting, Queued
<1>6. CASE d.g_emmc_user = "NONE"
  <2>1. d.ready = {} /\ b.ready = {"DB"}
    BY <1>1, <1>6 DEF Emmc
  <2>2. e = [b EXCEPT !.g_emmc_user = "DB", !.ready = @ \ {"DB"}, !.op = b.g_db_action,
                      !.g_db_action = NoOp]
    BY <1>1, <1>2, <1>6, <2>1 DEF emmc_user_schedule
  <2>3. e.g_emmc_user = "DB" /\ e.ready = {} /\ e.op = o
    BY <1>1, <1>2, <2>1, <2>2 DEF IsDev, Fields
  <2> QED
    BY <1>1, <1>3, <1>4, <1>6, <2>1, <2>3 DEF Emmc, Using, Waiting, Queued
<1> QED
  BY <1>5, <1>6

LEMMA DbFails ==
    ASSUME NEW d, IsDev(d), Waiting(d),
           NEW kind, NEW idx, NEW data, NEW e, e = Db(d, kind, idx, data)
    PROVE  IsDev(e) /\ e.failed /\ e.g_emmc_user = d.g_emmc_user /\ e.state = d.state
<1> DEFINE c == [d EXCEPT !.g_db_action =
                   [kind |-> kind, idx |-> idx, data |-> data, mixed |-> FALSE]]
<1>1. /\ IsDev(c) /\ c.ready = d.ready /\ c.g_emmc_user = d.g_emmc_user
      /\ c.state = d.state
  BY DEF IsDev, Fields
<1>2. e = emmc_user_queue(c, "DB")
  BY DEF Db
<1> HIDE DEF c
<1>3. e = [c EXCEPT !.failed = TRUE]
  BY <1>1, <1>2 DEF emmc_user_queue, Waiting
<1> QED
  BY <1>1, <1>3 DEF IsDev, Fields

Emptying(o, i) == Does(o, "write", i, "empty")

(* The next block of INITIALIZE. *)
EmptyQueued(d, e, idx) ==
    /\ Changes(d, e, EmmcFields) /\ Emmc(e)
    /\ IF Using(d)
         THEN /\ Using(e) /\ Waiting(e) /\ Emptying(e.g_db_action, idx)
              /\ Does(e.op, d.op.kind, d.op.idx, d.op.data)
         ELSE One(e, "write", idx, "empty")

LEMMA MixedShape ==
    ASSUME NEW d, IsDev(d), Emmc(d),
           NEW c, c = [d EXCEPT !.op.mixed = @ \/ d.op.data = "empty"]
    PROVE  /\ Changes(d, c, {"op"}) /\ Emmc(c)
           /\ Does(c.op, d.op.kind, d.op.idx, d.op.data)
<1> DEFINE m == d.op.mixed \/ d.op.data = "empty"
<1>0. m \in BOOLEAN
  OBVIOUS
<1>1. Changes(d, c, {"op"}) /\ c.op = [d.op EXCEPT !.mixed = m]
  <2> HIDE DEF m
  <2>1. c = [d EXCEPT !.op = [d.op EXCEPT !.mixed = m]]
    BY DEF m
  <2> QED
    BY <2>1 DEF Changes, IsDev, Fields
<1>a. d.op = NoOp => ~m
  BY DEF NoOp
<1> HIDE DEF m
<1>2. CASE Using(d)
  <2>1. d.op \in Ops
    BY <1>2 DEF Emmc
  <2>2. c.op \in Ops /\ Does(c.op, d.op.kind, d.op.idx, d.op.data)
    BY <1>0, <1>1, <2>1 DEF Ops, Does
  <2> QED
    BY <1>1, <1>2, <2>2 DEF Emmc, Changes, Fields, Using, Waiting
<1>3. CASE ~Using(d)
  <2>1. d.op = NoOp
    BY <1>3 DEF Emmc
  <2>2. c.op = NoOp
    <3>1. m = FALSE
      BY <1>0, <1>a, <2>1
    <3>2. c.op = [NoOp EXCEPT !.mixed = FALSE]
      BY <1>1, <2>1, <3>1, Zenon
    <3> QED
      BY <3>2 DEF NoOp
  <2>3. Does(c.op, d.op.kind, d.op.idx, d.op.data)
    BY <2>1, <2>2 DEF Does
  <2> QED
    BY <1>1, <1>3, <2>2, <2>3 DEF Emmc, Changes, Fields, Using, Waiting
<1> QED
  BY <1>2, <1>3

LEMMA WriteEmptyQueues ==
    ASSUME NEW d, IsDev(d), Emmc(d), ~Waiting(d), NEW idx \in 1 .. N,
           NEW e, e = WriteEmpty(d, idx)
    PROVE  EmptyQueued(d, e, idx)
<1> DEFINE c == [d EXCEPT !.op.mixed = @ \/ d.op.data = "empty"]
           o == [kind |-> "write", idx |-> idx, data |-> "empty", mixed |-> FALSE]
<1>1. /\ Changes(d, c, {"op"}) /\ Emmc(c)
      /\ Does(c.op, d.op.kind, d.op.idx, d.op.data)
  BY MixedShape
<1>2. e = Db(c, "write", idx, "empty")
  BY InitializeAssumption DEF WriteEmpty, write_data_block
<1>3. o \in Ops /\ Emptying(o, idx)
  BY DEF Ops, Emptying, Does
<1>4. IsDev(c) /\ ~Waiting(c) /\ Using(c) = Using(d)
  BY <1>1 DEF Changes, Fields, Waiting, Using
<1>5. Queued(c, e, o)
  <2> HIDE DEF c
  <2> QED
    BY <1>1, <1>2, <1>3, <1>4, DbQueues
<1> HIDE DEF c, o
<1>6. Changes(d, e, EmmcFields)
  BY <1>1, <1>5 DEF Queued, Changes, EmmcFields
<1> QED
  BY <1>1, <1>3, <1>4, <1>5, <1>6 DEF Queued, EmptyQueued, One, Emptying

LEMMA WriteEmptyFails ==
    ASSUME NEW d, IsDev(d), Emmc(d), Waiting(d), NEW idx \in 1 .. N,
           NEW e, e = WriteEmpty(d, idx)
    PROVE  IsDev(e) /\ e.failed /\ e.g_emmc_user = d.g_emmc_user /\ e.state = d.state
<1> DEFINE c == [d EXCEPT !.op.mixed = @ \/ d.op.data = "empty"]
<1>1. Changes(d, c, {"op"})
  BY MixedShape
<1>2. e = Db(c, "write", idx, "empty")
  BY InitializeAssumption DEF WriteEmpty, write_data_block
<1>3. /\ IsDev(c) /\ Waiting(c) /\ c.g_emmc_user = d.g_emmc_user
      /\ c.state = d.state
  BY <1>1 DEF Changes, Fields, Waiting
<1> HIDE DEF c
<1> QED
  BY <1>2, <1>3, DbFails

------------------------------------------------------------------------------
(* The invariant.                                                               *)

Pages == [key : {"old", "zero", "new"}, fido : {"old", "zero", "new"}]

RootShape(d) ==
    /\ d.root_page \in Pages /\ d.writing \in Pages \cup {NoPage}
    /\ d.sync \in {"SYNCED", "MODIFIED", "WRITING"}
    /\ d.sync = "WRITING" => d.writing # NoPage

Shapes(d) == IsDev(d) /\ Emmc(d) /\ RootShape(d)

Commands(d) ==
    /\ d.active_cmd \in {"INITIALIZE", "WIPE"} => d.state \in {"UNINITIALIZED", "LOGGED_OUT"}
    /\ d.active_cmd = "STARTUP" =>
          /\ d.long = "no"
          /\ d.state \in {"DISCONNECTED", "UNINITIALIZED", "LOGGED_OUT"}

(* INITIALIZE. *)
DataFields == {"blocks_written", "rand_avail_init", "needed", "ctap_needed",
               "signet_updated", "ctap_updated", "finalized"}
IsInitData(a) ==
    /\ a = [f \in DataFields |-> a[f]]
    /\ a.blocks_written \in Nat
    /\ a.signet_updated \in BOOLEAN /\ a.ctap_updated \in BOOLEAN /\ a.finalized \in BOOLEAN

Whole(x) == x \in {"empty", "torn"}
AllWhole(dk) == \A i \in 1 .. N : Whole(dk[i])

(* An operation of the database during INITIALIZE: a write of an empty entry,   *)
(* or a read of the scan, once all blocks are written.                          *)
Permitted(o, written, scanned) ==
    \/ o.kind = "write" /\ o.data = "empty"
    \/ o.kind = "read" /\ written > N /\ scanned

(* Every block up to the next one is written, or is about to be. *)
Covered(d, dk) ==
    /\ \A i \in 1 .. N : i <= d.data.blocks_written + 1 =>
          \/ Whole(dk[i])
          \/ Using(d) /\ Emptying(d.op, i)
          \/ Waiting(d) /\ Emptying(d.g_db_action, i)
    /\ Using(d) => Permitted(d.op, d.data.blocks_written, AllWhole(dk))
    /\ Waiting(d) =>
          Permitted(d.g_db_action, d.data.blocks_written,
                    \A i \in 1 .. N : Whole(dk[i]) \/ (Using(d) /\ Emptying(d.op, i)))

(* The root page has been made up and written. *)
RootDone(d) == d.data.finalized /\ d.sync # "MODIFIED" /\ d.writing = NoPage

RootProgress(d, rt, dist) ==
    /\ d.data.finalized = (d.data.signet_updated /\ d.data.ctap_updated)
    /\ ~d.data.finalized => d.sync = "SYNCED" /\ d.writing = NoPage
    /\ d.writing # NoPage => d.writing = d.root_page /\ d.sync # "MODIFIED"
    /\ d.data.signet_updated => d.root_page.key = "new"
    /\ RootDone(d) => rt = d.root_page
    /\ d.data.ctap_needed # 0 => "retried" \in dist
    /\ d.data.ctap_updated /\ dist = {} => d.root_page.fido = "new"

(* One completion for every write: those of the blocks in order, and that of    *)
(* the root page among them.                                                    *)
Counted(d) ==
    LET w == d.data.blocks_written
    IN /\ w <= N + 1
       /\ w < N /\ ~RootDone(d) => One(d, "write", w + 1, "empty")
       /\ w < N /\ RootDone(d) =>
             /\ Using(d) /\ Emptying(d.op, w)
             /\ Waiting(d) /\ Emptying(d.g_db_action, w + 1)
       /\ w = N /\ ~RootDone(d) => Quiet(d)
       /\ w = N /\ RootDone(d) => One(d, "write", N, "empty")
       /\ w > N => RootDone(d) /\ OneRead(d)

(* WIPE. *)
Zeroing(d, i) ==
    IF i = 0 THEN d.writing = Page("zero", "zero") /\ Quiet(d)
    ELSE d.writing = NoPage /\ One(d, "write", i, "zero")

Wiping(d, dk, rt) ==
    /\ d.sync = "SYNCED" /\ Zeroing(d, d.data.block_idx)
    /\ Using(d) => ~d.op.mixed
    /\ Waiting(d) => ~d.g_db_action.mixed
    /\ d.data.block_idx # 0 => rt.key = "zero"
    /\ \A j \in 1 .. N : j < d.data.block_idx => dk[j] = "zero"

(* Between operations. *)
Settled(d) ==
    /\ d.sync = "SYNCED" /\ d.writing = NoPage
    /\ IF d.active_cmd = "STARTUP" THEN OneRead(d) ELSE Quiet(d)

Wiped(d, dk, rt) ==
    d.uninitialized_wiped => rt.key = "zero" /\ \A i \in 1 .. N : dk[i] = "zero"

(* Unless FIDO2 messages come between. *)
Clean(d, dk, rt, dist) ==
    /\ d.state = "INITIALIZING" => RootProgress(d, rt, dist) /\ Counted(d)
    /\ d.state = "WIPING" => Wiping(d, dk, rt)
    /\ d.state \in {"UNINITIALIZED", "LOGGED_OUT"} \/ d.active_cmd = "STARTUP" => Settled(d)
    /\ d.state = "UNINITIALIZED" => Wiped(d, dk, rt)

Sound(d, dk, rt, dist) ==
    /\ Shapes(d) /\ Commands(d)
    /\ d.state = "INITIALIZING" => IsInitData(d.data) /\ Covered(d, dk)
    /\ d.state = "WIPING" => \E i \in 0 .. N : d.data = WipeData(i)
    /\ "fido" \notin dist => Clean(d, dk, rt, dist)

Inv ==
    /\ root \in Pages /\ disk = [i \in 1 .. N |-> disk[i]]
    /\ NoAssertion
    /\ dev.failed => dev.state \in {"INITIALIZING", "WIPING"}
    /\ ~dev.failed => Sound(dev, disk, root, disturbed)

------------------------------------------------------------------------------
(* What does not disturb it: to end a command other than STARTUP.               *)
Frame(d, e) ==
    /\ Changes(d, e, Free \cup {"active_cmd"})
    /\ e.active_cmd # d.active_cmd => d.active_cmd # "STARTUP" /\ e.active_cmd = "none"

LEMMA AnswersFrame ==
    ASSUME NEW d, NEW e, Answers(d, e)
    PROVE  Frame(d, e)
BY DEF Answers, Frame

LEMMA FrameTransitive ==
    ASSUME NEW c, NEW d, NEW e, Frame(c, d), Frame(d, e)
    PROVE  Frame(c, e)
BY DEF Frame, Changes

LEMMA ChangesFrame ==
    ASSUME NEW d, NEW e, Changes(d, e, Free)
    PROVE  Frame(d, e)
BY DEF Frame, Changes, Free, Fields

LEMMA FrameFields ==
    ASSUME NEW d, NEW e, Frame(d, e)
    PROVE  /\ IsDev(e)
           /\ e.state = d.state /\ e.long = d.long /\ e.sync = d.sync
           /\ e.root_page = d.root_page /\ e.writing = d.writing /\ e.data = d.data
           /\ e.uninitialized_wiped = d.uninitialized_wiped
           /\ e.g_emmc_user = d.g_emmc_user /\ e.ready = d.ready
           /\ e.g_db_action = d.g_db_action /\ e.op = d.op /\ e.scan = d.scan
           /\ e.failed = d.failed
BY DEF Frame, Changes, Free, Fields

(* The parts of the invariant, of two states with the same fields. *)
LEMMA FrameParts ==
    ASSUME NEW d, NEW e, Changes(d, e, Free \cup {"active_cmd", "long"})
    PROVE  /\ Using(e) = Using(d) /\ Waiting(e) = Waiting(d)
           /\ \A kind, idx, data : One(d, kind, idx, data) => One(e, kind, idx, data)
           /\ Quiet(d) => Quiet(e)
           /\ OneRead(d) => OneRead(e)
           /\ Emmc(d) => Emmc(e)
           /\ RootShape(d) => RootShape(e)
           /\ RootDone(e) = RootDone(d)
           /\ \A dk : Covered(d, dk) => Covered(e, dk)
           /\ \A rt, dist : RootProgress(d, rt, dist) => RootProgress(e, rt, dist)
           /\ Counted(d) => Counted(e)
           /\ \A dk, rt : Wiping(d, dk, rt) => Wiping(e, dk, rt)
           /\ \A dk, rt : Wiped(d, dk, rt) => Wiped(e, dk, rt)
<1>f. /\ IsDev(e) /\ e.state = d.state /\ e.sync = d.sync
      /\ e.root_page = d.root_page /\ e.writing = d.writing
      /\ e.data = d.data /\ e.uninitialized_wiped = d.uninitialized_wiped
      /\ e.g_emmc_user = d.g_emmc_user /\ e.ready = d.ready
      /\ e.g_db_action = d.g_db_action /\ e.op = d.op /\ e.scan = d.scan
  BY DEF Changes, Free, Fields
<1>1. Using(e) = Using(d) /\ Waiting(e) = Waiting(d)
  BY <1>f DEF Using, Waiting
<1>2. \A kind, idx, data : One(d, kind, idx, data) => One(e, kind, idx, data)
  BY <1>f, <1>1 DEF One
<1>3. Quiet(d) => Quiet(e)
  BY <1>1 DEF Quiet
<1>4. OneRead(d) => OneRead(e)
  BY <1>2 DEF OneRead
<1>5. Emmc(d) => Emmc(e)
  BY <1>f, <1>1 DEF Emmc
<1>6. RootShape(d) => RootShape(e)
  BY <1>f DEF RootShape
<1>7. RootDone(e) = RootDone(d)
  BY <1>f DEF RootDone
<1>8. ASSUME NEW dk, Covered(d, dk) PROVE Covered(e, dk)
  BY <1>f, <1>1, <1>8, Zenon DEF Covered
<1>9. ASSUME NEW rt, NEW dist, RootProgress(d, rt, dist) PROVE RootProgress(e, rt, dist)
  BY <1>f, <1>7, <1>9 DEF RootProgress
<1>10. Counted(d) => Counted(e)
  BY <1>f, <1>1, <1>2, <1>3, <1>4, <1>7 DEF Counted
<1>11. ASSUME NEW dk, NEW rt, Wiping(d, dk, rt) PROVE Wiping(e, dk, rt)
  <2>1. Zeroing(e, d.data.block_idx)
    BY <1>f, <1>2, <1>3, <1>11 DEF Wiping, Zeroing
  <2> QED
    BY <1>f, <1>1, <1>11, <2>1, Zenon DEF Wiping
<1>12. ASSUME NEW dk, NEW rt, Wiped(d, dk, rt) PROVE Wiped(e, dk, rt)
  BY <1>f, <1>12 DEF Wiped
<1> QED
  BY <1>1, <1>2, <1>3, <1>4, <1>5, <1>6, <1>7, <1>8, <1>9, <1>10, <1>11, <1>12

(* The firmware takes a command or ends one, but STARTUP. *)
LEMMA CommandSound ==
    ASSUME NEW d, NEW e, NEW dk, NEW rt, NEW dist, Sound(d, dk, rt, dist),
           Changes(d, e, Free \cup {"active_cmd", "long"}), Commands(e),
           e.active_cmd = "STARTUP" <=> d.active_cmd = "STARTUP"
    PROVE  Sound(e, dk, rt, dist)
<1>f. /\ IsDev(e) /\ e.state = d.state /\ e.sync = d.sync
      /\ e.writing = d.writing /\ e.data = d.data
  BY DEF Changes, Free, Fields
<1>1. Shapes(e)
  BY <1>f, FrameParts DEF Sound, Shapes
<1>3. e.state = "INITIALIZING" => IsInitData(e.data) /\ Covered(e, dk)
  BY <1>f, FrameParts DEF Sound
<1>4. e.state = "WIPING" => \E i \in 0 .. N : e.data = WipeData(i)
  BY <1>f DEF Sound
<1>5. ASSUME "fido" \notin dist PROVE Clean(e, dk, rt, dist)
  <2>0. Clean(d, dk, rt, dist)
    BY <1>5 DEF Sound
  <2>1. e.state = "INITIALIZING" => RootProgress(e, rt, dist) /\ Counted(e)
    BY <1>f, <2>0, FrameParts DEF Clean
  <2>2. e.state = "WIPING" => Wiping(e, dk, rt)
    BY <1>f, <2>0, FrameParts DEF Clean
  <2>3. Settled(d) => Settled(e)
    BY <1>f, FrameParts DEF Settled
  <2>4. e.state \in {"UNINITIALIZED", "LOGGED_OUT"} \/ e.active_cmd = "STARTUP" => Settled(e)
    BY <1>f, <2>0, <2>3 DEF Clean
  <2>5. e.state = "UNINITIALIZED" => Wiped(e, dk, rt)
    BY <1>f, <2>0, FrameParts DEF Clean
  <2> QED
    BY <2>1, <2>2, <2>4, <2>5 DEF Clean
<1> QED
  BY <1>1, <1>3, <1>4, <1>5 DEF Sound

LEMMA FrameSound ==
    ASSUME NEW d, NEW e, NEW dk, NEW rt, NEW dist, Frame(d, e), Sound(d, dk, rt, dist)
    PROVE  Sound(e, dk, rt, dist)
<1>1. Changes(d, e, Free \cup {"active_cmd", "long"})
  BY DEF Frame, Changes
<1>2. Commands(e) /\ (e.active_cmd = "STARTUP" <=> d.active_cmd = "STARTUP")
  BY FrameFields DEF Frame, Sound, Commands
<1> QED
  BY <1>1, <1>2, CommandSound

(* Mass storage comes or goes: the operations of the database stay, and the one *)
(* that waits may begin.                                                        *)
Moves(d, e) ==
    /\ Changes(d, e, EmmcFields) /\ Emmc(e)
    /\ \/ /\ Using(e) = Using(d) /\ Waiting(e) = Waiting(d)
          /\ e.op = d.op /\ e.g_db_action = d.g_db_action
       \/ ~Using(d) /\ Waiting(d) /\ Using(e) /\ ~Waiting(e) /\ e.op = d.g_db_action
       \/ Quiet(d) /\ Quiet(e)

LEMMA EmmcFrame ==
    ASSUME NEW d, NEW e, Changes(d, e, EmmcFields)
    PROVE  /\ IsDev(e)
           /\ e.state = d.state /\ e.active_cmd = d.active_cmd /\ e.long = d.long
           /\ e.sync = d.sync /\ e.root_page = d.root_page /\ e.writing = d.writing
           /\ e.data = d.data /\ e.uninitialized_wiped = d.uninitialized_wiped
           /\ e.scan = d.scan /\ e.failed = d.failed
           /\ RootShape(d) => RootShape(e)
           /\ Commands(d) => Commands(e)
           /\ RootDone(e) = RootDone(d)
           /\ \A rt, dist : RootProgress(d, rt, dist) => RootProgress(e, rt, dist)
           /\ \A dk, rt : Wiped(d, dk, rt) => Wiped(e, dk, rt)
<1>f. /\ IsDev(e)
      /\ e.state = d.state /\ e.active_cmd = d.active_cmd /\ e.long = d.long
      /\ e.sync = d.sync /\ e.root_page = d.root_page /\ e.writing = d.writing
      /\ e.data = d.data /\ e.uninitialized_wiped = d.uninitialized_wiped
      /\ e.scan = d.scan /\ e.failed = d.failed
  BY DEF Changes, EmmcFields, Fields
<1>1. RootShape(d) => RootShape(e)
  BY <1>f DEF RootShape
<1>2. Commands(d) => Commands(e)
  BY <1>f DEF Commands
<1>3. RootDone(e) = RootDone(d)
  BY <1>f DEF RootDone
<1>4. ASSUME NEW rt, NEW dist, RootProgress(d, rt, dist) PROVE RootProgress(e, rt, dist)
  BY <1>f, <1>3, <1>4 DEF RootProgress
<1>5. ASSUME NEW dk, NEW rt, Wiped(d, dk, rt) PROVE Wiped(e, dk, rt)
  BY <1>f, <1>5 DEF Wiped
<1> QED
  BY <1>f, <1>1, <1>2, <1>3, <1>4, <1>5

LEMMA MovesSound ==
    ASSUME NEW d, NEW e, NEW dk, NEW rt, NEW dist, Moves(d, e), Sound(d, dk, rt, dist)
    PROVE  Sound(e, dk, rt, dist)
<1>f. /\ IsDev(e)
      /\ e.state = d.state /\ e.active_cmd = d.active_cmd
      /\ e.sync = d.sync /\ e.writing = d.writing
      /\ e.data = d.data /\ RootDone(e) = RootDone(d)
  BY EmmcFrame DEF Moves
<1>1. \A kind, idx, data : One(d, kind, idx, data) => One(e, kind, idx, data)
  BY DEF Moves, One, Quiet
<1>2. Quiet(d) => Quiet(e)
  BY DEF Moves, Quiet
<1>3. OneRead(d) => OneRead(e)
  BY <1>1 DEF OneRead
<1>4. Shapes(e) /\ Commands(e)
  BY EmmcFrame DEF Moves, Sound, Shapes
<1>5. ASSUME Covered(d, dk) PROVE Covered(e, dk)
  <2>1. CASE Using(e) = Using(d) /\ Waiting(e) = Waiting(d) /\ e.op = d.op
             /\ e.g_db_action = d.g_db_action
    BY <1>f, <1>5, <2>1, Zenon DEF Covered
  <2>2. CASE ~Using(d) /\ Waiting(d) /\ Using(e) /\ ~Waiting(e) /\ e.op = d.g_db_action
    <3>1. (\A i \in 1 .. N : Whole(dk[i]) \/ (Using(d) /\ Emptying(d.op, i))) => AllWhole(dk)
      BY <2>2 DEF AllWhole
    <3>a. Permitted(d.g_db_action, d.data.blocks_written,
                    \A i \in 1 .. N : Whole(dk[i]) \/ (Using(d) /\ Emptying(d.op, i)))
      BY <1>5, <2>2, Zenon DEF Covered
    <3>b. Permitted(d.g_db_action, d.data.blocks_written, AllWhole(dk))
      BY <3>1, <3>a DEF Permitted
    <3>2. Permitted(e.op, e.data.blocks_written, AllWhole(dk))
      BY <1>f, <2>2, <3>b
    <3>3. \A i \in 1 .. N : i <= e.data.blocks_written + 1 =>
             Whole(dk[i]) \/ (Using(e) /\ Emptying(e.op, i))
      BY <1>f, <1>5, <2>2 DEF Covered
    <3> QED
      BY <2>2, <3>2, <3>3 DEF Covered
  <2>3. CASE Quiet(d) /\ Quiet(e)
    BY <1>f, <1>5, <2>3 DEF Covered, Quiet
  <2> QED
    BY <2>1, <2>2, <2>3 DEF Moves
<1>6. e.state = "INITIALIZING" => IsInitData(e.data) /\ Covered(e, dk)
  BY <1>f, <1>5 DEF Sound
<1>7. e.state = "WIPING" => \E i \in 0 .. N : e.data = WipeData(i)
  BY <1>f DEF Sound
<1>8. ASSUME "fido" \notin dist PROVE Clean(e, dk, rt, dist)
  <2>0. Clean(d, dk, rt, dist)
    BY <1>8 DEF Sound
  <2>1. Counted(d) => Counted(e)
    BY <1>f, <1>1, <1>2, <1>3 DEF Counted, Moves, Quiet
  <2>2. e.state = "INITIALIZING" => RootProgress(e, rt, dist) /\ Counted(e)
    BY <1>f, <2>0, <2>1, EmmcFrame DEF Clean, Moves
  <2>3. ASSUME Wiping(d, dk, rt) PROVE Wiping(e, dk, rt)
    <3>1. Zeroing(e, e.data.block_idx)
      BY <1>f, <1>1, <1>2, <2>3 DEF Wiping, Zeroing
    <3>2. Using(e) => ~e.op.mixed
      BY <2>3 DEF Wiping, Moves, Quiet
    <3>3. Waiting(e) => ~e.g_db_action.mixed
      BY <2>3 DEF Wiping, Moves, Quiet
    <3> QED
      BY <1>f, <2>3, <3>1, <3>2, <3>3 DEF Wiping
  <2>4. e.state \in {"UNINITIALIZED", "LOGGED_OUT"} \/ e.active_cmd = "STARTUP" => Settled(e)
    BY <1>f, <1>2, <1>3, <2>0 DEF Clean, Settled
  <2>5. e.state = "UNINITIALIZED" => Wiped(e, dk, rt)
    BY <1>f, <2>0, EmmcFrame DEF Clean, Moves
  <2> QED
    BY <1>f, <2>0, <2>2, <2>3, <2>4, <2>5 DEF Clean
<1> QED
  BY <1>4, <1>6, <1>7, <1>8 DEF Sound

LEMMA StorageEndSound ==
    ASSUME NEW d, NEW dk, NEW rt, NEW dist, Sound(d, dk, rt, dist), d.g_emmc_user = "STORAGE"
    PROVE  Moves(d, emmc_user_done(d)) /\ Sound(emmc_user_done(d), dk, rt, dist)
<1>1. IsDev(d) /\ Emmc(d) /\ ~Using(d)
  BY DEF Sound, Shapes, Using
<1>2. Moves(d, emmc_user_done(d))
  BY <1>1, DoneGoesOn DEF Moves, Quiet
<1> QED
  BY <1>2, MovesSound

LEMMA StorageBeginSound ==
    ASSUME NEW d, NEW dk, NEW rt, NEW dist, Sound(d, dk, rt, dist), "STORAGE" \notin d.ready
    PROVE  /\ Moves(d, emmc_user_queue(d, "STORAGE"))
           /\ Sound(emmc_user_queue(d, "STORAGE"), dk, rt, dist)
<1>1. IsDev(d) /\ Emmc(d)
  BY DEF Sound, Shapes
<1>2. Moves(d, emmc_user_queue(d, "STORAGE"))
  BY <1>1, StorageQueues DEF Moves
<1> QED
  BY <1>2, MovesSound

------------------------------------------------------------------------------
(* INITIALIZE: its steps.                                                       *)

(* The command may only end, and not if it is STARTUP. *)
MayEnd(d, e) ==
    e.active_cmd # d.active_cmd => d.active_cmd # "STARTUP" /\ e.active_cmd = "none"

(* A completion is counted. *)
Counts(d, e) ==
    /\ Changes(d, e, Free \cup {"active_cmd", "data"}) /\ MayEnd(d, e)
    /\ IsInitData(e.data) /\ e.data.blocks_written = d.data.blocks_written + 1
    /\ e.data.finalized = d.data.finalized
    /\ e.data.signet_updated = d.data.signet_updated
    /\ e.data.ctap_updated = d.data.ctap_updated
    /\ e.data.ctap_needed = d.data.ctap_needed

LEMMA BlockWrittenCounts ==
    ASSUME NEW d, IsDev(d), IsInitData(d.data), NEW e, e = BlockWritten(d)
    PROVE  Counts(d, e)
<1> DEFINE w == d.data.blocks_written + 1
           a == [d.data EXCEPT !.blocks_written = w]
           l == [d.level EXCEPT ![1] = IF w > N THEN N ELSE w]
           c == [d EXCEPT !.data = a, !.level = l]
<1>1. /\ IsInitData(a) /\ a.blocks_written = w
      /\ a.finalized = d.data.finalized
      /\ a.signet_updated = d.data.signet_updated
      /\ a.ctap_updated = d.data.ctap_updated
      /\ a.ctap_needed = d.data.ctap_needed
  BY DEF IsInitData, DataFields
<1>2. e = get_progress_check(c)
  BY DEF BlockWritten
<1> HIDE DEF a, l
<1>3. Changes(d, c, Free \cup {"data"}) /\ c.data = a
  BY DEF Changes, IsDev, Fields, Free
<1> HIDE DEF c
<1>4. Answers(c, e)
  BY <1>2, <1>3, ProgressAnswers DEF Changes
<1>5. Changes(d, e, Free \cup {"active_cmd", "data"}) /\ e.data = a
  BY <1>3, <1>4 DEF Answers, Changes, Free, Fields
<1>6. MayEnd(d, e)
  BY <1>3, <1>4 DEF Answers, Changes, Free, Fields, MayEnd
<1> QED
  BY <1>1, <1>5, <1>6 DEF Counts

(* What finalize_root_page_check may do to a page that is not final. *)
PageFields == Free \cup {"data", "root_page", "sync"}

PageUpdate(d, e) ==
    /\ Changes(d, e, PageFields)
    /\ IsInitData(e.data) /\ e.data.blocks_written = d.data.blocks_written
    /\ e.root_page \in Pages
    /\ d.data.ctap_needed # 0 => e.data.ctap_needed # 0
    /\ e.data.signet_updated =>
          \/ d.data.signet_updated /\ e.root_page.key = d.root_page.key
          \/ e.root_page.key = "new"
    /\ e.data.ctap_updated =>
          \/ d.data.ctap_updated /\ e.root_page.fido = d.root_page.fido
          \/ e.data.ctap_needed # 0
          \/ e.root_page.fido = "new"

LEMMA SignetUpdate ==
    ASSUME NEW d, IsDev(d), IsInitData(d.data), d.root_page \in Pages,
           NEW e, e = UpdateSignet(d)
    PROVE  PageUpdate(d, e) /\ e.data.finalized = d.data.finalized /\ e.sync = d.sync
<1>1. CASE e = d
  BY <1>1 DEF PageUpdate, Changes
<1>2. CASE e # d
  <2> DEFINE g == [d.root_page EXCEPT !.key = "new"]
             a == [d.data EXCEPT !.signet_updated = TRUE]
             r == d.rand_avail - SignetWords
  <2>1. g \in Pages /\ g.key = "new" /\ g.fido = d.root_page.fido
    BY DEF Pages
  <2>2. /\ IsInitData(a) /\ a.blocks_written = d.data.blocks_written
        /\ a.finalized = d.data.finalized /\ a.ctap_updated = d.data.ctap_updated
        /\ a.ctap_needed = d.data.ctap_needed
    BY DEF IsInitData, DataFields
  <2>3. e = [d EXCEPT !.rand_avail = r, !.root_page = g, !.data = a]
    BY <1>2 DEF UpdateSignet
  <2> HIDE DEF g, a, r
  <2>4. Changes(d, e, PageFields) /\ e.root_page = g /\ e.data = a /\ e.sync = d.sync
    BY <2>3 DEF Changes, IsDev, Fields, Free, PageFields
  <2> QED
    BY <2>1, <2>2, <2>4 DEF PageUpdate
<1> QED
  BY <1>1, <1>2

LEMMA CtapUpdate ==
    ASSUME NEW d, IsDev(d), IsInitData(d.data), d.root_page \in Pages,
           NEW e, e = UpdateCtap(d)
    PROVE  PageUpdate(d, e) /\ e.data.finalized = d.data.finalized /\ e.sync = d.sync
<1> DEFINE Short == d.data.ctap_needed = 0 /\ d.rand_avail < CtapWords
<1>1. CASE e = d
  BY <1>1 DEF PageUpdate, Changes
<1>2. CASE e # d /\ Short
  <2> DEFINE a == [d.data EXCEPT !.rand_avail_init = d.rand_avail,
                                 !.ctap_needed = CtapWords, !.needed = CtapWords]
  <2>2. /\ IsInitData(a) /\ a.blocks_written = d.data.blocks_written
        /\ a.finalized = d.data.finalized /\ a.ctap_updated = d.data.ctap_updated
        /\ a.signet_updated = d.data.signet_updated
        /\ (d.data.ctap_needed # 0 => a.ctap_needed # 0)
    BY <1>2 DEF IsInitData, DataFields
  <2>3. e = [d EXCEPT !.data = a]
    BY <1>2 DEF UpdateCtap
  <2> HIDE DEF a
  <2>4. /\ Changes(d, e, PageFields) /\ e.root_page = d.root_page /\ e.data = a
        /\ e.sync = d.sync
    BY <2>3 DEF Changes, IsDev, Fields, Free, PageFields
  <2> QED
    BY <2>2, <2>4 DEF PageUpdate
<1>3. CASE e # d /\ ~Short
  <2> DEFINE g == [d.root_page EXCEPT !.fido = IF d.data.ctap_needed = 0 THEN "new" ELSE @]
             a == [d.data EXCEPT !.ctap_updated = TRUE]
             r == d.rand_avail - CtapWords
  <2>1. g \in Pages /\ g.key = d.root_page.key /\ (d.data.ctap_needed = 0 => g.fido = "new")
    BY DEF Pages
  <2>2. /\ IsInitData(a) /\ a.blocks_written = d.data.blocks_written
        /\ a.finalized = d.data.finalized /\ a.signet_updated = d.data.signet_updated
        /\ a.ctap_needed = d.data.ctap_needed
    BY DEF IsInitData, DataFields
  <2>3. e = [d EXCEPT !.rand_avail = r, !.data = a, !.root_page = g]
    BY <1>3 DEF UpdateCtap
  <2> HIDE DEF g, a, r
  <2>4. Changes(d, e, PageFields) /\ e.root_page = g /\ e.data = a /\ e.sync = d.sync
    BY <2>3 DEF Changes, IsDev, Fields, Free, PageFields
  <2> QED
    BY <2>1, <2>2, <2>4 DEF PageUpdate
<1> QED
  BY <1>1, <1>2, <1>3

LEMMA PageFinalized ==
    ASSUME NEW d, IsDev(d), IsInitData(d.data), d.root_page \in Pages,
           NEW e, e = finalize_root_page_check(d)
    PROVE  /\ PageUpdate(d, e)
           /\ d.data.finalized => e = d
           /\ ~d.data.finalized =>
                 /\ e.data.finalized = (e.data.signet_updated /\ e.data.ctap_updated)
                 /\ e.sync = IF e.data.finalized THEN "MODIFIED" ELSE d.sync
<1>1. CASE d.data.finalized
  BY <1>1 DEF finalize_root_page_check, PageUpdate, Changes
<1>2. CASE ~d.data.finalized
  <2> DEFINE s == UpdateSignet(d)
             c == UpdateCtap(s)
  <2>1. PageUpdate(d, s) /\ ~s.data.finalized /\ s.sync = d.sync
    BY <1>2, SignetUpdate
  <2>2. PageUpdate(s, c) /\ ~c.data.finalized /\ c.sync = d.sync
    <3>1. IsDev(s) /\ IsInitData(s.data) /\ s.root_page \in Pages
      BY <2>1 DEF PageUpdate, Changes
    <3> QED
      BY <2>1, <3>1, CtapUpdate
  <2>3. e = Finalize(c)
    BY <1>2 DEF finalize_root_page_check
  <2> HIDE DEF s, c
  <2>4. PageUpdate(d, c)
    <3>1. Changes(d, c, PageFields)
      BY <2>1, <2>2 DEF PageUpdate, Changes
    <3> QED
      BY <2>1, <2>2, <3>1 DEF PageUpdate
  <2>5. c.data.signet_updated \in BOOLEAN /\ c.data.ctap_updated \in BOOLEAN
        /\ c.data.finalized \in BOOLEAN
    BY <2>4 DEF PageUpdate, IsInitData
  <2>6. CASE c.data.signet_updated /\ c.data.ctap_updated
    <3> DEFINE a == [c.data EXCEPT !.finalized = TRUE]
    <3>1. /\ IsInitData(a) /\ a.finalized /\ a.blocks_written = c.data.blocks_written
          /\ a.signet_updated = c.data.signet_updated
          /\ a.ctap_updated = c.data.ctap_updated /\ a.ctap_needed = c.data.ctap_needed
      BY <2>4 DEF PageUpdate, IsInitData, DataFields
    <3>2. e = [c EXCEPT !.sync = "MODIFIED", !.data = a]
      BY <2>3, <2>6 DEF Finalize
    <3>3. IsDev(c)
      BY <2>4 DEF PageUpdate, Changes
    <3> HIDE DEF a
    <3>4. Changes(c, e, PageFields) /\ e.sync = "MODIFIED" /\ e.data = a
          /\ e.root_page = c.root_page
      BY <3>2, <3>3 DEF Changes, IsDev, Fields, Free, PageFields
    <3>5. Changes(d, e, PageFields)
      BY <2>4, <3>4 DEF PageUpdate, Changes
    <3>6. PageUpdate(d, e)
      BY <2>4, <3>1, <3>4, <3>5 DEF PageUpdate
    <3> QED
      BY <1>2, <2>6, <3>1, <3>4, <3>6
  <2>7. CASE ~(c.data.signet_updated /\ c.data.ctap_updated)
    <3>1. e = c
      BY <2>3, <2>7 DEF Finalize
    <3> QED
      BY <1>2, <2>2, <2>4, <2>5, <2>7, <3>1
  <2> QED
    BY <2>6, <2>7
<1> QED
  BY <1>1, <1>2

LEMMA CountsParts ==
    ASSUME NEW d, NEW e, Counts(d, e)
    PROVE  /\ IsDev(e)
           /\ e.state = d.state /\ e.long = d.long /\ e.sync = d.sync
           /\ e.root_page = d.root_page /\ e.writing = d.writing
           /\ e.g_emmc_user = d.g_emmc_user /\ e.ready = d.ready
           /\ e.g_db_action = d.g_db_action /\ e.op = d.op /\ e.scan = d.scan
           /\ e.failed = d.failed
           /\ Using(e) = Using(d) /\ Waiting(e) = Waiting(d)
           /\ Emmc(d) => Emmc(e)
           /\ RootShape(d) => RootShape(e)
           /\ RootDone(e) = RootDone(d)
           /\ \A rt, dist : RootProgress(d, rt, dist) => RootProgress(e, rt, dist)
<1>f. /\ IsDev(e)
      /\ e.state = d.state /\ e.long = d.long /\ e.sync = d.sync
      /\ e.root_page = d.root_page /\ e.writing = d.writing
      /\ e.g_emmc_user = d.g_emmc_user /\ e.ready = d.ready
      /\ e.g_db_action = d.g_db_action /\ e.op = d.op /\ e.scan = d.scan
      /\ e.failed = d.failed
  BY DEF Counts, Changes, Free, Fields
<1>1. Using(e) = Using(d) /\ Waiting(e) = Waiting(d)
  BY <1>f DEF Using, Waiting
<1>2. Emmc(d) => Emmc(e)
  BY <1>f, <1>1 DEF Emmc
<1>3. RootShape(d) => RootShape(e)
  BY <1>f DEF RootShape
<1>4. RootDone(e) = RootDone(d)
  BY <1>f DEF RootDone, Counts
<1>5. ASSUME NEW rt, NEW dist, RootProgress(d, rt, dist) PROVE RootProgress(e, rt, dist)
  BY <1>f, <1>4, <1>5 DEF RootProgress, Counts
<1> QED
  BY <1>f, <1>1, <1>2, <1>3, <1>4, <1>5

LEMMA EndedCommands ==
    ASSUME NEW d, NEW e, Commands(d), MayEnd(d, e), e.state = d.state, e.long = d.long
    PROVE  Commands(e)
BY DEF Commands, MayEnd

(* INITIALIZE goes on: from d, between a completion and what follows it.        *)
Underway(d, dk) ==
    /\ Shapes(d) /\ Commands(d) /\ d.state = "INITIALIZING"
    /\ IsInitData(d.data) /\ Covered(d, dk)

(* What Counted is without the completion that is to be counted. *)
Owed(d) ==
    LET w == d.data.blocks_written
    IN /\ w <= N
       /\ w < N /\ ~RootDone(d) => Quiet(d)
       /\ w < N /\ RootDone(d) => One(d, "write", w + 1, "empty")
       /\ w = N => RootDone(d) /\ Quiet(d)

(* The history of e is that of d, and "retried" if e says so. *)
Later(e, dist, more) == dist \subseteq more /\ (e.data.ctap_needed # 0 => "retried" \in more)

GoesOn(d, e, dk) ==
    /\ Underway(e, dk) /\ e.failed = d.failed
    /\ \A rt, dist, more :
          RootProgress(d, rt, dist) /\ Owed(d) /\ Later(e, dist, more) =>
             RootProgress(e, rt, more) /\ Counted(e)

LEMMA LaterProgress ==
    ASSUME NEW e, NEW rt, NEW dist, NEW more, RootProgress(e, rt, dist), Later(e, dist, more)
    PROVE  RootProgress(e, rt, more)
BY DEF RootProgress, Later

LEMMA IterWrites ==
    ASSUME NEW d, NEW dk, Underway(d, dk), ~Waiting(d), NEW p, Counts(d, p),
           p.data.blocks_written < N, NEW e, e = WriteEmpty(p, p.data.blocks_written + 1)
    PROVE  GoesOn(d, e, dk)
<1> DEFINE w == d.data.blocks_written
<1>0. w \in Nat /\ N \in Nat /\ w + 2 \in 1 .. N /\ p.data.blocks_written = w + 1
  BY InitializeAssumption DEF Underway, IsInitData, Counts
<1>1. IsDev(p) /\ Emmc(p) /\ ~Waiting(p)
  BY CountsParts DEF Underway, Shapes
<1>2. EmptyQueued(p, e, w + 2)
  BY <1>0, <1>1, WriteEmptyQueues
<1>3. Changes(p, e, EmmcFields) /\ Emmc(e)
  BY <1>2 DEF EmptyQueued
<1>4. /\ IsDev(e) /\ e.state = d.state /\ e.long = d.long /\ e.data = p.data
      /\ e.active_cmd = p.active_cmd /\ e.failed = d.failed
      /\ RootShape(e) /\ RootDone(e) = RootDone(d)
  BY <1>3, EmmcFrame, CountsParts DEF Underway, Shapes
<1>5. Commands(e)
  BY <1>4, EndedCommands DEF Underway, Counts, MayEnd
<1>6. IF Using(d)
        THEN /\ Using(e) /\ Waiting(e) /\ Emptying(e.g_db_action, w + 2)
             /\ e.op.kind = d.op.kind /\ e.op.idx = d.op.idx /\ e.op.data = d.op.data
        ELSE One(e, "write", w + 2, "empty")
  BY <1>2, CountsParts DEF EmptyQueued, Does
<1>7. Covered(e, dk)
  <2>1. ASSUME NEW i \in 1 .. N, i <= e.data.blocks_written + 1
        PROVE  \/ Whole(dk[i])
               \/ Using(e) /\ Emptying(e.op, i)
               \/ Waiting(e) /\ Emptying(e.g_db_action, i)
    <3>1. CASE i <= w + 1
      <4>1. Whole(dk[i]) \/ (Using(d) /\ Emptying(d.op, i))
        BY <3>1 DEF Underway, Covered
      <4> QED
        BY <1>6, <4>1 DEF Emptying, Does
    <3>2. CASE ~(i <= w + 1)
      <4>1. i = w + 2
        BY <1>0, <1>4, <2>1, <3>2
      <4> QED
        BY <1>6, <4>1 DEF One, Emptying
    <3> QED
      BY <3>1, <3>2
  <2>2. Using(d) => d.op.kind = "write" /\ d.op.data = "empty"
    BY <1>0 DEF Underway, Covered, Permitted
  <2>3. Using(e) => Permitted(e.op, e.data.blocks_written, AllWhole(dk))
    BY <1>6, <2>2 DEF Permitted, One, Does
  <2>4. Waiting(e) => e.g_db_action.kind = "write" /\ e.g_db_action.data = "empty"
    BY <1>6 DEF One, Does, Emptying
  <2> QED
    BY <2>1, <2>3, <2>4 DEF Covered, Permitted
<1>8. Underway(e, dk)
  BY <1>3, <1>4, <1>5, <1>7 DEF Underway, Shapes, Counts
<1>9. ASSUME NEW rt, NEW dist, NEW more, RootProgress(d, rt, dist), Owed(d),
             Later(e, dist, more)
      PROVE  RootProgress(e, rt, more) /\ Counted(e)
  <2>1. RootProgress(e, rt, more)
    BY <1>3, <1>9, CountsParts, EmmcFrame, LaterProgress
  <2>2. w + 1 = e.data.blocks_written /\ w < N /\ w + 1 < N
    BY <1>0, <1>4
  <2>3. CASE ~RootDone(d)
    <3>1. One(e, "write", w + 2, "empty")
      BY <1>6, <1>9, <2>2, <2>3 DEF Owed, Quiet
    <3> QED
      BY <1>0, <1>4, <2>1, <2>2, <2>3, <3>1 DEF Counted
  <2>4. CASE RootDone(d)
    <3>1. Using(d) /\ Does(d.op, "write", w + 1, "empty")
      BY <1>9, <2>2, <2>4 DEF Owed, One, Underway
    <3>2. Using(e) /\ Emptying(e.op, w + 1) /\ Waiting(e) /\ Emptying(e.g_db_action, w + 2)
      BY <1>6, <3>1 DEF Does, Emptying
    <3>3. w + 2 = e.data.blocks_written + 1 /\ e.data.blocks_written \in Nat
      BY <1>0, <2>2
    <3>4. RootDone(e) /\ e.data.blocks_written < N
      BY <1>4, <2>2, <2>4
    <3>5. /\ Using(e) /\ Emptying(e.op, e.data.blocks_written)
          /\ Waiting(e) /\ Emptying(e.g_db_action, e.data.blocks_written + 1)
      BY <2>2, <3>2, <3>3
    <3>6. Counted(e)
      BY <1>0, <3>3, <3>4, <3>5 DEF Counted
    <3> QED
      BY <2>1, <3>6
  <2> QED
    BY <2>3, <2>4
<1> QED
  BY <1>4, <1>8, <1>9 DEF GoesOn

(* The page is updated, in whichever step. *)
LEMMA UpdateParts ==
    ASSUME NEW d, NEW e, PageUpdate(d, e)
    PROVE  /\ IsDev(e)
           /\ e.state = d.state /\ e.active_cmd = d.active_cmd /\ e.long = d.long
           /\ e.writing = d.writing
           /\ e.g_emmc_user = d.g_emmc_user /\ e.ready = d.ready
           /\ e.g_db_action = d.g_db_action /\ e.op = d.op /\ e.scan = d.scan
           /\ e.failed = d.failed
           /\ Using(e) = Using(d) /\ Waiting(e) = Waiting(d)
           /\ Emmc(d) => Emmc(e)
           /\ \A kind, idx, data : One(d, kind, idx, data) => One(e, kind, idx, data)
<1>f. /\ IsDev(e)
      /\ e.state = d.state /\ e.active_cmd = d.active_cmd /\ e.long = d.long
      /\ e.writing = d.writing
      /\ e.g_emmc_user = d.g_emmc_user /\ e.ready = d.ready
      /\ e.g_db_action = d.g_db_action /\ e.op = d.op /\ e.scan = d.scan
      /\ e.failed = d.failed
  BY DEF PageUpdate, Changes, PageFields, Free, Fields
<1>1. Using(e) = Using(d) /\ Waiting(e) = Waiting(d)
  BY <1>f DEF Using, Waiting
<1>2. Emmc(d) => Emmc(e)
  BY <1>f, <1>1 DEF Emmc
<1> QED
  BY <1>f, <1>1, <1>2 DEF One

LEMMA FinalizedProgress ==
    ASSUME NEW d, IsDev(d), IsInitData(d.data), RootShape(d),
           NEW e, e = finalize_root_page_check(d)
    PROVE  /\ PageUpdate(d, e) /\ RootShape(e)
           /\ \A rt, dist, more :
                 RootProgress(d, rt, dist) /\ Later(e, dist, more) =>
                    RootProgress(e, rt, more) /\ RootDone(e) = RootDone(d)
<1>1. /\ PageUpdate(d, e)
      /\ d.data.finalized => e = d
      /\ ~d.data.finalized =>
            /\ e.data.finalized = (e.data.signet_updated /\ e.data.ctap_updated)
            /\ e.sync = IF e.data.finalized THEN "MODIFIED" ELSE d.sync
  BY PageFinalized DEF RootShape
<1>2. e.writing = d.writing /\ e.root_page \in Pages
  BY <1>1, UpdateParts DEF PageUpdate
<1>b. /\ d.data.finalized \in BOOLEAN /\ e.data.finalized \in BOOLEAN
      /\ e.data.signet_updated \in BOOLEAN /\ e.data.ctap_updated \in BOOLEAN
  BY <1>1 DEF PageUpdate, IsInitData
<1>3. RootShape(e)
  <2>1. e.sync = "MODIFIED" \/ e.sync = d.sync
    BY <1>1
  <2> QED
    BY <1>2, <2>1 DEF RootShape
<1>4. ASSUME NEW rt, NEW dist, NEW more, RootProgress(d, rt, dist), Later(e, dist, more)
      PROVE  RootProgress(e, rt, more) /\ RootDone(e) = RootDone(d)
  <2>1. CASE d.data.finalized
    BY <1>1, <1>4, <2>1, LaterProgress
  <2>2. CASE ~d.data.finalized
    <3>1. d.sync = "SYNCED" /\ d.writing = NoPage
      BY <1>4, <2>2 DEF RootProgress
    <3>2. ~RootDone(e) /\ ~RootDone(d)
      BY <1>1, <2>2 DEF RootDone
    <3>3. e.data.signet_updated => e.root_page.key = "new"
      BY <1>1, <1>4 DEF PageUpdate, RootProgress
    <3>4. e.data.ctap_updated /\ more = {} => e.root_page.fido = "new"
      <4>1. more = {} => dist = {} /\ e.data.ctap_needed = 0
        BY <1>4 DEF Later
      <4> QED
        BY <1>1, <1>4, <4>1 DEF PageUpdate, RootProgress
    <3>5. e.data.ctap_needed # 0 => "retried" \in more
      BY <1>4 DEF Later
    <3>6. ~e.data.finalized => e.sync = "SYNCED" /\ e.writing = NoPage
      BY <1>1, <1>2, <2>2, <3>1
    <3>7. e.data.finalized = (e.data.signet_updated /\ e.data.ctap_updated)
      BY <1>1, <2>2
    <3> QED
      BY <1>2, <3>1, <3>2, <3>3, <3>4, <3>5, <3>6, <3>7 DEF RootProgress, RootDone
  <2> QED
    BY <1>b, <2>1, <2>2
<1> QED
  BY <1>1, <1>3, <1>4

(* Covered says nothing of the page. *)
LEMMA UpdateCovered ==
    ASSUME NEW d, NEW e, NEW dk, PageUpdate(d, e), Covered(d, dk)
    PROVE  Covered(e, dk)
<1>1. /\ e.data.blocks_written = d.data.blocks_written
      /\ Using(e) = Using(d) /\ Waiting(e) = Waiting(d)
      /\ e.op = d.op /\ e.g_db_action = d.g_db_action
  BY UpdateParts DEF PageUpdate
<1> QED
  BY <1>1, Zenon DEF Covered

LEMMA IterFinalizes ==
    ASSUME NEW d, NEW dk, Underway(d, dk), NEW p, Counts(d, p),
           p.data.blocks_written = N, NEW e, e = finalize_root_page_check(p)
    PROVE  GoesOn(d, e, dk)
<1>0. d.data.blocks_written \in Nat /\ N \in Nat /\ d.data.blocks_written + 1 = N
      /\ d.data.blocks_written < N
  BY InitializeAssumption DEF Underway, IsInitData, Counts
<1>1. IsDev(p) /\ Emmc(p) /\ RootShape(p) /\ IsInitData(p.data)
  BY CountsParts DEF Underway, Shapes, Counts
<1>2. PageUpdate(p, e) /\ RootShape(e)
  BY <1>1, FinalizedProgress
<1>3. /\ IsDev(e) /\ Emmc(e) /\ e.state = d.state /\ e.long = d.long
      /\ e.active_cmd = p.active_cmd /\ e.failed = d.failed
      /\ e.data.blocks_written = N /\ IsInitData(e.data)
      /\ Using(e) = Using(d) /\ Waiting(e) = Waiting(d)
      /\ e.op = d.op /\ e.g_db_action = d.g_db_action
  BY <1>1, <1>2, UpdateParts, CountsParts DEF PageUpdate
<1>4. Commands(e)
  BY <1>3, EndedCommands DEF Underway, Counts, MayEnd
<1>5. Covered(e, dk)
  <2>1. \A i \in 1 .. N :
           \/ Whole(dk[i])
           \/ Using(e) /\ Emptying(e.op, i)
           \/ Waiting(e) /\ Emptying(e.g_db_action, i)
    BY <1>0, <1>3 DEF Underway, Covered
  <2>2. Using(d) => d.op.kind = "write" /\ d.op.data = "empty"
    BY <1>0 DEF Underway, Covered, Permitted
  <2>3. Waiting(d) => d.g_db_action.kind = "write" /\ d.g_db_action.data = "empty"
    BY <1>0 DEF Underway, Covered, Permitted
  <2> QED
    BY <1>3, <2>1, <2>2, <2>3 DEF Covered, Permitted
<1>6. Underway(e, dk)
  BY <1>2, <1>3, <1>4, <1>5 DEF Underway, Shapes
<1>7. ASSUME NEW rt, NEW dist, NEW more, RootProgress(d, rt, dist), Owed(d),
             Later(e, dist, more)
      PROVE  RootProgress(e, rt, more) /\ Counted(e)
  <2>1. RootProgress(p, rt, dist) /\ RootDone(p) = RootDone(d)
    BY <1>7, CountsParts
  <2>2. RootProgress(e, rt, more) /\ RootDone(e) = RootDone(d)
    BY <1>1, <1>7, <2>1, FinalizedProgress
  <2>3. ~RootDone(d) => Quiet(e)
    BY <1>0, <1>3, <1>7 DEF Owed, Quiet
  <2>4. RootDone(d) => One(e, "write", N, "empty")
    BY <1>0, <1>3, <1>7 DEF Owed, One
  <2> QED
    BY <1>0, <1>3, <2>2, <2>3, <2>4 DEF Counted
<1> QED
  BY <1>3, <1>6, <1>7 DEF GoesOn

(* The scan of the blocks, of INITIALIZE and of STARTUP. *)
LEMMA ReadQueues ==
    ASSUME NEW d, IsDev(d), Emmc(d), ~Waiting(d), NEW idx \in 1 .. N,
           NEW c, c = [d EXCEPT !.scan = idx],
           NEW e, e = Db(c, "read", idx, "none"),
           NEW o, o = [kind |-> "read", idx |-> idx, data |-> "none", mixed |-> FALSE]
    PROVE  /\ Changes(d, e, EmmcFields \cup {"scan"}) /\ Queued(c, e, o)
           /\ Using(c) = Using(d) /\ c.op = d.op
<1>1. /\ Changes(d, c, {"scan"}) /\ c.scan = idx
  BY DEF Changes, IsDev, Fields
<1>2. /\ IsDev(c) /\ Using(c) = Using(d) /\ Waiting(c) = Waiting(d) /\ c.op = d.op
      /\ c.g_emmc_user = d.g_emmc_user /\ c.ready = d.ready
      /\ c.g_db_action = d.g_db_action
  BY <1>1 DEF Changes, Fields, Using, Waiting
<1>3. Emmc(c)
  BY <1>1, <1>2 DEF Emmc
<1>4. o \in Ops
  BY DEF Ops
<1>5. Queued(c, e, o)
  BY <1>2, <1>3, <1>4, DbQueues
<1>6. Changes(d, e, EmmcFields \cup {"scan"})
  BY <1>1, <1>5 DEF Queued, Changes
<1> QED
  BY <1>2, <1>5, <1>6

LEMMA ScanFrame ==
    ASSUME NEW d, NEW e, Changes(d, e, EmmcFields \cup {"scan"})
    PROVE  /\ IsDev(e)
           /\ e.state = d.state /\ e.active_cmd = d.active_cmd /\ e.long = d.long
           /\ e.sync = d.sync /\ e.root_page = d.root_page /\ e.writing = d.writing
           /\ e.data = d.data /\ e.uninitialized_wiped = d.uninitialized_wiped
           /\ e.failed = d.failed
           /\ RootShape(d) => RootShape(e)
           /\ RootDone(e) = RootDone(d)
           /\ \A rt, dist : RootProgress(d, rt, dist) => RootProgress(e, rt, dist)
<1>f. /\ IsDev(e)
      /\ e.state = d.state /\ e.active_cmd = d.active_cmd /\ e.long = d.long
      /\ e.sync = d.sync /\ e.root_page = d.root_page /\ e.writing = d.writing
      /\ e.data = d.data /\ e.uninitialized_wiped = d.uninitialized_wiped
      /\ e.failed = d.failed
  BY DEF Changes, EmmcFields, Fields
<1>1. RootShape(d) => RootShape(e)
  BY <1>f DEF RootShape
<1>2. RootDone(e) = RootDone(d)
  BY <1>f DEF RootDone
<1>3. ASSUME NEW rt, NEW dist, RootProgress(d, rt, dist) PROVE RootProgress(e, rt, dist)
  BY <1>f, <1>2, <1>3 DEF RootProgress
<1> QED
  BY <1>f, <1>1, <1>2, <1>3

LEMMA IterScans ==
    ASSUME NEW d, NEW dk, Underway(d, dk), ~Waiting(d), NEW p, Counts(d, p),
           p.data.blocks_written > N, NEW e, e = db3_startup_scan(p)
    PROVE  GoesOn(d, e, dk)
<1> DEFINE c == [p EXCEPT !.scan = 1]
           o == [kind |-> "read", idx |-> 1, data |-> "none", mixed |-> FALSE]
<1>0. /\ d.data.blocks_written \in Nat /\ N \in Nat /\ N >= 1
      /\ p.data.blocks_written = d.data.blocks_written + 1
      /\ d.data.blocks_written >= N
  BY InitializeAssumption DEF Underway, IsInitData, Counts
<1>1. IsDev(p) /\ Emmc(p) /\ ~Waiting(p)
  BY CountsParts DEF Underway, Shapes
<1>2. Changes(p, e, EmmcFields \cup {"scan"}) /\ Queued(c, e, o)
      /\ Using(c) = Using(p) /\ c.op = p.op
  <2>1. c = [p EXCEPT !.scan = 1] /\ e = Db(c, "read", 1, "none")
    BY DEF db3_startup_scan
  <2>2. o = [kind |-> "read", idx |-> 1, data |-> "none", mixed |-> FALSE] /\ 1 \in 1 .. N
    BY <1>0
  <2> HIDE DEF c, o
  <2> QED
    BY <1>1, <2>1, <2>2, ReadQueues
<1> HIDE DEF c
<1>3. /\ IsDev(e) /\ e.state = d.state /\ e.long = d.long /\ e.data = p.data
      /\ e.active_cmd = p.active_cmd /\ e.failed = d.failed
      /\ RootShape(e) /\ RootDone(e) = RootDone(d)
  BY <1>2, ScanFrame, CountsParts DEF Underway, Shapes
<1>4. Emmc(e)
  BY <1>2 DEF Queued
<1>5. Commands(e)
  BY <1>3, EndedCommands DEF Underway, Counts, MayEnd
<1>6. /\ IF Using(d) THEN Using(e) /\ e.op = d.op ELSE Using(e) = ~Waiting(e)
      /\ Using(e) /\ ~Using(d) => Does(e.op, "read", 1, "none")
      /\ Waiting(e) => Does(e.g_db_action, "read", 1, "none")
  BY <1>2, CountsParts DEF Queued, Does
<1>7. Covered(e, dk)
  <2>1. \A i \in 1 .. N : Whole(dk[i]) \/ (Using(d) /\ Emptying(d.op, i))
    BY <1>0 DEF Underway, Covered
  <2>2. \A i \in 1 .. N : Whole(dk[i]) \/ (Using(e) /\ Emptying(e.op, i))
    BY <1>6, <2>1
  <2>3. e.data.blocks_written > N
    BY <1>3
  <2>4. ASSUME Using(e) PROVE Permitted(e.op, e.data.blocks_written, AllWhole(dk))
    <3>1. CASE Using(d)
      <4>1. Permitted(d.op, d.data.blocks_written, AllWhole(dk))
        BY <3>1 DEF Underway, Covered
      <4> QED
        BY <1>6, <2>3, <3>1, <4>1 DEF Permitted
    <3>2. CASE ~Using(d)
      BY <1>6, <2>1, <2>3, <2>4, <3>2 DEF Permitted, AllWhole, Does
    <3> QED
      BY <3>1, <3>2
  <2>5. ASSUME Waiting(e)
        PROVE  Permitted(e.g_db_action, e.data.blocks_written,
                         \A i \in 1 .. N : Whole(dk[i]) \/ (Using(e) /\ Emptying(e.op, i)))
    BY <1>6, <2>2, <2>3, <2>5 DEF Permitted, Does
  <2> QED
    BY <2>2, <2>4, <2>5, Zenon DEF Covered
<1>8. Underway(e, dk)
  BY <1>3, <1>4, <1>5, <1>7 DEF Underway, Shapes, Counts
<1>9. ASSUME NEW rt, NEW dist, NEW more, RootProgress(d, rt, dist), Owed(d),
             Later(e, dist, more)
      PROVE  RootProgress(e, rt, more) /\ Counted(e)
  <2>1. RootProgress(e, rt, more)
    BY <1>2, <1>9, CountsParts, ScanFrame, LaterProgress
  <2>2. d.data.blocks_written = N /\ RootDone(d) /\ Quiet(d)
    BY <1>0, <1>9 DEF Owed
  <2>3. One(e, "read", 1, "none")
    BY <1>6, <2>2 DEF One, Quiet
  <2>4. OneRead(e)
    BY <1>0, <2>3 DEF OneRead
  <2>5. e.data.blocks_written = N + 1
    BY <1>0, <1>3, <2>2
  <2> QED
    BY <1>0, <1>3, <2>1, <2>2, <2>4, <2>5 DEF Counted
<1> QED
  BY <1>3, <1>8, <1>9 DEF GoesOn

(* A completion during INITIALIZE. It fails only behind mass storage. *)
LEMMA IterGoesOn ==
    ASSUME NEW d, NEW dk, Underway(d, dk), NEW e, e = initializing_iter(d)
    PROVE  \/ GoesOn(d, e, dk)
           \/ /\ Waiting(d) /\ e.failed /\ e.g_emmc_user = d.g_emmc_user
              /\ e.state = d.state
<1> DEFINE p == BlockWritten(d)
<1>1. Counts(d, p)
  BY BlockWrittenCounts DEF Underway, Shapes
<1>2. /\ p.data.blocks_written < N => e = WriteEmpty(p, p.data.blocks_written + 1)
      /\ p.data.blocks_written = N => e = finalize_root_page_check(p)
      /\ p.data.blocks_written > N => e = db3_startup_scan(p)
  <2>1. p.data.blocks_written \in Nat /\ N \in Nat
    BY <1>1, InitializeAssumption DEF Counts, IsInitData
  <2> QED
    BY <2>1 DEF initializing_iter
<1> HIDE DEF p
<1>3. p.data.blocks_written \in Nat /\ N \in Nat /\ p.data.blocks_written # 0
  BY <1>1, InitializeAssumption DEF Counts, IsInitData, Underway
<1>4. /\ IsDev(p) /\ Emmc(p) /\ Waiting(p) = Waiting(d) /\ p.g_emmc_user = d.g_emmc_user
      /\ p.state = d.state
  BY <1>1, CountsParts DEF Underway, Shapes
<1>5. CASE p.data.blocks_written < N
  <2>1. p.data.blocks_written + 1 \in 1 .. N
    BY <1>3, <1>5
  <2>2. CASE Waiting(d)
    BY <1>2, <1>4, <1>5, <2>1, <2>2, WriteEmptyFails
  <2>3. CASE ~Waiting(d)
    BY <1>1, <1>2, <1>5, <2>3, IterWrites
  <2> QED
    BY <2>2, <2>3
<1>6. CASE p.data.blocks_written = N
  BY <1>1, <1>2, <1>6, IterFinalizes
<1>7. CASE p.data.blocks_written > N
  <2>1. CASE Waiting(d)
    <3> DEFINE c == [p EXCEPT !.scan = 1]
    <3>1. /\ IsDev(c) /\ Waiting(c) /\ c.g_emmc_user = d.g_emmc_user
          /\ c.state = d.state
      BY <1>4, <2>1 DEF IsDev, Fields, Waiting
    <3>2. e = Db(c, "read", 1, "none")
      BY <1>2, <1>7 DEF db3_startup_scan
    <3> HIDE DEF c
    <3> QED
      BY <2>1, <3>1, <3>2, DbFails
  <2>2. CASE ~Waiting(d)
    BY <1>1, <1>2, <1>7, <2>2, IterScans
  <2> QED
    BY <2>1, <2>2
<1> QED
  BY <1>3, <1>5, <1>6, <1>7

------------------------------------------------------------------------------
(* WIPE: its steps.                                                             *)

(* One more block is wiped. *)
LEMMA BlockWipedCounts ==
    ASSUME NEW d, IsDev(d), NEW i, d.data = WipeData(i), NEW e, e = BlockWiped(d)
    PROVE  /\ Changes(d, e, Free \cup {"active_cmd", "data"}) /\ MayEnd(d, e)
           /\ e.data = WipeData(i + 1)
<1> DEFINE a == WipeData(i + 1)
           l == [d.level EXCEPT ![1] = i + 1]
           c == [d EXCEPT !.data = a, !.level = l]
<1>1. e = get_progress_check(c)
  BY DEF BlockWiped, WipeData
<1> HIDE DEF a, l
<1>2. Changes(d, c, Free \cup {"data"}) /\ c.data = a
  BY DEF Changes, IsDev, Fields, Free
<1> HIDE DEF c
<1>3. Answers(c, e)
  BY <1>1, <1>2, ProgressAnswers DEF Changes
<1>4. Changes(d, e, Free \cup {"active_cmd", "data"}) /\ e.data = a
  BY <1>2, <1>3 DEF Answers, Changes, Free, Fields
<1>5. MayEnd(d, e)
  BY <1>2, <1>3 DEF Answers, Changes, Free, Fields, MayEnd
<1> QED
  BY <1>4, <1>5 DEF a

(* Between the completion of block i and what follows it. *)
Between(d, i, dk, rt) ==
    /\ d.sync = "SYNCED" /\ d.writing = NoPage /\ Quiet(d) /\ rt.key = "zero"
    /\ \A j \in 1 .. N : j <= i => dk[j] = "zero"

LEMMA WipeWrites ==
    ASSUME NEW d, Shapes(d), Commands(d), d.state = "WIPING", ~Waiting(d),
           NEW i \in 0 .. N, i # N, NEW p,
           Changes(d, p, Free \cup {"active_cmd", "data"}), MayEnd(d, p),
           p.data = WipeData(i + 1),
           NEW e, e = write_data_block(p, i + 1, "zero")
    PROVE  /\ e.state = "WIPING" /\ e.failed = d.failed
           /\ \A dk, rt, dist :
                 ("fido" \notin dist => Between(d, i, dk, rt)) => Sound(e, dk, rt, dist)
<1> DEFINE o == [kind |-> "write", idx |-> i + 1, data |-> "zero", mixed |-> FALSE]
<1>0. i + 1 \in 1 .. N /\ i + 1 # 0
  BY InitializeAssumption
<1>1. /\ IsDev(p) /\ p.state = d.state /\ p.long = d.long /\ p.sync = d.sync
      /\ p.root_page = d.root_page /\ p.writing = d.writing
      /\ p.g_emmc_user = d.g_emmc_user /\ p.ready = d.ready
      /\ p.g_db_action = d.g_db_action /\ p.op = d.op /\ p.scan = d.scan
      /\ p.failed = d.failed
  BY DEF Changes, Free, Fields
<1>2. Using(p) = Using(d) /\ Waiting(p) = Waiting(d)
  BY <1>1 DEF Using, Waiting
<1>3. Emmc(p)
  BY <1>1, <1>2 DEF Emmc, Shapes
<1>4. RootShape(p)
  BY <1>1 DEF RootShape, Shapes
<1>5. o \in Ops /\ Does(o, "write", i + 1, "zero") /\ ~o.mixed
  BY <1>0 DEF Ops, Does
<1>6. e = Db(p, "write", i + 1, "zero")
  BY <1>0 DEF write_data_block
<1>7. Queued(p, e, o)
  <2>1. o = [kind |-> "write", idx |-> i + 1, data |-> "zero", mixed |-> FALSE]
    OBVIOUS
  <2> HIDE DEF o
  <2> QED
    BY <1>1, <1>2, <1>3, <1>5, <1>6, <2>1, DbQueues
<1> HIDE DEF o
<1>8. Changes(p, e, EmmcFields) /\ Emmc(e)
  BY <1>7 DEF Queued
<1>9. /\ IsDev(e) /\ e.state = "WIPING" /\ e.long = d.long /\ e.data = WipeData(i + 1)
      /\ e.active_cmd = p.active_cmd /\ e.failed = d.failed
      /\ e.sync = d.sync /\ e.writing = d.writing /\ RootShape(e)
  BY <1>1, <1>4, <1>8, EmmcFrame
<1>10. Commands(e)
  BY <1>9, EndedCommands DEF MayEnd
<1>11. ASSUME NEW dk, NEW rt, NEW dist, "fido" \notin dist => Between(d, i, dk, rt)
       PROVE  Sound(e, dk, rt, dist)
  <2>1. ASSUME "fido" \notin dist PROVE Wiping(e, dk, rt)
    <3>0. Between(d, i, dk, rt)
      BY <1>11, <2>1
    <3>1. /\ One(e, "write", i + 1, "zero")
          /\ Using(e) => ~e.op.mixed
          /\ Waiting(e) => ~e.g_db_action.mixed
      BY <1>2, <1>5, <1>7, <3>0 DEF Between, Quiet, Queued, One
    <3>2. e.data.block_idx = i + 1
      BY <1>9 DEF WipeData
    <3>3. \A j \in 1 .. N : j < i + 1 => dk[j] = "zero"
      BY <3>0 DEF Between
    <3> QED
      BY <1>0, <1>9, <3>0, <3>1, <3>2, <3>3 DEF Between, Wiping, Zeroing
  <2>2. e.active_cmd # "STARTUP"
    BY <1>9, <1>10 DEF Commands
  <2>3. "fido" \notin dist => Clean(e, dk, rt, dist)
    BY <1>9, <2>1, <2>2 DEF Clean
  <2> QED
    BY <1>0, <1>8, <1>9, <1>10, <2>3 DEF Sound, Shapes
<1> QED
  BY <1>9, <1>11

LEMMA WipeEnds ==
    ASSUME NEW d, Shapes(d), Commands(d), d.state = "WIPING",
           NEW p, Changes(d, p, Free \cup {"active_cmd", "data"}), MayEnd(d, p),
           NEW e, e = enter_state([p EXCEPT !.uninitialized_wiped = TRUE], "UNINITIALIZED")
    PROVE  /\ e.state = "UNINITIALIZED" /\ e.failed = d.failed
           /\ \A dk, rt, dist :
                 ("fido" \notin dist => Between(d, N, dk, rt)) => Sound(e, dk, rt, dist)
<1> DEFINE c == [p EXCEPT !.uninitialized_wiped = TRUE]
           b == [c EXCEPT !.data = NoData, !.state = "UNINITIALIZED"]
<1>1. IsDev(p)
  BY DEF Changes
<1>2. Changes(p, c, {"uninitialized_wiped"}) /\ IsDev(c)
  BY <1>1 DEF Changes, IsDev, Fields
<1>3. Changes(c, b, {"data", "state"}) /\ b.state = "UNINITIALIZED"
  <2> HIDE DEF c
  <2> QED
    BY <1>2 DEF Changes, IsDev, Fields
<1>4. Answers(b, e)
  BY <1>2, EnterStateAnswers
<1> HIDE DEF b, c
<1>5. /\ IsDev(e) /\ e.state = "UNINITIALIZED" /\ e.long = d.long /\ e.sync = d.sync
      /\ e.root_page = d.root_page /\ e.writing = d.writing
      /\ e.g_emmc_user = d.g_emmc_user /\ e.ready = d.ready
      /\ e.g_db_action = d.g_db_action /\ e.op = d.op /\ e.scan = d.scan
      /\ e.failed = d.failed
      /\ e.active_cmd = p.active_cmd \/ e.active_cmd = "none"
  <2>1. /\ p.state = d.state /\ p.long = d.long /\ p.sync = d.sync
        /\ p.root_page = d.root_page /\ p.writing = d.writing
        /\ p.g_emmc_user = d.g_emmc_user /\ p.ready = d.ready
        /\ p.g_db_action = d.g_db_action /\ p.op = d.op /\ p.scan = d.scan
        /\ p.failed = d.failed
    BY DEF Changes, Free, Fields
  <2>2. /\ b.long = p.long /\ b.sync = p.sync
        /\ b.root_page = p.root_page /\ b.writing = p.writing
        /\ b.g_emmc_user = p.g_emmc_user /\ b.ready = p.ready
        /\ b.g_db_action = p.g_db_action /\ b.op = p.op /\ b.scan = p.scan
        /\ b.failed = p.failed /\ b.active_cmd = p.active_cmd
    BY <1>2, <1>3 DEF Changes, Fields
  <2>3. Frame(b, e) /\ (e.active_cmd = b.active_cmd \/ e.active_cmd = "none")
    BY <1>4, AnswersFrame DEF Answers
  <2> QED
    BY <1>3, <2>1, <2>2, <2>3, FrameFields
<1>6. Using(e) = Using(d) /\ Waiting(e) = Waiting(d)
  BY <1>5 DEF Using, Waiting
<1>7. Emmc(e)
  BY <1>5, <1>6 DEF Emmc, Shapes
<1>8. RootShape(e)
  BY <1>5 DEF RootShape, Shapes
<1>9. e.active_cmd \notin {"STARTUP", "INITIALIZE", "WIPE"}
  BY <1>5 DEF MayEnd, Commands
<1>10. Commands(e)
  BY <1>9 DEF Commands
<1>11. ASSUME NEW dk, NEW rt, NEW dist, "fido" \notin dist => Between(d, N, dk, rt)
       PROVE  Sound(e, dk, rt, dist)
  <2>1. ASSUME "fido" \notin dist PROVE Settled(e) /\ Wiped(e, dk, rt)
    <3>0. Between(d, N, dk, rt)
      BY <1>11, <2>1
    <3>1. Settled(e)
      BY <1>5, <1>6, <1>9, <3>0 DEF Between, Settled, Quiet
    <3>2. Wiped(e, dk, rt)
      BY <3>0 DEF Between, Wiped
    <3> QED
      BY <3>1, <3>2
  <2>2. "fido" \notin dist => Clean(e, dk, rt, dist)
    BY <1>5, <2>1 DEF Clean
  <2> QED
    BY <1>5, <1>7, <1>8, <1>10, <2>2 DEF Sound, Shapes
<1> QED
  BY <1>5, <1>11

LEMMA WipeGoesOn ==
    ASSUME NEW d, Shapes(d), Commands(d), d.state = "WIPING",
           NEW i \in 0 .. N, d.data = WipeData(i), NEW e, e = WipeIter(d)
    PROVE  \/ /\ e.state \in {"WIPING", "UNINITIALIZED"} /\ e.failed = d.failed
              /\ \A dk, rt, dist :
                    ("fido" \notin dist => Between(d, i, dk, rt)) => Sound(e, dk, rt, dist)
           \/ /\ Waiting(d) /\ e.failed /\ e.g_emmc_user = d.g_emmc_user
              /\ e.state = d.state
<1> DEFINE p == BlockWiped(d)
<1>1. /\ Changes(d, p, Free \cup {"active_cmd", "data"}) /\ MayEnd(d, p)
      /\ p.data = WipeData(i + 1)
  BY BlockWipedCounts DEF Shapes
<1>2. e = IF i + 1 = N + 1
            THEN enter_state([p EXCEPT !.uninitialized_wiped = TRUE], "UNINITIALIZED")
            ELSE write_data_block(p, i + 1, "zero")
  <2>1. p.data.block_idx = i + 1
    BY <1>1 DEF WipeData
  <2> QED
    BY <2>1 DEF WipeIter
<1> HIDE DEF p
<1>3. CASE i = N
  <2>1. e = enter_state([p EXCEPT !.uninitialized_wiped = TRUE], "UNINITIALIZED")
    BY <1>2, <1>3
  <2>2. /\ e.state = "UNINITIALIZED" /\ e.failed = d.failed
        /\ \A dk, rt, dist :
              ("fido" \notin dist => Between(d, N, dk, rt)) => Sound(e, dk, rt, dist)
    BY <1>1, <2>1, WipeEnds
  <2> QED
    BY <1>3, <2>2
<1>4. CASE i # N
  <2>1. i + 1 # N + 1 /\ i + 1 # 0
    BY <1>4, InitializeAssumption
  <2>2. e = write_data_block(p, i + 1, "zero")
    BY <1>2, <2>1
  <2>3. CASE Waiting(d)
    <3>1. /\ IsDev(p) /\ Waiting(p) /\ p.g_emmc_user = d.g_emmc_user
          /\ p.state = d.state
      BY <1>1, <2>3 DEF Changes, Fields, Free, Waiting
    <3>2. e = Db(p, "write", i + 1, "zero")
      BY <2>1, <2>2 DEF write_data_block
    <3> QED
      BY <2>3, <3>1, <3>2, DbFails
  <2>4. CASE ~Waiting(d)
    BY <1>1, <1>4, <2>2, <2>4, WipeWrites
  <2> QED
    BY <2>3, <2>4
<1> QED
  BY <1>3, <1>4

------------------------------------------------------------------------------
(* A write has completed.                                                       *)

LEMMA RootWrittenChanges ==
    ASSUME NEW d, IsDev(d), d.sync \in {"SYNCED", "MODIFIED", "WRITING"},
           NEW r, r = RootWritten(d)
    PROVE  /\ Changes(d, r, {"sync", "release_requested", "owner"})
           /\ r.sync = IF d.sync = "WRITING" THEN "SYNCED" ELSE d.sync
BY DEF Changes, IsDev, Fields, RootWritten

(* d but for the sync state and the page in the flash writer. *)
LEMMA SyncFrame ==
    ASSUME NEW d, NEW e, Changes(d, e, {"sync", "release_requested", "owner", "writing"})
    PROVE  /\ IsDev(e)
           /\ e.state = d.state /\ e.active_cmd = d.active_cmd /\ e.long = d.long
           /\ e.root_page = d.root_page /\ e.data = d.data
           /\ e.uninitialized_wiped = d.uninitialized_wiped
           /\ e.g_emmc_user = d.g_emmc_user /\ e.ready = d.ready
           /\ e.g_db_action = d.g_db_action /\ e.op = d.op
           /\ e.failed = d.failed
           /\ Using(e) = Using(d) /\ Waiting(e) = Waiting(d)
           /\ Emmc(d) => Emmc(e)
           /\ Commands(d) => Commands(e)
           /\ \A kind, idx, data : One(d, kind, idx, data) => One(e, kind, idx, data)
           /\ \A dk : Covered(d, dk) => Covered(e, dk)
<1>f. /\ IsDev(e)
      /\ e.state = d.state /\ e.active_cmd = d.active_cmd /\ e.long = d.long
      /\ e.root_page = d.root_page /\ e.data = d.data
      /\ e.uninitialized_wiped = d.uninitialized_wiped
      /\ e.g_emmc_user = d.g_emmc_user /\ e.ready = d.ready
      /\ e.g_db_action = d.g_db_action /\ e.op = d.op /\ e.scan = d.scan
      /\ e.failed = d.failed
  BY DEF Changes, Fields
<1>1. Using(e) = Using(d) /\ Waiting(e) = Waiting(d)
  BY <1>f DEF Using, Waiting
<1>2. Emmc(d) => Emmc(e)
  BY <1>f, <1>1 DEF Emmc
<1>3. Commands(d) => Commands(e)
  BY <1>f DEF Commands
<1>4. \A kind, idx, data : One(d, kind, idx, data) => One(e, kind, idx, data)
  BY <1>f, <1>1 DEF One
<1>5. ASSUME NEW dk, Covered(d, dk) PROVE Covered(e, dk)
  BY <1>f, <1>1, <1>5, Zenon DEF Covered
<1> QED
  BY <1>f, <1>1, <1>2, <1>3, <1>4, <1>5

(* What a completed write leaves, before it is attended to: the operation is    *)
(* over, or the page is written.                                                *)
Completed(r, dk, rt, dist) ==
    /\ Shapes(r) /\ Commands(r)
    /\ r.state = "INITIALIZING" => IsInitData(r.data) /\ Covered(r, dk)
    /\ r.state = "WIPING" => \E i \in 0 .. N : r.data = WipeData(i)
    /\ "fido" \notin dist =>
          /\ r.state = "INITIALIZING" => RootProgress(r, rt, dist) /\ Owed(r)
          /\ r.state = "WIPING" => Between(r, r.data.block_idx, dk, rt)
          /\ r.state \notin {"UNINITIALIZED", "LOGGED_OUT"} /\ r.active_cmd # "STARTUP"

(* The history after a step to e. *)
History(e, dist, more) ==
    /\ dist \subseteq more
    /\ e.state = "INITIALIZING" /\ e.data.ctap_needed # 0 => "retried" \in more

LEMMA CompletionSound ==
    ASSUME NEW d, IsDev(d), d.sync \in {"SYNCED", "MODIFIED", "WRITING"},
           NEW r, r = RootWritten(d),
           NEW dk, NEW rt, NEW dist, Completed(r, dk, rt, dist),
           NEW e, e = write_block_complete(d), NEW more, History(e, dist, more)
    PROVE  \/ /\ Sound(e, dk, rt, more) /\ e.failed = d.failed
              /\ e.state = "LOGGED_OUT" => d.state = "LOGGED_OUT"
           \/ /\ Waiting(d) /\ d.state \in {"INITIALIZING", "WIPING"}
              /\ e.failed /\ e.g_emmc_user = d.g_emmc_user /\ e.state = d.state
<1>1. /\ r.state = d.state /\ r.failed = d.failed /\ Waiting(r) = Waiting(d)
      /\ r.g_emmc_user = d.g_emmc_user
  BY RootWrittenChanges DEF Changes, Fields, Waiting
<1>2. CASE d.state = "INITIALIZING"
  <2>1. e = initializing_iter(r)
    BY <1>2 DEF write_block_complete
  <2>2. Underway(r, dk)
    BY <1>1, <1>2 DEF Completed, Underway
  <2>3. CASE Waiting(r) /\ e.failed /\ e.g_emmc_user = r.g_emmc_user /\ e.state = r.state
    BY <1>1, <1>2, <2>3
  <2>4. CASE GoesOn(r, e, dk)
    <3>1. Underway(e, dk) /\ e.failed = d.failed
      BY <1>1, <2>4 DEF GoesOn
    <3>2. ASSUME "fido" \notin more PROVE RootProgress(e, rt, more) /\ Counted(e)
      <4>1. "fido" \notin dist
        BY <3>2 DEF History
      <4>2. Later(e, dist, more)
        BY <3>1 DEF History, Later, Underway
      <4>3. RootProgress(r, rt, dist) /\ Owed(r)
        BY <1>1, <1>2, <4>1 DEF Completed
      <4> QED
        BY <2>4, <4>2, <4>3 DEF GoesOn
    <3>3. Sound(e, dk, rt, more)
      <4>1. e.active_cmd # "STARTUP" /\ e.state = "INITIALIZING"
        BY <3>1 DEF Underway, Commands
      <4>2. "fido" \notin more => Clean(e, dk, rt, more)
        BY <3>2, <4>1 DEF Clean
      <4> QED
        BY <3>1, <4>1, <4>2 DEF Sound, Underway
    <3> QED
      BY <3>1, <3>3 DEF Underway
  <2> QED
    BY <2>1, <2>2, <2>3, <2>4, IterGoesOn
<1>3. CASE d.state = "WIPING"
  <2>1. e = WipeIter(r)
    BY <1>3 DEF write_block_complete
  <2>2. PICK i \in 0 .. N : r.data = WipeData(i)
    BY <1>1, <1>3 DEF Completed
  <2>3. Shapes(r) /\ Commands(r) /\ r.state = "WIPING"
    BY <1>1, <1>3 DEF Completed
  <2>4. CASE Waiting(r) /\ e.failed /\ e.g_emmc_user = r.g_emmc_user /\ e.state = r.state
    BY <1>1, <1>3, <2>4
  <2>5. CASE /\ e.state \in {"WIPING", "UNINITIALIZED"} /\ e.failed = r.failed
             /\ ("fido" \notin more => Between(r, i, dk, rt)) => Sound(e, dk, rt, more)
    <3>1. "fido" \notin more => Between(r, i, dk, rt)
      <4>1. r.data.block_idx = i
        BY <2>2 DEF WipeData
      <4> QED
        BY <2>3, <4>1 DEF Completed, History
    <3> QED
      BY <1>1, <2>5, <3>1
  <2>6. \/ /\ e.state \in {"WIPING", "UNINITIALIZED"} /\ e.failed = r.failed
           /\ \A k, t, m : ("fido" \notin m => Between(r, i, k, t)) => Sound(e, k, t, m)
        \/ Waiting(r) /\ e.failed /\ e.g_emmc_user = r.g_emmc_user /\ e.state = r.state
    BY <2>1, <2>2, <2>3, WipeGoesOn
  <2> QED
    BY <2>4, <2>5, <2>6
<1>4. CASE d.state \notin {"INITIALIZING", "WIPING"}
  <2>1. e = r
    BY <1>4 DEF write_block_complete
  <2>2. "fido" \notin more => Clean(r, dk, rt, more)
    BY <1>1, <1>4 DEF Completed, History, Clean
  <2>3. Sound(r, dk, rt, more)
    BY <1>1, <1>4, <2>2 DEF Completed, Sound
  <2> QED
    BY <1>1, <2>1, <2>3
<1> QED
  BY <1>2, <1>3, <1>4

------------------------------------------------------------------------------
(* The steps of Next.                                                           *)

(* INITIALIZE is not over. *)
NotEnded == ~(dev.state = "INITIALIZING" /\ dev'.state = "LOGGED_OUT")

LEMMA RunningSound ==
    ASSUME Inv, Running
    PROVE  /\ Sound(dev, disk, root, disturbed)
           /\ IsDev(dev) /\ Emmc(dev) /\ RootShape(dev) /\ Commands(dev)
           /\ root \in Pages /\ disk = [i \in 1 .. N |-> disk[i]] /\ ~dev.failed
BY DEF Inv, Running, Sound, Shapes

LEMMA NextSound ==
    ASSUME root' \in Pages, (disk = [i \in 1 .. N |-> disk[i]])',
           ~dev'.failed, Sound(dev', disk', root', disturbed')
    PROVE  Inv'
BY DEF Inv, NoAssertion

LEMMA RetriedHistory ==
    ASSUME NEW e
    PROVE  History(e, disturbed, Retried(e))
BY DEF History, Retried

(* The write of a block is over, and reached the card. *)
LEMMA WriteCovers ==
    ASSUME NEW d, NEW e, NEW dk, NEW x, Emmc(d), Covered(d, dk), Using(d),
           d.op.kind = "write", x \in {"empty", "torn"},
           NEW after, after = [dk EXCEPT ![d.op.idx] = x], dk = [i \in 1 .. N |-> dk[i]],
           e.data = d.data, ~Waiting(e),
           IF Waiting(d) THEN Using(e) /\ e.op = d.g_db_action ELSE ~Using(e)
    PROVE  Covered(e, after)
<1>1. \A i \in 1 .. N : Whole(dk[i]) \/ Emptying(d.op, i) => Whole(after[i])
  BY DEF Whole, Emptying, Does
<1>2. \A i \in 1 .. N : i <= e.data.blocks_written + 1 =>
         Whole(after[i]) \/ (Using(e) /\ Emptying(e.op, i))
  <2> TAKE i \in 1 .. N
  <2> HAVE i <= e.data.blocks_written + 1
  <2>1. \/ Whole(dk[i])
        \/ Using(d) /\ Emptying(d.op, i)
        \/ Waiting(d) /\ Emptying(d.g_db_action, i)
    BY DEF Covered
  <2> QED
    BY <1>1, <2>1
<1>3. ASSUME Using(e) PROVE Permitted(e.op, e.data.blocks_written, AllWhole(after))
  <2>1. Waiting(d) /\ e.op = d.g_db_action
    BY <1>3
  <2>2. Permitted(d.g_db_action, d.data.blocks_written,
                  \A i \in 1 .. N : Whole(dk[i]) \/ (Using(d) /\ Emptying(d.op, i)))
    BY <2>1, Zenon DEF Covered
  <2>3. (\A i \in 1 .. N : Whole(dk[i]) \/ (Using(d) /\ Emptying(d.op, i)))
           => AllWhole(after)
    BY <1>1 DEF AllWhole
  <2> QED
    BY <2>1, <2>2, <2>3 DEF Permitted
<1> QED
  BY <1>2, <1>3 DEF Covered

LEMMA WriteOwes ==
    ASSUME NEW d, NEW e, NEW r, Counted(d), Using(d), d.op.kind = "write",
           IsInitData(d.data), r.data = d.data, RootDone(r) = RootDone(d),
           ~Waiting(e), IF Waiting(d) THEN Using(e) /\ e.op = d.g_db_action ELSE ~Using(e),
           Using(r) = Using(e), Waiting(r) = Waiting(e), r.op = e.op
    PROVE  Owed(r)
<1> DEFINE w == d.data.blocks_written
<1>0. w \in Nat /\ N \in Nat /\ r.data.blocks_written = w
  BY InitializeAssumption DEF IsInitData
<1>1. w <= N
  <2>1. CASE w > N
    <3>1. OneRead(d)
      BY <2>1 DEF Counted
    <3> QED
      BY <3>1 DEF OneRead, One, Does
  <2> QED
    BY <1>0, <2>1
<1>2. CASE w < N /\ ~RootDone(d)
  <2>1. ~Waiting(d)
    BY <1>2 DEF Counted, One
  <2> QED
    BY <1>0, <1>1, <1>2, <2>1 DEF Owed, Quiet
<1>3. CASE w < N /\ RootDone(d)
  <2>1. Waiting(d) /\ Emptying(d.g_db_action, w + 1)
    BY <1>3 DEF Counted
  <2>2. One(r, "write", w + 1, "empty")
    BY <2>1 DEF One, Emptying
  <2> QED
    BY <1>0, <1>1, <1>3, <2>2 DEF Owed
<1>4. CASE w = N
  <2>1. RootDone(d) /\ ~Waiting(d)
    BY <1>4 DEF Counted, Quiet, One
  <2> QED
    BY <1>0, <1>1, <1>4, <2>1 DEF Owed, Quiet
<1> QED
  BY <1>0, <1>1, <1>2, <1>3, <1>4

LEMMA BlockCompletes ==
    ASSUME Inv, Running, Using(dev), dev.op.kind = "write",
           NEW x \in {dev.op.data} \cup (IF dev.op.mixed THEN {"torn"} ELSE {}),
           disk' = [disk EXCEPT ![dev.op.idx] = x],
           NEW d, d = emmc_user_done(dev), NEW r, r = RootWritten(d)
    PROVE  Completed(r, disk', root, disturbed)
<1>0. /\ Sound(dev, disk, root, disturbed)
      /\ IsDev(dev) /\ Emmc(dev) /\ RootShape(dev) /\ Commands(dev)
      /\ root \in Pages /\ disk = [i \in 1 .. N |-> disk[i]]
  BY RunningSound
<1>1. /\ Changes(dev, d, EmmcFields) /\ Emmc(d) /\ ~Waiting(d)
      /\ IF Waiting(dev) THEN Using(d) /\ d.op = dev.g_db_action ELSE ~Using(d)
  BY <1>0, DoneGoesOn
<1>2. /\ IsDev(d) /\ d.state = dev.state /\ d.active_cmd = dev.active_cmd
      /\ d.long = dev.long /\ d.sync = dev.sync /\ d.root_page = dev.root_page
      /\ d.writing = dev.writing /\ d.data = dev.data /\ Commands(d)
  BY <1>0, <1>1, EmmcFrame
<1>3. /\ Changes(d, r, {"sync", "release_requested", "owner"})
      /\ r.sync = IF d.sync = "WRITING" THEN "SYNCED" ELSE d.sync
  BY <1>0, <1>2, RootWrittenChanges DEF RootShape
<1>4. /\ IsDev(r) /\ r.state = d.state /\ r.active_cmd = d.active_cmd
      /\ r.root_page = d.root_page /\ r.data = d.data
      /\ Using(r) = Using(d) /\ Waiting(r) = Waiting(d) /\ r.op = d.op
      /\ Emmc(r) /\ Commands(r)
      /\ Covered(d, disk') => Covered(r, disk')
  <2>1. Changes(d, r, {"sync", "release_requested", "owner", "writing"})
    BY <1>3 DEF Changes
  <2> QED
    BY <1>1, <1>2, <2>1, SyncFrame
<1>5. r.writing = dev.writing
  BY <1>2, <1>3 DEF Changes, Fields
<1>6. RootShape(r)
  BY <1>0, <1>2, <1>3, <1>4, <1>5 DEF RootShape
<1>7. ASSUME r.state = "INITIALIZING" PROVE IsInitData(r.data) /\ Covered(r, disk')
  <2>1. IsInitData(dev.data) /\ Covered(dev, disk)
    BY <1>0, <1>2, <1>4, <1>7 DEF Sound
  <2>2. dev.op.data = "empty"
    BY <2>1 DEF Covered, Permitted
  <2>3. x \in {"empty", "torn"}
    BY <2>2
  <2>4. Covered(d, disk')
    BY <1>0, <1>1, <1>2, <2>1, <2>3, WriteCovers
  <2> QED
    BY <1>2, <1>4, <2>1, <2>4
<1>8. r.state = "WIPING" => \E i \in 0 .. N : r.data = WipeData(i)
  BY <1>0, <1>2, <1>4 DEF Sound
<1>9. ASSUME "fido" \notin disturbed
      PROVE  /\ r.state = "INITIALIZING" => RootProgress(r, root, disturbed) /\ Owed(r)
             /\ r.state = "WIPING" => Between(r, r.data.block_idx, disk', root)
             /\ r.state \notin {"UNINITIALIZED", "LOGGED_OUT"} /\ r.active_cmd # "STARTUP"
  <2>0. Clean(dev, disk, root, disturbed)
    BY <1>0, <1>9 DEF Sound
  <2>1. RootDone(r) = RootDone(dev)
    BY <1>0, <1>2, <1>3, <1>4, <1>5 DEF RootDone, RootShape
  <2>2. ASSUME r.state = "INITIALIZING" PROVE RootProgress(r, root, disturbed) /\ Owed(r)
    <3>1. RootProgress(dev, root, disturbed) /\ Counted(dev) /\ IsInitData(dev.data)
      BY <1>0, <1>2, <1>4, <2>0, <2>2 DEF Clean, Sound
    <3>2. RootProgress(r, root, disturbed)
      BY <1>2, <1>3, <1>4, <1>5, <2>1, <3>1 DEF RootProgress
    <3>3. Owed(r)
      BY <1>1, <1>2, <1>4, <2>1, <3>1, WriteOwes
    <3> QED
      BY <3>2, <3>3
  <2>3. ASSUME r.state = "WIPING" PROVE Between(r, r.data.block_idx, disk', root)
    <3>1. Wiping(dev, disk, root)
      BY <1>2, <1>4, <2>0, <2>3 DEF Clean
    <3>2. PICK i \in 0 .. N : dev.data = WipeData(i)
      BY <1>0, <1>2, <1>4, <2>3 DEF Sound
    <3>3. dev.data.block_idx = i /\ r.data.block_idx = i
      BY <1>2, <1>4, <3>2 DEF WipeData
    <3>4. i # 0 /\ dev.writing = NoPage /\ One(dev, "write", i, "zero")
      BY <3>1, <3>3 DEF Wiping, Zeroing, Quiet
    <3>5. ~Waiting(dev) /\ dev.op.idx = i /\ x = "zero"
      BY <3>1, <3>4 DEF One, Does, Wiping
    <3>6. \A j \in 1 .. N : j <= i => disk'[j] = "zero"
      BY <1>0, <3>1, <3>2, <3>3, <3>5 DEF Wiping
    <3>7. r.sync = "SYNCED" /\ root.key = "zero"
      BY <1>2, <1>3, <3>1, <3>3, <3>4 DEF Wiping
    <3> QED
      BY <1>1, <1>4, <1>5, <3>3, <3>4, <3>5, <3>6, <3>7 DEF Between, Quiet
  <2>4. r.state \notin {"UNINITIALIZED", "LOGGED_OUT"} /\ r.active_cmd # "STARTUP"
    <3>1. ~OneRead(dev) /\ ~Quiet(dev)
      BY DEF OneRead, One, Does, Quiet
    <3> QED
      BY <1>2, <1>4, <2>0, <3>1 DEF Clean, Settled
  <2> QED
    BY <2>2, <2>3, <2>4
<1> QED
  BY <1>4, <1>6, <1>7, <1>8, <1>9 DEF Completed, Shapes

LEMMA WriteDone ==
    ASSUME Inv, EmmcDone, dev.op.kind # "read"
    PROVE  Inv' /\ NotEnded
<1> DEFINE d == emmc_user_done(dev)
           r == RootWritten(d)
           e == write_block_complete(d)
<1>0. /\ Running /\ Using(dev) /\ Sound(dev, disk, root, disturbed)
      /\ IsDev(dev) /\ Emmc(dev) /\ RootShape(dev)
      /\ root \in Pages /\ disk = [i \in 1 .. N |-> disk[i]] /\ ~dev.failed
  BY RunningSound DEF EmmcDone, Using
<1>1. dev.op \in Ops /\ dev.op.kind = "write"
  BY <1>0 DEF Emmc, Ops
<1>2. PICK x \in {dev.op.data} \cup (IF dev.op.mixed THEN {"torn"} ELSE {}) :
         disk' = [disk EXCEPT ![dev.op.idx] = x]
  BY DEF EmmcDone
<1>3. dev' = e /\ disturbed' = Retried(e) /\ root' = root
  BY DEF EmmcDone, Becomes
<1>4. Completed(r, disk', root, disturbed)
  BY <1>0, <1>1, <1>2, BlockCompletes
<1>5. Changes(dev, d, EmmcFields) /\ ~Waiting(d)
  BY <1>0, DoneGoesOn
<1>6. IsDev(d) /\ d.state = dev.state /\ d.sync = dev.sync /\ d.failed = dev.failed
  BY <1>5, EmmcFrame
<1>7. r = RootWritten(d) /\ e = write_block_complete(d) /\ History(e, disturbed, Retried(e))
  BY RetriedHistory
<1> HIDE DEF d, r, e
<1>8. /\ Sound(e, disk', root, Retried(e)) /\ e.failed = d.failed
      /\ e.state = "LOGGED_OUT" => d.state = "LOGGED_OUT"
  BY <1>0, <1>4, <1>5, <1>6, <1>7, CompletionSound DEF RootShape
<1>9. (disk = [i \in 1 .. N |-> disk[i]])'
  BY <1>0, <1>2
<1>10. Inv'
  BY <1>0, <1>3, <1>6, <1>8, <1>9, NextSound
<1> QED
  BY <1>3, <1>6, <1>8, <1>10 DEF NotEnded

(* A read of the scan is over. *)
LEMMA ScanGoesOn ==
    ASSUME NEW s, NEW dk, NEW rt, NEW dist, Sound(s, dk, rt, dist), Using(s),
           s.op.kind = "read", s.state = "INITIALIZING" \/ s.active_cmd = "STARTUP",
           NEW d, d = emmc_user_done(s), d.scan < N,
           NEW e, e = Db([d EXCEPT !.scan = @ + 1], "read", d.scan + 1, "none"),
           NEW more, History(e, dist, more)
    PROVE  /\ Sound(e, dk, rt, more) /\ e.failed = s.failed /\ e.state = s.state
<1> DEFINE k == d.scan + 1
           c == [d EXCEPT !.scan = k]
           o == [kind |-> "read", idx |-> k, data |-> "none", mixed |-> FALSE]
<1>0. IsDev(s) /\ Emmc(s) /\ RootShape(s) /\ Commands(s)
  BY DEF Sound, Shapes
<1>1. /\ Changes(s, d, EmmcFields) /\ Emmc(d) /\ ~Waiting(d)
      /\ IF Waiting(s) THEN Using(d) /\ d.op = s.g_db_action ELSE ~Using(d)
  BY <1>0, DoneGoesOn
<1>2. k \in 1 .. N
  BY <1>1, InitializeAssumption DEF Emmc
<1>3. IsDev(d)
  BY <1>1 DEF Changes
<1>4. /\ Changes(d, e, EmmcFields \cup {"scan"}) /\ Queued(c, e, o)
      /\ Using(c) = Using(d) /\ c.op = d.op
  <2>1. c = [d EXCEPT !.scan = k] /\ e = Db(c, "read", k, "none")
        /\ o = [kind |-> "read", idx |-> k, data |-> "none", mixed |-> FALSE]
    OBVIOUS
  <2> HIDE DEF c, k, o
  <2> QED
    BY <1>1, <1>2, <1>3, <2>1, ReadQueues
<1>5. Does(o, "read", k, "none")
  BY DEF Does
<1> HIDE DEF c, k, o
<1>6. /\ IsDev(e) /\ e.state = s.state /\ e.active_cmd = s.active_cmd /\ e.long = s.long
      /\ e.sync = s.sync /\ e.root_page = s.root_page /\ e.writing = s.writing
      /\ e.data = s.data /\ e.uninitialized_wiped = s.uninitialized_wiped
      /\ e.failed = s.failed /\ RootShape(e) /\ RootDone(e) = RootDone(s)
  BY <1>0, <1>1, <1>4, EmmcFrame, ScanFrame
<1>7. Emmc(e) /\ Commands(e)
  BY <1>0, <1>4, <1>6 DEF Queued, Commands
<1>8. /\ IF Using(d) THEN Using(e) /\ e.op = d.op ELSE Using(e) = ~Waiting(e)
      /\ Using(e) /\ ~Using(d) => Does(e.op, "read", k, "none")
      /\ Waiting(e) => Does(e.g_db_action, "read", k, "none")
  BY <1>4, <1>5 DEF Queued
<1>9. ~Waiting(s) => OneRead(e)
  BY <1>1, <1>2, <1>8 DEF OneRead, One
<1>10. ASSUME s.state = "INITIALIZING"
       PROVE  IsInitData(e.data) /\ Covered(e, dk) /\ s.data.blocks_written > N
  <2>1. Covered(s, dk) /\ IsInitData(s.data)
    BY <1>10 DEF Sound
  <2>2. AllWhole(dk) /\ s.data.blocks_written > N
    BY <2>1 DEF Covered, Permitted
  <2>3. ASSUME Using(e) PROVE Permitted(e.op, e.data.blocks_written, AllWhole(dk))
    <3>1. CASE Using(d)
      <4>1. Waiting(s) /\ e.op = s.g_db_action
        BY <1>1, <1>8, <3>1
      <4>2. Permitted(s.g_db_action, s.data.blocks_written,
                      \A i \in 1 .. N : Whole(dk[i]) \/ (Using(s) /\ Emptying(s.op, i)))
        BY <2>1, <4>1, Zenon DEF Covered
      <4> QED
        BY <1>6, <2>2, <4>1, <4>2 DEF Permitted
    <3>2. CASE ~Using(d)
      BY <1>6, <1>8, <2>2, <2>3, <3>2 DEF Permitted, Does
    <3> QED
      BY <3>1, <3>2
  <2>4. ASSUME Waiting(e)
        PROVE  Permitted(e.g_db_action, e.data.blocks_written,
                         \A i \in 1 .. N : Whole(dk[i]) \/ (Using(e) /\ Emptying(e.op, i)))
    BY <1>6, <1>8, <2>2, <2>4 DEF Permitted, Does, AllWhole
  <2>5. Covered(e, dk)
    BY <2>2, <2>3, <2>4, Zenon DEF Covered, AllWhole
  <2> QED
    BY <1>6, <2>1, <2>2, <2>5
<1>11. e.state = "WIPING" => \E i \in 0 .. N : e.data = WipeData(i)
  BY <1>6 DEF Sound
<1>12. ASSUME "fido" \notin more PROVE Clean(e, dk, rt, more)
  <2>0. Clean(s, dk, rt, dist)
    BY <1>12 DEF Sound, History
  <2>1. ASSUME e.state = "INITIALIZING" PROVE RootProgress(e, rt, more) /\ Counted(e)
    <3>1. RootProgress(s, rt, dist) /\ Counted(s) /\ s.data.blocks_written > N
          /\ IsInitData(s.data)
      BY <1>6, <1>10, <2>0, <2>1 DEF Clean
    <3>2. RootDone(s) /\ OneRead(s) /\ s.data.blocks_written <= N + 1
      BY <3>1 DEF Counted
    <3>3. OneRead(e)
      BY <1>9, <3>2 DEF OneRead, One
    <3>4. Counted(e)
      <4>1. s.data.blocks_written \in Nat /\ N \in Nat
        BY <3>1, InitializeAssumption DEF IsInitData
      <4>2. /\ e.data.blocks_written <= N + 1 /\ ~(e.data.blocks_written < N)
            /\ e.data.blocks_written # N
        BY <1>6, <3>1, <3>2, <4>1
      <4>3. RootDone(e)
        BY <1>6, <3>2
      <4> QED
        BY <3>3, <4>2, <4>3 DEF Counted
    <3>5. RootProgress(d, rt, dist)
      BY <1>1, <3>1, EmmcFrame
    <3>6. RootProgress(e, rt, dist)
      BY <1>4, <3>5, ScanFrame
    <3>7. Later(e, dist, more)
      BY <2>1 DEF Later, History
    <3> QED
      BY <3>4, <3>6, <3>7, LaterProgress
  <2>2. e.state # "WIPING"
    BY <1>0, <1>6 DEF Commands
  <2>3. ASSUME e.state \in {"UNINITIALIZED", "LOGGED_OUT"} \/ e.active_cmd = "STARTUP"
        PROVE  Settled(e)
    <3>1. Settled(s) /\ e.active_cmd = "STARTUP"
      BY <1>6, <2>0, <2>3 DEF Clean
    <3>2. ~Waiting(s)
      BY <1>6, <3>1 DEF Settled, OneRead, One
    <3> QED
      BY <1>6, <1>9, <3>1, <3>2 DEF Settled
  <2>4. e.state = "UNINITIALIZED" => Wiped(e, dk, rt)
    BY <1>6, <2>0 DEF Clean, Wiped
  <2> QED
    BY <2>1, <2>2, <2>3, <2>4 DEF Clean
<1> QED
  BY <1>6, <1>7, <1>10, <1>11, <1>12 DEF Sound, Shapes

(* The end of the scan: what InitializedWhole says of INITIALIZE. *)
EndsWhole(s, e, dk, rt, dist) ==
    s.state = "INITIALIZING" /\ e.state = "LOGGED_OUT" =>
        /\ AllWhole(dk)
        /\ "fido" \notin dist => rt.key = "new"
        /\ dist = {} => rt.fido = "new"

LEMMA ScanEnds ==
    ASSUME NEW s, NEW dk, NEW rt, NEW dist, Sound(s, dk, rt, dist), Using(s),
           s.op.kind = "read", s.state = "INITIALIZING" \/ s.active_cmd = "STARTUP",
           NEW d, d = emmc_user_done(s), NEW e, e = ScanDone(d), NEW more, dist \subseteq more
    PROVE  Sound(e, dk, rt, more) /\ e.failed = s.failed /\ EndsWhole(s, e, dk, rt, more)
<1> DEFINE c == [d EXCEPT !.scan = 0]
           b == [c EXCEPT !.data = NoData, !.state = "LOGGED_OUT"]
           out == enter_state(c, "LOGGED_OUT")
<1>0. IsDev(s) /\ Emmc(s) /\ RootShape(s) /\ Commands(s)
  BY DEF Sound, Shapes
<1>1. /\ Changes(s, d, EmmcFields) /\ Emmc(d) /\ ~Waiting(d)
      /\ IF Waiting(s) THEN Using(d) /\ d.op = s.g_db_action ELSE ~Using(d)
  BY <1>0, DoneGoesOn
<1>2. /\ IsDev(d) /\ d.state = s.state /\ d.active_cmd = s.active_cmd /\ d.long = s.long
      /\ d.sync = s.sync /\ d.root_page = s.root_page /\ d.writing = s.writing
      /\ d.failed = s.failed
  BY <1>1, EmmcFrame
<1>3. Changes(d, b, {"scan", "data", "state"}) /\ b.state = "LOGGED_OUT" /\ b.scan = 0 /\ IsDev(c)
  BY <1>2 DEF Changes, IsDev, Fields
<1>4. Answers(b, out)
  BY <1>3, EnterStateAnswers
<1>5. IF d.active_cmd = "STARTUP"
        THEN e = finish_command(out) ELSE e = out
  BY DEF ScanDone
<1> HIDE DEF b, c, out
<1>6. /\ b.active_cmd = d.active_cmd /\ b.long = d.long /\ b.sync = d.sync
      /\ b.root_page = d.root_page /\ b.writing = d.writing
      /\ b.g_emmc_user = d.g_emmc_user /\ b.ready = d.ready /\ b.op = d.op
      /\ b.g_db_action = d.g_db_action /\ b.failed = d.failed
  BY <1>3 DEF Changes, Fields
<1>7. /\ Changes(b, e, Free \cup {"active_cmd"})
      /\ e.active_cmd = d.active_cmd \/ e.active_cmd = "none"
      /\ e.active_cmd # "STARTUP"
  <2>1. CASE d.active_cmd = "STARTUP"
    <3>1. IsDev(out)
      BY <1>4 DEF Answers, Changes
    <3>2. Changes(out, e, Free \cup {"active_cmd"}) /\ e.active_cmd = "none"
      BY <1>5, <2>1, <3>1, FinishChanges
    <3> QED
      BY <1>4, <3>2 DEF Answers, Changes
  <2>2. CASE d.active_cmd # "STARTUP"
    BY <1>4, <1>5, <1>6, <2>2 DEF Answers
  <2> QED
    BY <2>1, <2>2
<1>8. /\ IsDev(e) /\ e.state = "LOGGED_OUT" /\ e.long = s.long /\ e.sync = s.sync
      /\ e.root_page = s.root_page /\ e.writing = s.writing
      /\ e.g_emmc_user = d.g_emmc_user /\ e.ready = d.ready /\ e.op = d.op
      /\ e.g_db_action = d.g_db_action /\ e.failed = s.failed /\ e.scan = 0
  BY <1>2, <1>3, <1>6, <1>7 DEF Changes, Free, Fields
<1>9. Using(e) = Using(d) /\ Waiting(e) = Waiting(d)
  BY <1>8 DEF Using, Waiting
<1>10. Emmc(e)
  BY <1>1, <1>8, <1>9, InitializeAssumption DEF Emmc
<1>11. RootShape(e)
  BY <1>0, <1>8 DEF RootShape
<1>12. Commands(e)
  BY <1>7, <1>8 DEF Commands
<1>13. ASSUME s.state = "INITIALIZING"
       PROVE  AllWhole(dk) /\ s.data.blocks_written > N
  <2>1. Covered(s, dk)
    BY <1>13 DEF Sound
  <2> QED
    BY <2>1 DEF Covered, Permitted
<1>14. ASSUME s.state = "INITIALIZING", "fido" \notin dist
       PROVE  RootDone(s) /\ RootProgress(s, rt, dist) /\ OneRead(s)
  <2>1. RootProgress(s, rt, dist) /\ Counted(s)
    BY <1>14 DEF Sound, Clean
  <2> QED
    BY <1>13, <1>14, <2>1 DEF Counted
<1>15. ASSUME "fido" \notin dist
       PROVE  s.sync = "SYNCED" /\ s.writing = NoPage /\ ~Waiting(s)
  <2>1. CASE s.state = "INITIALIZING"
    <3>1. s.sync # "MODIFIED" /\ s.writing = NoPage
      BY <1>14, <1>15, <2>1 DEF RootDone
    <3>2. ~Waiting(s)
      BY <1>14, <1>15, <2>1 DEF OneRead, One
    <3> QED
      BY <1>0, <3>1, <3>2 DEF RootShape
  <2>2. CASE s.active_cmd = "STARTUP"
    <3>1. Settled(s)
      BY <1>15, <2>2 DEF Sound, Clean
    <3> QED
      BY <2>2, <3>1 DEF Settled, OneRead, One
  <2> QED
    BY <2>1, <2>2
<1>16. "fido" \notin more => Clean(e, dk, rt, more)
  <2>1. ASSUME "fido" \notin more PROVE Settled(e)
    BY <1>1, <1>7, <1>8, <1>9, <1>15, <2>1 DEF Settled, Quiet
  <2> QED
    BY <1>8, <2>1 DEF Clean
<1>17. EndsWhole(s, e, dk, rt, more)
  <2>1. ASSUME s.state = "INITIALIZING", "fido" \notin dist PROVE rt.key = "new"
    BY <1>14, <2>1 DEF RootDone, RootProgress
  <2>2. ASSUME s.state = "INITIALIZING", dist = {} PROVE rt.fido = "new"
    BY <1>14, <2>2 DEF RootDone, RootProgress
  <2> QED
    BY <1>13, <2>1, <2>2 DEF EndsWhole
<1> QED
  BY <1>8, <1>10, <1>11, <1>12, <1>16, <1>17 DEF Sound, Shapes

LEMMA EndsFromState ==
    ASSUME NEW s, NEW e, NEW dk, NEW rt, NEW dist,
           s.state = "INITIALIZING" => e.state # "LOGGED_OUT"
    PROVE  EndsWhole(s, e, dk, rt, dist)
BY DEF EndsWhole

LEMMA ReadDone ==
    ASSUME Inv, EmmcDone, dev.op.kind = "read"
    PROVE  Inv' /\ EndsWhole(dev, dev', disk', root', disturbed')
<1> DEFINE d == emmc_user_done(dev)
           e == db3_read_block_complete(d)
<1>0. /\ Running /\ Using(dev) /\ Sound(dev, disk, root, disturbed)
      /\ IsDev(dev) /\ Emmc(dev) /\ RootShape(dev) /\ Commands(dev)
      /\ root \in Pages /\ disk = [i \in 1 .. N |-> disk[i]] /\ ~dev.failed
  BY RunningSound DEF EmmcDone, Using
<1>1. dev' = e /\ disturbed' = Retried(e) /\ root' = root /\ disk' = disk
  BY DEF EmmcDone, Becomes
<1>2. Changes(dev, d, EmmcFields) /\ Emmc(d)
  BY <1>0, DoneGoesOn
<1>3. /\ IsDev(d) /\ d.state = dev.state /\ d.active_cmd = dev.active_cmd
      /\ d.data = dev.data /\ d.failed = dev.failed /\ RootShape(d) /\ Commands(d)
  BY <1>0, <1>2, EmmcFrame
<1>4. /\ d = emmc_user_done(dev)
      /\ IF d.state # "INITIALIZING" /\ d.active_cmd # "STARTUP" THEN e = d
         ELSE IF d.scan < N
           THEN e = Db([d EXCEPT !.scan = @ + 1], "read", d.scan + 1, "none")
         ELSE e = ScanDone(d)
      /\ History(e, disturbed, Retried(e))
  BY RetriedHistory DEF db3_read_block_complete
<1> HIDE DEF d, e
<1>5. CASE dev.state = "INITIALIZING" \/ dev.active_cmd = "STARTUP"
  <2>1. CASE d.scan < N
    <3>1. Sound(e, disk, root, Retried(e)) /\ e.failed = dev.failed /\ e.state = dev.state
      BY <1>0, <1>3, <1>4, <1>5, <2>1, ScanGoesOn
    <3>2. EndsWhole(dev, dev', disk', root', disturbed')
      BY <1>1, <3>1, EndsFromState
    <3> QED
      BY <1>0, <1>1, <3>1, <3>2, NextSound
  <2>2. CASE ~(d.scan < N)
    <3>1. /\ Sound(e, disk, root, Retried(e)) /\ e.failed = dev.failed
          /\ EndsWhole(dev, e, disk, root, Retried(e))
      BY <1>0, <1>3, <1>4, <1>5, <2>2, ScanEnds DEF History
    <3> QED
      BY <1>0, <1>1, <3>1, NextSound
  <2> QED
    BY <2>1, <2>2
<1>6. CASE dev.state # "INITIALIZING" /\ dev.active_cmd # "STARTUP"
  <2>1. e = d
    BY <1>3, <1>4, <1>6
  <2>2. ASSUME "fido" \notin disturbed'
        PROVE  d.state \notin {"UNINITIALIZED", "LOGGED_OUT", "WIPING"}
    <3>1. Clean(dev, disk, root, disturbed)
      BY <1>0, <1>1, <1>4, <2>2 DEF Sound, History
    <3>2. ~Quiet(dev)
      BY <1>0 DEF Quiet
    <3>3. \A i : ~One(dev, "write", i, "zero")
      BY <1>0 DEF One, Does
    <3>4. ~Wiping(dev, disk, root)
      BY <3>2, <3>3 DEF Wiping, Zeroing
    <3>5. ~Settled(dev)
      BY <1>6, <3>2 DEF Settled
    <3> QED
      BY <1>3, <3>1, <3>4, <3>5 DEF Clean
  <2>3. "fido" \notin disturbed' => Clean(d, disk, root, disturbed')
    BY <1>3, <1>6, <2>2 DEF Clean
  <2>4. d.state = "WIPING" => \E i \in 0 .. N : d.data = WipeData(i)
    BY <1>0, <1>3 DEF Sound
  <2>5. Sound(d, disk, root, disturbed')
    BY <1>2, <1>3, <1>6, <2>3, <2>4 DEF Sound, Shapes
  <2>6. EndsWhole(dev, dev', disk', root', disturbed')
    BY <1>6 DEF EndsWhole
  <2> QED
    BY <1>0, <1>1, <1>3, <2>1, <2>5, <2>6, NextSound
<1> QED
  BY <1>5, <1>6

(* The main loop starts the write of the root page. *)
LEMMA RootStarts ==
    ASSUME Inv, sync_root_block_immediate
    PROVE  Inv' /\ NotEnded
<1> DEFINE e == dev'
<1>0. /\ Running /\ Sound(dev, disk, root, disturbed)
      /\ IsDev(dev) /\ Emmc(dev) /\ RootShape(dev) /\ Commands(dev)
      /\ root \in Pages /\ disk = [i \in 1 .. N |-> disk[i]] /\ ~dev.failed
      /\ dev.sync = "MODIFIED" /\ dev.writing = NoPage
  BY RunningSound DEF sync_root_block_immediate
<1>1. /\ dev' = [dev EXCEPT !.sync = "WRITING", !.writing = dev.root_page]
      /\ UNCHANGED <<disk, root, disturbed>>
  <2> DEFINE c == [dev EXCEPT !.sync = "WRITING"]
  <2>1. dev' = write_root_block(c, dev.root_page) /\ UNCHANGED <<disk, root, disturbed>>
    BY DEF sync_root_block_immediate
  <2>2. c.writing = NoPage
    BY <1>0 DEF IsDev, Fields
  <2>3. dev' = [c EXCEPT !.writing = dev.root_page]
    BY <2>1, <2>2 DEF write_root_block
  <2> QED
    BY <1>0, <2>1, <2>3 DEF IsDev, Fields
<1>2. /\ Changes(dev, e, {"sync", "release_requested", "owner", "writing"})
      /\ e.sync = "WRITING" /\ e.writing = dev.root_page
  BY <1>0, <1>1 DEF Changes, IsDev, Fields
<1> HIDE DEF e
<1>3. /\ IsDev(e) /\ e.state = dev.state /\ e.active_cmd = dev.active_cmd
      /\ e.root_page = dev.root_page /\ e.data = dev.data /\ e.failed = dev.failed
      /\ Using(e) = Using(dev) /\ Waiting(e) = Waiting(dev)
      /\ Emmc(e) /\ Commands(e)
      /\ \A kind, idx, data : One(dev, kind, idx, data) => One(e, kind, idx, data)
      /\ Covered(dev, disk) => Covered(e, disk)
  BY <1>0, <1>2, SyncFrame
<1>4. RootShape(e)
  <2>1. dev.root_page # NoPage
    BY <1>0 DEF RootShape, Pages, NoPage, Page
  <2> QED
    BY <1>0, <1>2, <1>3, <2>1 DEF RootShape
<1>5. ASSUME "fido" \notin disturbed PROVE Clean(e, disk, root, disturbed)
  <2>0. Clean(dev, disk, root, disturbed)
    BY <1>0, <1>5 DEF Sound
  <2>1. ASSUME e.state = "INITIALIZING" PROVE RootProgress(e, root, disturbed) /\ Counted(e)
    <3>1. RootProgress(dev, root, disturbed) /\ Counted(dev)
      BY <1>3, <2>0, <2>1 DEF Clean
    <3>2. dev.data.finalized
      BY <1>0, <3>1 DEF RootProgress
    <3>3. ~RootDone(dev) /\ ~RootDone(e)
      BY <1>0, <1>2, <1>4 DEF RootDone, RootShape
    <3>4. RootProgress(e, root, disturbed)
      BY <1>2, <1>3, <3>1, <3>2, <3>3 DEF RootProgress
    <3>5. Counted(e)
      BY <1>3, <3>1, <3>3 DEF Counted, Quiet
    <3> QED
      BY <3>4, <3>5
  <2>2. e.state # "WIPING"
    BY <1>0, <1>3, <2>0 DEF Clean, Wiping
  <2>3. e.state \notin {"UNINITIALIZED", "LOGGED_OUT"} /\ e.active_cmd # "STARTUP"
    BY <1>0, <1>3, <2>0 DEF Clean, Settled
  <2> QED
    BY <2>1, <2>2, <2>3 DEF Clean
<1>6. Sound(e, disk, root, disturbed)
  BY <1>0, <1>3, <1>4, <1>5 DEF Sound, Shapes
<1>7. e = dev'
  BY DEF e
<1>8. Inv'
  BY <1>0, <1>1, <1>3, <1>6, <1>7, NextSound
<1> QED
  BY <1>3, <1>7, <1>8 DEF NotEnded

(* The root page has been written. *)
LEMMA PageCompletes ==
    ASSUME Inv, Running, dev.writing # NoPage,
           root' \in {dev.writing} \cup
               IF dev.writing = dev.root_page \/ dev.writing.key = "zero" THEN {} ELSE {root},
           NEW d, d = [dev EXCEPT !.writing = NoPage], NEW r, r = RootWritten(d)
    PROVE  /\ Completed(r, disk, root', disturbed) /\ root' \in Pages
           /\ IsDev(d) /\ d.state = dev.state /\ d.sync = dev.sync /\ d.failed = dev.failed
           /\ d.g_emmc_user = dev.g_emmc_user /\ Waiting(d) = Waiting(dev)
           /\ "fido" \notin disturbed /\ Waiting(d) /\ d.state \in {"INITIALIZING", "WIPING"}
                 => dev.g_emmc_user = "STORAGE"
<1>0. /\ Sound(dev, disk, root, disturbed)
      /\ IsDev(dev) /\ Emmc(dev) /\ RootShape(dev) /\ Commands(dev)
      /\ root \in Pages
  BY RunningSound
<1>1. Changes(dev, d, {"writing"}) /\ d.writing = NoPage
  BY <1>0 DEF Changes, IsDev, Fields
<1>2. /\ IsDev(d) /\ d.state = dev.state /\ d.sync = dev.sync /\ d.failed = dev.failed
      /\ d.g_emmc_user = dev.g_emmc_user /\ Waiting(d) = Waiting(dev)
  BY <1>1 DEF Changes, Fields, Waiting
<1>3. /\ Changes(d, r, {"sync", "release_requested", "owner"})
      /\ r.sync = IF d.sync = "WRITING" THEN "SYNCED" ELSE d.sync
  BY <1>0, <1>2, RootWrittenChanges DEF RootShape
<1>4. Changes(dev, r, {"sync", "release_requested", "owner", "writing"}) /\ r.writing = NoPage
  BY <1>1, <1>3 DEF Changes, Fields
<1>5. /\ IsDev(r) /\ r.state = dev.state /\ r.active_cmd = dev.active_cmd
      /\ r.root_page = dev.root_page /\ r.data = dev.data
      /\ Using(r) = Using(dev) /\ Waiting(r) = Waiting(dev)
      /\ Emmc(r) /\ Commands(r)
      /\ \A kind, idx, data : One(dev, kind, idx, data) => One(r, kind, idx, data)
      /\ Covered(dev, disk) => Covered(r, disk)
  BY <1>0, <1>4, SyncFrame
<1>6. RootShape(r)
  BY <1>0, <1>2, <1>3, <1>4, <1>5 DEF RootShape
<1>7. root' \in Pages
  BY <1>0 DEF RootShape
<1>8. r.state = "INITIALIZING" => IsInitData(r.data) /\ Covered(r, disk)
  BY <1>0, <1>5 DEF Sound
<1>9. r.state = "WIPING" => \E i \in 0 .. N : r.data = WipeData(i)
  BY <1>0, <1>5 DEF Sound
<1>10. ASSUME "fido" \notin disturbed
       PROVE  /\ r.state = "INITIALIZING" => RootProgress(r, root', disturbed) /\ Owed(r)
              /\ r.state = "WIPING" => Between(r, r.data.block_idx, disk, root')
              /\ r.state \notin {"UNINITIALIZED", "LOGGED_OUT"} /\ r.active_cmd # "STARTUP"
              /\ Waiting(d) /\ d.state \in {"INITIALIZING", "WIPING"}
                    => dev.g_emmc_user = "STORAGE"
  <2>0. Clean(dev, disk, root, disturbed)
    BY <1>0, <1>10 DEF Sound
  <2>1. ASSUME r.state = "INITIALIZING"
        PROVE  /\ RootProgress(r, root', disturbed) /\ Owed(r)
               /\ Waiting(d) => dev.g_emmc_user = "STORAGE"
    <3>1. RootProgress(dev, root, disturbed) /\ Counted(dev) /\ IsInitData(dev.data)
      BY <1>0, <1>5, <2>0, <2>1 DEF Clean, Sound
    <3>2. /\ dev.writing = dev.root_page /\ dev.sync # "MODIFIED" /\ dev.data.finalized
          /\ ~RootDone(dev)
      BY <3>1 DEF RootProgress, RootDone
    <3>3. root' = dev.root_page
      BY <3>2
    <3>4. RootDone(r)
      BY <1>2, <1>3, <1>4, <1>5, <3>2 DEF RootDone
    <3>5. RootProgress(r, root', disturbed)
      BY <1>4, <1>5, <3>1, <3>2, <3>3 DEF RootProgress
    <3>6. dev.data.blocks_written \in Nat /\ N \in Nat
          /\ r.data.blocks_written = dev.data.blocks_written
      BY <1>5, <3>1, InitializeAssumption DEF IsInitData
    <3>7. dev.data.blocks_written <= N
      BY <3>1, <3>2, <3>6 DEF Counted
    <3>8. CASE dev.data.blocks_written < N
      <4>1. One(dev, "write", dev.data.blocks_written + 1, "empty")
        BY <3>1, <3>2, <3>8 DEF Counted
      <4>2. One(r, "write", r.data.blocks_written + 1, "empty")
        BY <1>5, <3>6, <4>1
      <4>3. Owed(r)
        BY <3>4, <3>6, <3>8, <4>2 DEF Owed
      <4>4. Waiting(d) => dev.g_emmc_user = "STORAGE"
        BY <1>0, <1>2, <4>1 DEF One, Emmc, Using, Waiting
      <4> QED
        BY <3>5, <4>3, <4>4
    <3>9. CASE dev.data.blocks_written = N
      <4>1. Quiet(dev)
        BY <3>1, <3>2, <3>9 DEF Counted
      <4>2. Owed(r)
        BY <1>5, <3>4, <3>6, <3>9, <4>1 DEF Owed, Quiet
      <4> QED
        BY <1>2, <3>5, <4>1, <4>2 DEF Quiet
    <3> QED
      BY <3>6, <3>7, <3>8, <3>9
  <2>2. ASSUME r.state = "WIPING"
        PROVE  Between(r, r.data.block_idx, disk, root') /\ ~Waiting(d)
    <3>1. Wiping(dev, disk, root)
      BY <1>5, <2>0, <2>2 DEF Clean
    <3>2. dev.data.block_idx = 0 /\ dev.writing = Page("zero", "zero") /\ Quiet(dev)
          /\ dev.sync = "SYNCED"
      BY <3>1 DEF Wiping, Zeroing
    <3>3. root' = Page("zero", "zero") /\ Page("zero", "zero").key = "zero"
      BY <3>2 DEF Page
    <3>4. r.sync = "SYNCED" /\ Quiet(r)
      BY <1>2, <1>3, <1>5, <3>2 DEF Quiet
    <3>5. \A j \in 1 .. N : j <= r.data.block_idx => disk[j] = "zero"
      BY <1>5, <3>2
    <3> QED
      BY <1>2, <1>4, <3>2, <3>3, <3>4, <3>5 DEF Between, Quiet
  <2>3. r.state \notin {"UNINITIALIZED", "LOGGED_OUT"} /\ r.active_cmd # "STARTUP"
    BY <1>5, <2>0 DEF Clean, Settled
  <2> QED
    BY <1>2, <1>5, <2>1, <2>2, <2>3
<1>11. Completed(r, disk, root', disturbed)
  BY <1>5, <1>6, <1>8, <1>9, <1>10 DEF Completed, Shapes
<1> QED
  BY <1>2, <1>7, <1>10, <1>11

LEMMA PageDone ==
    ASSUME Inv, FlashDone
    PROVE  Inv' /\ NotEnded
<1> DEFINE d == [dev EXCEPT !.writing = NoPage]
           r == RootWritten(d)
           e == write_block_complete(d)
<1>0. /\ Running /\ RootShape(dev) /\ disk = [i \in 1 .. N |-> disk[i]] /\ ~dev.failed
  BY RunningSound DEF FlashDone
<1>1. dev' = e /\ disturbed' = Retried(e) /\ disk' = disk
  BY DEF FlashDone, Becomes
<1>2. /\ d = [dev EXCEPT !.writing = NoPage]
      /\ r = RootWritten(d) /\ e = write_block_complete(d) /\ History(e, disturbed, Retried(e))
  BY RetriedHistory
<1> HIDE DEF d, r, e
<1>3. /\ Completed(r, disk, root', disturbed) /\ root' \in Pages
      /\ IsDev(d) /\ d.state = dev.state /\ d.sync = dev.sync /\ d.failed = dev.failed
      /\ d.g_emmc_user = dev.g_emmc_user /\ Waiting(d) = Waiting(dev)
      /\ "fido" \notin disturbed /\ Waiting(d) /\ d.state \in {"INITIALIZING", "WIPING"}
            => dev.g_emmc_user = "STORAGE"
  BY <1>0, <1>2, PageCompletes DEF FlashDone
<1>4. \/ /\ Sound(e, disk, root', Retried(e)) /\ e.failed = d.failed
         /\ e.state = "LOGGED_OUT" => d.state = "LOGGED_OUT"
      \/ /\ Waiting(d) /\ d.state \in {"INITIALIZING", "WIPING"}
         /\ e.failed /\ e.g_emmc_user = d.g_emmc_user /\ e.state = d.state
  <2>1. PICK rt : rt = root'
    OBVIOUS
  <2>2. Completed(r, disk, rt, disturbed)
    BY <1>3, <2>1
  <2>3. \/ /\ Sound(e, disk, rt, Retried(e)) /\ e.failed = d.failed
           /\ e.state = "LOGGED_OUT" => d.state = "LOGGED_OUT"
        \/ /\ Waiting(d) /\ d.state \in {"INITIALIZING", "WIPING"}
           /\ e.failed /\ e.g_emmc_user = d.g_emmc_user /\ e.state = d.state
    <3>1. d.sync \in {"SYNCED", "MODIFIED", "WRITING"} /\ IsDev(d)
      BY <1>0, <1>3 DEF RootShape
    <3>2. PICK more : more = Retried(e)
      OBVIOUS
    <3>3. r = RootWritten(d) /\ e = write_block_complete(d) /\ History(e, disturbed, more)
      BY <1>2, <3>2
    <3>4. \/ /\ Sound(e, disk, rt, more) /\ e.failed = d.failed
             /\ e.state = "LOGGED_OUT" => d.state = "LOGGED_OUT"
          \/ /\ Waiting(d) /\ d.state \in {"INITIALIZING", "WIPING"}
             /\ e.failed /\ e.g_emmc_user = d.g_emmc_user /\ e.state = d.state
      BY <2>2, <3>1, <3>3, CompletionSound
    <3> QED
      BY <3>2, <3>4
  <2> QED
    BY <2>1, <2>3
<1>5. CASE /\ Sound(e, disk, root', Retried(e)) /\ e.failed = d.failed
           /\ e.state = "LOGGED_OUT" => d.state = "LOGGED_OUT"
  BY <1>0, <1>1, <1>3, <1>5, NextSound DEF NotEnded
<1>6. CASE /\ Waiting(d) /\ d.state \in {"INITIALIZING", "WIPING"}
           /\ e.failed /\ e.g_emmc_user = d.g_emmc_user /\ e.state = d.state
  <2>1. NoAssertion'
    <3>1. "fido" \in disturbed => "fido" \in disturbed'
      BY <1>1, <1>2 DEF History
    <3> QED
      BY <1>1, <1>3, <1>6, <3>1 DEF NoAssertion
  <2>2. /\ (disk = [i \in 1 .. N |-> disk[i]])' /\ root' \in Pages
        /\ dev'.failed /\ dev'.state \in {"INITIALIZING", "WIPING"}
    BY <1>0, <1>1, <1>3, <1>6
  <2>3. Inv'
    BY <2>1, <2>2 DEF Inv
  <2>4. NotEnded
    BY <1>1, <1>3, <1>6 DEF NotEnded
  <2> QED
    BY <2>3, <2>4
<1> QED
  BY <1>4, <1>5, <1>6

(* The button. *)
LEMMA OldPages ==
    ASSUME NEW p, p \in Pages
    PROVE  OldPage(p) \in Pages
BY DEF OldPage, Old, Page, Pages

LEMMA InitializePressed ==
    ASSUME Inv, long_button_press, dev.active_cmd = "INITIALIZE"
    PROVE  Inv' /\ NotEnded
<1> DEFINE pg == OldPage(dev.root_page)
           wr == OldPage(dev.writing)
           d == [dev EXCEPT !.long = "no", !.root_page = pg, !.writing = wr]
           q == WriteEmpty(d, 1)
           f == finish_command(q)
           a == [f EXCEPT !.data = InitData(d)]
           e == enter_progressing_state(a, "INITIALIZING", 3)
           dk == [i \in 1 .. N |-> Old(disk[i])]
           left == IF dev.ready = {} THEN {} ELSE disturbed
           more == left \cup (IF dev.state = "UNINITIALIZED" THEN {"kept"} ELSE {})
<1>0. /\ Sound(dev, disk, root, disturbed)
      /\ IsDev(dev) /\ Emmc(dev) /\ RootShape(dev) /\ Commands(dev)
      /\ root \in Pages /\ ~dev.failed
      /\ dev.sync # "MODIFIED" /\ dev.writing = NoPage /\ ~Using(dev)
  BY RunningSound DEF long_button_press, Using
<1>1. /\ dev' = e /\ disk' = dk /\ root' = OldPage(root) /\ disturbed' = more
  <2>1. d = [[dev EXCEPT !.long = "no"] EXCEPT !.root_page = OldPage(@), !.writing = OldPage(@)]
    BY <1>0 DEF IsDev, Fields
  <2>2. dev' = initialize_cmd_complete(d)
    BY <2>1 DEF long_button_press
  <2> HIDE DEF d
  <2> QED
    BY <2>2 DEF long_button_press, initialize_cmd_complete
<1>2. /\ pg \in Pages /\ wr = NoPage
  BY <1>0, OldPages DEF RootShape, OldPage, Old, NoPage, Page
<1> HIDE DEF pg, wr
<1>3. /\ Changes(dev, d, {"long", "root_page", "writing"})
      /\ d.root_page = pg /\ d.writing = NoPage
  BY <1>0, <1>2 DEF Changes, IsDev, Fields
<1> HIDE DEF d
<1>4. /\ IsDev(d) /\ d.state = dev.state /\ d.sync = dev.sync /\ d.failed = dev.failed
      /\ d.g_emmc_user = dev.g_emmc_user /\ d.ready = dev.ready /\ d.op = dev.op
      /\ d.g_db_action = dev.g_db_action /\ d.scan = dev.scan
      /\ Using(d) = Using(dev) /\ Waiting(d) = Waiting(dev)
  BY <1>3 DEF Changes, Fields, Using, Waiting
<1>5. Emmc(d)
  BY <1>0, <1>4 DEF Emmc
<1>6. 1 \in 1 .. N /\ N \in Nat
  BY InitializeAssumption
<1>7. (disk = [i \in 1 .. N |-> disk[i]])' /\ root' \in Pages
  BY <1>0, <1>1, OldPages
<1>i. IsInitData(InitData(d)) /\ InitData(d).blocks_written = 0
      /\ InitData(d).finalized = FALSE /\ InitData(d).signet_updated = FALSE
      /\ InitData(d).ctap_needed = 0
      /\ (InitData(d).ctap_updated => dev.state = "UNINITIALIZED")
  <2> DEFINE u == d.state = "UNINITIALIZED"
  <2>1. u \in BOOLEAN /\ (u => dev.state = "UNINITIALIZED")
    BY <1>4
  <2> HIDE DEF u
  <2>2. InitData(d) =
          [blocks_written |-> 0, rand_avail_init |-> d.rand_avail, needed |-> SignetWords,
           ctap_needed |-> 0, signet_updated |-> FALSE,
           ctap_updated |-> u, finalized |-> FALSE]
    BY DEF InitData, u
  <2> QED
    BY <2>1, <2>2 DEF IsInitData, DataFields
<1>8. CASE Waiting(dev)
  <2>1. IsDev(q) /\ q.failed /\ q.g_emmc_user = d.g_emmc_user
    BY <1>4, <1>5, <1>6, <1>8, WriteEmptyFails
  <2> HIDE DEF q
  <2>3. Changes(q, f, Free \cup {"active_cmd"})
    BY <2>1, FinishChanges
  <2>4. IsDev(f) /\ f.failed = q.failed /\ f.g_emmc_user = q.g_emmc_user
    BY <2>3 DEF Changes, Free, Fields
  <2> HIDE DEF f
  <2>5. IsDev(a) /\ a.failed = q.failed /\ a.g_emmc_user = q.g_emmc_user
    BY <2>4 DEF IsDev, Fields
  <2> HIDE DEF a
  <2> DEFINE s == [a EXCEPT !.state = "INITIALIZING"]
  <2>6. Answers(s, e)
    BY <2>5, EnterAnswers
  <2>7. s.failed = q.failed /\ s.g_emmc_user = q.g_emmc_user /\ s.state = "INITIALIZING"
    BY <2>5 DEF IsDev, Fields
  <2> HIDE DEF s, e
  <2>8. e.failed /\ e.g_emmc_user = dev.g_emmc_user /\ e.state = "INITIALIZING"
    BY <1>4, <2>1, <2>6, <2>7 DEF Answers, Changes, Free, Fields
  <2>9. dev.g_emmc_user = "STORAGE"
    BY <1>0, <1>8 DEF Emmc, Using, Waiting
  <2>10. Inv'
    BY <1>1, <1>7, <2>8, <2>9 DEF Inv, NoAssertion
  <2> QED
    BY <1>1, <2>8, <2>10 DEF NotEnded
<1>9. CASE ~Waiting(dev)
  <2>1. EmptyQueued(d, q, 1)
    BY <1>4, <1>5, <1>6, <1>9, WriteEmptyQueues
  <2> HIDE DEF q
  <2>2. Changes(d, q, EmmcFields) /\ Emmc(q) /\ One(q, "write", 1, "empty")
    BY <1>0, <1>4, <2>1 DEF EmptyQueued
  <2>3. IsDev(q)
    BY <2>2 DEF Changes
  <2>4. Changes(q, f, Free \cup {"active_cmd"}) /\ f.active_cmd = "none"
    BY <2>3, FinishChanges
  <2> HIDE DEF f
  <2>5. Changes(f, a, {"data"}) /\ a.data = InitData(d)
    BY <2>4 DEF Changes, IsDev, Fields
  <2> HIDE DEF a
  <2> DEFINE s == [a EXCEPT !.state = "INITIALIZING"]
  <2>6. Changes(a, s, {"state"}) /\ s.state = "INITIALIZING"
    BY <2>5 DEF Changes, IsDev, Fields
  <2>7. Answers(s, e)
    BY <2>5, EnterAnswers DEF Changes
  <2> HIDE DEF s, e
  <2>a. /\ s.active_cmd = "none" /\ s.data = InitData(d) /\ s.sync = d.sync
        /\ s.root_page = pg /\ s.writing = NoPage
        /\ s.g_emmc_user = q.g_emmc_user /\ s.ready = q.ready /\ s.op = q.op
        /\ s.g_db_action = q.g_db_action /\ s.scan = q.scan /\ s.failed = d.failed
    <3>1. /\ q.sync = d.sync /\ q.root_page = pg /\ q.writing = NoPage /\ q.failed = d.failed
      BY <1>3, <2>2, EmmcFrame
    <3>2. /\ f.sync = q.sync /\ f.root_page = q.root_page /\ f.writing = q.writing
          /\ f.g_emmc_user = q.g_emmc_user /\ f.ready = q.ready /\ f.op = q.op
          /\ f.g_db_action = q.g_db_action /\ f.scan = q.scan /\ f.failed = q.failed
      BY <2>4 DEF Changes, Free, Fields
    <3>3. /\ s.active_cmd = f.active_cmd /\ s.data = a.data /\ s.sync = f.sync
          /\ s.root_page = f.root_page /\ s.writing = f.writing
          /\ s.g_emmc_user = f.g_emmc_user /\ s.ready = f.ready /\ s.op = f.op
          /\ s.g_db_action = f.g_db_action /\ s.scan = f.scan /\ s.failed = f.failed
      BY <2>5, <2>6 DEF Changes, Fields
    <3> QED
      BY <2>4, <2>5, <3>1, <3>2, <3>3
  <2>8. /\ IsDev(e) /\ e.state = "INITIALIZING" /\ e.active_cmd = "none"
        /\ e.data = InitData(d) /\ e.sync = dev.sync
        /\ e.root_page = pg /\ e.writing = NoPage
        /\ e.g_emmc_user = q.g_emmc_user /\ e.ready = q.ready /\ e.op = q.op
        /\ e.g_db_action = q.g_db_action /\ e.scan = q.scan /\ e.failed = dev.failed
    <3>1. Frame(s, e) /\ (e.active_cmd = s.active_cmd \/ e.active_cmd = "none")
      BY <2>7, AnswersFrame DEF Answers
    <3> QED
      BY <1>4, <2>6, <2>a, <3>1, FrameFields
  <2>9. Using(e) = Using(q) /\ Waiting(e) = Waiting(q)
    BY <2>8 DEF Using, Waiting
  <2>10. Emmc(e) /\ One(e, "write", 1, "empty")
    BY <2>2, <2>8, <2>9 DEF Emmc, One
  <2>11. e.sync = "SYNCED" /\ RootShape(e)
    BY <1>0, <1>2, <2>8 DEF RootShape
  <2>12. Commands(e)
    BY <2>8 DEF Commands
  <2>13. IsInitData(e.data) /\ e.data.blocks_written = 0
    BY <1>i, <2>8
  <2>14. Covered(e, dk)
    <3>1. \A i \in 1 .. N : i <= e.data.blocks_written + 1 =>
            \/ Using(e) /\ Emptying(e.op, i)
            \/ Waiting(e) /\ Emptying(e.g_db_action, i)
      <4> TAKE i \in 1 .. N
      <4> HAVE i <= e.data.blocks_written + 1
      <4>1. i = 1
        BY <2>13
      <4> QED
        BY <2>10, <4>1 DEF One, Emptying
    <3> QED
      BY <2>10, <3>1 DEF Covered, Permitted, One, Does
  <2>15. RootProgress(e, root', more) /\ Counted(e)
    <3>1. ~RootDone(e)
      BY <1>i, <2>8 DEF RootDone
    <3>2. Counted(e)
      BY <1>6, <2>10, <2>13, <3>1 DEF Counted
    <3>3. e.data.ctap_updated => more # {}
      BY <1>i, <2>8
    <3> QED
      BY <1>i, <2>8, <2>11, <3>1, <3>2, <3>3 DEF RootProgress
  <2>16. Sound(e, dk, root', more)
    BY <2>8, <2>10, <2>11, <2>12, <2>13, <2>14, <2>15 DEF Sound, Shapes, Clean
  <2>17. Inv'
    BY <1>0, <1>1, <1>7, <2>8, <2>16, NextSound
  <2> QED
    BY <1>1, <2>8, <2>17 DEF NotEnded
<1> QED
  BY <1>8, <1>9

LEMMA WipePressed ==
    ASSUME Inv, long_button_press, dev.active_cmd = "WIPE"
    PROVE  Inv' /\ NotEnded
<1> DEFINE d == [dev EXCEPT !.long = "no"]
           f == finish_command(d)
           a == [f EXCEPT !.data = WipeData(0)]
           b == write_data_block(a, 0, "zero")
           s == [b EXCEPT !.state = "WIPING"]
           e == enter_progressing_state(b, "WIPING", 1)
           zero == Page("zero", "zero")
<1>0. /\ Sound(dev, disk, root, disturbed)
      /\ IsDev(dev) /\ Emmc(dev) /\ RootShape(dev) /\ Commands(dev)
      /\ root \in Pages /\ disk = [i \in 1 .. N |-> disk[i]] /\ ~dev.failed
      /\ dev.sync # "MODIFIED" /\ dev.writing = NoPage /\ ~Using(dev)
  BY RunningSound DEF long_button_press, Using
<1>1. /\ dev' = e /\ UNCHANGED <<disk, root>>
      /\ disturbed' = IF dev.ready = {} THEN {} ELSE disturbed
  BY DEF long_button_press, wipe_cmd_complete
<1>2. Changes(dev, d, {"long"})
  BY <1>0 DEF Changes, IsDev, Fields
<1> HIDE DEF d
<1>3. Changes(d, f, Free \cup {"active_cmd"}) /\ f.active_cmd = "none"
  BY <1>2, FinishChanges DEF Changes
<1> HIDE DEF f
<1>4. Changes(f, a, {"data"}) /\ a.data = WipeData(0)
  BY <1>3 DEF Changes, IsDev, Fields
<1>5. a.writing = NoPage
  BY <1>0, <1>2, <1>3, <1>4 DEF Changes, Free, Fields
<1> HIDE DEF a
<1>6. b = [a EXCEPT !.writing = zero]
  BY <1>5 DEF write_data_block, write_root_block
<1> HIDE DEF b, zero
<1>7. Changes(a, b, {"writing"}) /\ b.writing = zero
  BY <1>4, <1>6 DEF Changes, IsDev, Fields
<1>8. Changes(b, s, {"state"}) /\ s.state = "WIPING"
  BY <1>7 DEF Changes, IsDev, Fields
<1>9. Answers(s, e)
  BY <1>7, EnterAnswers DEF Changes
<1> HIDE DEF s, e
<1>10. /\ s.active_cmd = "none" /\ s.data = WipeData(0) /\ s.sync = dev.sync
       /\ s.root_page = dev.root_page /\ s.writing = zero
       /\ s.g_emmc_user = dev.g_emmc_user /\ s.ready = dev.ready /\ s.op = dev.op
       /\ s.g_db_action = dev.g_db_action /\ s.scan = dev.scan /\ s.failed = dev.failed
  <2>1. /\ f.sync = dev.sync /\ f.root_page = dev.root_page
        /\ f.g_emmc_user = dev.g_emmc_user /\ f.ready = dev.ready /\ f.op = dev.op
        /\ f.g_db_action = dev.g_db_action /\ f.scan = dev.scan /\ f.failed = dev.failed
    BY <1>2, <1>3 DEF Changes, Free, Fields
  <2>2. /\ s.active_cmd = f.active_cmd /\ s.data = a.data /\ s.sync = f.sync
        /\ s.root_page = f.root_page /\ s.writing = b.writing
        /\ s.g_emmc_user = f.g_emmc_user /\ s.ready = f.ready /\ s.op = f.op
        /\ s.g_db_action = f.g_db_action /\ s.scan = f.scan /\ s.failed = f.failed
    BY <1>4, <1>7, <1>8 DEF Changes, Fields
  <2> QED
    BY <1>3, <1>4, <1>7, <2>1, <2>2
<1>11. /\ IsDev(e) /\ e.state = "WIPING" /\ e.active_cmd = "none" /\ e.data = WipeData(0)
       /\ e.sync = dev.sync /\ e.root_page = dev.root_page /\ e.writing = zero
       /\ e.g_emmc_user = dev.g_emmc_user /\ e.ready = dev.ready /\ e.op = dev.op
       /\ e.g_db_action = dev.g_db_action /\ e.scan = dev.scan /\ e.failed = dev.failed
  <2>1. Frame(s, e) /\ (e.active_cmd = s.active_cmd \/ e.active_cmd = "none")
    BY <1>9, AnswersFrame DEF Answers
  <2> QED
    BY <1>8, <1>10, <2>1, FrameFields
<1>12. Using(e) = Using(dev) /\ Waiting(e) = Waiting(dev)
  BY <1>11 DEF Using, Waiting
<1>13. Emmc(e) /\ Commands(e)
  BY <1>0, <1>11, <1>12 DEF Emmc, Commands
<1>14. e.sync = "SYNCED" /\ RootShape(e)
  <2>1. zero \in Pages
    BY DEF zero, Page, Pages
  <2> QED
    BY <1>0, <1>11, <2>1 DEF RootShape
<1>15. ASSUME "fido" \notin disturbed' PROVE Wiping(e, disk, root)
  <2>1. ~Waiting(dev)
    <3>1. CASE dev.ready = {}
      BY <3>1 DEF Waiting
    <3>2. CASE dev.ready # {}
      <4>1. Clean(dev, disk, root, disturbed)
        BY <1>0, <1>1, <1>15, <3>2 DEF Sound
      <4>2. Settled(dev)
        BY <1>0, <4>1 DEF Clean, Commands
      <4> QED
        BY <4>2 DEF Settled, Quiet
    <3> QED
      BY <3>1, <3>2
  <2>2. Quiet(e)
    BY <1>0, <1>12, <2>1 DEF Quiet
  <2>3. e.data.block_idx = 0
    BY <1>11 DEF WipeData
  <2>4. Zeroing(e, e.data.block_idx)
    BY <1>11, <2>2, <2>3 DEF Zeroing, zero
  <2>5. \A j \in 1 .. N : ~(j < e.data.block_idx)
    BY <2>3
  <2> QED
    BY <1>14, <2>2, <2>3, <2>4, <2>5 DEF Wiping, Quiet
<1>16. "fido" \notin disturbed' => Clean(e, disk, root, disturbed')
  BY <1>11, <1>15 DEF Clean
<1>17. \E i \in 0 .. N : e.data = WipeData(i)
  BY <1>11, InitializeAssumption
<1>18. Sound(e, disk, root, disturbed')
  BY <1>11, <1>13, <1>14, <1>16, <1>17 DEF Sound, Shapes
<1>19. Inv'
  BY <1>0, <1>1, <1>11, <1>18, NextSound
<1> QED
  BY <1>1, <1>11, <1>19 DEF NotEnded

(* A command begins or ends, and nothing else. *)
LEMMA CommandStep ==
    ASSUME Inv, Running, NEW e, dev' = e, UNCHANGED <<disk, root, disturbed>>,
           Changes(dev, e, Free \cup {"active_cmd", "long"}), Commands(e),
           e.active_cmd = "STARTUP" <=> dev.active_cmd = "STARTUP"
    PROVE  Inv' /\ NotEnded
<1>0. /\ Sound(dev, disk, root, disturbed)
      /\ root \in Pages /\ disk = [i \in 1 .. N |-> disk[i]] /\ ~dev.failed
  BY RunningSound
<1>1. Sound(e, disk, root, disturbed)
  BY <1>0, CommandSound
<1>2. e.failed = dev.failed /\ e.state = dev.state
  BY DEF Changes, Free, Fields
<1>3. Inv'
  BY <1>0, <1>1, <1>2, NextSound
<1> QED
  BY <1>2, <1>3 DEF NotEnded

LEMMA OtherPressed ==
    ASSUME Inv, long_button_press, dev.active_cmd \notin {"INITIALIZE", "WIPE"}
    PROVE  Inv' /\ NotEnded
<1> DEFINE e == [dev EXCEPT !.long = "no"]
<1>0. IsDev(dev) /\ Commands(dev) /\ Running
  BY RunningSound DEF long_button_press
<1>1. dev' = e /\ UNCHANGED <<disk, root, disturbed>>
  BY DEF long_button_press
<1>2. Changes(dev, e, Free \cup {"active_cmd", "long"})
      /\ e.active_cmd = dev.active_cmd /\ e.state = dev.state /\ e.long = "no"
  BY <1>0 DEF Changes, IsDev, Fields
<1> HIDE DEF e
<1>3. Commands(e)
  BY <1>0, <1>2 DEF Commands
<1> QED
  BY <1>0, <1>1, <1>2, <1>3, CommandStep

(* The command that waits for the button ends. *)
LEMMA WaitEnds ==
    ASSUME Inv, Running, dev.long # "no", NEW long,
           NEW e, e = finish_command([dev EXCEPT !.long = long]),
           dev' = e, UNCHANGED <<disk, root, disturbed>>
    PROVE  Inv' /\ NotEnded
<1> DEFINE c == [dev EXCEPT !.long = long]
<1>0. IsDev(dev) /\ dev.active_cmd # "STARTUP"
  BY RunningSound DEF Commands
<1>1. Changes(dev, c, {"long"})
  BY <1>0 DEF Changes, IsDev, Fields
<1>2. Changes(c, e, Free \cup {"active_cmd"}) /\ e.active_cmd = "none"
  <2> HIDE DEF c
  <2>1. e = finish_command(c)
    BY DEF c
  <2> QED
    BY <1>1, <2>1, FinishChanges DEF Changes
<1> HIDE DEF c
<1>3. Changes(dev, e, Free \cup {"active_cmd", "long"})
  BY <1>1, <1>2 DEF Changes
<1>4. Commands(e)
  BY <1>2 DEF Commands
<1> QED
  BY <1>0, <1>2, <1>3, <1>4, CommandStep

(* The commands of the host. *)
LEMMA TakenChanges ==
    ASSUME NEW cmd, IsDev(dev)
    PROVE  /\ Changes(dev, Taken(cmd), Free \cup {"active_cmd"})
           /\ Taken(cmd).active_cmd = cmd /\ Taken(cmd).state = dev.state
           /\ Taken(cmd).long = dev.long
BY DEF Changes, IsDev, Fields, Free, Taken

LEMMA LongWaitBegins ==
    ASSUME Inv, NEW cmd \in {"INITIALIZE", "WIPE"}, BeginLongWait(cmd)
    PROVE  Inv' /\ NotEnded
<1> DEFINE c == Taken(cmd)
           e == dev'
<1>0. IsDev(dev) /\ Running /\ dev.active_cmd = "none"
      /\ UNCHANGED <<disk, root, disturbed>>
  BY RunningSound DEF BeginLongWait, Recv
<1>1. Changes(dev, c, Free \cup {"active_cmd"}) /\ c.active_cmd = cmd /\ c.state = dev.state
  BY <1>0, TakenChanges
<1>2. IF dev.state \in {"UNINITIALIZED", "LOGGED_OUT"}
        THEN e = [c EXCEPT !.long = "blinking"] ELSE e = finish_command(c)
  BY DEF BeginLongWait
<1>3. e = dev'
  OBVIOUS
<1> HIDE DEF c, e
<1>4. CASE dev.state \in {"UNINITIALIZED", "LOGGED_OUT"}
  <2>1. Changes(c, e, {"long"}) /\ e.active_cmd = cmd /\ e.state = dev.state
    BY <1>1, <1>2, <1>4 DEF Changes, IsDev, Fields
  <2>2. Changes(dev, e, Free \cup {"active_cmd", "long"})
    BY <1>1, <2>1 DEF Changes
  <2>3. Commands(e)
    BY <1>4, <2>1 DEF Commands
  <2> QED
    BY <1>0, <1>3, <2>1, <2>2, <2>3, CommandStep
<1>5. CASE dev.state \notin {"UNINITIALIZED", "LOGGED_OUT"}
  <2>1. Changes(c, e, Free \cup {"active_cmd"}) /\ e.active_cmd = "none"
    BY <1>1, <1>2, <1>5, FinishChanges DEF Changes
  <2>2. Changes(dev, e, Free \cup {"active_cmd", "long"})
    BY <1>1, <2>1 DEF Changes
  <2>3. Commands(e)
    BY <2>1 DEF Commands
  <2> QED
    BY <1>0, <1>3, <2>1, <2>2, <2>3, CommandStep
<1> QED
  BY <1>4, <1>5

LEMMA ProgressAsked ==
    ASSUME Inv, NEW check, NEW target, get_progress_cmd(check, target)
    PROVE  Inv' /\ NotEnded
<1> DEFINE c == Taken("GET_PROGRESS")
           b == [c EXCEPT !.g_progress_check = check, !.target = target]
           e == get_progress_check(b)
<1>0. IsDev(dev) /\ Running /\ dev.active_cmd = "none"
      /\ UNCHANGED <<disk, root, disturbed>> /\ dev' = e
  BY RunningSound DEF get_progress_cmd, Recv
<1>1. Changes(dev, c, Free \cup {"active_cmd"}) /\ c.active_cmd = "GET_PROGRESS"
  BY <1>0, TakenChanges
<1> HIDE DEF c
<1>2. Changes(c, b, Free) /\ b.active_cmd = "GET_PROGRESS"
  BY <1>1 DEF Changes, IsDev, Fields, Free
<1> HIDE DEF b
<1>3. Answers(b, e)
  BY <1>2, ProgressAnswers DEF Changes
<1>4. e.active_cmd \in {"GET_PROGRESS", "none"}
  BY <1>2, <1>3 DEF Answers
<1> HIDE DEF e
<1>5. Changes(dev, e, Free \cup {"active_cmd", "long"})
  BY <1>1, <1>2, <1>3 DEF Answers, Changes
<1>6. Commands(e)
  BY <1>4 DEF Commands
<1> QED
  BY <1>0, <1>4, <1>5, <1>6, CommandStep

LEMMA StartupTaken ==
    ASSUME Inv, startup_cmd
    PROVE  Inv' /\ NotEnded
<1> DEFINE t == Taken("STARTUP")
           d == [t EXCEPT !.root_page = root, !.long = "no"]
           c == [d EXCEPT !.uninitialized_wiped = FALSE]
           e == dev'
<1>0. /\ Sound(dev, disk, root, disturbed)
      /\ IsDev(dev) /\ Emmc(dev) /\ RootShape(dev)
      /\ root \in Pages /\ disk = [i \in 1 .. N |-> disk[i]] /\ ~dev.failed
      /\ UNCHANGED <<disk, root, disturbed>>
      /\ dev.state \in {"DISCONNECTED", "UNINITIALIZED", "LOGGED_OUT"}
      /\ dev.sync = "SYNCED" /\ dev.writing = NoPage
      /\ ~Using(dev) /\ ~Waiting(dev)
  BY RunningSound DEF startup_cmd, Recv, Using, Waiting
<1>1. e = IF root.key = "zero"
            THEN finish_command(enter_state(c, "UNINITIALIZED"))
            ELSE db3_startup_scan(d)
  BY DEF startup_cmd
<1>2. Changes(dev, t, Free \cup {"active_cmd"}) /\ t.active_cmd = "STARTUP"
      /\ t.state = dev.state
  BY <1>0, TakenChanges
<1>3. e = dev'
  OBVIOUS
<1> HIDE DEF t, e
<1>4. /\ Changes(dev, d, Free \cup {"active_cmd", "root_page", "long"})
      /\ d.active_cmd = "STARTUP" /\ d.root_page = root /\ d.long = "no"
  BY <1>2 DEF Changes, IsDev, Fields, Free
<1> HIDE DEF d
<1>5. /\ IsDev(d) /\ d.state = dev.state /\ d.sync = "SYNCED" /\ d.writing = NoPage
      /\ d.g_emmc_user = dev.g_emmc_user /\ d.ready = dev.ready /\ d.op = dev.op
      /\ d.g_db_action = dev.g_db_action /\ d.scan = dev.scan /\ d.failed = dev.failed
      /\ d.uninitialized_wiped = dev.uninitialized_wiped /\ d.data = dev.data
      /\ Using(d) = Using(dev) /\ Waiting(d) = Waiting(dev)
  BY <1>0, <1>4 DEF Changes, Fields, Free, Using, Waiting
<1>6. Emmc(d)
  BY <1>0, <1>5 DEF Emmc
<1>7. RootShape(d)
  BY <1>0, <1>4, <1>5 DEF RootShape
<1>8. CASE root.key = "zero"
  <2> DEFINE b == [c EXCEPT !.data = NoData, !.state = "UNINITIALIZED"]
             out == enter_state(c, "UNINITIALIZED")
  <2>1. Changes(d, c, {"uninitialized_wiped"}) /\ c.uninitialized_wiped = FALSE
    BY <1>5 DEF Changes, IsDev, Fields
  <2> HIDE DEF c
  <2>2. Changes(c, b, {"data", "state"}) /\ b.state = "UNINITIALIZED"
    BY <2>1 DEF Changes, IsDev, Fields
  <2>3. Answers(b, out)
    BY <2>1, EnterStateAnswers DEF Changes
  <2>4. e = finish_command(out)
    BY <1>1, <1>8
  <2> HIDE DEF b, out
  <2>5. Changes(out, e, Free \cup {"active_cmd"}) /\ e.active_cmd = "none"
    BY <2>3, <2>4, FinishChanges DEF Answers, Changes
  <2>6. Changes(b, e, Free \cup {"active_cmd"})
    BY <2>3, <2>5 DEF Answers, Changes
  <2>7. /\ IsDev(e) /\ e.state = "UNINITIALIZED" /\ e.uninitialized_wiped = FALSE
        /\ e.root_page = d.root_page /\ e.sync = d.sync /\ e.writing = d.writing
        /\ e.g_emmc_user = d.g_emmc_user /\ e.ready = d.ready /\ e.op = d.op
        /\ e.g_db_action = d.g_db_action /\ e.scan = d.scan /\ e.failed = d.failed
    <3>1. /\ b.uninitialized_wiped = FALSE
          /\ b.root_page = d.root_page /\ b.sync = d.sync /\ b.writing = d.writing
          /\ b.g_emmc_user = d.g_emmc_user /\ b.ready = d.ready /\ b.op = d.op
          /\ b.g_db_action = d.g_db_action /\ b.scan = d.scan /\ b.failed = d.failed
      BY <2>1, <2>2 DEF Changes, Fields
    <3> QED
      BY <2>2, <2>6, <3>1 DEF Changes, Free, Fields
  <2>8. Using(e) = Using(d) /\ Waiting(e) = Waiting(d)
    BY <2>7 DEF Using, Waiting
  <2>9. Emmc(e) /\ RootShape(e) /\ Commands(e)
    BY <1>6, <1>7, <2>5, <2>7, <2>8 DEF Emmc, RootShape, Commands
  <2>10. Settled(e) /\ Wiped(e, disk, root)
    BY <1>0, <1>5, <2>5, <2>7, <2>8 DEF Settled, Quiet, Wiped
  <2>11. Sound(e, disk, root, disturbed)
    BY <2>7, <2>9, <2>10 DEF Sound, Shapes, Clean
  <2>12. Inv'
    BY <1>0, <1>3, <1>5, <2>7, <2>11, NextSound
  <2> QED
    BY <1>0, <2>12 DEF NotEnded
<1>9. CASE root.key # "zero"
  <2> DEFINE s == [d EXCEPT !.scan = 1]
             o == [kind |-> "read", idx |-> 1, data |-> "none", mixed |-> FALSE]
  <2>1. /\ s = [d EXCEPT !.scan = 1] /\ e = Db(s, "read", 1, "none") /\ 1 \in 1 .. N
        /\ o = [kind |-> "read", idx |-> 1, data |-> "none", mixed |-> FALSE]
        /\ Does(o, "read", 1, "none")
    BY <1>1, <1>9, InitializeAssumption DEF db3_startup_scan, Does
  <2> HIDE DEF s, o
  <2>2. Changes(d, e, EmmcFields \cup {"scan"}) /\ Queued(s, e, o)
        /\ Using(s) = Using(d) /\ s.op = d.op
    <3>1. IsDev(d) /\ ~Waiting(d)
      BY <1>0, <1>5
    <3> QED
      BY <1>6, <2>1, <3>1, ReadQueues
  <2>3. /\ IsDev(e) /\ e.state = dev.state /\ e.active_cmd = "STARTUP" /\ e.long = "no"
        /\ e.sync = "SYNCED" /\ e.writing = NoPage /\ e.failed = dev.failed
        /\ e.uninitialized_wiped = dev.uninitialized_wiped /\ RootShape(e)
    <3>1. /\ IsDev(e) /\ e.state = d.state /\ e.active_cmd = d.active_cmd
          /\ e.long = d.long /\ e.sync = d.sync /\ e.writing = d.writing
          /\ e.failed = d.failed /\ e.uninitialized_wiped = d.uninitialized_wiped
          /\ RootShape(d) => RootShape(e)
      BY <2>2, ScanFrame
    <3> QED
      BY <1>4, <1>5, <1>7, <3>1
  <2>4. OneRead(e)
    <3>1. /\ Using(e) = ~Waiting(e)
          /\ Using(e) => e.op = o
          /\ Waiting(e) => e.g_db_action = o
      BY <1>0, <1>5, <2>2 DEF Queued
    <3>2. One(e, "read", 1, "none")
      BY <2>1, <3>1 DEF One
    <3> QED
      BY <2>1, <3>2 DEF OneRead
  <2>5. Emmc(e) /\ Commands(e)
    BY <1>0, <2>2, <2>3 DEF Queued, Commands
  <2>6. "fido" \notin disturbed => Clean(e, disk, root, disturbed)
    <3>1. Settled(e)
      BY <2>3, <2>4 DEF Settled
    <3>2. "fido" \notin disturbed /\ e.state = "UNINITIALIZED" => Wiped(e, disk, root)
      BY <1>0, <2>3 DEF Sound, Clean, Wiped
    <3> QED
      BY <1>0, <2>3, <3>1, <3>2 DEF Clean
  <2>7. Sound(e, disk, root, disturbed)
    BY <1>0, <2>3, <2>5, <2>6 DEF Sound, Shapes
  <2>8. Inv'
    BY <1>0, <1>3, <2>3, <2>7, NextSound
  <2> QED
    BY <1>0, <2>8 DEF NotEnded
<1> QED
  BY <1>8, <1>9

LEMMA Disconnected ==
    ASSUME Inv, cmd_disconnect
    PROVE  Inv' /\ NotEnded
<1> DEFINE c == [dev EXCEPT !.long = "no", !.active_cmd = "none"]
           b == [c EXCEPT !.data = NoData, !.state = "DISCONNECTED"]
           e == dev'
<1>0. /\ IsDev(dev) /\ Emmc(dev) /\ RootShape(dev)
      /\ root \in Pages /\ disk = [i \in 1 .. N |-> disk[i]] /\ ~dev.failed
      /\ UNCHANGED <<disk, root, disturbed>>
  BY RunningSound DEF cmd_disconnect
<1>1. e = enter_state(c, "DISCONNECTED") /\ e = dev'
  BY DEF cmd_disconnect
<1>2. Changes(dev, c, {"long", "active_cmd"}) /\ c.active_cmd = "none"
  BY <1>0 DEF Changes, IsDev, Fields
<1> HIDE DEF c, e
<1>3. Changes(c, b, {"data", "state"}) /\ b.state = "DISCONNECTED"
  BY <1>2 DEF Changes, IsDev, Fields
<1>4. Answers(b, e)
  BY <1>1, <1>2, EnterStateAnswers DEF Changes
<1> HIDE DEF b
<1>5. /\ IsDev(e) /\ e.state = "DISCONNECTED" /\ e.active_cmd = "none"
      /\ e.root_page = dev.root_page /\ e.sync = dev.sync /\ e.writing = dev.writing
      /\ e.g_emmc_user = dev.g_emmc_user /\ e.ready = dev.ready /\ e.op = dev.op
      /\ e.g_db_action = dev.g_db_action /\ e.scan = dev.scan /\ e.failed = dev.failed
  <2>1. /\ b.active_cmd = "none"
        /\ b.root_page = dev.root_page /\ b.sync = dev.sync /\ b.writing = dev.writing
        /\ b.g_emmc_user = dev.g_emmc_user /\ b.ready = dev.ready /\ b.op = dev.op
        /\ b.g_db_action = dev.g_db_action /\ b.scan = dev.scan /\ b.failed = dev.failed
    BY <1>2, <1>3 DEF Changes, Fields
  <2>2. Frame(b, e) /\ (e.active_cmd = b.active_cmd \/ e.active_cmd = "none")
    BY <1>4, AnswersFrame DEF Answers
  <2> QED
    BY <1>3, <2>1, <2>2, FrameFields
<1>6. Using(e) = Using(dev) /\ Waiting(e) = Waiting(dev)
  BY <1>5 DEF Using, Waiting
<1>7. Emmc(e) /\ RootShape(e) /\ Commands(e)
  BY <1>0, <1>5, <1>6 DEF Emmc, RootShape, Commands
<1>8. Sound(e, disk, root, disturbed)
  BY <1>5, <1>7 DEF Sound, Shapes, Clean
<1>9. Inv'
  BY <1>0, <1>1, <1>5, <1>8, NextSound
<1> QED
  BY <1>1, <1>5, <1>9 DEF NotEnded

(* A random word. *)
LEMMA LaterSound ==
    ASSUME NEW d, NEW dk, NEW rt, NEW dist, Sound(d, dk, rt, dist),
           NEW more, History(d, dist, more)
    PROVE  Sound(d, dk, rt, more)
<1>1. ASSUME "fido" \notin more PROVE Clean(d, dk, rt, more)
  <2>1. Clean(d, dk, rt, dist)
    BY <1>1 DEF Sound, History
  <2>2. d.state = "INITIALIZING" => RootProgress(d, rt, more)
    BY <2>1, LaterProgress DEF Clean, History, Later
  <2> QED
    BY <2>1, <2>2 DEF Clean
<1> QED
  BY <1>1 DEF Sound

LEMMA FinalizeSound ==
    ASSUME NEW d, NEW dk, NEW rt, NEW dist, Sound(d, dk, rt, dist), d.state = "INITIALIZING",
           NEW e, e = finalize_root_page_check(d), NEW more, History(e, dist, more)
    PROVE  Sound(e, dk, rt, more) /\ e.failed = d.failed /\ e.state = d.state
<1>0. IsDev(d) /\ Emmc(d) /\ RootShape(d) /\ Commands(d) /\ IsInitData(d.data)
      /\ Covered(d, dk)
  BY DEF Sound, Shapes
<1>1. PageUpdate(d, e) /\ RootShape(e)
  BY <1>0, FinalizedProgress
<1>2. /\ IsDev(e) /\ e.state = d.state /\ e.active_cmd = d.active_cmd /\ e.long = d.long
      /\ e.failed = d.failed /\ e.op = d.op /\ e.g_db_action = d.g_db_action
      /\ Using(e) = Using(d) /\ Waiting(e) = Waiting(d) /\ Emmc(e)
      /\ \A kind, idx, data : One(d, kind, idx, data) => One(e, kind, idx, data)
  BY <1>0, <1>1, UpdateParts
<1>3. Commands(e)
  BY <1>0, <1>2 DEF Commands
<1>4. IsInitData(e.data) /\ e.data.blocks_written = d.data.blocks_written
  BY <1>1 DEF PageUpdate
<1>5. Covered(e, dk)
  BY <1>0, <1>1, UpdateCovered
<1>6. ASSUME "fido" \notin more PROVE RootProgress(e, rt, more) /\ Counted(e)
  <2>1. RootProgress(d, rt, dist) /\ Counted(d)
    BY <1>6 DEF Sound, Clean, History
  <2>2. Later(e, dist, more)
    BY <1>2 DEF History, Later
  <2>3. RootProgress(e, rt, more) /\ RootDone(e) = RootDone(d)
    BY <1>0, <2>1, <2>2, FinalizedProgress
  <2>4. OneRead(d) => OneRead(e)
    BY <1>2 DEF OneRead
  <2>5. Counted(e)
    BY <1>2, <1>4, <2>1, <2>3, <2>4 DEF Counted, Quiet
  <2> QED
    BY <2>3, <2>5
<1>7. "fido" \notin more => Clean(e, dk, rt, more)
  BY <1>0, <1>2, <1>6 DEF Clean, Commands
<1> QED
  BY <1>1, <1>2, <1>3, <1>4, <1>5, <1>7 DEF Sound, Shapes

LEMMA WordPushed ==
    ASSUME Inv, RandPush
    PROVE  Inv' /\ NotEnded
<1> DEFINE d == [dev EXCEPT !.rand_avail = @ + 1]
           f == finalize_root_page_check(d)
           b == [f EXCEPT !.level[2] = f.rand_avail - f.data.rand_avail_init + 1]
           e == dev'
<1>0. /\ Sound(dev, disk, root, disturbed) /\ IsDev(dev)
      /\ root \in Pages /\ disk = [i \in 1 .. N |-> disk[i]] /\ ~dev.failed
      /\ UNCHANGED <<disk, root>> /\ e = dev'
  BY RunningSound DEF RandPush
<1>1. /\ disturbed' = Retried(e)
      /\ \/ e = d
         \/ d.state = "INITIALIZING" /\ e = f
         \/ d.state = "INITIALIZING" /\ e = get_progress_check(b)
  BY DEF RandPush, Becomes, cmd_rand_update
<1>2. Changes(dev, d, Free)
  <2> DEFINE n == dev.rand_avail + 1
  <2>1. d = [dev EXCEPT !.rand_avail = n]
    OBVIOUS
  <2> HIDE DEF n
  <2> QED
    BY <1>0, <2>1 DEF Changes, IsDev, Fields, Free
<1> HIDE DEF d, e
<1>3. Sound(d, disk, root, disturbed) /\ d.failed = dev.failed /\ d.state = dev.state
  <2>1. Frame(dev, d)
    BY <1>2, ChangesFrame
  <2> QED
    BY <1>0, <2>1, FrameSound, FrameFields
<1>4. History(e, disturbed, disturbed')
  BY <1>1, RetriedHistory
<1>5. Sound(e, disk, root, disturbed') /\ e.failed = d.failed /\ e.state = d.state
  <2>1. CASE e = d
    BY <1>3, <1>4, <2>1, LaterSound
  <2>2. CASE d.state = "INITIALIZING" /\ e = f
    <3>1. f = finalize_root_page_check(d)
      OBVIOUS
    <3> HIDE DEF f
    <3> QED
      BY <1>3, <1>4, <2>2, <3>1, FinalizeSound
  <2>3. CASE d.state = "INITIALIZING" /\ e = get_progress_check(b)
    <3>1. IsDev(d) /\ IsInitData(d.data) /\ RootShape(d)
      BY <1>3, <2>3 DEF Sound, Shapes
    <3>2. IsDev(f) /\ f.state = d.state
      BY <3>1, FinalizedProgress, UpdateParts
    <3>f. f = finalize_root_page_check(d)
      OBVIOUS
    <3> HIDE DEF f
    <3>3. Changes(f, b, Free)
      <4> DEFINE l == [f.level EXCEPT ![2] = f.rand_avail - f.data.rand_avail_init + 1]
      <4>1. b = [f EXCEPT !.level = l]
        OBVIOUS
      <4> HIDE DEF l, b
      <4> QED
        BY <3>2, <4>1 DEF Changes, IsDev, Fields, Free
    <3> HIDE DEF b
    <3>4. Answers(b, e)
      BY <2>3, <3>3, ProgressAnswers DEF Changes
    <3>5. Frame(f, e)
      BY <3>3, <3>4, ChangesFrame, AnswersFrame, FrameTransitive
    <3>6. e.data = f.data /\ e.state = f.state /\ e.failed = f.failed
      BY <3>5, FrameFields
    <3>7. History(f, disturbed, disturbed')
      BY <1>4, <3>6 DEF History
    <3>8. Sound(f, disk, root, disturbed') /\ f.failed = d.failed
      BY <1>3, <2>3, <3>7, <3>f, FinalizeSound
    <3> QED
      BY <3>2, <3>5, <3>6, <3>8, FrameSound
  <2> QED
    BY <1>1, <2>1, <2>2, <2>3
<1>6. Inv'
  BY <1>0, <1>3, <1>5, NextSound
<1> QED
  BY <1>0, <1>3, <1>5, <1>6 DEF NotEnded

(* A FIDO2 message has its turn. *)
LEMMA FidoTurn ==
    ASSUME Inv, CtapMessage
    PROVE  Inv' /\ NotEnded
<1> DEFINE e == [dev EXCEPT !.owner = "CTAP", !.sync = "MODIFIED", !.release_requested = TRUE]
<1>0. /\ Sound(dev, disk, root, disturbed) /\ IsDev(dev) /\ Emmc(dev) /\ RootShape(dev)
      /\ Commands(dev)
      /\ root \in Pages /\ disk = [i \in 1 .. N |-> disk[i]] /\ ~dev.failed
      /\ UNCHANGED <<disk, root>> /\ "fido" \in disturbed' /\ dev' = e
  BY RunningSound DEF CtapMessage
<1>1. /\ Changes(dev, e, {"sync", "release_requested", "owner", "writing"})
      /\ e.sync = "MODIFIED" /\ e.writing = dev.writing
  BY <1>0 DEF Changes, IsDev, Fields
<1> HIDE DEF e
<1>2. /\ IsDev(e) /\ e.state = dev.state /\ e.root_page = dev.root_page
      /\ e.data = dev.data /\ e.failed = dev.failed
      /\ Emmc(e) /\ Commands(e) /\ (Covered(dev, disk) => Covered(e, disk))
  BY <1>0, <1>1, SyncFrame
<1>3. RootShape(e)
  BY <1>0, <1>1, <1>2 DEF RootShape
<1>4. Sound(e, disk, root, disturbed')
  BY <1>0, <1>2, <1>3 DEF Sound, Shapes
<1>5. Inv'
  BY <1>0, <1>2, <1>4, NextSound
<1> QED
  BY <1>0, <1>2, <1>5 DEF NotEnded

(* A transfer of mass storage begins or ends. *)
LEMMA StorageComesOrGoes ==
    ASSUME Inv, StorageBegin \/ StorageEnd
    PROVE  Inv' /\ NotEnded
<1>0. /\ Sound(dev, disk, root, disturbed) /\ IsDev(dev)
      /\ root \in Pages /\ disk = [i \in 1 .. N |-> disk[i]] /\ ~dev.failed
      /\ UNCHANGED <<disk, root, disturbed>>
  BY RunningSound DEF StorageBegin, StorageEnd
<1>1. PICK e : e = dev'
  OBVIOUS
<1>2. Moves(dev, e) /\ Sound(e, disk, root, disturbed)
  BY <1>0, <1>1, StorageBeginSound, StorageEndSound DEF StorageBegin, StorageEnd
<1>3. e.state = dev.state /\ e.failed = dev.failed
  BY <1>2, EmmcFrame DEF Moves
<1>4. Inv'
  BY <1>0, <1>1, <1>2, <1>3, NextSound
<1> QED
  BY <1>1, <1>3, <1>4 DEF NotEnded

(* The firmware after a reset, whatever the blocks hold. *)
LEMMA BootSound ==
    ASSUME NEW p \in Pages, NEW dk, NEW rt, NEW dist
    PROVE  /\ Sound(Boot(p), dk, rt, dist) /\ ~Boot(p).failed
           /\ Boot(p).state = "DISCONNECTED"
<1> DEFINE e == Boot(p)
<1>1. /\ IsDev(e) /\ e.state = "DISCONNECTED" /\ e.active_cmd = "none"
      /\ e.sync = "SYNCED" /\ e.root_page = p /\ e.writing = NoPage
      /\ e.g_emmc_user = "NONE" /\ e.ready = {} /\ e.op = NoOp /\ e.scan = 0
      /\ e.failed = FALSE
  BY DEF Boot, IsDev, Fields
<1> HIDE DEF e
<1>2. Emmc(e)
  BY <1>1, InitializeAssumption DEF Emmc, Using, Waiting
<1>3. RootShape(e) /\ Commands(e)
  BY <1>1 DEF RootShape, Commands
<1>4. Sound(e, dk, rt, dist)
  BY <1>1, <1>2, <1>3 DEF Sound, Shapes, Clean
<1> QED
  BY <1>1, <1>4 DEF e

LEMMA PowerCycled ==
    ASSUME Inv, PowerCycle
    PROVE  Inv' /\ NotEnded
<1>1. root \in Pages /\ disk = [i \in 1 .. N |-> disk[i]] /\ root' = root
      /\ dev' = Boot(root)
  BY DEF Inv, PowerCycle
<1>2. PICK x : disk' = IF dev.op.kind = "write" THEN [disk EXCEPT ![dev.op.idx] = x] ELSE disk
  BY DEF PowerCycle
<1>3. PICK dk : dk = disk'
  OBVIOUS
<1>4. dk = [i \in 1 .. N |-> dk[i]]
  BY <1>1, <1>2, <1>3
<1>5. PICK dist : dist = disturbed'
  OBVIOUS
<1>6. PICK e : e = dev'
  OBVIOUS
<1>7. Sound(e, dk, root, dist) /\ ~e.failed /\ e.state = "DISCONNECTED"
  BY <1>1, <1>6, BootSound
<1>8. Inv'
  BY <1>1, <1>3, <1>4, <1>5, <1>6, <1>7, NextSound
<1> QED
  BY <1>6, <1>7, <1>8 DEF NotEnded

------------------------------------------------------------------------------
(* The theorems.                                                                *)

LEMMA FirstSound ==
    ASSUME Init
    PROVE  Inv
<1>1. root \in Pages
  BY DEF Init, Pages, Page
<1>2. Sound(dev, disk, root, disturbed) /\ ~dev.failed
  BY <1>1, BootSound DEF Init
<1>3. disk = [i \in 1 .. N |-> disk[i]]
  BY DEF Init
<1> QED
  BY <1>1, <1>2, <1>3 DEF Inv, NoAssertion

(* A step, and what ends INITIALIZE. *)
LEMMA StepSound ==
    ASSUME Inv, [Next]_vars
    PROVE  Inv' /\ EndsWhole(dev, dev', disk', root', disturbed')
<1>1. ASSUME NotEnded PROVE EndsWhole(dev, dev', disk', root', disturbed')
  BY <1>1 DEF NotEnded, EndsWhole
<1>2. CASE EmmcDone
  <2>1. CASE dev.op.kind = "read"
    BY <1>2, <2>1, ReadDone
  <2>2. CASE dev.op.kind # "read"
    BY <1>1, <1>2, <2>2, WriteDone
  <2> QED
    BY <2>1, <2>2
<1>3. CASE sync_root_block_immediate
  BY <1>1, <1>3, RootStarts
<1>4. CASE FlashDone
  BY <1>1, <1>4, PageDone
<1>5. CASE long_button_press
  BY <1>1, <1>5, InitializePressed, WipePressed, OtherPressed
<1>6. CASE blink_timeout
  <2>1. Running /\ dev.long # "no" /\ UNCHANGED <<disk, root, disturbed>>
        /\ dev' = finish_command([dev EXCEPT !.long = "no"])
    BY <1>6 DEF blink_timeout
  <2>2. PICK e : e = dev'
    OBVIOUS
  <2> QED
    BY <1>1, <2>1, <2>2, WaitEnds
<1>7. CASE RandPush
  BY <1>1, <1>7, WordPushed
<1>8. ASSUME NEW cmd \in {"INITIALIZE", "WIPE"}, BeginLongWait(cmd)
      PROVE  Inv' /\ NotEnded
  BY <1>8, LongWaitBegins
<1>9. ASSUME NEW check, NEW target, get_progress_cmd(check, target)
      PROVE  Inv' /\ NotEnded
  BY <1>9, ProgressAsked
<1>10. CASE startup_cmd
  BY <1>1, <1>10, StartupTaken
<1>11. CASE cancel_button_press
  <2>1. Running /\ dev.long # "no" /\ UNCHANGED <<disk, root, disturbed>>
        /\ dev' = finish_command([dev EXCEPT !.long = "stale"])
    BY <1>11 DEF cancel_button_press
  <2>2. PICK e : e = dev'
    OBVIOUS
  <2> QED
    BY <1>1, <2>1, <2>2, WaitEnds
<1>12. CASE cmd_disconnect
  BY <1>1, <1>12, Disconnected
<1>13. CASE CtapMessage
  BY <1>1, <1>13, FidoTurn
<1>14. CASE StorageBegin \/ StorageEnd
  BY <1>1, <1>14, StorageComesOrGoes
<1>15. CASE PowerCycle
  BY <1>1, <1>15, PowerCycled
<1>16. CASE UNCHANGED vars
  <2>1. Inv' <=> Inv
    BY <1>16 DEF vars, Inv, NoAssertion, Sound, Shapes, Clean
  <2> QED
    BY <1>1, <1>16, <2>1 DEF vars, NotEnded
<1> QED
  BY <1>1, <1>2, <1>3, <1>4, <1>5, <1>6, <1>7, <1>8, <1>9, <1>10, <1>11, <1>12, <1>13,
     <1>14, <1>15, <1>16
     DEF Next, MainLoop, Button, Host

(* Spec keeps the invariant: whatever completes in whatever order, each         *)
(* completion is counted for the write it belongs to, until a FIDO2 message     *)
(* adds one of its own, and the blocks up to the counter are written            *)
(* (write_block_complete, initializing_iter, WipeIter).                         *)
THEOREM Inductive == Spec => []Inv
<1>1. Init => Inv
  BY FirstSound
<1>2. Inv /\ [Next]_vars => Inv'
  BY StepSound
<1> QED
  BY <1>1, <1>2, PTL DEF Spec

(* Without mass storage and without FIDO2 messages, no assertion of             *)
(* emmc_user_queue or of the flash writer fails during INITIALIZE, WIPE and the *)
(* scan of STARTUP.                                                             *)
THEOREM NothingQueuedTwice == Spec => []NoAssertion
<1>1. Inv => NoAssertion
  BY DEF Inv
<1> QED
  BY <1>1, Inductive, PTL

(* When WipeIter enters UNINITIALIZED, every block and the sector of the root   *)
(* block in use hold nothing of before, and that stays so for as long as the    *)
(* device says it is wiped: unless a FIDO2 message wrote the root block.        *)
THEOREM WipeLeavesNothing == Spec => []WipedWhole
<1>1. Inv => WipedWhole
  BY DEF Inv, WipedWhole, Sound, Clean, Wiped
<1> QED
  BY <1>1, Inductive, PTL

(* INITIALIZE says LOGGED_OUT only when no block of before is left and the new  *)
(* keys are in the flash, although nothing but the number of completions tells  *)
(* initializing_iter when to go on to the next block, the page and the scan.    *)
THEOREM InitializeReplacesAll == Spec => InitializedWhole
<1> DEFINE Ends == dev.state = "INITIALIZING" /\ dev'.state = "LOGGED_OUT" =>
          /\ \A i \in 1 .. N : disk'[i] \in {"empty", "torn"}
          /\ "fido" \notin disturbed' => root'.key = "new"
          /\ disturbed' = {} => root'.fido = "new"
<1>1. Inv /\ [Next]_vars => [Ends]_vars
  BY StepSound DEF EndsWhole, AllWhole, Whole
<1>2. Spec => [][Ends]_vars
  BY <1>1, Inductive, PTL DEF Spec
<1> QED
  BY <1>2 DEF InitializedWhole

=============================================================================
