------------------------------ MODULE RootStore ------------------------------
(* What the root block promises: a copy in memory that handlers modify, and a   *)
(* durable copy that changes in one indivisible step, to what memory holds, and *)
(* that a restart brings back whole.                                            *)
EXTENDS Integers

CONSTANTS Fields,
          Raw           \* what may be stored past the copy in memory

VARIABLES mem, disk, version

store == <<mem, disk, version>>

Init ==
    /\ disk = mem
    /\ \A f \in Fields : mem[f] <= version

(* A handler stores new data in some of the fields. *)
Modify ==
    /\ version' = version + 1
    /\ mem' = [f \in Fields |-> IF mem'[f] = mem[f] THEN mem[f] ELSE version']
    /\ UNCHANGED disk

Persist == disk' = mem /\ UNCHANGED <<mem, version>>

(* WIPE, or the restoration of a backup. *)
Overwrite == disk' \in Raw /\ UNCHANGED <<mem, version>>

(* A restart, or STARTUP: the copy in memory is read again. *)
Reread == mem' = disk /\ UNCHANGED <<disk, version>>

Next == Modify \/ Persist \/ Overwrite \/ Reread

Spec == Init /\ [][Next]_store
==============================================================================
