------------------------------ MODULE EntryStore ------------------------------
(* What the encrypted database promises a host, whatever the commands, button   *)
(* presses and power failures: an entry changes only to what was last asked for *)
(* it, all at once, or is lost if power fails while it is being written.        *)

CONSTANTS Uids, Data, NoData

VARIABLES content,  \* what is stored under each id, NoData if nothing is
          asked     \* the change under way: at most one <<uid, data>>

Init ==
    /\ content = [u \in Uids |-> NoData]
    /\ asked = {}

Ask == /\ \E u \in Uids, d \in Data \cup {NoData} : asked' = {<<u, d>>}
       /\ UNCHANGED content

\* Refused, timed out, cancelled, disconnected or cut off by a power failure.
GiveUp == asked' = {} /\ UNCHANGED content

Commit == /\ \E c \in asked : content' = [content EXCEPT ![c[1]] = c[2]]
          /\ asked' = {}

Lose == /\ \E c \in asked : content' = [content EXCEPT ![c[1]] = NoData]
        /\ asked' = {}

Spec == Init /\ [][Ask \/ GiveUp \/ Commit \/ Lose]_<<content, asked>>
==============================================================================
