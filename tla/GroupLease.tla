----------------------------- MODULE GroupLease ------------------------------
(***************************************************************************)
(* What the lock of a group promises to the runs that answer it, whatever   *)
(* lists, jobs and retries stand behind it: a lease.  One run holds it; it  *)
(* may run out under its holder, who then goes on without it; and nobody    *)
(* but its holder and the clock takes it away.                              *)
(***************************************************************************)
CONSTANTS Slots, NoHolder, Gone

VARIABLES holder,    \* who holds the lease; Gone: a holder that will not come back
          answering  \* the runs at work on an answer: in time, or too late

TypeOK == /\ holder \in Slots \cup {NoHolder, Gone}
          /\ answering \in [Slots -> {"no", "in_time", "late"}]

Init == /\ holder \in {NoHolder, Gone}
        /\ answering = [s \in Slots |-> "no"]

Acquire(s) ==
    /\ holder = NoHolder
    /\ answering[s] = "no"
    /\ holder' = s
    /\ answering' = [answering EXCEPT ![s] = "in_time"]

(* The run ends: it gives back what it still holds, or leaves the lease to  *)
(* the clock.                                                              *)
Finish(s) ==
    /\ answering[s] # "no"
    /\ holder' \in IF answering[s] = "in_time" THEN {NoHolder, Gone} ELSE {holder}
    /\ answering' = [answering EXCEPT ![s] = "no"]

Expire ==
    /\ holder # NoHolder
    /\ holder' = NoHolder
    /\ answering' = [s \in Slots |-> IF s = holder THEN "late" ELSE answering[s]]

Crash ==
    /\ holder' = IF holder \in Slots THEN Gone ELSE holder
    /\ answering' = [s \in Slots |-> "no"]

Next == \/ \E s \in Slots : Acquire(s) \/ Finish(s)
        \/ Expire
        \/ Crash

Spec == Init /\ [][Next]_<<holder, answering>>
=============================================================================
