---------------------------- MODULE TaskLifecycle ----------------------------
(***************************************************************************)
(* What the server promises about an executor task: it is created pending,  *)
(* granted to one device once, settled by a report or cancelled by the      *)
(* admin while it is still open, and final after that ("pending -> claimed  *)
(* -> running -> success|failed|cancelled", server/README.md; claimed never *)
(* outlives the transaction that sets it).                                  *)
(***************************************************************************)
CONSTANTS Tasks, Devices, NoDevice

VARIABLES status, owner

Init == /\ status = [t \in Tasks |-> "absent"]
        /\ owner = [t \in Tasks |-> NoDevice]

Move(t, from, to) ==
    /\ status[t] \in from
    /\ status' = [status EXCEPT ![t] = to]

Create(t) == Move(t, {"absent"}, "pending") /\ UNCHANGED owner

Grant(t, d) == /\ Move(t, {"pending"}, "running")
               /\ owner' = [owner EXCEPT ![t] = d]

Settle(t) == /\ \E s \in {"success", "failed"} : Move(t, {"running"}, s)
             /\ UNCHANGED owner

Cancel(t) == Move(t, {"pending", "running"}, "cancelled") /\ UNCHANGED owner

Next == \E t \in Tasks :
           \/ Create(t) \/ Settle(t) \/ Cancel(t)
           \/ \E d \in Devices : Grant(t, d)

Spec == Init /\ [][Next]_<<status, owner>>
=============================================================================
