---------------------------- MODULE SendPathRaces ----------------------------
(***************************************************************************)
(* SendPath with a record of who met whom.  A handler of the executor API   *)
(* reads a task, decides, and writes it by primary key: the ack between its *)
(* findFirst and its updates, the result between the second read and the    *)
(* updates of its transaction, the cancellation between its read and its    *)
(* update.  The history variables remember the tasks for which two requests *)
(* were ever in such a gap at the same time.  They restrict no step; the    *)
(* properties say that everything the repository promises about a task, and *)
(* overlapping requests break, is kept for all the tasks outside them.      *)
(***************************************************************************)
EXTENDS SendPath

VARIABLES met,          \* tasks two handlers were about to write at once
          acksMet       \* tasks two acks were about to grant at once

rvars == <<vars, met, acksMet>>

GapPlaces == {"ack_read", "result_fresh", "cancel_read"}

InGap(t, places) == {r \in Requests : req[r].task = t /\ req[r].at \in places}
Meet(t, places) == \E r, s \in InGap(t, places) : r # s

RInit == Init /\ met = {} /\ acksMet = {}

RNext == /\ Next
         /\ met' = met \cup {t \in Tasks : Meet(t, GapPlaces)'}
         /\ acksMet' = acksMet \cup {t \in Tasks : Meet(t, {"ack_read"})'}

RSpec == RInit /\ [][RNext]_rvars

-----------------------------------------------------------------------------
(* "repeated ack is rejected" (tests/task-lifecycle.test.ts) unless two     *)
(* acks of the task were both between findFirst and commit: lost and late   *)
(* answers, retried pulls, results, cancellations and restarts never get a  *)
(* task granted, or its message put into the chat, a second time.           *)
GrantedOnceUnlessAcksMeet ==
    \A t \in Tasks \ acksMet : Len(attempts[t]) <= 1 /\ pressed[t] <= 1

(* Every change of a task is one of the documented life cycle unless two    *)
(* handlers of that task met in their gaps: in particular a settled or      *)
(* cancelled task is never changed back by a request that was merely late,  *)
(* repeated or about another task (executor.service.ts, server/README.md).  *)
ChangesOf(t) == <<status[t], owner[t]>>' # <<status[t], owner[t]>>

FitsOrMet == \/ [Lifecycle!Next]_<<status, owner>>
             \/ \E t \in met : ChangesOf(t)

LifecycleUnlessHandlersMeet == [][FitsOrMet]_rvars
=============================================================================
