-------------------------- MODULE ReplyBooks_proofs --------------------------
(***************************************************************************)
(* The rows of the reply path, for every number of intake and flush runs and *)
(* every plan of faults: traces and outbox agree, an event has one message  *)
(* (two, if its job was handed out twice), only users' texts are collected,  *)
(* and undisturbed none is taken twice.                                     *)
(***************************************************************************)
EXTENDS ReplyLease_proofs

OutboxRows == 1..Len(outbox)
OutRows(t) == {o \in OutboxRows : outbox[o].trace = t}

(* Every row has a trace, and no two have the same. *)
RowsHaveTraces ==
    /\ \A o \in OutboxRows : outbox[o].trace \in 1..Len(traces)
    /\ \A o, p \in OutboxRows : outbox[o].trace = outbox[p].trace => o = p

(* A run has a trace from the decision to the end, and has it alone. *)
RunsHaveTraces ==
    /\ \A s \in Slots : /\ flush[s].trace \in 0..Len(traces)
                        /\ flush[s].at \notin Working \cup {"release"} => flush[s].trace = 0
                        /\ flush[s].at \in Working => flush[s].trace # 0
    /\ \A r, s \in Slots : flush[r].trace = flush[s].trace /\ flush[s].trace # 0 => r = s

(* How far the row of a run is, at each of its statements. *)
RowOfRun(s, o) ==
    /\ flush[s].at \in {"complete", "queue", "release"}
    /\ flush[s].at \in Working => ~outbox[o].queued
    /\ At(s, "queue") => /\ traces[outbox[o].trace].status = "completed"
                         /\ traces[outbox[o].trace].outbound = o
    /\ At(s, "release") => outbox[o].queued \/ LeftBehind(o)

RowsFollowRuns == \A s \in Slots : \A o \in OutRows(flush[s].trace) : RowOfRun(s, o)

AddsUp(o) == IF outbox[o].queued THEN HandedOver(o) ELSE AtWorkOn(o) \/ LeftBehind(o)

BooksInv == RowsHaveTraces /\ RunsHaveTraces /\ RowsFollowRuns /\ OutboxAddsUp

-----------------------------------------------------------------------------
(* A row that stays as it is, with a trace that stays as it is, stays left   *)
(* behind.                                                                  *)
LEMMA StaysBehind ==
  ASSUME NEW o, outbox'[o].trace = outbox[o].trace,
         traces'[outbox[o].trace] = traces[outbox[o].trace],
         faults \subseteq faults', LeftBehind(o)
  PROVE  LeftBehind(o)'
BY DEF LeftBehind, TraceOf

(* It adds up as before, unless the run at work on it goes away.            *)
LEMMA StillAddsUp ==
  ASSUME NEW o, AddsUp(o),
         outbox'[o].trace = outbox[o].trace, outbox'[o].queued = outbox[o].queued,
         traces'[outbox[o].trace] = traces[outbox[o].trace], faults \subseteq faults',
         AtWorkOn(o) /\ ~outbox[o].queued => AtWorkOn(o)' \/ LeftBehind(o)'
  PROVE  AddsUp(o)'
<1>1. CASE outbox[o].queued
  <2>1. HandedOver(o)
    BY <1>1 DEF AddsUp
  <2>2. HandedOver(o)'
    BY <2>1 DEF HandedOver, TraceOf
  <2>3. QED
    BY <1>1, <2>2 DEF AddsUp
<1>2. CASE ~outbox[o].queued
  <2>1. AtWorkOn(o) \/ LeftBehind(o)
    BY <1>2 DEF AddsUp
  <2>2. AtWorkOn(o)' \/ LeftBehind(o)'
    BY <1>2, <2>1, StaysBehind
  <2>3. QED
    BY <1>2, <2>2 DEF AddsUp
<1>3. QED
  BY <1>1, <1>2

(* It is as far as its run, if that run stays where it is.                  *)
LEMMA RowStillOfRun ==
  ASSUME NEW r \in Slots, NEW o, RowOfRun(r, o), flush'[r].at = flush[r].at,
         outbox'[o].trace = outbox[o].trace, outbox'[o].queued = outbox[o].queued,
         traces'[outbox[o].trace] = traces[outbox[o].trace], faults \subseteq faults'
  PROVE  RowOfRun(r, o)'
<1>1. LeftBehind(o) => LeftBehind(o)'
  BY StaysBehind
<1>2. QED
  BY <1>1 DEF RowOfRun, At

(* A step that adds or changes no row of the outbox, in which run s has no   *)
(* trace afterwards, and had none before unless it was at its end.          *)
LEMMA NoTraceLeft ==
  ASSUME BooksInv, ReplyTypeOK, NEW s \in Slots, \A r \in Slots \ {s} : flush'[r] = flush[r],
         flush[s].trace = 0 \/ flush[s].at = "release",
         flush'[s].trace = 0, flush'[s].at \notin Working,
         outbox' = outbox, faults \subseteq faults',
         Len(traces') \in Nat, Len(traces) <= Len(traces'),
         \A i \in 1..Len(traces) : traces'[i] = traces[i]
  PROVE  BooksInv'
<1>1. Len(traces) \in Nat
  BY LenProperties DEF ReplyTypeOK
<1>2. \A o \in OutboxRows : /\ outbox[o].trace \in 1..Len(traces)
                            /\ outbox[o].trace \in 1..Len(traces')
                            /\ outbox[o].trace # 0
                            /\ traces'[outbox[o].trace] = traces[outbox[o].trace]
  BY <1>1 DEF BooksInv, RowsHaveTraces
<1>3. RowsHaveTraces'
  BY <1>2 DEF BooksInv, RowsHaveTraces, OutboxRows
<1>4. RunsHaveTraces'
  BY <1>1 DEF BooksInv, RunsHaveTraces
<1>5. RowsFollowRuns'
  <2>1. ASSUME NEW r \in Slots, NEW o \in OutboxRows, outbox[o].trace = flush'[r].trace
        PROVE  RowOfRun(r, o)'
    <3>1. r # s /\ flush'[r] = flush[r]
      BY <1>2, <2>1
    <3>2. o \in OutRows(flush[r].trace)
      BY <2>1, <3>1 DEF OutRows
    <3>3. QED
      BY <1>2, <3>1, <3>2, RowStillOfRun DEF BooksInv, RowsFollowRuns
  <2>2. QED
    BY <2>1 DEF RowsFollowRuns, OutRows, OutboxRows
<1>6. OutboxAddsUp'
  <2>1. ASSUME NEW o \in OutboxRows, ~outbox[o].queued,
               NEW r \in Slots, Answering(r), flush[r].trace = outbox[o].trace
        PROVE  AtWorkOn(o)' \/ LeftBehind(o)'
    <3>1. CASE r # s
      BY <2>1, <3>1 DEF Answering, AtWorkOn
    <3>2. CASE r = s
      <4>1. flush[s].at = "release" /\ o \in OutRows(flush[s].trace)
        BY <1>2, <2>1, <3>2 DEF OutRows
      <4>2. LeftBehind(o)
        BY <2>1, <4>1 DEF BooksInv, RowsFollowRuns, RowOfRun, At
      <4>3. QED
        BY <1>2, <2>1, <4>2, StaysBehind
    <3>3. QED
      BY <3>1, <3>2
  <2>2. \A o \in OutboxRows : AddsUp(o)
    BY DEF BooksInv, OutboxAddsUp, AddsUp, OutboxRows
  <2>3. \A o \in OutboxRows : AddsUp(o)'
    BY <1>2, <2>1, <2>2, StillAddsUp DEF AtWorkOn
  <2>4. QED
    BY <2>3 DEF OutboxAddsUp, AddsUp, OutboxRows
<1>7. QED
  BY <1>3, <1>4, <1>5, <1>6 DEF BooksInv

(* Runs and rows that keep all the books look at keep them true. *)
LEMMA BooksKept ==
  ASSUME BooksInv, traces' = traces, Len(outbox') = Len(outbox),
         \A o \in OutboxRows : /\ outbox'[o].trace = outbox[o].trace
                               /\ outbox'[o].queued = outbox[o].queued,
         \A s \in Slots : /\ flush'[s].at = flush[s].at
                           /\ flush'[s].trace = flush[s].trace,
         faults \subseteq faults'
  PROVE  BooksInv'
<1>1. OutboxRows' = OutboxRows
  BY DEF OutboxRows
<1>2. RowsHaveTraces' /\ RunsHaveTraces'
  BY <1>1 DEF BooksInv, RowsHaveTraces, RunsHaveTraces
<1>3. RowsFollowRuns'
  <2>1. ASSUME NEW s \in Slots, NEW o \in OutboxRows, outbox'[o].trace = flush'[s].trace
        PROVE  RowOfRun(s, o)'
    <3>1. RowOfRun(s, o)
      BY <2>1 DEF BooksInv, RowsFollowRuns, OutRows
    <3>2. QED
      BY <3>1, RowStillOfRun
  <2>2. QED
    BY <1>1, <2>1 DEF RowsFollowRuns, OutRows
<1>4. OutboxAddsUp'
  <2>1. \A o \in OutboxRows : AtWorkOn(o) => AtWorkOn(o)'
    BY DEF AtWorkOn, Answering
  <2>2. \A o \in OutboxRows : AddsUp(o)
    BY DEF BooksInv, OutboxAddsUp, AddsUp, OutboxRows
  <2>3. \A o \in OutboxRows : AddsUp(o)'
    BY <2>1, <2>2, StillAddsUp
  <2>4. QED
    BY <1>1, <2>3 DEF OutboxAddsUp, AddsUp, OutboxRows
<1>5. QED
  BY <1>2, <1>3, <1>4 DEF BooksInv

(* The decision to answer starts a trace of the run's own. *)
LEMMA DecideBooks ==
  ASSUME BooksInv, BurstTypeOK, ReplyTypeOK, NEW s \in Slots, At(s, "decide"),
         NewTrace(s, "pending"), outbox' = outbox, faults' = faults,
         flush' = [flush EXCEPT ![s].at = "generate", ![s].trace = Len(traces) + 1]
  PROVE  BooksInv'
<1> DEFINE t == Len(traces) + 1
<1>1. Len(traces) \in Nat /\ flush \in [Slots -> Flush] /\ flush[s].at = "decide"
  BY LenProperties DEF ReplyTypeOK, BurstTypeOK, At
<1>2. /\ Len(traces') = t
      /\ \A i \in 1..Len(traces) : traces'[i] = traces[i]
  <2>1. flush[s].at \in UnderLock
    BY <1>1 DEF UnderLock
  <2>2. Len(traces') = t
    BY <2>1, TraceAdded
  <2>3. \A i \in 1..Len(traces) : traces'[i] = traces[i]
    BY AppendProperties DEF NewTrace, ReplyTypeOK
  <2>4. QED
    BY <2>2, <2>3
<1>3. flush'[s].at = "generate" /\ flush'[s].trace = t
  BY <1>1 DEF Flush
<1>4. \A r \in Slots \ {s} : flush'[r] = flush[r]
  BY <1>1
<1> HIDE DEF t
<1>5. t \in Nat /\ t = Len(traces) + 1
  BY <1>1 DEF t
<1>6. \A o \in OutboxRows : /\ outbox[o].trace \in 1..Len(traces)
                            /\ outbox[o].trace \in 1..Len(traces') /\ outbox[o].trace # t
                            /\ traces'[outbox[o].trace] = traces[outbox[o].trace]
  BY <1>1, <1>2, <1>5 DEF BooksInv, RowsHaveTraces
<1>7. RowsHaveTraces'
  BY <1>6 DEF BooksInv, RowsHaveTraces, OutboxRows
<1>8. RunsHaveTraces'
  <2>1. \A r \in Slots : flush[r].trace \in 0..Len(traces) /\ flush[r].trace # t
    BY <1>1, <1>5 DEF BooksInv, RunsHaveTraces
  <2>2. \A r \in Slots : flush'[r].trace \in 0..Len(traces')
    BY <1>1, <1>2, <1>3, <1>4, <1>5, <2>1
  <2>3. flush'[s].at \in Working /\ flush'[s].trace # 0
    BY <1>1, <1>3, <1>5 DEF Working
  <2>4. \A r \in Slots :
          /\ flush'[r].at \notin Working \cup {"release"} => flush'[r].trace = 0
          /\ flush'[r].at \in Working => flush'[r].trace # 0
    BY <1>4, <2>3 DEF BooksInv, RunsHaveTraces
  <2>5. ASSUME NEW q \in Slots, NEW r \in Slots,
               flush'[q].trace = flush'[r].trace, flush'[r].trace # 0
        PROVE  q = r
    <3>1. q = s <=> r = s
      BY <1>3, <1>4, <2>1, <2>5
    <3>2. q # s /\ r # s => flush[q].trace = flush[r].trace /\ flush[r].trace # 0
      BY <1>4, <2>5
    <3>3. QED
      BY <3>1, <3>2 DEF BooksInv, RunsHaveTraces
  <2>6. QED
    BY <2>2, <2>4, <2>5 DEF RunsHaveTraces
<1>9. RowsFollowRuns'
  <2>1. ASSUME NEW r \in Slots, NEW o \in OutboxRows, outbox[o].trace = flush'[r].trace
        PROVE  RowOfRun(r, o)'
    <3>1. r # s /\ flush'[r] = flush[r]
      BY <1>3, <1>4, <1>6, <2>1
    <3>2. o \in OutRows(flush[r].trace)
      BY <2>1, <3>1 DEF OutRows
    <3>3. QED
      BY <1>6, <3>1, <3>2, RowStillOfRun DEF BooksInv, RowsFollowRuns
  <2>2. QED
    BY <2>1 DEF RowsFollowRuns, OutRows, OutboxRows
<1>10. OutboxAddsUp'
  <2>1. \A o \in OutboxRows : \A r \in Slots :
          flush[r].trace = outbox[o].trace => r # s
    <3>1. flush[s].trace = 0
      BY <1>1 DEF BooksInv, RunsHaveTraces, Working
    <3>2. QED
      BY <1>1, <1>6, <3>1
  <2>2. ASSUME NEW o \in OutboxRows, NEW r \in Slots, Answering(r),
               flush[r].trace = outbox[o].trace
        PROVE  Answering(r)' /\ flush'[r].trace = outbox[o].trace
    BY <1>4, <2>1, <2>2 DEF Answering
  <2>3. \A o \in OutboxRows : AtWorkOn(o) => AtWorkOn(o)'
    BY <2>2 DEF AtWorkOn
  <2>4. \A o \in OutboxRows : AddsUp(o)
    BY DEF BooksInv, OutboxAddsUp, AddsUp, OutboxRows
  <2>5. \A o \in OutboxRows : AddsUp(o)'
    BY <1>6, <2>3, <2>4, StillAddsUp
  <2>6. QED
    BY <2>5 DEF OutboxAddsUp, AddsUp, OutboxRows
<1>11. QED
  BY <1>7, <1>8, <1>9, <1>10 DEF BooksInv

(* A run that is through with its row, or has none, and goes to its end.    *)
LEMMA EndsBooks ==
  ASSUME BooksInv, ReplyTypeOK, NEW s \in Slots, flush[s].at \in Working,
         flush'[s].at = "release", flush'[s].trace = flush[s].trace,
         \A r \in Slots \ {s} : flush'[r] = flush[r],
         Len(traces') = Len(traces), Len(outbox') = Len(outbox), faults \subseteq faults',
         \A i \in 1..Len(traces) : i # flush[s].trace => traces'[i] = traces[i],
         \A o \in OutboxRows :
            /\ outbox'[o].trace = outbox[o].trace
            /\ outbox[o].trace # flush[s].trace => outbox'[o].queued = outbox[o].queued,
         \A o \in OutRows(flush[s].trace) :
            IF outbox'[o].queued THEN HandedOver(o)' ELSE LeftBehind(o)'
  PROVE  BooksInv'
<1> DEFINE t == flush[s].trace
<1>1. Len(traces) \in Nat /\ OutboxRows' = OutboxRows
  BY LenProperties DEF ReplyTypeOK, OutboxRows
<1>2. t \in 1..Len(traces) /\ \A r \in Slots \ {s} : flush[r].trace # t
  BY <1>1 DEF BooksInv, RunsHaveTraces
<1>3. \A o \in OutboxRows : outbox[o].trace # t => traces'[outbox[o].trace] = traces[outbox[o].trace]
  BY DEF BooksInv, RowsHaveTraces
<1>4. RowsHaveTraces'
  BY <1>1 DEF BooksInv, RowsHaveTraces
<1>5. RunsHaveTraces'
  BY <1>1, <1>2 DEF BooksInv, RunsHaveTraces, Working
<1>6. RowsFollowRuns'
  <2>1. ASSUME NEW r \in Slots, NEW o \in OutboxRows, outbox'[o].trace = flush'[r].trace
        PROVE  RowOfRun(r, o)'
    <3>1. CASE r = s
      <4>1. outbox'[o].queued \/ LeftBehind(o)'
        BY <2>1, <3>1 DEF OutRows
      <4>2. QED
        BY <3>1, <4>1 DEF RowOfRun, At, Working
    <3>2. CASE r # s
      <4>1. outbox[o].trace # t /\ outbox[o].trace = flush[r].trace
        BY <1>2, <2>1, <3>2
      <4>2. RowOfRun(r, o)
        BY <4>1 DEF BooksInv, RowsFollowRuns, OutRows
      <4>3. QED
        BY <1>3, <3>2, <4>1, <4>2, RowStillOfRun
    <3>3. QED
      BY <3>1, <3>2
  <2>2. QED
    BY <1>1, <2>1 DEF RowsFollowRuns, OutRows
<1>7. OutboxAddsUp'
  <2>1. ASSUME NEW o \in OutboxRows
        PROVE  AddsUp(o)'
    <3>1. CASE outbox[o].trace = t
      BY <3>1 DEF AddsUp, OutRows
    <3>2. CASE outbox[o].trace # t
      <4>1. AtWorkOn(o) => AtWorkOn(o)'
        BY <3>2 DEF AtWorkOn, Answering
      <4>2. AddsUp(o)
        BY DEF BooksInv, OutboxAddsUp, AddsUp, OutboxRows
      <4>3. QED
        BY <1>3, <3>2, <4>1, <4>2, StillAddsUp
    <3>3. QED
      BY <3>1, <3>2
  <2>2. QED
    BY <1>1, <2>1 DEF OutboxAddsUp, AddsUp, OutboxRows
<1>8. QED
  BY <1>4, <1>5, <1>6, <1>7 DEF BooksInv

(* A run that gives up: its row, if it has written one, is left behind.     *)
LEMMA GivesUpBooks ==
  ASSUME BooksInv, BurstTypeOK, ReplyTypeOK, NEW s \in Slots, flush[s].at \in Working,
         GoOn(s, "release"), outbox' = outbox, faults \subseteq faults',
         NEW st \in {"skipped_filter", "failed"}, traces' = traces \/ SetTrace(s, st),
         \/ OutRows(flush[s].trace) = {}
         \/ SetTrace(s, st) /\ st = "failed"
         \/ "outage" \in faults'
  PROVE  BooksInv'
<1> DEFINE t == flush[s].trace
<1>1. /\ Len(traces) \in Nat /\ traces \in [1..Len(traces) -> Trace]
      /\ flush \in [Slots -> Flush]
  BY LenProperties DEF ReplyTypeOK, BurstTypeOK
<1>2. t \in 1..Len(traces)
  BY <1>1 DEF BooksInv, RunsHaveTraces
<1>3. /\ Len(traces') = Len(traces)
      /\ \A i \in 1..Len(traces) : i # t => traces'[i] = traces[i]
      /\ SetTrace(s, st) => traces'[t].status = st
  <2>1. CASE SetTrace(s, st)
    <3>1. traces' = [traces EXCEPT ![t].status = st]
      BY <2>1 DEF SetTrace
    <3>2. Len(traces') = Len(traces)
      BY <3>1, TraceSet
    <3>3. QED
      BY <1>1, <1>2, <3>1, <3>2 DEF Trace
  <2>2. QED
    BY <2>1
<1>4. /\ flush'[s].at = "release" /\ flush'[s].trace = t
      /\ \A r \in Slots \ {s} : flush'[r] = flush[r]
  BY <1>1, GoesOn DEF UnderLock
<1>5. \A o \in OutRows(t) : ~outbox[o].queued /\ LeftBehind(o)'
  <2>1. \A o \in OutRows(t) : ~outbox[o].queued
    BY DEF BooksInv, RowsFollowRuns, RowOfRun
  <2>2. \A o \in OutRows(t) : LeftBehind(o)'
    BY <1>3 DEF LeftBehind, TraceOf, OutRows
  <2>3. QED
    BY <2>1, <2>2
<1>6. QED
  BY <1>3, <1>4, <1>5, EndsBooks

(* A text is there: the run still has no row. *)
LEMMA GenerateBooks ==
  ASSUME BooksInv, NEW s \in Slots, flush[s].at = "generate",
         flush'[s].at = "outbound", flush'[s].trace = flush[s].trace,
         \A r \in Slots \ {s} : flush'[r] = flush[r],
         traces' = traces, outbox' = outbox, faults' = faults
  PROVE  BooksInv'
<1>1. \A r \in Slots : flush'[r].trace = flush[r].trace
  OBVIOUS
<1>2. RowsHaveTraces'
  BY DEF BooksInv, RowsHaveTraces, OutboxRows
<1>3. RunsHaveTraces'
  BY <1>1 DEF BooksInv, RunsHaveTraces, Working
<1>4. OutRows(flush[s].trace) = {}
  BY DEF BooksInv, RowsFollowRuns, RowOfRun
<1>5. RowsFollowRuns'
  <2>1. \A t : OutRows(t)' = OutRows(t)
    BY DEF OutRows, OutboxRows
  <2>2. \A r \in Slots \ {s} : \A o \in OutRows(flush[r].trace) : RowOfRun(r, o)'
    BY RowStillOfRun DEF BooksInv, RowsFollowRuns
  <2>3. QED
    BY <1>1, <1>4, <2>1, <2>2 DEF RowsFollowRuns
<1>6. OutboxAddsUp'
  <2>1. \A o : AtWorkOn(o) => AtWorkOn(o)'
    BY <1>1 DEF AtWorkOn, Answering, UnderLock
  <2>2. \A o \in OutboxRows : AddsUp(o)
    BY DEF BooksInv, OutboxAddsUp, AddsUp, OutboxRows
  <2>3. \A o \in OutboxRows : AddsUp(o)'
    BY <2>1, <2>2, StillAddsUp
  <2>4. QED
    BY <2>3 DEF OutboxAddsUp, AddsUp, OutboxRows
<1>7. QED
  BY <1>2, <1>3, <1>5, <1>6 DEF BooksInv

(* The row is written, with the run's trace. *)
LEMMA CreateBooks ==
  ASSUME BooksInv, BurstTypeOK, ReplyTypeOK, ReplyTypeOK', NEW s \in Slots, CreateOutbound(s),
         faults' = faults
  PROVE  BooksInv'
<1> DEFINE t == flush[s].trace
           row == [anchor |-> Anchor(s), body |-> flush[s].body, trace |-> t,
                   live |-> TRUE, queued |-> FALSE]
           n == Len(outbox) + 1
<1>1. Len(outbox) \in Nat /\ flush \in [Slots -> Flush] /\ flush[s].at = "outbound"
  BY LenProperties DEF ReplyTypeOK, BurstTypeOK, CreateOutbound, At
<1>2. traces' = traces /\ outbox' = Append(outbox, row) /\ GoOn(s, "complete")
  BY DEF CreateOutbound, GoOn
<1>3. row.trace = t /\ row.queued = FALSE
  OBVIOUS
<1> HIDE DEF row
<1>4. /\ Len(outbox') = n /\ outbox'[n] = row
      /\ \A o \in OutboxRows : outbox'[o] = outbox[o]
  <2>1. outbox \in Seq(Outbound)
    BY DEF ReplyTypeOK
  <2>2. QED
    BY <1>2, <2>1 DEF OutboxRows
<1>5. /\ flush'[s].at = "complete" /\ flush'[s].trace = t
      /\ \A r \in Slots \ {s} : flush'[r] = flush[r]
  BY <1>1, <1>2, GoesOn DEF UnderLock
<1>6. t \in 1..Len(traces) /\ \A r \in Slots \ {s} : flush[r].trace # t
  <2>1. Len(traces) \in Nat
    BY LenProperties DEF ReplyTypeOK
  <2>2. t \in 0..Len(traces) /\ t # 0
    BY <1>1 DEF BooksInv, RunsHaveTraces, Working
  <2>3. QED
    BY <2>1, <2>2 DEF BooksInv, RunsHaveTraces
<1>7. \A o \in OutboxRows : outbox[o].trace # t
  BY <1>1 DEF BooksInv, RowsFollowRuns, RowOfRun, OutRows
<1> HIDE DEF t
<1>8. n \in Nat /\ n \notin OutboxRows /\ OutboxRows' = OutboxRows \cup {n}
  BY <1>1, <1>4 DEF OutboxRows
<1> HIDE DEF n
<1>9. /\ \A o \in OutboxRows : o # n /\ outbox'[o] = outbox[o] /\ outbox'[o].trace # t
      /\ outbox'[n].trace = t /\ ~outbox'[n].queued
  BY <1>3, <1>4, <1>7, <1>8
<1>10. RowsHaveTraces'
  <2>1. \A o \in OutboxRows' : outbox'[o].trace \in 1..Len(traces')
    BY <1>2, <1>6, <1>8, <1>9 DEF BooksInv, RowsHaveTraces
  <2>2. ASSUME NEW o \in OutboxRows', NEW p \in OutboxRows', outbox'[o].trace = outbox'[p].trace
        PROVE  o = p
    BY <1>8, <1>9, <2>2 DEF BooksInv, RowsHaveTraces
  <2>3. QED
    BY <2>1, <2>2 DEF RowsHaveTraces
<1>11. RunsHaveTraces'
  BY <1>1, <1>2, <1>5, <1>6 DEF BooksInv, RunsHaveTraces, Working, t
<1>12. RowsFollowRuns'
  <2>1. ASSUME NEW r \in Slots, NEW o \in OutboxRows', outbox'[o].trace = flush'[r].trace
        PROVE  RowOfRun(r, o)'
    <3>1. CASE r = s
      <4>1. o = n
        BY <1>5, <1>8, <1>9, <2>1, <3>1
      <4>2. QED
        BY <1>5, <1>9, <3>1, <4>1 DEF RowOfRun, At
    <3>2. CASE r # s
      <4>1. o \in OutboxRows /\ flush'[r] = flush[r] /\ outbox'[o] = outbox[o]
        BY <1>5, <1>6, <1>8, <1>9, <2>1, <3>2
      <4>2. RowOfRun(r, o)
        BY <2>1, <4>1 DEF BooksInv, RowsFollowRuns, OutRows
      <4>3. QED
        BY <1>2, <4>1, <4>2, RowStillOfRun
    <3>3. QED
      BY <3>1, <3>2
  <2>2. QED
    BY <2>1 DEF RowsFollowRuns, OutRows
<1>13. OutboxAddsUp'
  <2>1. \A r \in Slots : (Answering(r) => Answering(r)') /\ flush'[r].trace = flush[r].trace
    BY <1>1, <1>5 DEF Answering, UnderLock, t
  <2>2. \A o \in {n} : AtWorkOn(o)'
    BY <1>5, <1>9 DEF AtWorkOn, Answering, UnderLock
  <2>3. ASSUME NEW o \in OutboxRows'
        PROVE  AddsUp(o)'
    <3>1. CASE o = n
      BY <1>9, <2>2, <3>1 DEF AddsUp
    <3>2. CASE o # n
      <4>1. o \in OutboxRows /\ outbox'[o] = outbox[o]
        BY <1>8, <1>9, <3>2
      <4>2. AddsUp(o) /\ (AtWorkOn(o) => AtWorkOn(o)')
        BY <2>1, <4>1 DEF BooksInv, OutboxAddsUp, AddsUp, OutboxRows, AtWorkOn
      <4>3. QED
        BY <1>2, <4>1, <4>2, StillAddsUp
    <3>3. QED
      BY <3>1, <3>2
  <2>4. QED
    BY <2>3 DEF OutboxAddsUp, AddsUp, OutboxRows
<1>14. QED
  BY <1>10, <1>11, <1>12, <1>13 DEF BooksInv

(* A run finds the row it wrote. *)
LEMMA OwnRow ==
  ASSUME BooksInv, HaveReplies, NEW s \in Slots, flush[s].at \in {"complete", "queue"}
  PROVE  /\ OwnOutbound(s) \in OutRows(flush[s].trace)
         /\ \A o \in OutRows(flush[s].trace) : o = OwnOutbound(s)
<1>1. \E o \in OutboxRows : outbox[o].trace = flush[s].trace
  BY DEF HaveReplies, HasReply, OutboxRows
<1>2. OwnOutbound(s) \in OutRows(flush[s].trace)
  BY <1>1 DEF OwnOutbound, OutRows, OutboxRows
<1>3. QED
  BY <1>2 DEF OutRows, BooksInv, RowsHaveTraces

(* The trace reads completed and names the row. *)
LEMMA CompleteBooks ==
  ASSUME BooksInv, BurstTypeOK, ReplyTypeOK, HaveReplies, NEW s \in Slots, CompleteTrace(s),
         faults' = faults
  PROVE  BooksInv'
<1> DEFINE t == flush[s].trace
           q == OwnOutbound(s)
<1>1. /\ Len(outbox) \in Nat /\ Len(traces) \in Nat /\ traces \in [1..Len(traces) -> Trace]
      /\ flush \in [Slots -> Flush] /\ flush[s].at = "complete"
  BY LenProperties DEF ReplyTypeOK, BurstTypeOK, CompleteTrace, At
<1>2. q \in OutRows(t) /\ \A o \in OutRows(t) : o = q
  BY <1>1, OwnRow
<1>3. outbox' = outbox /\ GoOn(s, "queue")
      /\ traces' = [traces EXCEPT ![t].status = "completed", ![t].outbound = q]
  BY DEF CompleteTrace
<1>4. t \in 1..Len(traces)
  BY <1>1 DEF BooksInv, RunsHaveTraces, Working
<1>5. /\ flush'[s].at = "queue" /\ flush'[s].trace = t
      /\ \A r \in Slots \ {s} : flush'[r] = flush[r]
  BY <1>1, <1>3, GoesOn DEF UnderLock
<1> HIDE DEF t, q
<1>6. q \in Nat
  BY <1>1, <1>2 DEF OutRows, OutboxRows
<1>7. Len(traces') = Len(traces)
  BY <1>3, <1>6, TraceSet
<1>8. /\ traces'[t].status = "completed" /\ traces'[t].outbound = q
      /\ \A i \in 1..Len(traces) : i # t => traces'[i] = traces[i]
  BY <1>1, <1>3, <1>4, <1>6 DEF Trace
<1>9. \A r \in Slots \ {s} : flush[r].trace # t
  BY <1>1, <1>4 DEF BooksInv, RunsHaveTraces, t
<1>10. \A o \in OutboxRows : /\ outbox[o].trace \in 1..Len(traces)
                             /\ outbox[o].trace = t => o = q /\ ~outbox[o].queued
                             /\ outbox[o].trace # t =>
                                  traces'[outbox[o].trace] = traces[outbox[o].trace]
  <2>1. \A o \in OutRows(t) : ~outbox[o].queued
    BY <1>1 DEF BooksInv, RowsFollowRuns, RowOfRun, Working, t
  <2>2. QED
    BY <1>2, <1>8, <2>1 DEF BooksInv, RowsHaveTraces, OutRows
<1>11. RowsHaveTraces'
  BY <1>3, <1>7 DEF BooksInv, RowsHaveTraces, OutboxRows
<1>12. RunsHaveTraces'
  BY <1>1, <1>4, <1>5, <1>7, <1>9 DEF BooksInv, RunsHaveTraces, Working, t
<1>13. RowsFollowRuns'
  <2>1. ASSUME NEW r \in Slots, NEW o \in OutboxRows, outbox[o].trace = flush'[r].trace
        PROVE  RowOfRun(r, o)'
    <3>1. CASE r = s
      <4>1. outbox[o].trace = t /\ o = q /\ ~outbox[o].queued
        BY <1>5, <1>10, <2>1, <3>1
      <4>2. QED
        BY <1>3, <1>5, <1>8, <3>1, <4>1 DEF RowOfRun, At
    <3>2. CASE r # s
      <4>1. o \in OutRows(flush[r].trace) /\ outbox[o].trace # t /\ flush'[r] = flush[r]
        BY <1>5, <1>9, <2>1, <3>2 DEF OutRows
      <4>2. RowOfRun(r, o)
        BY <4>1 DEF BooksInv, RowsFollowRuns
      <4>3. QED
        BY <1>3, <1>10, <4>1, <4>2, RowStillOfRun
    <3>3. QED
      BY <3>1, <3>2
  <2>2. QED
    BY <1>3, <2>1 DEF RowsFollowRuns, OutRows, OutboxRows
<1>14. OutboxAddsUp'
  <2>1. \A r \in Slots : (Answering(r) => Answering(r)') /\ flush'[r].trace = flush[r].trace
    BY <1>1, <1>5 DEF Answering, UnderLock, t
  <2>2. Answering(s)' /\ flush'[s].trace = t
    BY <1>5 DEF Answering, UnderLock
  <2>3. ASSUME NEW o \in OutboxRows
        PROVE  AddsUp(o)'
    <3>1. CASE outbox[o].trace = t
      BY <1>3, <1>10, <2>2, <3>1 DEF AddsUp, AtWorkOn
    <3>2. CASE outbox[o].trace # t
      <4>1. AddsUp(o) /\ (AtWorkOn(o) => AtWorkOn(o)')
        BY <1>3, <2>1 DEF BooksInv, OutboxAddsUp, AddsUp, OutboxRows, AtWorkOn
      <4>2. QED
        BY <1>3, <1>10, <3>2, <4>1, StillAddsUp
    <3>3. QED
      BY <3>1, <3>2
  <2>4. QED
    BY <1>3, <2>3 DEF OutboxAddsUp, AddsUp, OutboxRows
<1>15. QED
  BY <1>11, <1>12, <1>13, <1>14 DEF BooksInv

(* A run before the hand-over has completed its trace, which names its row.  *)
LEMMA AboutToHandOver ==
  ASSUME BooksInv, HaveReplies, NEW s \in Slots, flush[s].at = "queue"
  PROVE  /\ traces[flush[s].trace].status = "completed"
         /\ traces[flush[s].trace].outbound = OwnOutbound(s)
<1>1. OwnOutbound(s) \in OutRows(flush[s].trace)
  BY OwnRow
<1>2. RowOfRun(s, OwnOutbound(s))
  BY <1>1 DEF BooksInv, RowsFollowRuns
<1>3. QED
  BY <1>1, <1>2 DEF RowOfRun, At, OutRows

(* The row is handed over, and the trace still names it: it reads completed, *)
(* or failed because the hand-over threw.                                   *)
LEMMA HandOverBooks ==
  ASSUME BooksInv, BurstTypeOK, ReplyTypeOK, HaveReplies, NEW s \in Slots,
         flush[s].at = "queue", HandOver(s), GoOn(s, "release"), faults \subseteq faults',
         \/ traces' = traces
         \/ SetTrace(s, "failed") /\ "flush_error" \in faults'
  PROVE  BooksInv'
<1> DEFINE t == flush[s].trace
           q == OwnOutbound(s)
<1>1. /\ Len(outbox) \in Nat /\ outbox \in [1..Len(outbox) -> Outbound]
      /\ Len(traces) \in Nat /\ traces \in [1..Len(traces) -> Trace]
      /\ flush \in [Slots -> Flush]
  BY LenProperties DEF ReplyTypeOK, BurstTypeOK
<1>2. q \in OutRows(t) /\ \A o \in OutRows(t) : o = q
  BY OwnRow
<1>3. t \in 1..Len(traces)
  BY <1>1 DEF BooksInv, RunsHaveTraces, Working
<1>4. /\ Len(traces') = Len(traces)
      /\ \A i \in 1..Len(traces) : i # t => traces'[i] = traces[i]
      /\ traces'[t].outbound = q
      /\ traces'[t].status = "completed" \/ (traces'[t].status = "failed" /\ "flush_error" \in faults')
  <2>1. traces[t].status = "completed" /\ traces[t].outbound = q
    BY AboutToHandOver
  <2>2. CASE traces' = traces
    BY <2>1, <2>2
  <2>3. CASE SetTrace(s, "failed") /\ "flush_error" \in faults'
    <3>1. traces' = [traces EXCEPT ![t].status = "failed"]
      BY <2>3 DEF SetTrace
    <3>2. Len(traces') = Len(traces)
      BY <3>1, TraceSet
    <3> HIDE DEF t, q
    <3>3. /\ traces'[t].status = "failed" /\ traces'[t].outbound = traces[t].outbound
          /\ \A i \in 1..Len(traces) : i # t => traces'[i] = traces[i]
      BY <1>1, <1>3, <3>1 DEF Trace
    <3>4. QED
      BY <2>1, <2>3, <3>2, <3>3
  <2>4. QED
    BY <2>2, <2>3
<1>5. /\ flush'[s].at = "release" /\ flush'[s].trace = t
      /\ \A r \in Slots \ {s} : flush'[r] = flush[r]
  BY <1>1, GoesOn DEF UnderLock
<1>6. outbox' = [outbox EXCEPT ![q].queued = TRUE]
  BY DEF HandOver
<1>7. Len(outbox') = Len(outbox) /\ \A o \in OutboxRows : outbox'[o].trace = outbox[o].trace
  BY <1>6, OutboxSet DEF OutboxRows
<1>8. flush[s].at \in Working
  BY DEF Working
<1> HIDE DEF q
<1>9. outbox'[q].queued /\ \A o \in OutboxRows : o # q => outbox'[o] = outbox[o]
  BY <1>1, <1>2, <1>6 DEF OutRows, OutboxRows, Outbound
<1>10. \A o \in OutRows(t) : HandedOver(o)'
  BY <1>2, <1>4, <1>7 DEF HandedOver, TraceOf, OutRows
<1>11. /\ \A o \in OutRows(t) : outbox'[o].queued /\ HandedOver(o)'
       /\ \A o \in OutboxRows : outbox[o].trace # t => outbox'[o].queued = outbox[o].queued
  BY <1>2, <1>9, <1>10 DEF OutRows
<1>12. QED
  BY <1>4, <1>5, <1>7, <1>8, <1>11, EndsBooks

-----------------------------------------------------------------------------
(* A run outside the lock has no trace yet, and one at its end leaves a row  *)
(* that is handed over or a trace that reads failed.                        *)
LEMMA FlushStepBooks ==
  ASSUME IInv, BooksInv, NEW s \in Slots, FlushProgress(s) \/ FlushThrows(s),
         UNCHANGED replyVars, faults \subseteq faults'
  PROVE  BooksInv'
<1>1. BurstTypeOK /\ ReplyTypeOK /\ flush \in [Slots -> Flush] /\ Len(traces) \in Nat
      /\ traces' = traces /\ outbox' = outbox
  BY LenProperties DEF IInv, TypeOK, BurstTypeOK, ReplyTypeOK, replyVars
<1>2. ASSUME \A r \in Slots \ {s} : flush'[r] = flush[r],
             flush[s].at \notin Working,
             flush'[s].at \notin Working,
             \/ flush[s].at # "release" /\ flush'[s].trace = flush[s].trace
             \/ flush'[s].trace = 0
      PROVE  BooksInv'
  <2>1. flush[s].trace = 0 \/ flush[s].at = "release"
    BY <1>2 DEF BooksInv, RunsHaveTraces
  <2>2. flush'[s].trace = 0
    BY <1>2, <2>1
  <2>3. QED
    BY <1>1, <1>2, <2>1, <2>2, NoTraceLeft
<1>3. ASSUME EndRun(s), flush[s].at \notin Working
      PROVE  BooksInv'
  <2>1. NoRun.trace = 0 /\ NoRun.at \notin Working
    BY DEF NoRun, Working
  <2>2. QED
    BY <1>1, <1>2, <1>3, <2>1, RunOver
<1>4. ASSUME NEW pc \in {"lock", "decide", "pushback"}, GoOn(s, pc),
             flush[s].at \in {"delete", "lock"}
      PROVE  BooksInv'
  BY <1>1, <1>2, <1>4, GoesOn DEF BeforeLock, UnderLock, Working
<1>5. CASE StartFlush(s)
  <2>1. flush[s].at = "idle"
    BY <1>5 DEF StartFlush, NoRun
  <2>2. QED
    BY <1>1, <1>2, <1>5, <2>1, RunBegins DEF Working
<1>6. CASE ReadList(s)
  <2>1. flush[s].at = "read"
    BY <1>6 DEF ReadList, At
  <2>2. CASE NothingCollected
    BY <1>3, <1>6, <2>1, <2>2 DEF ReadList, Working
  <2>3. CASE ~NothingCollected
    BY <1>1, <1>2, <1>6, <2>1, <2>3, RunReads DEF Working
  <2>4. QED
    BY <2>2, <2>3
<1>7. CASE DeleteList(s) \/ TakeLock(s) \/ LockBusy(s)
  BY <1>4, <1>7 DEF DeleteList, TakeLock, LockBusy, At
<1>8. CASE PushBack(s)
  <2>1. flush[s].at = "pushback"
    BY <1>8 DEF PushBack, At
  <2>2. QED
    BY <1>1, <1>2, <1>8, <2>1, RunGivesBack DEF Working
<1>9. CASE AddRetry(s) \/ ReleaseLock(s)
  BY <1>3, <1>9 DEF AddRetry, ReleaseLock, At, Working
<1>10. CASE FlushThrows(s)
  BY <1>3, <1>10 DEF FlushThrows, BeforeLock, Working
<1>11. QED
  BY <1>5, <1>6, <1>7, <1>8, <1>9, <1>10 DEF FlushProgress

(* Every step of the answer keeps the books.                                *)
LEMMA ReplyStepBooks ==
  ASSUME IInv, BooksInv, IInv', NEW s \in Slots, ReplyProgress(s), faults' = faults
  PROVE  BooksInv'
<1>1. /\ BurstTypeOK /\ ReplyTypeOK /\ ReplyTypeOK' /\ HaveReplies
      /\ flush \in [Slots -> Flush] /\ Len(traces) \in Nat
  BY LenProperties DEF IInv, TypeOK, BurstTypeOK, ReplyTypeOK
<1>2. CASE Decide(s)
  <2>1. outbox' = outbox /\ flush[s].at = "decide"
    BY <1>2 DEF Decide, At
  <2>2. flush[s].trace = 0 /\ flush[s].at \in UnderLock
    BY <2>1 DEF BooksInv, RunsHaveTraces, Working, UnderLock
  <2>3. CASE GoOn(s, "release") /\ (UNCHANGED traces \/ NewTrace(s, "skipped_no_reply"))
    <3>1. /\ \A r \in Slots \ {s} : flush'[r] = flush[r]
          /\ flush'[s].at = "release" /\ flush'[s].trace = 0
      BY <1>1, <2>2, <2>3, GoesOn DEF UnderLock
    <3>2. /\ Len(traces') \in Nat /\ Len(traces) <= Len(traces')
          /\ \A i \in 1..Len(traces) : traces'[i] = traces[i]
      <4>1. CASE UNCHANGED traces
        BY <1>1, <4>1
      <4>2. CASE NewTrace(s, "skipped_no_reply")
        <5>1. Len(traces') = Len(traces) + 1
          BY <1>1, <2>2, <4>2, TraceAdded
        <5>2. \A i \in 1..Len(traces) : traces'[i] = traces[i]
          BY <1>1, <4>2, AppendProperties DEF NewTrace, ReplyTypeOK
        <5>3. QED
          BY <1>1, <5>1, <5>2
      <4>3. QED
        BY <2>3, <4>1, <4>2
    <3>3. QED
      BY <1>1, <2>1, <2>2, <3>1, <3>2, NoTraceLeft DEF Working
  <2>4. CASE /\ NewTrace(s, "pending")
             /\ flush' = [flush EXCEPT ![s].at = "generate", ![s].trace = Len(traces) + 1]
    BY <1>1, <1>2, <2>1, <2>4, DecideBooks DEF Decide
  <2>5. QED
    BY <1>2, <2>3, <2>4 DEF Decide
<1>3. CASE Generate(s)
  <2>1. outbox' = outbox /\ flush[s].at = "generate"
    BY <1>3 DEF Generate, At
  <2>2. CASE SetTrace(s, "skipped_filter") /\ GoOn(s, "release")
    <3>1. OutRows(flush[s].trace) = {}
      BY <2>1 DEF BooksInv, RowsFollowRuns, RowOfRun
    <3>2. QED
      BY <1>1, <2>1, <2>2, <3>1, GivesUpBooks DEF Working
  <2>3. ASSUME NEW b \in ReplyBodies, UNCHANGED traces,
               flush' = [flush EXCEPT ![s].at = "outbound", ![s].body = b]
        PROVE  BooksInv'
    <3>1. /\ flush'[s].at = "outbound" /\ flush'[s].trace = flush[s].trace
          /\ \A r \in Slots \ {s} : flush'[r] = flush[r]
      BY <1>1, <2>3 DEF Flush
    <3>2. QED
      BY <2>1, <2>3, <3>1, GenerateBooks
  <2>4. QED
    BY <1>3, <2>2, <2>3 DEF Generate
<1>4. CASE CreateOutbound(s)
  BY <1>1, <1>4, CreateBooks
<1>5. CASE CompleteTrace(s)
  BY <1>1, <1>5, CompleteBooks
<1>6. CASE QueueReply(s)
  BY <1>1, <1>6, HandOverBooks DEF QueueReply, At
<1>7. QED
  BY <1>2, <1>3, <1>4, <1>5, <1>6 DEF ReplyProgress

(* A fault in the answer marks the trace failed, unless that update throws  *)
(* as well, and the run goes on; its row may be handed over already.        *)
LEMMA ReplyThrowsBooks ==
  ASSUME IInv, BooksInv, NEW s \in Slots, ReplyThrows(s)
  PROVE  BooksInv'
<1>1. /\ BurstTypeOK /\ ReplyTypeOK /\ HaveReplies
      /\ flush \in [Slots -> Flush] /\ Len(traces) \in Nat
      /\ GoOn(s, "release") /\ faults \subseteq faults'
  BY LenProperties DEF IInv, TypeOK, BurstTypeOK, ReplyTypeOK, ReplyThrows, Fault
<1>2. CASE flush[s].at = "decide"
  <2>1. traces' = traces /\ outbox' = outbox /\ flush[s].trace = 0
    BY <1>2 DEF ReplyThrows, At, BooksInv, RunsHaveTraces, Working
  <2>2. /\ \A r \in Slots \ {s} : flush'[r] = flush[r]
        /\ flush'[s].at = "release" /\ flush'[s].trace = 0
    BY <1>1, <2>1, GoesOn DEF UnderLock
  <2>3. QED
    BY <1>1, <2>1, <2>2, NoTraceLeft DEF Working
<1>3. CASE flush[s].at \in Working
  <2>1. \/ SetTrace(s, "failed") /\ "flush_error" \in faults'
        \/ traces' = traces /\ "outage" \in faults'
    BY <1>3 DEF ReplyThrows, Fault, At, Working, TraceAfterThrow
  <2>2. CASE outbox' = outbox
    BY <1>1, <1>3, <2>1, <2>2, GivesUpBooks
  <2>3. CASE At(s, "queue") /\ HandOver(s)
    BY <1>1, <2>1, <2>3, HandOverBooks DEF At
  <2>4. QED
    BY <2>2, <2>3 DEF ReplyThrows
<1>4. QED
  BY <1>2, <1>3 DEF ReplyThrows, At

(* After a restart, rows the lost runs had begun are no longer promised.    *)
LEMMA RestartBooks ==
  ASSUME IInv, BooksInv, ServerRestart
  PROVE  BooksInv'
<1>1. traces' = traces /\ outbox' = outbox /\ "restart" \in faults'
  BY DEF ServerRestart, Fault, replyVars
<1>2. \A s \in Slots : flush'[s].trace = 0 /\ flush'[s].at = "idle"
  BY DEF ServerRestart, BurstRestart, NoRun
<1>3. RowsHaveTraces'
  BY <1>1 DEF BooksInv, RowsHaveTraces, OutboxRows
<1>4. RunsHaveTraces'
  <2>1. Len(traces') \in Nat
    BY <1>1, LenProperties DEF IInv, TypeOK, ReplyTypeOK
  <2>2. QED
    BY <1>2, <2>1 DEF RunsHaveTraces, Working
<1>5. RowsFollowRuns'
  <2>1. \A o \in OutboxRows : outbox[o].trace # 0
    <3>1. Len(traces) \in Nat
      BY LenProperties DEF IInv, TypeOK, ReplyTypeOK
    <3>2. QED
      BY <3>1 DEF BooksInv, RowsHaveTraces
  <2>2. QED
    BY <1>1, <1>2, <2>1 DEF RowsFollowRuns, OutRows, OutboxRows
<1>6. OutboxAddsUp'
  <2>1. faults \subseteq faults' /\ OutboxRows' = OutboxRows
    BY <1>1 DEF ServerRestart, Fault, OutboxRows
  <2>2. \A o \in OutboxRows : AddsUp(o) /\ LeftBehind(o)'
    BY <1>1 DEF BooksInv, OutboxAddsUp, AddsUp, OutboxRows, LeftBehind
  <2>3. \A o \in OutboxRows : AddsUp(o)'
    BY <1>1, <2>1, <2>2, StillAddsUp
  <2>4. QED
    BY <2>1, <2>3 DEF OutboxAddsUp, AddsUp, OutboxRows
<1>7. QED
  BY <1>3, <1>4, <1>5, <1>6 DEF BooksInv

(* A send that fails for good leaves the row as handed over as it was.      *)
LEMMA SendFailsBooks ==
  ASSUME IInv, BooksInv, SendFailing
  PROVE  BooksInv'
<1>1. PICK i \in 1..Len(outbox) : SendFails(i)
  BY DEF SendFailing
<1>2. /\ traces' = traces /\ flush' = flush /\ faults \subseteq faults'
      /\ outbox' = [outbox EXCEPT ![i].live = FALSE]
  BY <1>1 DEF SendFails, Fault, burstVars
<1>3. outbox \in [1..Len(outbox) -> Outbound]
  BY LenProperties DEF IInv, TypeOK, ReplyTypeOK
<1>4. Len(outbox') = Len(outbox)
  BY <1>2, OutboxSet DEF IInv, TypeOK
<1>5. \A o \in OutboxRows : /\ outbox'[o].trace = outbox[o].trace
                            /\ outbox'[o].queued = outbox[o].queued
  BY <1>2, <1>3 DEF OutboxRows, Outbound
<1>6. QED
  BY <1>2, <1>4, <1>5, BooksKept

(* Every step of the reply path keeps the books.                            *)
LEMMA NextBooks ==
  ASSUME IInv, BooksInv, IInv', [Next]_vars
  PROVE  BooksInv'
<1>1. ASSUME UNCHANGED <<traces, outbox, flush>>, faults \subseteq faults'
      PROVE  BooksInv'
  BY <1>1, BooksKept DEF OutboxRows
<1>2. ASSUME NEW e \in Events, Reporting(e) \/ Enqueuing(e)
      PROVE  BooksInv'
  BY <1>1, <1>2 DEF Reporting, Enqueuing, burstVars, faultVars, replyVars
<1>3. ASSUME NEW w \in Intakes, IntakeStep(w)
      PROVE  BooksInv'
  BY <1>1, <1>3 DEF IntakeStep, burstVars, faultVars, replyVars
<1>4. ASSUME NEW s \in Slots, FlushStep(s)
      PROVE  BooksInv'
  BY <1>4, FlushStepBooks, ReplyStepBooks DEF FlushStep, faultVars
<1>5. CASE Expiring \/ Requeuing
  BY <1>1, <1>5 DEF Expiring, Requeuing, OrphanExpires, RequeueStalled, faultVars, replyVars
<1>6. CASE Throwing
  <2>1. ASSUME Fault("intake_error"), UNCHANGED <<burstVars, replyVars>>
        PROVE  BooksInv'
    BY <1>1, <2>1 DEF Fault, burstVars, replyVars
  <2>2. ASSUME NEW s \in Slots, FlushThrows(s), UNCHANGED replyVars
        PROVE  BooksInv'
    BY <2>2, FlushStepBooks DEF FlushThrows, Fault
  <2>3. QED
    BY <1>6, <2>1, <2>2, ReplyThrowsBooks DEF Throwing, EnqueueThrows, IntakeThrows
<1>7. CASE RunningOut
  <2>1. \A s \in Slots : flush'[s].at = flush[s].at /\ flush'[s].trace = flush[s].trace
    BY <1>7, RunningOutTypes DEF RunningOut, IInv, TypeOK
  <2>2. UNCHANGED <<traces, outbox>> /\ faults \subseteq faults'
    BY <1>7 DEF RunningOut, replyVars, ListExpires, SlowReply, Fault
  <2>3. QED
    BY <2>1, <2>2, BooksKept DEF OutboxRows
<1>8. CASE UNCHANGED vars \/ Ageing
  BY <1>1, <1>8 DEF vars, burstVars, faultVars, replyVars, Ageing, WindowPasses
<1>9. CASE Stalling
  <2>1. ASSUME NEW w \in Intakes, IntakeStalls(w), UNCHANGED <<burstVars, replyVars>>
        PROVE  BooksInv'
    BY <1>1, <2>1 DEF IntakeStalls, Fault, burstVars, replyVars
  <2>2. ASSUME NEW s \in Slots, FlushStalls(s), UNCHANGED replyVars
        PROVE  BooksInv'
    <3>1. \A r \in Slots : flush'[r].at = flush[r].at /\ flush'[r].trace = flush[r].trace
      BY <2>2, FlushStallsTypes DEF IInv, TypeOK
    <3>2. UNCHANGED <<traces, outbox>> /\ faults \subseteq faults'
      BY <2>2 DEF FlushStalls, Fault, replyVars
    <3>3. QED
      BY <3>1, <3>2, BooksKept DEF OutboxRows
  <2>3. QED
    BY <1>9, <2>1, <2>2 DEF Stalling
<1>10. QED
  BY <1>2, <1>3, <1>4, <1>5, <1>6, <1>7, <1>8, <1>9, RestartBooks, SendFailsBooks DEF Next

(* The books agree in every reachable state.                                *)
LEMMA BooksInductive == Spec => []BooksInv
<1>1. Init => BooksInv
  <2>1. ASSUME Init
        PROVE  /\ traces = <<>> /\ outbox = <<>>
               /\ \A s \in Slots : flush[s].at = "idle" /\ flush[s].trace = 0
    BY <2>1 DEF Init, BurstInit, ReplyInit, NoRun
  <2>2. QED
    BY <2>1 DEF BooksInv, RowsHaveTraces, RunsHaveTraces, RowsFollowRuns, OutboxAddsUp, OutRows,
                OutboxRows, Working
<1>2. IInv /\ BooksInv /\ IInv' /\ [Next]_vars => BooksInv'
  BY NextBooks
<1>3. QED
  BY <1>1, <1>2, Inductive, PTL DEF Spec

(* A reply that was handed to the sender belongs to a trace that names it   *)
(* and reads completed, or failed if the hand-over took effect and threw; a  *)
(* reply that was not has a run at work on it or a trace that reads failed,  *)
(* unless the process died or the catch clause could not write either.      *)
THEOREM BooksAgree == Spec => []OutboxAddsUp
<1>1. BooksInv => OutboxAddsUp
  BY DEF BooksInv
<1>2. QED
  BY <1>1, BooksInductive, PTL

-----------------------------------------------------------------------------
(* Inbound rows.  A row, and a run about to create one, are claims on an     *)
(* event.  A run claims it only while it has no row, and who may be at work  *)
(* on it then are the run that has the job and one that has lost it.         *)
Lost(w) == Busy(w) /\ ~intake[w].owns

OwnersInv ==
    /\ \A w \in Intakes : Lost(w) => "stall" \in faults
    /\ \A v, w \in Intakes : Lost(v) /\ Lost(w) => v = w

Few(S) == IF "stall" \in faults THEN \A x, y, z \in S : x = y \/ x = z \/ y = z
                                ELSE \A x, y \in S : x = y

Claims(e) == {<<"row", m>> : m \in Rows(e)} \cup
             {<<"run", w>> : w \in {v \in Intakes : AtStep(v, "create") /\ TheEvent(v) = e}}

RowsInv == OwnersInv /\ \A e \in Events : Few(Claims(e))

-----------------------------------------------------------------------------
(* What a statement of a run of the intake leaves of the runs: it keeps its  *)
(* event and its hold on the job, and comes to the statement that creates a  *)
(* row only by looking for one.                                             *)
LEMMA RunMoves ==
  ASSUME IntakeTypeOK, NEW w \in Intakes, IntakeStep(w) \/ IntakeThrows(w)
  PROVE  /\ \A v \in Intakes \ {w} : intake'[v] = intake[v]
         /\ Busy(w)' => \/ AtStep(w, "find")' /\ intake'[w].owns
                        \/ Busy(w) /\ TheEvent(w)' = TheEvent(w)
                             /\ (intake'[w].owns <=> intake[w].owns)
         /\ AtStep(w, "create")' => FindMessage(w, LiveBodies)
<1> DEFINE Goal == /\ \A v \in Intakes \ {w} : intake'[v] = intake[v]
                   /\ Busy(w)' => \/ AtStep(w, "find")' /\ intake'[w].owns
                                  \/ Busy(w) /\ TheEvent(w)' = TheEvent(w)
                                       /\ (intake'[w].owns <=> intake[w].owns)
                   /\ AtStep(w, "create")' => FindMessage(w, LiveBodies)
<1> SUFFICES Goal
  OBVIOUS
<1>1. intake \in [Intakes -> Intake]
  BY DEF IntakeTypeOK
<1>2. ASSUME NEW run, intake' = [intake EXCEPT ![w] = run], run.event = TheEvent(w),
             run.owns <=> intake[w].owns, Busy(w),
             run.at = "create" => FindMessage(w, LiveBodies)
      PROVE  Goal
  BY <1>1, <1>2 DEF Busy, AtStep, TheEvent
<1>3. ASSUME NEW pc \in Stored, Step(w, pc), Busy(w)
      PROVE  Goal
  <2> DEFINE run == [intake[w] EXCEPT !.at = pc]
  <2>1. run.event = intake[w].event /\ run.at = pc
    BY <1>1 DEF Intake
  <2>2. run.owns <=> intake[w].owns
    BY <1>1 DEF Intake
  <2>3. intake' = [intake EXCEPT ![w] = run]
    BY <1>3, Zenon DEF Step
  <2>4. pc # "create"
    BY DEF Stored, Places
  <2> HIDE DEF run, Goal
  <2>5. QED
    BY <1>2, <1>3, <2>1, <2>2, <2>3, <2>4 DEF TheEvent
<1>4. ASSUME intake' = [intake EXCEPT ![w] = IdleIntake]
      PROVE  Goal
  BY <1>1, <1>4 DEF IdleIntake, Busy, AtStep
<1>5. ASSUME NEW e \in Events, FetchEvent(w, e)
      PROVE  Goal
  <2> DEFINE run == [intake[w] EXCEPT !.at = "find", !.event = e, !.owns = TRUE]
  <2>1. run.at = "find" /\ run.owns
    BY <1>1 DEF Intake
  <2>2. intake' = [intake EXCEPT ![w] = run]
    BY <1>5, Zenon DEF FetchEvent
  <2> HIDE DEF run
  <2>3. QED
    BY <1>1, <2>1, <2>2 DEF AtStep
<1>6. ASSUME FindMessage(w, LiveBodies)
      PROVE  Goal
  <2>1. Busy(w)
    BY <1>6 DEF FindMessage, Busy, AtStep
  <2>2. ASSUME NEW m, NEW k,
               intake' = [intake EXCEPT ![w].at = "state", ![w].msg = m, ![w].kind = k]
        PROVE  Goal
    <3> DEFINE run == [intake[w] EXCEPT !.at = "state", !.msg = m, !.kind = k]
    <3>1. run.event = intake[w].event
      BY <1>1 DEF Intake
    <3>2. run.owns <=> intake[w].owns
      BY <1>1 DEF Intake
    <3>3. intake' = [intake EXCEPT ![w] = run]
      BY <2>2, Zenon
    <3> HIDE DEF run, Goal
    <3>4. QED
      BY <1>2, <1>6, <2>1, <3>1, <3>2, <3>3 DEF TheEvent
  <2>3. ASSUME NEW k, intake' = [intake EXCEPT ![w].at = "create", ![w].kind = k]
        PROVE  Goal
    <3> DEFINE run == [intake[w] EXCEPT !.at = "create", !.kind = k]
    <3>1. run.event = intake[w].event
      BY <1>1 DEF Intake
    <3>2. run.owns <=> intake[w].owns
      BY <1>1 DEF Intake
    <3>3. intake' = [intake EXCEPT ![w] = run]
      BY <2>3, Zenon
    <3> HIDE DEF run, Goal
    <3>4. QED
      BY <1>2, <1>6, <2>1, <3>1, <3>2, <3>3 DEF TheEvent
  <2> HIDE DEF Goal
  <2>4. QED
    BY <1>6, <2>2, <2>3 DEF FindMessage
<1>7. ASSUME CreateMessage(w)
      PROVE  Goal
  <2> DEFINE n == Len(messages) + 1
             run == [intake[w] EXCEPT !.at = "state", !.msg = n]
  <2>1. run.event = intake[w].event /\ run.at = "state"
    BY <1>1 DEF Intake
  <2>2. run.owns <=> intake[w].owns
    BY <1>1 DEF Intake
  <2>3. intake' = [intake EXCEPT ![w] = run] /\ Busy(w)
    BY <1>7, Zenon DEF CreateMessage, Busy, AtStep
  <2> HIDE DEF run, Goal
  <2>4. QED
    BY <1>2, <2>1, <2>2, <2>3 DEF TheEvent
<1> HIDE DEF Goal
<1>8. ASSUME TouchState(w) \/ CreateState(w) \/ Filter(w) \/ AppendToBurst(w)
      PROVE  Goal
  <2>1. Busy(w) /\ \E pc \in Stored : Step(w, pc)
    BY <1>8 DEF TouchState, CreateState, Filter, AppendToBurst, Busy, AtStep, Stored, Places
  <2>2. QED
    BY <1>3, <2>1
<1>9. ASSUME MarkProcessed(w) \/ StateRefused(w) \/ IntakeThrows(w)
      PROVE  Goal
  BY <1>4, <1>9 DEF MarkProcessed, StateRefused, IntakeThrows, RunThrows
<1>10. QED
  BY <1>5, <1>6, <1>7, <1>8, <1>9 DEF IntakeStep, IntakeProgress

(* The plan never changes, and faults are never forgotten.                  *)
LEMMA FaultsGrow ==
  ASSUME [Next]_vars
  PROVE  plan' = plan /\ faults \subseteq faults'
<1> DEFINE Goal == plan' = plan /\ faults \subseteq faults'
<1> SUFFICES Goal
  OBVIOUS
<1>1. UNCHANGED faultVars => Goal
  BY DEF faultVars
<1>2. \A kind : Fault(kind) => Goal
  BY DEF Fault
<1> HIDE DEF Goal
<1>3. ASSUME NEW e \in Events, Reporting(e) \/ Enqueuing(e)
      PROVE  Goal
  BY <1>1, <1>3 DEF Reporting, Enqueuing
<1>4. ASSUME NEW w \in Intakes, IntakeStep(w)
      PROVE  Goal
  BY <1>1, <1>4 DEF IntakeStep
<1>5. ASSUME NEW s \in Slots, FlushStep(s)
      PROVE  Goal
  BY <1>1, <1>5 DEF FlushStep
<1>6. ASSUME Expiring \/ Requeuing \/ Ageing \/ UNCHANGED vars
      PROVE  Goal
  BY <1>1, <1>6 DEF Expiring, Requeuing, Ageing, vars
<1>7. ASSUME SendFailing \/ RunningOut \/ ServerRestart
      PROVE  Goal
  BY <1>2, <1>7 DEF SendFailing, SendFails, RunningOut, ListExpires, SlowReply, ServerRestart
<1>8. ASSUME Stalling
      PROVE  Goal
  BY <1>2, <1>8 DEF Stalling, IntakeStalls, FlushStalls
<1>9. ASSUME Throwing
      PROVE  Goal
  BY <1>2, <1>9 DEF Throwing, EnqueueThrows, IntakeThrows, FlushThrows, ReplyThrows
<1>10. QED
  BY <1>3, <1>4, <1>5, <1>6, <1>7, <1>8, <1>9 DEF Next

(* What moves the runs of the intake or adds a row. *)
LEMMA WhoMoves ==
  ASSUME [Next]_vars
  PROVE  \/ UNCHANGED <<messages, intake>>
         \/ \E w \in Intakes : IntakeStep(w) \/ IntakeThrows(w) \/ IntakeStalls(w)
         \/ ServerRestart
<1>1. UNCHANGED intakeVars => UNCHANGED <<messages, intake>>
  BY DEF intakeVars
<1>2. ASSUME NEW e \in Events, Reporting(e) \/ Enqueuing(e) \/ EnqueueThrows(e)
      PROVE  UNCHANGED <<messages, intake>>
  BY <1>2 DEF Reporting, Enqueuing, Report, Enqueue, EnqueueThrows
<1>3. QED
  BY <1>1, <1>2 DEF Next, FlushStep, Expiring, Requeuing, SendFailing, RunningOut, Ageing,
                    Throwing, Stalling, vars

-----------------------------------------------------------------------------
(* A run loses its job only by the stalled-job check, once.                 *)
LEMMA NextOwners ==
  ASSUME IInv, OwnersInv, [Next]_vars
  PROVE  OwnersInv'
<1>1. faults \subseteq faults' /\ intake \in [Intakes -> Intake] /\ IntakeTypeOK
  BY FaultsGrow DEF IInv, TypeOK, IntakeTypeOK
<1>2. ASSUME \A w \in Intakes : Lost(w)' => Lost(w)
      PROVE  OwnersInv'
  BY <1>1, <1>2 DEF OwnersInv
<1>3. CASE UNCHANGED <<messages, intake>>
  BY <1>2, <1>3 DEF Lost, Busy, AtStep
<1>4. ASSUME NEW w \in Intakes, IntakeStep(w) \/ IntakeThrows(w)
      PROVE  OwnersInv'
  <2>1. \A v \in Intakes \ {w} : Lost(v)' => Lost(v)
    BY <1>1, <1>4, RunMoves DEF Lost, Busy, AtStep
  <2>2. Lost(w)' => Lost(w)
    BY <1>1, <1>4, RunMoves DEF Lost
  <2>3. QED
    BY <1>2, <2>1, <2>2
<1>5. ASSUME NEW w \in Intakes, IntakeStalls(w)
      PROVE  OwnersInv'
  <2>1. "stall" \notin faults /\ "stall" \in faults'
    BY <1>5 DEF IntakeStalls, Fault
  <2>2. \A v \in Intakes : ~Lost(v)
    BY <2>1 DEF OwnersInv
  <2>3. \A v \in Intakes \ {w} : intake'[v] = intake[v]
    BY <1>1, <1>5 DEF IntakeStalls
  <2>4. \A v \in Intakes \ {w} : ~Lost(v)'
    BY <2>2, <2>3 DEF Lost, Busy, AtStep
  <2>5. QED
    BY <2>1, <2>4 DEF OwnersInv
<1>6. CASE ServerRestart
  <2>1. \A w \in Intakes : intake'[w].at = "idle"
    BY <1>6 DEF ServerRestart, IntakeRestart, IdleIntake
  <2>2. QED
    BY <1>2, <2>1 DEF Lost, Busy, AtStep
<1>7. QED
  BY <1>3, <1>4, <1>5, <1>6, WhoMoves

(* So few runs are at work on one event. *)
LEMMA FewRuns ==
  ASSUME JobInv, OwnersInv, NEW e
  PROVE  Few({v \in Intakes : Busy(v) /\ TheEvent(v) = e})
<1> DEFINE S == {v \in Intakes : Busy(v) /\ TheEvent(v) = e}
<1>1. \A v, w \in S : intake[v].owns /\ intake[w].owns => v = w
  BY DEF JobInv, RunsAreApart
<1>2. \A v \in S : intake[v].owns \/ Lost(v)
  BY DEF Lost
<1>3. \A v, w \in S : Lost(v) /\ Lost(w) => v = w
  BY DEF OwnersInv
<1>4. CASE "stall" \in faults
  BY <1>1, <1>2, <1>3, <1>4 DEF Few
<1>5. CASE "stall" \notin faults
  <2>1. \A v \in S : intake[v].owns
    BY <1>2, <1>5 DEF OwnersInv
  <2>2. QED
    BY <1>1, <1>5, <2>1 DEF Few
<1>6. QED
  BY <1>4, <1>5

(* Few stay few while no claim is added.                                    *)
LEMMA FewerClaims ==
  ASSUME NEW e \in Events, Few(Claims(e)), Claims(e)' \subseteq Claims(e),
         faults \subseteq faults'
  PROVE  Few(Claims(e))'
<1>1. \A x \in Claims(e)' : x \in Claims(e)
  OBVIOUS
<1>2. QED
  BY <1>1 DEF Few

(* No row is added, and no run comes to the statement that adds one.        *)
LEMMA ClaimsKept ==
  ASSUME RowsInv, messages' = messages, faults \subseteq faults',
         \A w \in Intakes : AtStep(w, "create")' => /\ AtStep(w, "create")
                                                    /\ TheEvent(w)' = TheEvent(w)
  PROVE  \A e \in Events : Few(Claims(e))'
<1>1. ASSUME NEW e \in Events
      PROVE  Claims(e)' \subseteq Claims(e)
  BY DEF Claims, Rows
<1>2. QED
  BY <1>1, FewerClaims DEF RowsInv

(* A run that finds no row claims the event, along with whoever else is at   *)
(* work on it.                                                              *)
LEMMA FindClaims ==
  ASSUME IInv, RowsInv, faults \subseteq faults', NEW w \in Intakes,
         FindMessage(w, LiveBodies), AtStep(w, "create")',
         TheEvent(w)' = TheEvent(w), \A v \in Intakes \ {w} : intake'[v] = intake[v]
  PROVE  \A e \in Events : Few(Claims(e))'
<1>1. messages' = messages
  BY DEF FindMessage
<1>2. ASSUME NEW e \in Events, e # TheEvent(w)
      PROVE  Few(Claims(e))'
  <2>1. \A v \in Intakes : AtStep(v, "create")' /\ TheEvent(v)' = e
                             => AtStep(v, "create") /\ TheEvent(v) = e
    BY <1>2 DEF AtStep, TheEvent
  <2>2. Claims(e)' \subseteq Claims(e)
    BY <1>1, <2>1 DEF Claims, Rows
  <2>3. QED
    BY <2>2, FewerClaims DEF RowsInv
<1>3. ASSUME NEW e \in Events, e = TheEvent(w)
      PROVE  Few(Claims(e))'
  <2>1. Rows(e) = {}
    <3>1. CASE KnownRows(TheEvent(w)) = {}
      BY <1>3, <3>1 DEF KnownRows
    <3>2. ASSUME NEW m \in KnownRows(TheEvent(w)),
                 intake' = [intake EXCEPT ![w].at = "state", ![w].msg = m,
                                          ![w].kind = KindOfRow(m)]
          PROVE  FALSE
      <4> DEFINE k == KindOfRow(m)
                 run == [intake[w] EXCEPT !.at = "state", !.msg = m, !.kind = k]
      <4>1. run.at = "state"
        BY DEF IInv, TypeOK, IntakeTypeOK, Intake
      <4>2. intake' = [intake EXCEPT ![w] = run]
        BY <3>2, Zenon
      <4> HIDE DEF run
      <4>3. QED
        BY <4>1, <4>2 DEF AtStep, IInv, TypeOK, IntakeTypeOK
    <3>3. QED
      BY <3>1, <3>2 DEF FindMessage
  <2>2. Rows(e)' = {}
    BY <1>1, <2>1 DEF Rows
  <2> DEFINE S == {v \in Intakes : Busy(v) /\ TheEvent(v) = e}
  <2>3. Few(S)
    BY FewRuns DEF IInv, RowsInv
  <2>4. \A x \in Claims(e)' : \E v \in S : x = <<"run", v>>
    <3>1. \A v \in Intakes : AtStep(v, "create")' /\ TheEvent(v)' = e => v \in S
      BY DEF FindMessage, Busy, AtStep, TheEvent
    <3> HIDE DEF S
    <3>2. QED
      BY <2>2, <3>1 DEF Claims
  <2> HIDE DEF S
  <2>5. QED
    BY <2>3, <2>4 DEF Few
<1>4. QED
  BY <1>2, <1>3

(* A run that creates a row has a row for its claim.                        *)
LEMMA CreateClaims ==
  ASSUME IInv, RowsInv, NEW w \in Intakes, CreateMessage(w), faults \subseteq faults',
         ~AtStep(w, "create")', \A v \in Intakes \ {w} : intake'[v] = intake[v]
  PROVE  \A e \in Events : Few(Claims(e))'
<1> DEFINE row == [event |-> TheEvent(w), kind |-> intake[w].kind]
           n == Len(messages) + 1
<1>1. AtStep(w, "create") /\ TheEvent(w) \in Events
  BY DEF CreateMessage, IInv, JobInv, RunsHaveJobs, Busy, AtStep
<1>2. row \in [event : Events, kind : Kinds] /\ row.event = TheEvent(w)
  BY <1>1 DEF IInv, TypeOK, IntakeTypeOK, Intake
<1>3. messages' = Append(messages, row) /\ messages \in Seq([event : Events, kind : Kinds])
  BY DEF CreateMessage, IInv, TypeOK, IntakeTypeOK
<1> HIDE DEF row
<1>4. /\ Len(messages) \in Nat /\ Len(messages') = n
      /\ \A i \in 1..Len(messages) : messages'[i] = messages[i]
      /\ messages'[n] = row
  BY <1>2, <1>3, AppendProperties, LenProperties
<1>5. ASSUME NEW e \in Events
      PROVE  \A x \in Claims(e)' : \/ x \in Claims(e) /\ x # <<"run", w>>
                                   \/ x = <<"row", n>> /\ e = TheEvent(w)
  <2>1. \A m \in Rows(e)' : m \in Rows(e) \/ (m = n /\ e = TheEvent(w))
    BY <1>2, <1>4 DEF Rows
  <2>2. \A v \in Intakes : AtStep(v, "create")' /\ TheEvent(v)' = e
                             => v # w /\ AtStep(v, "create") /\ TheEvent(v) = e
    BY DEF AtStep, TheEvent
  <2>3. QED
    BY <2>1, <2>2 DEF Claims
<1>6. <<"run", w>> \in Claims(TheEvent(w))
  BY <1>1 DEF Claims
<1> HIDE DEF n
<1>7. ASSUME NEW e \in Events
      PROVE  Few(Claims(e))'
  <2> DEFINE was(x) == IF x = <<"row", n>> /\ e = TheEvent(w) THEN <<"run", w>> ELSE x
  <2>1. \A x \in Claims(e)' : was(x) \in Claims(e)
    BY <1>5, <1>6
  <2>2. \A x, y \in Claims(e)' : was(x) = was(y) => x = y
    BY <1>5
  <2>3. Few(Claims(e))
    BY DEF RowsInv
  <2> HIDE DEF was
  <2>4. QED
    BY <2>1, <2>2, <2>3 DEF Few
<1>8. QED
  BY <1>7

(* Every step of the reply path leaves few claims on each event.            *)
LEMMA NextRows ==
  ASSUME IInv, RowsInv, [Next]_vars
  PROVE  RowsInv'
<1>1. IntakeTypeOK /\ OwnersInv' /\ faults \subseteq faults'
  BY NextOwners, FaultsGrow DEF IInv, TypeOK, RowsInv
<1>2. ASSUME messages' = messages,
             \A w \in Intakes : AtStep(w, "create")' => /\ AtStep(w, "create")
                                                        /\ TheEvent(w)' = TheEvent(w)
      PROVE  RowsInv'
  BY <1>1, <1>2, ClaimsKept DEF RowsInv
<1>3. CASE UNCHANGED <<messages, intake>>
  BY <1>2, <1>3 DEF AtStep, TheEvent
<1>4. ASSUME NEW w \in Intakes, IntakeStep(w) \/ IntakeThrows(w)
      PROVE  RowsInv'
  <2>1. /\ \A v \in Intakes \ {w} : intake'[v] = intake[v]
        /\ AtStep(w, "create")' => FindMessage(w, LiveBodies)
    BY <1>1, <1>4, RunMoves
  <2>2. CASE CreateMessage(w)
    <3>1. ~AtStep(w, "create")'
      BY <2>1, <2>2 DEF FindMessage, CreateMessage, AtStep
    <3>2. QED
      BY <1>1, <2>1, <2>2, <3>1, CreateClaims DEF RowsInv
  <2>3. CASE AtStep(w, "create")'
    <3>1. TheEvent(w)' = TheEvent(w)
      BY <1>1, <1>4, <2>3, RunMoves DEF Busy, AtStep
    <3>2. QED
      BY <1>1, <2>1, <2>3, <3>1, FindClaims DEF RowsInv
  <2>4. CASE ~CreateMessage(w) /\ ~AtStep(w, "create")'
    <3>1. messages' = messages
      BY <1>4, <2>4 DEF IntakeStep, IntakeProgress, FindMessage, FetchEvent, TouchState,
                        CreateState, Filter, AppendToBurst, MarkProcessed, StateRefused,
                        IntakeThrows, RunThrows
    <3>2. \A v \in Intakes : AtStep(v, "create")' => /\ AtStep(v, "create")
                                                     /\ TheEvent(v)' = TheEvent(v)
      BY <2>1, <2>4 DEF AtStep, TheEvent
    <3>3. QED
      BY <1>2, <3>1, <3>2
  <2>5. QED
    BY <2>2, <2>3, <2>4
<1>5. ASSUME NEW w \in Intakes, IntakeStalls(w)
      PROVE  RowsInv'
  <2>1. messages' = messages
    BY <1>5 DEF IntakeStalls
  <2>2. \A v \in Intakes : intake'[v].at = intake[v].at /\ intake'[v].event = intake[v].event
    BY <1>1, <1>5 DEF IntakeStalls, IntakeTypeOK, Intake
  <2>3. QED
    BY <1>2, <2>1, <2>2 DEF AtStep, TheEvent
<1>6. CASE ServerRestart
  <2>1. messages' = messages /\ \A w \in Intakes : intake'[w].at = "idle"
    BY <1>6 DEF ServerRestart, IntakeRestart, IdleIntake
  <2>2. QED
    BY <1>2, <2>1 DEF AtStep
<1>7. QED
  BY <1>3, <1>4, <1>5, <1>6, WhoMoves

(* Every reachable state satisfies the invariant.                           *)
LEMMA RowsInductive == Spec => []RowsInv
<1>1. Init => RowsInv
  <2>1. ASSUME Init
        PROVE  messages = <<>> /\ \A w \in Intakes : intake[w].at = "idle"
    BY <2>1 DEF Init, IntakeInit, IdleIntake
  <2>2. ASSUME Init, NEW e \in Events
        PROVE  Claims(e) = {}
    BY <2>1, <2>2, EmptySeq DEF Claims, Rows, AtStep
  <2>3. QED
    BY <2>1, <2>2 DEF RowsInv, OwnersInv, Lost, Busy, AtStep, Few
<1>2. IInv /\ RowsInv /\ [Next]_vars => RowsInv'
  BY NextRows
<1>3. QED
  BY <1>1, <1>2, Inductive, PTL DEF Spec

(* How many few are. *)
LEMMA FewCount ==
  ASSUME NEW S, Few(S)
  PROVE  Cardinality(S) <= IF "stall" \in faults THEN 2 ELSE 1
<1>1. CASE S = {}
  BY <1>1, FS_EmptySet
<1>2. ASSUME NEW x \in S, S = {x}
      PROVE  Cardinality(S) <= IF "stall" \in faults THEN 2 ELSE 1
  BY <1>2, FS_Singleton
<1>3. ASSUME NEW x \in S, NEW y \in S, x # y
      PROVE  Cardinality(S) <= IF "stall" \in faults THEN 2 ELSE 1
  <2>1. "stall" \in faults /\ S = {x} \cup {y}
    BY <1>3 DEF Few
  <2>2. Cardinality({x} \cup {y}) = 2
    <3>1. IsFiniteSet({x}) /\ Cardinality({x}) = 1
      BY FS_Singleton
    <3>2. QED
      BY <1>3, <3>1, FS_AddElement
  <2>3. QED
    BY <2>1, <2>2
<1>4. QED
  BY <1>1, <1>2, <1>3

(* Errors, retries and restarts of a job never store an event twice         *)
(* (persistInboundMessage finds what an earlier attempt created); a job that *)
(* was handed out again under a run at work may cost a second row, and never *)
(* a third.                                                                 *)
THEOREM EventsAreStoredOnce == Spec => []OneMessagePerEvent
<1>1. RowsInv => OneMessagePerEvent
  <2> SUFFICES ASSUME RowsInv, NEW e \in Events
               PROVE  Cardinality(Rows(e)) <= IF "stall" \in faults THEN 2 ELSE 1
    BY DEF OneMessagePerEvent
  <2>1. Few(Claims(e)) /\ \A m \in Rows(e) : <<"row", m>> \in Claims(e)
    BY DEF RowsInv, Claims
  <2>2. Few(Rows(e))
    BY <2>1 DEF Few
  <2>3. QED
    BY <2>2, FewCount
<1>2. QED
  BY <1>1, RowsInductive, PTL

-----------------------------------------------------------------------------
(* What is collected.  A run of the intake knows the kind that the row in its *)
(* hand was stored with, and goes to the list only with a user's text.      *)
AtTheList == {"push", "unschedule", "schedule"}

HoldsRow(w) ==
    intake[w].at \in Stored =>
      /\ intake[w].msg \in 1..Len(messages)
      /\ messages[intake[w].msg].event = TheEvent(w)
      /\ messages[intake[w].msg].kind = intake[w].kind
      /\ intake[w].at \in AtTheList => intake[w].kind = "user_text"

CollectInv == (\A w \in Intakes : HoldsRow(w)) /\ OnlyUserTextIsCollected

(* Rows are only ever added. *)
RowsGrow ==
    /\ Len(messages) \in Nat /\ Len(messages') \in Nat /\ Len(messages) <= Len(messages')
    /\ \A i \in 1..Len(messages) : messages'[i] = messages[i]

(* Only CreateMessage writes one, at the end. *)
LEMMA RowsOnlyGrow ==
  ASSUME IInv, [Next]_vars
  PROVE  RowsGrow
<1>1. messages \in Seq([event : Events, kind : Kinds]) /\ Len(messages) \in Nat
  BY LenProperties DEF IInv, TypeOK, IntakeTypeOK
<1>2. ASSUME messages' = messages
      PROVE  RowsGrow
  BY <1>1, <1>2 DEF RowsGrow
<1>3. ASSUME NEW w \in Intakes, CreateMessage(w)
      PROVE  RowsGrow
  <2> DEFINE row == [event |-> TheEvent(w), kind |-> intake[w].kind]
  <2>1. TheEvent(w) \in Events
    BY <1>3 DEF CreateMessage, IInv, JobInv, RunsHaveJobs, Busy, AtStep
  <2>2. row \in [event : Events, kind : Kinds]
    BY <2>1 DEF IInv, TypeOK, IntakeTypeOK, Intake
  <2>3. messages' = Append(messages, row)
    BY <1>3 DEF CreateMessage
  <2> HIDE DEF row
  <2>4. QED
    BY <1>1, <2>2, <2>3, AppendProperties DEF RowsGrow
<1>4. ASSUME NEW w \in Intakes, IntakeStep(w)
      PROVE  RowsGrow
  BY <1>2, <1>3, <1>4
     DEF IntakeStep, IntakeProgress, FindMessage, AppendToBurst, FetchEvent, TouchState,
         CreateState, Filter, MarkProcessed, StateRefused, RunThrows
<1>5. ASSUME NEW w \in Intakes, IntakeThrows(w) \/ IntakeStalls(w)
      PROVE  RowsGrow
  BY <1>2, <1>5 DEF IntakeThrows, RunThrows, IntakeStalls
<1>6. CASE ServerRestart
  BY <1>2, <1>6 DEF ServerRestart, IntakeRestart
<1>7. QED
  BY <1>2, <1>4, <1>5, <1>6, WhoMoves

(* A run that goes on with its row in hand still holds it.                  *)
LEMMA RowStaysInHand ==
  ASSUME RowsGrow, NEW w \in Intakes, HoldsRow(w), intake[w].at \in Stored,
         intake'[w].msg = intake[w].msg, TheEvent(w)' = TheEvent(w),
         intake'[w].kind = intake[w].kind,
         intake'[w].at \in AtTheList => intake[w].kind = "user_text"
  PROVE  HoldsRow(w)'
<1> DEFINE m == intake[w].msg
<1>1. m \in 1..Len(messages) /\ messages[m].event = TheEvent(w)
      /\ messages[m].kind = intake[w].kind
  BY DEF HoldsRow
<1> HIDE DEF m
<1>2. messages'[m] = messages[m] /\ m \in 1..Len(messages')
  BY <1>1 DEF RowsGrow
<1>3. intake'[w].msg = m
  BY DEF m
<1>4. QED
  BY <1>1, <1>2, <1>3 DEF HoldsRow

(* So does one that stays where it is.                                      *)
LEMMA RunStays ==
  ASSUME RowsGrow, NEW w \in Intakes, HoldsRow(w), intake'[w] = intake[w]
  PROVE  HoldsRow(w)'
<1>1. CASE intake[w].at \in Stored
  <2>1. intake[w].at \in AtTheList => intake[w].kind = "user_text"
    BY <1>1 DEF HoldsRow
  <2>2. QED
    BY <1>1, <2>1, RowStaysInHand DEF TheEvent
<1>2. CASE intake[w].at \notin Stored
  BY <1>2 DEF HoldsRow
<1>3. QED
  BY <1>1, <1>2

(* A run that goes on from statement to statement. *)
LEMMA StepInHand ==
  ASSUME IntakeTypeOK, RowsGrow, NEW w \in Intakes, HoldsRow(w), intake[w].at \in Stored,
         NEW pc, Step(w, pc), pc \in AtTheList => intake[w].kind = "user_text"
  PROVE  HoldsRow(w)'
<1>1. /\ intake'[w].at = pc /\ intake'[w].msg = intake[w].msg
      /\ intake'[w].kind = intake[w].kind /\ TheEvent(w)' = TheEvent(w)
  BY DEF Step, IntakeTypeOK, Intake, TheEvent
<1>2. QED
  BY <1>1, RowStaysInHand

(* What a run finds of its event is the row of its event, with its kind.    *)
LEMMA FoundInHand ==
  ASSUME IntakeTypeOK, RowsGrow, NEW w \in Intakes, NEW texts, FindMessage(w, texts)
  PROVE  HoldsRow(w)' /\ \A v \in Intakes \ {w} : intake'[v] = intake[v]
<1> DEFINE e == TheEvent(w)
<1>1. messages' = messages /\ intake \in [Intakes -> Intake]
  BY DEF FindMessage, IntakeTypeOK
<1>2. ASSUME NEW m \in KnownRows(e), NEW k, k = messages[m].kind,
             intake' = [intake EXCEPT ![w].at = "state", ![w].msg = m, ![w].kind = k]
      PROVE  HoldsRow(w)' /\ \A v \in Intakes \ {w} : intake'[v] = intake[v]
  <2>1. m \in 1..Len(messages) /\ messages[m].event = e
    BY <1>2 DEF KnownRows, Rows
  <2>2. /\ intake'[w].at = "state" /\ intake'[w].msg = m /\ intake'[w].kind = k
        /\ TheEvent(w)' = e
    BY <1>1, <1>2 DEF Intake, TheEvent
  <2>3. HoldsRow(w)'
    BY <1>1, <1>2, <2>1, <2>2 DEF HoldsRow, AtTheList
  <2>4. QED
    BY <1>1, <1>2, <2>3
<1>3. ASSUME NEW k, intake' = [intake EXCEPT ![w].at = "create", ![w].kind = k]
      PROVE  HoldsRow(w)' /\ \A v \in Intakes \ {w} : intake'[v] = intake[v]
  <2>1. intake'[w].at = "create"
    BY <1>1, <1>3 DEF Intake
  <2>2. QED
    BY <1>1, <1>3, <2>1 DEF HoldsRow, Stored
<1>4. QED
  BY <1>2, <1>3 DEF FindMessage, KindOfRow

(* What a run creates is the row of its event, with the kind it found out.  *)
LEMMA CreatedInHand ==
  ASSUME IInv, NEW w \in Intakes, CreateMessage(w)
  PROVE  HoldsRow(w)' /\ \A v \in Intakes \ {w} : intake'[v] = intake[v]
<1> DEFINE row == [event |-> TheEvent(w), kind |-> intake[w].kind]
           n == Len(messages) + 1
<1>1. TheEvent(w) \in Events /\ intake \in [Intakes -> Intake]
  BY DEF CreateMessage, IInv, JobInv, RunsHaveJobs, Busy, AtStep, TypeOK, IntakeTypeOK
<1>2. row \in [event : Events, kind : Kinds] /\ row.event = TheEvent(w)
      /\ row.kind = intake[w].kind
  BY <1>1 DEF Intake
<1>3. messages' = Append(messages, row) /\ messages \in Seq([event : Events, kind : Kinds])
  BY DEF CreateMessage, IInv, TypeOK, IntakeTypeOK
<1>4. intake' = [intake EXCEPT ![w].at = "state", ![w].msg = n]
  BY DEF CreateMessage
<1> HIDE DEF row
<1>5. n \in 1..Len(messages') /\ messages'[n] = row
  BY <1>2, <1>3, AppendProperties, LenProperties
<1> HIDE DEF n
<1>6. /\ intake'[w].at = "state" /\ intake'[w].msg = n
      /\ intake'[w].kind = intake[w].kind /\ TheEvent(w)' = TheEvent(w)
  BY <1>1, <1>4 DEF Intake, TheEvent
<1>7. HoldsRow(w)'
  BY <1>2, <1>5, <1>6 DEF HoldsRow, AtTheList
<1>8. QED
  BY <1>1, <1>4, <1>7

(* Whatever a run of the intake does, it holds the row it works on.         *)
LEMMA RunHoldsRow ==
  ASSUME IInv, RowsGrow, NEW w \in Intakes, HoldsRow(w),
         IntakeStep(w) \/ IntakeThrows(w)
  PROVE  HoldsRow(w)' /\ \A v \in Intakes \ {w} : intake'[v] = intake[v]
<1>1. IntakeTypeOK /\ intake \in [Intakes -> Intake]
  BY DEF IInv, TypeOK, IntakeTypeOK
<1>2. ASSUME NEW pc, Step(w, pc), intake[w].at \in Stored,
             pc \in AtTheList => intake[w].kind = "user_text"
      PROVE  HoldsRow(w)' /\ \A v \in Intakes \ {w} : intake'[v] = intake[v]
  BY <1>1, <1>2, StepInHand DEF Step
<1>3. ASSUME intake' = [intake EXCEPT ![w] = IdleIntake]
      PROVE  HoldsRow(w)' /\ \A v \in Intakes \ {w} : intake'[v] = intake[v]
  BY <1>1, <1>3 DEF HoldsRow, Stored, IdleIntake
<1>4. ASSUME NEW e \in Events, FetchEvent(w, e)
      PROVE  HoldsRow(w)' /\ \A v \in Intakes \ {w} : intake'[v] = intake[v]
  <2>1. intake'[w].at = "find" /\ \A v \in Intakes \ {w} : intake'[v] = intake[v]
    BY <1>1, <1>4 DEF FetchEvent, Intake
  <2>2. QED
    BY <2>1 DEF HoldsRow, Stored
<1>5. CASE TouchState(w) \/ CreateState(w)
  <2>1. intake[w].at \in Stored /\ \E pc \in {"filter", "newstate"} : Step(w, pc)
    BY <1>5 DEF TouchState, CreateState, AtStep, Stored, Places
  <2>2. QED
    BY <1>2, <2>1 DEF AtTheList
<1>6. CASE Filter(w)
  <2>1. /\ intake[w].at \in Stored
        /\ Step(w, "mark") \/ (Step(w, "push") /\ intake[w].kind = "user_text")
    BY <1>6 DEF Filter, AtStep, Stored, Places
  <2>2. QED
    BY <1>2, <2>1 DEF AtTheList
<1>7. CASE AppendToBurst(w)
  <2>1. /\ intake[w].at \in Stored /\ intake[w].at \in AtTheList
        /\ \E pc : Step(w, pc)
    BY <1>7 DEF AppendToBurst, AtStep, Stored, Places, AtTheList
  <2>2. intake[w].kind = "user_text"
    BY <2>1 DEF HoldsRow
  <2>3. QED
    BY <1>2, <2>1, <2>2
<1>8. CASE MarkProcessed(w) \/ StateRefused(w) \/ IntakeThrows(w)
  BY <1>3, <1>8 DEF MarkProcessed, StateRefused, IntakeThrows, RunThrows
<1>9. CASE FindMessage(w, LiveBodies)
  BY <1>1, <1>9, FoundInHand
<1>10. CASE CreateMessage(w)
  BY <1>10, CreatedInHand
<1>11. QED
  BY <1>4, <1>5, <1>6, <1>7, <1>8, <1>9, <1>10 DEF IntakeStep, IntakeProgress

(* All of them hold theirs. *)
LEMMA RunsHoldRows ==
  ASSUME IInv, [Next]_vars, \A w \in Intakes : HoldsRow(w)
  PROVE  \A w \in Intakes : HoldsRow(w)'
<1>1. RowsGrow
  BY RowsOnlyGrow
<1>2. ASSUME intake' = intake
      PROVE  \A w \in Intakes : HoldsRow(w)'
  BY <1>1, <1>2, RunStays
<1>3. ASSUME NEW w \in Intakes, IntakeStep(w) \/ IntakeThrows(w)
      PROVE  \A v \in Intakes : HoldsRow(v)'
  BY <1>1, <1>3, RunHoldsRow, RunStays
<1>4. ASSUME NEW w \in Intakes, IntakeStalls(w)
      PROVE  \A v \in Intakes : HoldsRow(v)'
  <2>1. \A v \in Intakes : /\ intake'[v].at = intake[v].at /\ intake'[v].event = intake[v].event
                             /\ intake'[v].msg = intake[v].msg
                             /\ intake'[v].kind = intake[v].kind
    BY <1>4 DEF IntakeStalls, IInv, TypeOK, IntakeTypeOK, Intake
  <2>2. ASSUME NEW v \in Intakes, intake[v].at \in Stored
        PROVE  HoldsRow(v)'
    <3>1. intake[v].at \in AtTheList => intake[v].kind = "user_text"
      BY <2>2 DEF HoldsRow
    <3>2. QED
      BY <1>1, <2>1, <2>2, <3>1, RowStaysInHand DEF TheEvent
  <2>3. QED
    BY <2>1, <2>2 DEF HoldsRow
<1>5. CASE ServerRestart
  <2>1. \A w \in Intakes : intake'[w].at = "idle"
    BY <1>5 DEF ServerRestart, IntakeRestart, IdleIntake
  <2>2. QED
    BY <2>1 DEF HoldsRow, Stored
<1>6. QED
  BY <1>2, <1>3, <1>4, <1>5, WhoMoves

-----------------------------------------------------------------------------
(* A flush run whose hand, list and takings stay within what was collected  *)
(* collects nothing new.                                                    *)
LEMMA CollectedKept ==
  ASSUME NEW s \in Slots, \A r \in Slots \ {s} : flush'[r] = flush[r],
         flush'[s].ids \subseteq Collected, burst' \subseteq Collected,
         taken' \subseteq Collected
  PROVE  Collected' \subseteq Collected
<1>1. \A r \in Slots : flush'[r].ids \subseteq Collected
  <2>1. \A r \in Slots : flush[r].ids \subseteq Collected
    BY DEF Collected
  <2>2. QED
    BY <2>1
<1>2. QED
  BY <1>1 DEF Collected

(* No flush run does: it only moves ids from one to the other.              *)
LEMMA FlushCollectsNothing ==
  ASSUME IInv, NEW s \in Slots, FlushProgress(s) \/ ReplyProgress(s) \/ FlushThrows(s) \/ ReplyThrows(s)
  PROVE  Collected' \subseteq Collected
<1>1. BurstTypeOK /\ flush \in [Slots -> Flush]
  BY DEF IInv, TypeOK, BurstTypeOK
<1>2. burst \subseteq Collected /\ taken \subseteq Collected /\ flush[s].ids \subseteq Collected
  BY DEF Collected
<1>3. NoRun.ids = {}
  BY DEF NoRun
<1>4. ASSUME EndRun(s), UNCHANGED <<burst, taken>>
      PROVE  Collected' \subseteq Collected
  BY <1>1, <1>2, <1>3, <1>4, RunOver, CollectedKept
<1>5. ASSUME NEW pc \in {"idle"} \cup BeforeLock \cup UnderLock, GoOn(s, pc),
             burst' \subseteq Collected, taken' \subseteq Collected
      PROVE  Collected' \subseteq Collected
  BY <1>1, <1>2, <1>5, GoesOn, CollectedKept
<1>6. CASE StartFlush(s)
  <2>1. flush'[s].ids = flush[s].ids /\ \A r \in Slots \ {s} : flush'[r] = flush[r]
    BY <1>1, <1>6 DEF StartFlush, Flush
  <2>2. QED
    BY <1>2, <1>6, <2>1, CollectedKept DEF StartFlush
<1>7. CASE ReadList(s)
  <2>1. UNCHANGED <<burst, taken>>
    BY <1>7 DEF ReadList
  <2>2. CASE NothingCollected
    BY <1>4, <1>7, <2>1, <2>2 DEF ReadList
  <2>3. CASE ~NothingCollected
    BY <1>1, <1>2, <1>7, <2>1, <2>3, RunReads, CollectedKept
  <2>4. QED
    BY <2>2, <2>3
<1>8. CASE DeleteList(s)
  BY <1>2, <1>5, <1>8 DEF DeleteList, BeforeLock
<1>9. CASE TakeLock(s)
  BY <1>2, <1>5, <1>9 DEF TakeLock, UnderLock
<1>10. CASE LockBusy(s)
  BY <1>2, <1>5, <1>10 DEF LockBusy, BeforeLock
<1>11. CASE PushBack(s)
  <2>1. PICK m \in flush[s].ids : /\ burst' = burst \cup {m}
                                  /\ flush' = [flush EXCEPT ![s].ids = @ \ {m}]
    BY <1>11 DEF PushBack
  <2>2. flush'[s].ids = flush[s].ids \ {m} /\ \A r \in Slots \ {s} : flush'[r] = flush[r]
    BY <1>1, <2>1 DEF Flush
  <2>3. QED
    BY <1>2, <1>11, <2>1, <2>2, CollectedKept DEF PushBack
<1>12. CASE AddRetry(s) \/ ReleaseLock(s) \/ FlushThrows(s)
  BY <1>4, <1>12 DEF AddRetry, ReleaseLock, FlushThrows
<1>13. CASE ReplyProgress(s) \/ ReplyThrows(s)
  <2>1. UNCHANGED <<burst, taken>>
    BY <1>13 DEF ReplyProgress, Decide, Generate, CreateOutbound, CompleteTrace, QueueReply,
                 ReplyThrows
  <2>2. flush'[s].ids = flush[s].ids /\ \A r \in Slots \ {s} : flush'[r] = flush[r]
    BY <1>1, <1>13
       DEF ReplyProgress, Decide, Generate, CreateOutbound, CompleteTrace, QueueReply,
           ReplyThrows, GoOn, Flush
  <2>3. QED
    BY <1>2, <2>1, <2>2, CollectedKept
<1>14. QED
  BY <1>6, <1>7, <1>8, <1>9, <1>10, <1>11, <1>12, <1>13 DEF FlushProgress

PushesRow(w) ==
    /\ AtStep(w, "push")
    /\ Step(w, "unschedule")
    /\ Collected' = Collected \cup {intake[w].msg}

(* What comes to be collected is pushed by a run of the intake.             *)
LEMMA WhatIsCollected ==
  ASSUME IInv, [Next]_vars
  PROVE  Collected' \subseteq Collected \/ \E w \in Intakes : IntakeStep(w) /\ PushesRow(w)
<1>1. ASSUME UNCHANGED <<burst, taken, flush>>
      PROVE  Collected' \subseteq Collected
  BY <1>1 DEF Collected
<1>2. ASSUME NEW e \in Events, Reporting(e) \/ Enqueuing(e)
      PROVE  Collected' \subseteq Collected
  BY <1>1, <1>2 DEF Reporting, Enqueuing, burstVars
<1>3. ASSUME NEW w \in Intakes, IntakeStep(w)
      PROVE  Collected' \subseteq Collected \/ PushesRow(w)
  <2>1. CASE UNCHANGED burstVars
    BY <1>1, <2>1 DEF burstVars
  <2>2. CASE AppendToBurst(w) /\ UNCHANGED <<flush, taken>>
    <3>1. CASE burst' = burst
      BY <1>1, <2>2, <3>1
    <3>2. CASE AtStep(w, "push") /\ PushId(intake[w].msg) /\ Step(w, "unschedule")
      BY <2>2, <3>2 DEF PushesRow, PushId, Collected
    <3>3. QED
      BY <2>2, <3>1, <3>2 DEF AppendToBurst
  <2>3. QED
    BY <1>3, <2>1, <2>2 DEF IntakeStep
<1>4. ASSUME NEW s \in Slots, FlushStep(s)
      PROVE  Collected' \subseteq Collected
  BY <1>4, FlushCollectsNothing DEF FlushStep
<1>5. CASE Expiring \/ Requeuing \/ SendFailing \/ Ageing
  BY <1>1, <1>5 DEF Expiring, Requeuing, OrphanExpires, RequeueStalled, SendFailing, SendFails,
                    Ageing, burstVars
<1>6. CASE Throwing
  BY <1>1, <1>6, FlushCollectsNothing DEF Throwing, burstVars
<1>7. CASE RunningOut
  <2>1. CASE ListExpires
    BY <2>1 DEF ListExpires, Collected
  <2>2. ASSUME NEW s \in Slots, SlowReply(s)
        PROVE  Collected' \subseteq Collected
    <3>1. flush'[s].ids = flush[s].ids /\ \A r \in Slots \ {s} : flush'[r] = flush[r]
      BY <2>2 DEF SlowReply, IInv, TypeOK, BurstTypeOK, Flush
    <3>2. QED
      BY <2>2, <3>1, CollectedKept DEF SlowReply, Collected
  <2>3. QED
    BY <1>7, <2>1, <2>2 DEF RunningOut
<1>8. CASE ServerRestart
  <2>1. \A s \in Slots : flush'[s].ids = {}
    BY <1>8 DEF ServerRestart, BurstRestart, NoRun
  <2>2. QED
    BY <1>8, <2>1 DEF ServerRestart, BurstRestart, Collected
<1>9. CASE UNCHANGED vars
  BY <1>1, <1>9 DEF vars, burstVars
<1>10. CASE Stalling
  <2>1. ASSUME NEW s \in Slots, FlushStalls(s)
        PROVE  Collected' \subseteq Collected
    <3>1. \A r \in Slots : flush'[r].ids = flush[r].ids
      BY <2>1, FlushStallsTypes DEF IInv, TypeOK
    <3>2. QED
      BY <2>1, <3>1 DEF FlushStalls, Collected
  <2>2. QED
    BY <1>1, <1>10, <2>1 DEF Stalling, burstVars
<1>11. QED
  BY <1>2, <1>3, <1>4, <1>5, <1>6, <1>7, <1>8, <1>9, <1>10 DEF Next

(* Every reachable state satisfies the invariant.                           *)
LEMMA CollectInductive == Spec => []CollectInv
<1>1. Init => CollectInv
  <2>1. ASSUME Init
        PROVE  /\ \A w \in Intakes : intake[w].at = "idle"
               /\ burst = {} /\ taken = {} /\ \A s \in Slots : flush[s].ids = {}
    BY <2>1 DEF Init, IntakeInit, IdleIntake, BurstInit, NoRun
  <2>2. QED
    BY <2>1 DEF CollectInv, HoldsRow, Stored, OnlyUserTextIsCollected, Collected
<1>2. IInv /\ CollectInv /\ [Next]_vars => CollectInv'
  <2> SUFFICES ASSUME IInv, CollectInv, [Next]_vars PROVE CollectInv'
    OBVIOUS
  <2>1. RowsGrow /\ \A w \in Intakes : HoldsRow(w)'
    BY RowsOnlyGrow, RunsHoldRows DEF CollectInv
  <2>2. \A m \in Collected : m \in 1..Len(messages') /\ messages'[m].kind = "user_text"
    BY <2>1 DEF CollectInv, OnlyUserTextIsCollected, RowsGrow
  <2>3. ASSUME NEW w \in Intakes, PushesRow(w)
        PROVE  intake[w].msg \in 1..Len(messages') /\ messages'[intake[w].msg].kind = "user_text"
    <3>1. intake[w].at \in Stored /\ intake[w].at \in AtTheList
      BY <2>3 DEF PushesRow, AtStep, Stored, Places, AtTheList
    <3>2. /\ intake[w].msg \in 1..Len(messages)
          /\ messages[intake[w].msg].kind = "user_text"
      BY <3>1 DEF CollectInv, HoldsRow
    <3>3. QED
      BY <2>1, <3>2 DEF RowsGrow
  <2>4. OnlyUserTextIsCollected'
    BY <2>2, <2>3, WhatIsCollected DEF OnlyUserTextIsCollected, PushesRow
  <2>5. QED
    BY <2>1, <2>4 DEF CollectInv
<1>3. QED
  BY <1>1, <1>2, Inductive, PTL DEF Spec

(* What is collected for an answer are rows, and rows stored as a user's    *)
(* text: a retried job goes by the kind that its first attempt wrote        *)
(* (persistInboundMessage, effectiveSemanticKind).                          *)
THEOREM OnlyUserTextIsCollectedHolds == Spec => []OnlyUserTextIsCollected
<1>1. CollectInv => OnlyUserTextIsCollected
  BY DEF CollectInv
<1>2. QED
  BY <1>1, CollectInductive, PTL

-----------------------------------------------------------------------------
(* Nothing is taken twice.  On the side of the intake: the event of what is *)
(* collected is done with, or its run is past the push.                     *)
PastPush(w) == intake[w].at \in {"unschedule", "schedule", "mark"}

IsDone(e) == eventJob[e] = "completed" \/ \E w \in Intakes : TheEvent(w) = e /\ PastPush(w)

Done == {e \in Events : IsDone(e)}

CollectedIsDone == \A m \in Collected : messages[m].event \in Done

(* On the side of the burst: there is the run of the flush job, or none, and *)
(* nobody else wants the lock.                                              *)
Runs(s) == ~At(s, "idle")

OneFlush ==
    /\ retryJobs = 0 /\ lock # Gone
    /\ \A s \in Slots : Runs(s) => /\ flush[s].job = "main" /\ mainJob = "active"
                                   /\ ~At(s, "pushback")
    /\ \A r, s \in Slots : Runs(r) /\ Runs(s) => r = s
    /\ mainJob = "active" => \E s \in Slots : Runs(s)

(* What it has read, and what lies in the list, was not taken before; once  *)
(* the list is deleted, the run alone has what it read.                     *)
TakenApart ==
    /\ burst \cap taken = {}
    /\ \A s \in Slots : /\ flush[s].at \in {"delete", "lock"} => flush[s].ids \cap taken = {}
                        /\ At(s, "lock") => flush[s].ids \cap burst = {}

OnceInv == Undisturbed => CollectedIsDone /\ OneFlush /\ TakenApart

(* Faults are never forgotten, so an undisturbed step was none. *)
LEMMA WasUndisturbed ==
  ASSUME IInv, RowsInv, [Next]_vars, Undisturbed'
  PROVE  /\ Undisturbed
         /\ ~ServerRestart /\ ~Throwing /\ ~Stalling
         /\ \A w \in Intakes : ~IntakeThrows(w) /\ ~IntakeStalls(w)
         /\ \A s \in Slots : ~SlowReply(s)
         /\ \A w \in Intakes : Busy(w) => intake[w].owns
<1>1. \A kind : Fault(kind) => kind \in faults'
  BY DEF Fault
<1>2. {"intake_error", "flush_error", "outage", "stall", "restart", "slow"} \cap faults' = {}
  BY DEF Undisturbed
<1>3. ~Fault("intake_error") /\ ~Fault("flush_error") /\ ~Fault("outage") /\ ~Fault("stall")
      /\ ~Fault("restart") /\ ~Fault("slow")
  BY <1>1, <1>2
<1>4. /\ ~ServerRestart /\ \A e \in Events : ~EnqueueThrows(e)
      /\ \A w \in Intakes : ~IntakeThrows(w) /\ ~IntakeStalls(w)
      /\ \A s \in Slots : ~FlushThrows(s) /\ ~ReplyThrows(s) /\ ~FlushStalls(s)
      /\ \A s \in Slots : ~SlowReply(s)
  BY <1>3 DEF ServerRestart, EnqueueThrows, IntakeThrows, FlushThrows, ReplyThrows, SlowReply,
              IntakeStalls, FlushStalls
<1>5. Undisturbed
  BY FaultsGrow DEF Undisturbed
<1>6. \A w \in Intakes : Busy(w) => intake[w].owns
  BY <1>5 DEF RowsInv, OwnersInv, Lost, Undisturbed
<1>7. QED
  BY <1>4, <1>5, <1>6 DEF Throwing, Stalling

-----------------------------------------------------------------------------
(* An event that is done with stays so: no other run has its job, and the   *)
(* run that pushed it does not fail.                                        *)
LEMMA DoneStays ==
  ASSUME IInv, RowsInv, [Next]_vars, Undisturbed', NEW e \in Events, IsDone(e)
  PROVE  IsDone(e)'
<1>1. IntakeTypeOK /\ JobInv /\ intake \in [Intakes -> Intake]
      /\ eventJob \in [Events -> {"absent", "waiting", "active", "completed", "failed"}]
  BY DEF IInv, TypeOK, IntakeTypeOK
<1>2. /\ ~ServerRestart /\ ~Throwing /\ ~Stalling
      /\ \A w \in Intakes : ~IntakeThrows(w) /\ (Busy(w) => intake[w].owns)
  BY WasUndisturbed
<1>3. ASSUME eventJob' = eventJob, intake' = intake
      PROVE  IsDone(e)'
  BY <1>3 DEF IsDone, PastPush, TheEvent
<1>4. \A w \in Intakes : PastPush(w) => /\ TheEvent(w) \in Events
                                        /\ eventJob[TheEvent(w)] = "active"
  BY <1>1, <1>2 DEF PastPush, JobInv, RunsHaveJobs, Busy, AtStep
<1>5. eventJob[e] \in {"active", "completed"}
  BY <1>4 DEF IsDone
<1>6. \A w \in Intakes : Busy(w) /\ TheEvent(w) = e => PastPush(w)
  <2> SUFFICES ASSUME NEW w \in Intakes, Busy(w), TheEvent(w) = e PROVE PastPush(w)
    OBVIOUS
  <2>1. eventJob[e] = "active"
    BY <1>1, <1>2 DEF JobInv, RunsHaveJobs
  <2>2. PICK v \in Intakes : TheEvent(v) = e /\ PastPush(v)
    BY <2>1 DEF IsDone
  <2>3. Busy(v)
    BY <2>2 DEF Busy, AtStep, PastPush
  <2>4. v = w
    BY <1>1, <1>2, <2>2, <2>3 DEF JobInv, RunsAreApart
  <2>5. QED
    BY <2>2, <2>4
<1>7. ASSUME NEW d \in Events, Reporting(d) \/ Enqueuing(d)
      PROVE  IsDone(e)'
  <2>1. CASE Report(d)
    BY <1>3, <2>1 DEF Report
  <2>2. CASE Enqueue(d)
    <3>1. eventJob[d] = "absent"
      BY <1>1, <2>2 DEF Enqueue, JobInv, JobFollowsRow
    <3>2. eventJob'[e] = eventJob[e] /\ intake' = intake
      BY <1>1, <1>5, <2>2, <3>1 DEF Enqueue
    <3>3. QED
      BY <3>2 DEF IsDone, PastPush, TheEvent
  <2>3. QED
    BY <1>7, <2>1, <2>2 DEF Reporting, Enqueuing
<1>8. ASSUME NEW w \in Intakes, eventJob'[e] = eventJob[e],
             \A v \in Intakes \ {w} : intake'[v] = intake[v],
             TheEvent(w) = e /\ PastPush(w) => (TheEvent(w) = e /\ PastPush(w))'
      PROVE  IsDone(e)'
  BY <1>8 DEF IsDone, PastPush, TheEvent
<1>9. ASSUME NEW w \in Intakes, NEW pc, Step(w, pc), eventJob' = eventJob,
             PastPush(w) => pc \in {"unschedule", "schedule", "mark"}
      PROVE  IsDone(e)'
  <2>1. /\ intake'[w].at = pc /\ TheEvent(w)' = TheEvent(w)
        /\ \A v \in Intakes \ {w} : intake'[v] = intake[v]
    BY <1>1, <1>9 DEF Step, Intake, TheEvent
  <2>2. QED
    BY <1>8, <1>9, <2>1 DEF PastPush
<1>10. ASSUME NEW w \in Intakes, IntakeStep(w)
       PROVE  IsDone(e)'
  <2>1. ASSUME NEW d \in Events, FetchEvent(w, d)
        PROVE  IsDone(e)'
    <3>1. d # e /\ ~PastPush(w)
      BY <1>5, <2>1 DEF FetchEvent, IdleIntake, PastPush
    <3>2. /\ eventJob'[e] = eventJob[e]
          /\ \A v \in Intakes \ {w} : intake'[v] = intake[v]
      BY <1>1, <2>1, <3>1 DEF FetchEvent
    <3>3. QED
      BY <1>8, <3>1, <3>2
  <2>2. CASE FindMessage(w, LiveBodies) \/ CreateMessage(w)
    <3>1. ~PastPush(w) /\ eventJob' = eventJob
      BY <2>2 DEF FindMessage, CreateMessage, AtStep, PastPush
    <3>2. \A v \in Intakes \ {w} : intake'[v] = intake[v]
      BY <1>1, <2>2 DEF FindMessage, CreateMessage
    <3>3. QED
      BY <1>8, <3>1, <3>2
  <2>3. CASE TouchState(w) \/ CreateState(w) \/ Filter(w)
    <3>1. ~PastPush(w) /\ eventJob' = eventJob /\ \E pc : Step(w, pc)
      BY <2>3 DEF TouchState, CreateState, Filter, AtStep, PastPush
    <3>2. QED
      BY <1>9, <3>1
  <2>4. CASE AppendToBurst(w)
    <3>1. eventJob' = eventJob /\ \E pc \in {"unschedule", "schedule", "mark"} : Step(w, pc)
      BY <2>4 DEF AppendToBurst
    <3>2. QED
      BY <1>9, <3>1
  <2>5. CASE MarkProcessed(w)
    <3>1. TheEvent(w) \in Events /\ intake[w].owns
      BY <1>1, <1>2, <2>5 DEF MarkProcessed, AtStep, JobInv, RunsHaveJobs, Busy
    <3>2. CASE TheEvent(w) = e
      BY <1>1, <2>5, <3>1, <3>2 DEF MarkProcessed, HandBack, IsDone
    <3>3. CASE TheEvent(w) # e
      <4>1. /\ eventJob'[e] = eventJob[e]
            /\ \A v \in Intakes \ {w} : intake'[v] = intake[v]
        BY <1>1, <2>5, <3>1, <3>3 DEF MarkProcessed, HandBack
      <4>2. QED
        BY <1>8, <3>3, <4>1
    <3>4. QED
      BY <3>2, <3>3
  <2>6. CASE StateRefused(w)
    <3>1. Busy(w) /\ ~PastPush(w)
      BY <2>6 DEF StateRefused, AtStep, Busy, PastPush
    <3>2. TheEvent(w) # e
      BY <1>6, <3>1
    <3>3. /\ eventJob'[e] = eventJob[e]
          /\ \A v \in Intakes \ {w} : intake'[v] = intake[v]
      BY <1>1, <2>6, <3>2 DEF StateRefused, RunThrows, HandBack
    <3>4. QED
      BY <1>8, <3>1, <3>3
  <2>7. QED
    BY <1>10, <2>1, <2>2, <2>3, <2>4, <2>5, <2>6 DEF IntakeStep, IntakeProgress
<1>11. CASE UNCHANGED intakeVars
  BY <1>3, <1>11 DEF intakeVars
<1>12. QED
  BY <1>2, <1>7, <1>10, <1>11
     DEF Next, FlushStep, Expiring, Requeuing, SendFailing, RunningOut, Ageing, vars

(* A run that is about to push has a message that is not yet collected.     *)
LEMMA PushIsNew ==
  ASSUME IInv, CollectInv, CollectedIsDone, \A v \in Intakes : Busy(v) => intake[v].owns,
         NEW w \in Intakes, AtStep(w, "push")
  PROVE  intake[w].msg \notin Collected
<1> DEFINE m == intake[w].msg
<1>1. /\ messages[m].event = TheEvent(w) /\ Busy(w) /\ JobInv
  BY DEF CollectInv, HoldsRow, AtStep, Stored, Places, Busy, IInv
<1>2. SUFFICES ASSUME m \in Collected PROVE FALSE
  OBVIOUS
<1>3. eventJob[TheEvent(w)] = "active"
  BY <1>1 DEF JobInv, RunsHaveJobs
<1>4. PICK v \in Intakes : TheEvent(v) = TheEvent(w) /\ PastPush(v)
  BY <1>1, <1>2, <1>3 DEF CollectedIsDone, Done, IsDone
<1>5. Busy(v)
  BY <1>4 DEF Busy, AtStep, PastPush
<1>6. v = w
  BY <1>1, <1>4, <1>5 DEF JobInv, RunsAreApart
<1>7. QED
  BY <1>4, <1>6 DEF PastPush, AtStep

(* What is pushed is done with from then on, and what was stays so.         *)
LEMMA CollectedStaysDone ==
  ASSUME IInv, RowsInv, CollectInv, CollectedIsDone, [Next]_vars, Undisturbed'
  PROVE  CollectedIsDone'
<1>1. RowsGrow
  BY RowsOnlyGrow
<1>2. messages \in Seq([event : Events, kind : Kinds]) /\ intake \in [Intakes -> Intake]
  BY DEF IInv, TypeOK, IntakeTypeOK
<1>3. \A m \in 1..Len(messages) : messages'[m] = messages[m]
  BY <1>1 DEF RowsGrow
<1>4. Done \subseteq Done'
  BY DoneStays DEF Done
<1>5. ASSUME NEW m \in Collected
      PROVE  messages'[m].event \in Done'
  BY <1>3, <1>4 DEF CollectInv, OnlyUserTextIsCollected, CollectedIsDone
<1>6. ASSUME NEW w \in Intakes, PushesRow(w)
      PROVE  messages'[intake[w].msg].event \in Done'
  <2>1. /\ intake[w].msg \in 1..Len(messages)
        /\ messages[intake[w].msg].event = TheEvent(w)
        /\ TheEvent(w) \in Events
    BY <1>6 DEF CollectInv, HoldsRow, PushesRow, AtStep, Stored, Places, IInv, JobInv,
                RunsHaveJobs, Busy
  <2>2. messages'[intake[w].msg].event = TheEvent(w)
    BY <1>3, <2>1
  <2>3. intake'[w].at = "unschedule" /\ intake'[w].event = TheEvent(w)
    BY <1>2, <1>6 DEF PushesRow, Step, Intake, TheEvent
  <2>4. TheEvent(w) \in Done'
    BY <2>1, <2>3 DEF Done, IsDone, PastPush, TheEvent
  <2>5. QED
    BY <2>2, <2>4
<1>7. QED
  BY <1>5, <1>6, WhatIsCollected DEF CollectedIsDone, PushesRow

-----------------------------------------------------------------------------
(* The one run of the flush goes on to its next statement.                  *)
LEMMA OneGoesOn ==
  ASSUME OneFlush, TakenApart, NEW s \in Slots, Runs(s),
         \A r \in Slots \ {s} : flush'[r] = flush[r],
         flush'[s].at \notin {"idle", "pushback"}, flush'[s].job = flush[s].job,
         UNCHANGED <<mainJob, retryJobs>>, lock' # Gone,
         burst' \cap taken' = {},
         flush'[s].at \in {"delete", "lock"} => flush'[s].ids \cap taken' = {},
         flush'[s].at = "lock" => flush'[s].ids \cap burst' = {}
  PROVE  OneFlush' /\ TakenApart'
<1>1. \A r \in Slots \ {s} : ~Runs(r) /\ ~Runs(r)' /\ flush'[r].at = "idle"
  BY DEF OneFlush, Runs, At
<1>2. Runs(s)'
  BY DEF Runs, At
<1>3. OneFlush'
  BY <1>1, <1>2 DEF OneFlush, Runs, At
<1>4. TakenApart'
  BY <1>1 DEF TakenApart, At
<1>5. QED
  BY <1>3, <1>4

(* The one run of the flush ends. *)
LEMMA OneEnds ==
  ASSUME BurstTypeOK, OneFlush, TakenApart, NEW s \in Slots, Runs(s), EndRun(s),
         UNCHANGED <<burst, retryJobs, taken>>, lock' # Gone
  PROVE  OneFlush' /\ TakenApart'
<1>1. \A r \in Slots : flush'[r].at = "idle"
  BY RunOver DEF OneFlush, Runs, At
<1>2. mainJob' = "finished"
  BY DEF EndRun, OneFlush
<1>3. OneFlush'
  BY <1>1, <1>2 DEF OneFlush, Runs, At
<1>4. TakenApart'
  BY <1>1 DEF TakenApart, At
<1>5. QED
  BY <1>3, <1>4

(* It comes with the flush job, reads, deletes and takes a free lock, and   *)
(* never finds it busy.                                                     *)
LEMMA OneFlushStep ==
  ASSUME BurstTypeOK, LeaseInv, OneFlush, TakenApart, NEW s \in Slots, FlushProgress(s)
  PROVE  OneFlush' /\ TakenApart'
<1>1. flush \in [Slots -> Flush] /\ lock \in Slots \cup {NoHolder, Gone}
  BY DEF BurstTypeOK
<1>2. CASE StartFlush(s)
  <2>1. flush[s].at = "idle"
    BY <1>2 DEF StartFlush, NoRun
  <2>2. /\ mainJob = "delayed" /\ mainJob' = "active" /\ UNCHANGED <<retryJobs, burst, lock, taken>>
        /\ flush' = [flush EXCEPT ![s].at = "read", ![s].job = "main"]
    BY <1>2 DEF StartFlush, OneFlush
  <2>3. /\ flush'[s].at = "read" /\ flush'[s].job = "main"
        /\ \A r \in Slots \ {s} : flush'[r] = flush[r]
    BY <1>1, <2>2 DEF Flush
  <2>4. \A r \in Slots : flush[r].at = "idle"
    BY <2>2 DEF OneFlush, Runs, At
  <2>5. OneFlush'
    BY <2>2, <2>3, <2>4 DEF OneFlush, Runs, At
  <2>6. TakenApart'
    BY <2>2, <2>3, <2>4 DEF TakenApart, At
  <2>7. QED
    BY <2>5, <2>6
<1>3. CASE ReadList(s)
  <2>1. Runs(s) /\ UNCHANGED <<burst, retryJobs, lock, taken>> /\ lock' # Gone
    BY <1>3 DEF ReadList, At, Runs, OneFlush
  <2>2. CASE NothingCollected
    BY <1>3, <2>1, <2>2, OneEnds DEF ReadList
  <2>3. CASE ~NothingCollected
    <3>1. /\ flush' = [flush EXCEPT ![s].at = "delete", ![s].ids = burst]
          /\ mainJob' = mainJob
      BY <1>3, <2>3 DEF ReadList
    <3>2. /\ flush'[s].at = "delete" /\ flush'[s].ids = burst
          /\ flush'[s].job = flush[s].job
          /\ \A r \in Slots \ {s} : flush'[r] = flush[r]
      BY <1>1, <3>1 DEF Flush
    <3>3. burst \cap taken = {}
      BY DEF TakenApart
    <3>4. QED
      BY <2>1, <3>1, <3>2, <3>3, OneGoesOn
  <2>4. QED
    BY <2>2, <2>3
<1>4. CASE DeleteList(s)
  <2>1. /\ Runs(s) /\ flush[s].at = "delete" /\ burst' = {}
        /\ UNCHANGED <<mainJob, retryJobs, lock, taken>> /\ lock' # Gone
    BY <1>4 DEF DeleteList, At, Runs, OneFlush
  <2>2. /\ flush'[s].at = "lock" /\ flush'[s].ids = flush[s].ids
        /\ flush'[s].job = flush[s].job
        /\ \A r \in Slots \ {s} : flush'[r] = flush[r]
    BY <1>1, <1>4, GoesOn DEF DeleteList, BeforeLock
  <2>3. flush[s].ids \cap taken = {}
    BY <2>1 DEF TakenApart
  <2>4. QED
    BY <2>1, <2>2, <2>3, OneGoesOn
<1>5. CASE TakeLock(s)
  <2>1. /\ Runs(s) /\ flush[s].at = "lock" /\ lock' = s /\ taken' = taken \cup flush[s].ids
        /\ UNCHANGED <<burst, mainJob, retryJobs>> /\ lock' # Gone
    BY <1>5, BurstAssumption DEF TakeLock, At, Runs
  <2>2. /\ flush'[s].at = "decide" /\ flush'[s].job = flush[s].job
        /\ \A r \in Slots \ {s} : flush'[r] = flush[r]
    BY <1>1, <1>5, GoesOn DEF TakeLock, UnderLock
  <2>3. burst' \cap taken' = {}
    BY <2>1 DEF TakenApart, At
  <2>4. QED
    BY <2>1, <2>2, <2>3, OneGoesOn
<1>6. ~LockBusy(s)
  <2> SUFFICES ASSUME LockBusy(s) PROVE FALSE
    OBVIOUS
  <2>1. flush[s].at = "lock" /\ lock \in Slots
    BY <1>1 DEF LockBusy, LockFree, At, OneFlush
  <2>2. PICK r \in Slots : r = lock
    BY <2>1
  <2>3. flush[r].at \in UnderLock
    BY <2>2 DEF LeaseInv, LeaseOf, Answering
  <2>4. r = s
    BY <2>1, <2>3 DEF OneFlush, Runs, At, UnderLock
  <2>5. QED
    BY <2>1, <2>3, <2>4 DEF UnderLock
<1>7. ~PushBack(s) /\ ~AddRetry(s)
  BY DEF PushBack, AddRetry, OneFlush, Runs, At
<1>8. CASE ReleaseLock(s)
  <2>1. Runs(s) /\ EndRun(s) /\ UNCHANGED <<burst, retryJobs, taken>>
    BY <1>8 DEF ReleaseLock, Runs, At
  <2>2. lock' # Gone
    BY <1>8, BurstAssumption DEF ReleaseLock, AfterRelease, OneFlush
  <2>3. QED
    BY <2>1, <2>2, OneEnds
<1>9. QED
  BY <1>2, <1>3, <1>4, <1>5, <1>6, <1>7, <1>8 DEF FlushProgress

(* Under the lock, what it has taken is of no more concern.                 *)
LEMMA OneReplyStep ==
  ASSUME BurstTypeOK, OneFlush, TakenApart, NEW s \in Slots, ReplyProgress(s)
  PROVE  OneFlush' /\ TakenApart'
<1>1. flush \in [Slots -> Flush]
  BY DEF BurstTypeOK
<1>2. /\ Runs(s) /\ UNCHANGED <<burst, mainJob, retryJobs, lock, taken>> /\ lock' # Gone
      /\ burst' \cap taken' = {}
  BY DEF ReplyProgress, Decide, Generate, CreateOutbound, CompleteTrace, QueueReply, Runs, At,
         OneFlush, TakenApart
<1>3. /\ flush'[s].at \in UnderLock /\ flush'[s].job = flush[s].job
      /\ \A r \in Slots \ {s} : flush'[r] = flush[r]
  <2>1. ASSUME NEW pc \in UnderLock, GoOn(s, pc)
        PROVE  /\ flush'[s].at \in UnderLock /\ flush'[s].job = flush[s].job
               /\ \A r \in Slots \ {s} : flush'[r] = flush[r]
    BY <1>1, <2>1, GoesOn
  <2>2. CASE Decide(s)
    <3>1. CASE GoOn(s, "release")
      BY <2>1, <3>1 DEF UnderLock
    <3>2. CASE flush' = [flush EXCEPT ![s].at = "generate", ![s].trace = Len(traces) + 1]
      BY <1>1, <3>2 DEF Flush, UnderLock
    <3>3. QED
      BY <2>2, <3>1, <3>2 DEF Decide
  <2>3. CASE Generate(s)
    <3>1. CASE GoOn(s, "release")
      BY <2>1, <3>1 DEF UnderLock
    <3>2. ASSUME NEW b, flush' = [flush EXCEPT ![s].at = "outbound", ![s].body = b]
          PROVE  /\ flush'[s].at \in UnderLock /\ flush'[s].job = flush[s].job
                 /\ \A r \in Slots \ {s} : flush'[r] = flush[r]
      BY <1>1, <3>2 DEF Flush, UnderLock
    <3>3. QED
      BY <2>3, <3>1, <3>2 DEF Generate
  <2>4. CASE CreateOutbound(s)
    BY <1>1, <2>4 DEF CreateOutbound, Flush, UnderLock
  <2>5. CASE CompleteTrace(s) \/ QueueReply(s)
    BY <2>1, <2>5 DEF CompleteTrace, QueueReply, UnderLock
  <2>6. QED
    BY <2>2, <2>3, <2>4, <2>5 DEF ReplyProgress
<1>4. QED
  BY <1>2, <1>3, OneGoesOn DEF UnderLock

(* A push adds what nobody has, and neither of the other two commands makes *)
(* an active job another.                                                   *)
LEMMA PushKeepsApart ==
  ASSUME IInv, CollectInv, CollectedIsDone, OneFlush, TakenApart,
         \A v \in Intakes : Busy(v) => intake[v].owns, NEW w \in Intakes, AppendToBurst(w),
         UNCHANGED <<retryJobs, lock, flush, taken>>
  PROVE  OneFlush' /\ TakenApart'
<1>1. mainJob' = "active" <=> mainJob = "active"
  BY DEF AppendToBurst, RemoveFlushJob, AddFlushJob
<1>2. OneFlush'
  BY <1>1 DEF OneFlush, Runs, At
<1>3. CASE burst' = burst
  BY <1>2, <1>3 DEF TakenApart, At
<1>4. CASE AtStep(w, "push") /\ PushId(intake[w].msg)
  <2>1. burst' = burst \cup {intake[w].msg} /\ intake[w].msg \notin Collected
    BY <1>4, PushIsNew DEF PushId
  <2>2. intake[w].msg \notin taken /\ \A s \in Slots : intake[w].msg \notin flush[s].ids
    BY <2>1 DEF Collected
  <2>3. QED
    BY <1>2, <2>1, <2>2 DEF TakenApart, At
<1>5. TakenApart'
  BY <1>3, <1>4 DEF AppendToBurst
<1>6. QED
  BY <1>2, <1>5

(* Every step of the reply path keeps the three, unless it disturbs.        *)
LEMMA NextOnce ==
  ASSUME IInv, LeaseInv, RowsInv, CollectInv, OnceInv, [Next]_vars
  PROVE  OnceInv'
<1> SUFFICES ASSUME Undisturbed' PROVE CollectedIsDone' /\ OneFlush' /\ TakenApart'
  BY DEF OnceInv
<1>1. /\ ~ServerRestart /\ ~Throwing /\ ~Stalling /\ \A s \in Slots : ~SlowReply(s)
      /\ \A w \in Intakes : Busy(w) => intake[w].owns
  BY WasUndisturbed
<1>2. BurstTypeOK /\ CollectedIsDone /\ OneFlush /\ TakenApart
  BY WasUndisturbed DEF OnceInv, IInv, TypeOK
<1>3. CollectedIsDone'
  BY <1>2, CollectedStaysDone
<1>4. ASSUME UNCHANGED burstVars
      PROVE  OneFlush' /\ TakenApart'
  BY <1>2, <1>4 DEF burstVars, OneFlush, TakenApart, Runs, At
<1>5. ASSUME NEW e \in Events, Reporting(e) \/ Enqueuing(e)
      PROVE  OneFlush' /\ TakenApart'
  BY <1>4, <1>5 DEF Reporting, Enqueuing
<1>6. ASSUME NEW w \in Intakes, IntakeStep(w)
      PROVE  OneFlush' /\ TakenApart'
  BY <1>1, <1>2, <1>4, <1>6, PushKeepsApart DEF IntakeStep
<1>7. ASSUME NEW s \in Slots, FlushStep(s)
      PROVE  OneFlush' /\ TakenApart'
  BY <1>2, <1>7, OneFlushStep, OneReplyStep DEF FlushStep
<1>8. ~Expiring /\ ~Requeuing
  BY <1>2 DEF Expiring, OrphanExpires, Requeuing, RequeueStalled, OneFlush
<1>9. CASE SendFailing \/ Ageing \/ UNCHANGED vars
  BY <1>3, <1>4, <1>9 DEF SendFailing, SendFails, Ageing, vars
<1>10. CASE RunningOut
  <2>1. ListExpires
    BY <1>1, <1>10 DEF RunningOut
  <2>2. QED
    BY <1>2, <1>3, <2>1 DEF ListExpires, OneFlush, TakenApart, Runs, At
<1>11. QED
  BY <1>1, <1>3, <1>5, <1>6, <1>7, <1>8, <1>9, <1>10 DEF Next

(* While no lock was left behind, no statement threw, no job was handed out  *)
(* twice, no reply was slow and no process died, no message is taken on by   *)
(* two runs (processGroupBurstFlush, appendAndScheduleGroupBurst).          *)
THEOREM NothingIsTakenTwiceHolds == Spec => NothingIsTakenTwice
<1>1. Init => OnceInv
  <2> SUFFICES ASSUME Init, Undisturbed PROVE CollectedIsDone /\ OneFlush /\ TakenApart
    BY DEF OnceInv
  <2>1. /\ burst = {} /\ taken = {} /\ retryJobs = 0 /\ mainJob = "absent" /\ lock = NoHolder
        /\ \A s \in Slots : flush[s].at = "idle" /\ flush[s].ids = {}
    BY DEF Init, BurstInit, NoRun, Undisturbed
  <2>2. CollectedIsDone
    BY <2>1 DEF CollectedIsDone, Collected
  <2>3. OneFlush /\ TakenApart
    BY <2>1, BurstAssumption DEF OneFlush, TakenApart, Runs, At
  <2>4. QED
    BY <2>2, <2>3
<1>2. IInv /\ LeaseInv /\ RowsInv /\ CollectInv /\ OnceInv /\ [Next]_vars => OnceInv'
  BY NextOnce
<1>3. OnceInv => (Undisturbed => \A s \in Slots : TakesOn(s) => flush[s].ids \cap taken = {})
  BY DEF OnceInv, TakenApart, TakesOn, At
<1>4. QED
  BY <1>1, <1>2, <1>3, Inductive, LeaseInductive, RowsInductive, CollectInductive, PTL
     DEF Spec, NothingIsTakenTwice
=============================================================================
