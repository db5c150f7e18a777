----------------------------- MODULE Scheduler -----------------------------
(***************************************************************************)
(* SchedulerService: two cron handlers.  Each lists the reservations that  *)
(* are due, then works through the list it holds in memory, one save after *)
(* the other; an exception ends the whole run.                             *)
(***************************************************************************)
EXTENDS Store

VARIABLE job      \* the run each handler is in

NoShows == "noShows"
AutoCompletion == "autoCompletion"

ASSUME JobAssumption == Jobs = {NoShows, AutoCompletion}

\* todo: the listed entities not yet dealt with, as they were read.
Run == [pc : {"idle", "next", "load", "write"},
        todo : [Ids -> Row \cup {NoRow}],
        id : Ids \cup {NoId},
        mem : Row \cup {NoRow}, seen : Row \cup {NoRow}]

EmptyList == [i \in Ids |-> NoRow]

JobIdle == [pc |-> "idle", todo |-> EmptyList, id |-> NoId,
            mem |-> NoRow, seen |-> NoRow]

JobTypeOK == job \in [Jobs -> Run]

JobInit == job = [j \in Jobs |-> JobIdle]

-----------------------------------------------------------------------------
\* The list of a handler; an empty one ends the run at once.
Scan(j, due) ==
  /\ job[j].pc = "idle"
  /\ IF due = {}
     THEN UNCHANGED <<job, store>>
     ELSE /\ job' = [job EXCEPT ![j].pc = "next",
                                ![j].todo = [i \in Ids |-> IF i \in due
                                                          THEN rows[i] ELSE NoRow]]
          /\ Watch(j)
          /\ UNCHANGED <<now, rows, tokens>>

NoShowScan ==
  Scan(NoShows, {i \in Ids : rows[i] # NoRow /\ NoShowDue(rows[i], now)})

CompletionScan ==
  Scan(AutoCompletion, {i \in Ids : rows[i] # NoRow /\ CompletionDue(rows[i], now)})

Others(j, i) == [job[j].todo EXCEPT ![i] = NoRow]

\* The run j after it is done with i: the rest of the list, or the end.
After(j, i) ==
  IF Others(j, i) = EmptyList THEN JobIdle
  ELSE [JobIdle EXCEPT !.pc = "next", !.todo = Others(j, i)]

\* The handler sets the status of the entity i and calls save.
Mark(j, i, status) ==
  /\ job' = [job EXCEPT ![j].pc = "load",
                        ![j].id = i,
                        ![j].mem = [job[j].todo[i] EXCEPT !.status = status]]
  /\ UNCHANGED store

(* The access record of a listed reservation: findOne has no order and no   *)
(* condition but the reservation, so it may return any of its records.      *)
NoShowMark(i) ==
  /\ job[NoShows].pc = "next"
  /\ job[NoShows].todo[i] # NoRow
  /\ LET records == AccessRecords(i)
     IN  records = {} \/ \E k \in records : tokens[k].time = NoTime
  /\ Mark(NoShows, i, "NO_SHOW")

NoShowSkip(i) ==
  /\ job[NoShows].pc = "next"
  /\ job[NoShows].todo[i] # NoRow
  /\ \E k \in AccessRecords(i) : tokens[k].time # NoTime
  /\ job' = [job EXCEPT ![NoShows] = After(NoShows, i)]
  /\ IF Others(NoShows, i) = EmptyList THEN Unwatch(NoShows) ELSE UNCHANGED untouched
  /\ UNCHANGED <<now, rows, tokens>>

CompletionMark(i) ==
  /\ job[AutoCompletion].pc = "next"
  /\ job[AutoCompletion].todo[i] # NoRow
  /\ Mark(AutoCompletion, i, "COMPLETED")

JobLoad(j) ==
  /\ job[j].pc = "load"
  /\ job' = [job EXCEPT ![j].pc = "write", ![j].seen = rows[job[j].id]]
  /\ UNCHANGED store

\* Mutant: the entity is marked and never saved.
JobWriteForgotten(j) ==
  /\ job[j].pc = "write"
  /\ LET i == job[j].id
     IN  /\ IF Others(j, i) = EmptyList THEN Unwatch(j) ELSE UNCHANGED untouched
         /\ job' = [job EXCEPT ![j] = After(j, i)]
  /\ UNCHANGED <<now, rows, tokens>>

JobWrite(j) ==
  /\ job[j].pc = "write"
  /\ LET i == job[j].id
     IN  /\ WriteRow(i, MergeRow(rows[i], job[j].mem, job[j].seen))
         /\ IF Others(j, i) = EmptyList THEN OvertakeOthers(j, i) ELSE Overtake(i)
         /\ job' = [job EXCEPT ![j] = After(j, i)]
  /\ UNCHANGED <<now, tokens>>

JobAbort(j) ==
  /\ job[j].pc # "idle"
  /\ job' = [job EXCEPT ![j] = JobIdle]
  /\ Unwatch(j)
  /\ UNCHANGED <<now, rows, tokens>>

-----------------------------------------------------------------------------
JobNew(j) == \/ j = NoShows /\ NoShowScan
             \/ j = AutoCompletion /\ CompletionScan

JobDecide(j) ==
  \E i \in Ids : \/ j = NoShows /\ (NoShowMark(i) \/ NoShowSkip(i))
                 \/ j = AutoCompletion /\ CompletionMark(i)

JobStep(j) ==
  \/ JobDecide(j)
  \/ JobLoad(j)
  \/ JobWrite(j)
  \/ JobAbort(j)
=============================================================================
