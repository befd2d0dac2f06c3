--------------------------- MODULE CalibrationProofs ---------------------------
(***************************************************************************)
(* Theorems about a longitudinal calibration session, for every capacity   *)
(* of the queue and any number of trials.                                  *)
(*                                                                         *)
(* That trials.json claims no more than observations.csv holds rests on    *)
(* the order of the queue: a trial is saved after its rows were submitted, *)
(* and what is saved, committed or held is never ahead of what the node    *)
(* has submitted (Sealed).  A row that goes missing latches an error       *)
(* before a later checkpoint is judged, and the count that error keeps is  *)
(* one whose rows are all on the disk.                                     *)
(***************************************************************************)
EXTENDS CalibrationSession, TLAPS

-----------------------------------------------------------------------------
(* The inductive invariant.                                                *)

NodePlaces == {"idle", "row", "save", "runtime", "rescue", "starting", "answering",
               "leaving", "closing"}

Located ==
  /\ node \in [at : NodePlaces, first : 0..MaxTrials, saves : BOOLEAN]
  /\ node.first <= Len(trials)

\* The trials whose rows have all been submitted, or refused.
Sealed == IF node.at = "row" THEN node.first ELSE Len(trials)

\* The trials, and 0, with rows that are not in observations.csv.
Queued  == {queue[i].trial : i \in 1..Len(queue)}
Held    == IF worker.at = "appends" THEN {worker.job.trial} ELSE {}
Missing == lost \union Queued \union Held

\* None of the first n trials is among them.
ClearTo(n, rows) == \A t \in 1..n : t \notin rows

\* Nothing is known of a trial before its last row was submitted.
NothingAhead ==
  /\ Len(disk.trials) <= Sealed /\ Len(latest) <= Sealed
  /\ committed <= Sealed /\ failedAfter <= Sealed
  /\ Len(worker.job.trials) <= Sealed
  /\ \A i \in 1..Len(queue) : Len(queue[i].trials) <= Sealed

\* A row behind a checkpoint belongs to a later trial.
RowsFollow ==
  \A i, j \in 1..Len(queue) :
    i < j /\ queue[j].trial > 0 => queue[j].trial > Len(queue[i].trials)

\* A row is lost without an error only once the writer is closed.
LossIsKnown ==
  /\ ~error /\ ~stopping => lost = {}
  /\ ~error => \A t \in lost, i \in 1..Len(queue) : t > Len(queue[i].trials)

\* What counts as saved has its rows on the disk.
CountsAreClear == ClearTo(committed, Missing) /\ ClearTo(failedAfter, Missing)
JobIsClear ==
  \/ worker.at \in {"writes", "commits"}
  \/ worker.at = "judges" /\ ~error
  => ClearTo(Len(worker.job.trials), Missing)
DiskIsClear == \A i \in 1..Len(disk.trials) : disk.trials[i] => i \notin Missing

\* Checkpoints grow from the disk through the worker and the queue.
Ordinary == worker.at \in {"judges", "writes", "commits"}
Failing  == worker.at \in {"failing", "failing last"}
Saves(job) == job.kind = "trials"
DiskGrows ==
  /\ committed <= Len(disk.trials) /\ committed <= Len(latest)
  /\ Ordinary \/ Failing => committed <= Len(worker.job.trials)
  /\ Ordinary => Len(worker.job.trials) <= Len(latest)
  /\ worker.at = "commits" => Len(worker.job.trials) <= Len(disk.trials)
QueueGrows ==
  /\ \A i \in 1..Len(queue) : Saves(queue[i]) =>
       /\ committed <= Len(queue[i].trials) /\ Len(queue[i].trials) <= Len(latest)
       /\ Ordinary => Len(worker.job.trials) <= Len(queue[i].trials)
  /\ \A i, j \in 1..Len(queue) :
       i < j /\ Saves(queue[i]) /\ Saves(queue[j])
         => Len(queue[i].trials) <= Len(queue[j].trials)

\* The writer's share of the type invariant, and the node's.
WriterTypeOK ==
  /\ queue \in Seq(JobType) /\ Len(queue) <= Capacity
  /\ error \in BOOLEAN /\ unavailable \in BOOLEAN /\ stopping \in BOOLEAN
  /\ failedAfter \in 0..MaxTrials /\ committed \in 0..MaxTrials
  /\ latest \in Seq(BOOLEAN) /\ version \in {"never failed", "stale", "current"}
  /\ worker.job \in JobType /\ lost \subseteq Trials
  /\ disk.valid \in BOOLEAN /\ disk.trials \in Seq(BOOLEAN)
NodeTypeOK ==
  /\ engine \in Engines /\ trials \in Seq(BOOLEAN) /\ Len(trials) <= MaxTrials
  /\ faulted \in BOOLEAN /\ enables \in 0..1
  /\ requests \subseteq {"start", "stop"} /\ status \in BOOLEAN

WriterInv ==
  /\ WriterTypeOK /\ NothingAhead /\ RowsFollow /\ LossIsKnown
  /\ CountsAreClear /\ JobIsClear /\ DiskIsClear /\ DiskGrows /\ QueueGrows

\* A status that said complete and saved stays true of the trials.
StatusHolds ==
  status => engine \in {"STOPPING", "FAULT", "COMPLETE"} /\ committed = Len(trials)

\* A stop that was handled ends the engine's only attempt.
Undone == operator = "stopped" /\ "stop" \notin requests
StopHolds == Undone => engine \notin {"IDLE", "ACTIVE"}

NodeInv == NodeTypeOK /\ Located /\ StatusHolds /\ StopHolds

SessionInv == WriterInv /\ NodeInv

-----------------------------------------------------------------------------
(* Facts.                                                                  *)

\* The bounds as numbers, and what the invariant says of lengths.
LEMMA Numbers == MaxTrials \in Nat /\ Capacity \in Nat
  BY WriterAssumption

\* A job's fields.
LEMMA JobIs ==
  ASSUME NEW job \in JobType
  PROVE  /\ job.trial \in Nat /\ job.trial <= MaxTrials + 1
         /\ job.trials \in Seq(BOOLEAN) /\ Len(job.trials) \in Nat
         /\ job.faulted \in BOOLEAN
  BY Numbers DEF JobType

\* The four kinds of job the node submits are jobs.
LEMMA JobsAre ==
  /\ NoRow \in JobType /\ NoRow.trial = 0 /\ Len(NoRow.trials) = 0 /\ ~Saves(NoRow)
  /\ NoRow.trials = <<>>
  /\ \A t \in 0..(MaxTrials + 1) :
       /\ Row(t) \in JobType /\ Row(t).trial = t /\ Len(Row(t).trials) = 0 /\ ~Saves(Row(t))
  /\ \A list \in Seq(BOOLEAN), f \in BOOLEAN :
       /\ Saved(list, f) \in JobType /\ Saved(list, f).trial = 0
       /\ Saved(list, f).trials = list /\ Saved(list, f).faulted = f /\ Saves(Saved(list, f))
<1> DEFINE none == <<>>
<1>1. none \in Seq(BOOLEAN) /\ Len(none) = 0
  OBVIOUS
<1>2. 0 \in 0..(MaxTrials + 1) /\ FALSE \in BOOLEAN
  BY Numbers
<1> QED
  BY <1>1, <1>2 DEF JobType, NoRow, Row, Saved, Job, Saves

\* What the queue holds.
LEMMA QueueIs ==
  ASSUME WriterTypeOK
  PROVE  /\ Len(queue) \in Nat
         /\ \A i \in 1..Len(queue) :
              /\ queue[i] \in JobType /\ queue[i].trial \in Nat
              /\ Len(queue[i].trials) \in Nat
         /\ Len(worker.job.trials) \in Nat /\ Len(disk.trials) \in Nat /\ Len(latest) \in Nat
         /\ committed \in Nat /\ failedAfter \in Nat /\ \A t \in lost : t \in Nat
<1>1. Len(queue) \in Nat /\ \A i \in 1..Len(queue) : queue[i] \in JobType
  <2>1. queue \in Seq(JobType)
    BY DEF WriterTypeOK
  <2> QED
    BY <2>1
<1>2. worker.job \in JobType
  BY DEF WriterTypeOK
<1>3. /\ Len(disk.trials) \in Nat /\ Len(latest) \in Nat
      /\ committed \in Nat /\ failedAfter \in Nat /\ \A t \in lost : t \in Nat
  <2>1. /\ disk.trials \in Seq(BOOLEAN) /\ latest \in Seq(BOOLEAN)
        /\ committed \in 0..MaxTrials /\ failedAfter \in 0..MaxTrials /\ lost \subseteq 1..MaxTrials
    BY DEF WriterTypeOK, Trials
  <2> QED
    BY <2>1, Numbers
<1> QED
  BY <1>1, <1>2, <1>3, JobIs

\* Rows that join the missing ones beyond n leave the first n clear.
LEMMA ClearKept ==
  ASSUME NEW n \in Nat, NEW rows, NEW now,
         \A t \in now : t \in rows \/ t = 0 \/ (t \in Nat /\ t > n),
         ClearTo(n, rows)
  PROVE  ClearTo(n, now)
  BY DEF ClearTo

\* A job that joins the queue is its last.
LEMMA QueueAppends ==
  ASSUME NEW q \in Seq(JobType), NEW job \in JobType
  PROVE  LET new == Append(q, job) IN
         /\ new \in Seq(JobType) /\ Len(q) \in Nat /\ Len(new) = Len(q) + 1
         /\ \A i \in 1..Len(new) :
              \/ i \in 1..Len(q) /\ new[i] = q[i]
              \/ i = Len(q) + 1 /\ new[i] = job
  OBVIOUS

\* The job the worker takes leaves the others in their order.
LEMMA QueueLeaves ==
  ASSUME NEW q \in Seq(JobType), q # <<>>
  PROVE  /\ Tail(q) \in Seq(JobType) /\ Len(q) \in Nat /\ Len(Tail(q)) = Len(q) - 1
         /\ 1 \in 1..Len(q) /\ Head(q) = q[1] /\ Head(q) \in JobType
         /\ \A i \in 1..Len(Tail(q)) : i + 1 \in 1..Len(q) /\ Tail(q)[i] = q[i + 1]
  OBVIOUS

-----------------------------------------------------------------------------
(* The producer's calls.                                                   *)

\* A job of the node is behind everything the node has sealed, its snapshot is
\* no shorter than an earlier one, and what it loses is its own row.
SealedGrows == Sealed \in Nat /\ Sealed' \in Nat /\ Sealed <= Sealed'
IsBehind(job) ==
  /\ job.trial = 0 \/ job.trial > Sealed
  /\ Len(job.trials) <= Sealed'
  /\ Len(latest) <= Len(latest') /\ Len(latest') <= Sealed'
  /\ Saves(job) => Len(job.trials) = Len(latest')
Records ==
  /\ latest' \in Seq(BOOLEAN) /\ version' \in {"never failed", "stale", "current"}
  /\ UNCHANGED <<unavailable, committed, stopping, worker, disk>>
Loses(job) ==
  \/ lost' = lost
  \/ ~Accepts /\ lost' = lost \union ({job.trial} \intersect Trials)

\* A call of the writer keeps its invariant.
LEMMA SubmitKeeps ==
  ASSUME WriterInv, NEW job \in JobType, Submitted(job),
         SealedGrows, IsBehind(job), Records, Loses(job)
  PROVE  WriterInv'
<1>1. /\ Len(queue) \in Nat
      /\ \A i \in 1..Len(queue) :
           /\ queue[i] \in JobType /\ queue[i].trial \in Nat /\ Len(queue[i].trials) \in Nat
      /\ Len(worker.job.trials) \in Nat /\ Len(disk.trials) \in Nat /\ Len(latest) \in Nat
      /\ committed \in Nat /\ failedAfter \in Nat /\ \A t \in lost : t \in Nat
  BY QueueIs DEF WriterInv
<1>2. /\ job.trial \in Nat /\ Len(job.trials) \in Nat /\ Len(latest') \in Nat
      /\ Sealed \in Nat /\ Sealed' \in Nat /\ Sealed <= Sealed'
      /\ job.trial = 0 \/ job.trial > Sealed
      /\ Len(job.trials) <= Sealed'
      /\ Len(latest) <= Len(latest') /\ Len(latest') <= Sealed'
      /\ Saves(job) => Len(job.trials) = Len(latest')
  <2>1. job.trial \in Nat /\ Len(job.trials) \in Nat
    BY JobIs
  <2>2. latest' \in Seq(BOOLEAN)
    BY DEF Records
  <2>3. Len(latest') \in Nat
    BY <2>2
  <2> QED
    BY <2>1, <2>3 DEF SealedGrows, IsBehind
<1>0. UNCHANGED <<unavailable, committed, stopping, worker, disk>>
  BY DEF Records
<1>3. \/ /\ Accepts /\ queue' = Append(queue, job) /\ lost' = lost
         /\ error' = error /\ failedAfter' = failedAfter
      \/ /\ ~Accepts /\ queue' = queue /\ failedAfter' \in {failedAfter, committed}
         /\ \/ stopping /\ error' = error
            \/ error' = TRUE
         /\ \/ lost' = lost
            \/ lost' = lost \union ({job.trial} \intersect Trials)
  BY DEF Submitted, Latch, Loses
<1>4. UNCHANGED <<Held, Ordinary, Failing>>
  BY <1>0 DEF Held, Ordinary, Failing
<1>5. queue \in Seq(JobType) /\ Len(queue) <= Capacity
  BY DEF WriterInv, WriterTypeOK
<1>6. /\ queue' \in Seq(JobType) /\ Len(queue') \in Nat /\ Len(queue') <= Capacity
      /\ \A i \in 1..Len(queue') :
           \/ i \in 1..Len(queue) /\ queue'[i] = queue[i]
           \/ Accepts /\ i = Len(queue) + 1 /\ queue'[i] = job
  <2>1. CASE Accepts /\ queue' = Append(queue, job)
    <3>1. /\ queue' \in Seq(JobType) /\ Len(queue') = Len(queue) + 1
          /\ \A i \in 1..Len(queue') :
               \/ i \in 1..Len(queue) /\ queue'[i] = queue[i]
               \/ i = Len(queue) + 1 /\ queue'[i] = job
      BY <1>5, <2>1, QueueAppends
    <3>2. Len(queue) < Capacity
      BY <2>1 DEF Accepts
    <3>3. Len(queue') \in Nat /\ Len(queue') <= Capacity
      BY <1>1, <3>1, <3>2, Numbers
    <3> QED
      BY <2>1, <3>1, <3>3
  <2>2. CASE queue' = queue
    BY <1>1, <1>5, <2>2
  <2> QED
    BY <1>3, <2>1, <2>2
<1>20. ASSUME NEW i \in 1..Len(queue'), NEW j \in 1..Len(queue'), i < j
       PROVE  i \in 1..Len(queue) /\ queue'[i] = queue[i]
  <2>1. j \in 1..Len(queue) \/ j = Len(queue) + 1
    BY <1>6
  <2>2. i # Len(queue) + 1
    BY <1>1, <1>20, <2>1
  <2> QED
    BY <1>6, <2>2
<1>7. WriterTypeOK'
  <2>1. WriterTypeOK
    BY DEF WriterInv
  <2>2. lost' \subseteq Trials /\ error' \in BOOLEAN /\ failedAfter' \in 0..MaxTrials
    BY <1>3, <2>1 DEF WriterTypeOK
  <2> QED
    BY <1>0, <1>6, <2>1, <2>2 DEF WriterTypeOK, Records
<1>8. \A t \in Missing' : t \in Missing \/ t = job.trial
  <2>1. \A t \in Queued' : t \in Queued \/ t = job.trial
    BY <1>6 DEF Queued
  <2>2. \A t \in lost' : t \in lost \/ t = job.trial
    BY <1>3
  <2> QED
    BY <1>4, <2>1, <2>2 DEF Missing
<1>9. ASSUME NEW n \in Nat, n <= Sealed, ClearTo(n, Missing) PROVE ClearTo(n, Missing')
  <2>1. \A t \in Missing' : t \in Missing \/ t = 0 \/ (t \in Nat /\ t > n)
    BY <1>2, <1>8, <1>9
  <2> QED
    BY <1>9, <2>1, ClearKept
<1>10. NothingAhead'
  <2>1. NothingAhead
    BY DEF WriterInv
  <2>2. \A i \in 1..Len(queue') : Len(queue'[i].trials) <= Sealed'
    BY <1>1, <1>2, <1>6, <2>1 DEF NothingAhead
  <2>3. failedAfter' <= Sealed'
    BY <1>1, <1>2, <1>3, <2>1 DEF NothingAhead
  <2> QED
    BY <1>0, <1>1, <1>2, <2>1, <2>2, <2>3 DEF NothingAhead
<1>11. RowsFollow'
  <2> SUFFICES ASSUME NEW i \in 1..Len(queue'), NEW j \in 1..Len(queue'), i < j,
                      queue'[j].trial > 0
               PROVE  queue'[j].trial > Len(queue'[i].trials)
    BY DEF RowsFollow
  <2>1. i \in 1..Len(queue) /\ queue'[i] = queue[i]
    BY <1>20
  <2>2. CASE j \in 1..Len(queue) /\ queue'[j] = queue[j]
    BY <2>1, <2>2 DEF WriterInv, RowsFollow
  <2>3. CASE queue'[j] = job
    <3>1. Len(queue[i].trials) <= Sealed
      BY <2>1 DEF WriterInv, NothingAhead
    <3>2. job.trial > Sealed
      BY <1>2, <2>3
    <3> QED
      BY <1>1, <1>2, <2>1, <2>3, <3>1, <3>2
  <2> QED
    BY <1>6, <2>2, <2>3
<1>12. LossIsKnown'
  <2>1. LossIsKnown /\ NothingAhead
    BY DEF WriterInv
  <2>2. CASE Accepts /\ lost' = lost /\ error' = error
    <3>1. lost = {}
      BY <2>1, <2>2 DEF LossIsKnown, Accepts
    <3> QED
      BY <2>2, <3>1 DEF LossIsKnown
  <2>3. CASE error' = TRUE
    BY <2>3 DEF LossIsKnown
  <2>4. CASE ~Accepts /\ queue' = queue /\ stopping /\ error' = error
    <3>1. ASSUME NEW t \in lost', NEW i \in 1..Len(queue), ~error PROVE t > Len(queue[i].trials)
      <4>1. CASE t \in lost
        BY <2>1, <3>1, <4>1 DEF LossIsKnown
      <4>2. CASE t = job.trial /\ t \in Trials
        <5>1. t > Sealed
          BY <1>2, <4>2, Numbers DEF Trials
        <5> QED
          BY <1>1, <1>2, <2>1, <4>2, <5>1 DEF NothingAhead
      <4> QED
        BY <1>3, <2>4, <4>1, <4>2
    <3> QED
      BY <1>0, <2>4, <3>1 DEF LossIsKnown
  <2> QED
    BY <1>3, <2>2, <2>3, <2>4
<1>13. CountsAreClear'
  <2>1. committed <= Sealed /\ failedAfter <= Sealed
    BY DEF WriterInv, NothingAhead
  <2>2. ClearTo(committed, Missing) /\ ClearTo(failedAfter, Missing)
    BY DEF WriterInv, CountsAreClear
  <2>3. ClearTo(committed, Missing') /\ ClearTo(failedAfter, Missing')
    BY <1>1, <1>9, <2>1, <2>2
  <2> QED
    BY <1>0, <1>3, <2>3 DEF CountsAreClear
<1>14. JobIsClear'
  <2>1. Len(worker.job.trials) <= Sealed
    BY DEF WriterInv, NothingAhead
  <2>2. ClearTo(Len(worker.job.trials), Missing)
          => ClearTo(Len(worker.job.trials), Missing')
    BY <1>1, <1>9, <2>1
  <2>3. error => error'
    BY <1>3
  <2> QED
    BY <1>0, <2>2, <2>3 DEF WriterInv, JobIsClear
<1>15. DiskIsClear'
  <2>1. Len(disk.trials) <= Sealed /\ DiskIsClear
    BY DEF WriterInv, NothingAhead
  <2>2. ASSUME NEW i \in 1..Len(disk.trials), disk.trials[i] PROVE i \notin Missing'
    <3>1. i \notin Missing
      BY <2>1, <2>2 DEF DiskIsClear
    <3>2. i # job.trial
      BY <1>1, <1>2, <2>1
    <3> QED
      BY <1>8, <3>1, <3>2
  <2> QED
    BY <1>0, <2>2 DEF DiskIsClear
<1>16. DiskGrows'
  BY <1>0, <1>1, <1>2, <1>4 DEF WriterInv, DiskGrows
<1>17. QueueGrows'
  <2>1. QueueGrows /\ DiskGrows
    BY DEF WriterInv
  <2>2. ASSUME NEW i \in 1..Len(queue'), Saves(queue'[i])
        PROVE  /\ committed <= Len(queue'[i].trials) /\ Len(queue'[i].trials) <= Len(latest')
               /\ Ordinary => Len(worker.job.trials) <= Len(queue'[i].trials)
    <3>1. CASE i \in 1..Len(queue) /\ queue'[i] = queue[i]
      BY <1>1, <1>2, <2>1, <2>2, <3>1 DEF QueueGrows
    <3>2. CASE queue'[i] = job
      BY <1>1, <1>2, <2>1, <2>2, <3>2 DEF DiskGrows
    <3> QED
      BY <1>6, <3>1, <3>2
  <2>3. ASSUME NEW i \in 1..Len(queue'), NEW j \in 1..Len(queue'), i < j,
               Saves(queue'[i]), Saves(queue'[j])
        PROVE  Len(queue'[i].trials) <= Len(queue'[j].trials)
    <3>1. i \in 1..Len(queue) /\ queue'[i] = queue[i]
      BY <1>20, <2>3
    <3>2. CASE j \in 1..Len(queue) /\ queue'[j] = queue[j]
      BY <2>1, <2>3, <3>1, <3>2 DEF QueueGrows
    <3>3. CASE queue'[j] = job
      <4>1. Len(queue[i].trials) <= Len(latest)
        BY <2>1, <2>3, <3>1 DEF QueueGrows
      <4> QED
        BY <1>1, <1>2, <2>3, <3>1, <3>3, <4>1
    <3> QED
      BY <1>6, <3>2, <3>3
  <2> QED
    BY <1>0, <1>4, <2>2, <2>3 DEF QueueGrows
<1> QED
  BY <1>7, <1>10, <1>11, <1>12, <1>13, <1>14, <1>15, <1>16, <1>17 DEF WriterInv

-----------------------------------------------------------------------------
(* The worker's steps.                                                     *)

\* At most the first error is latched, with the count committed by then.
Latches ==
  \/ error' = error /\ lost' = lost /\ failedAfter' = failedAfter
  \/ error' = TRUE /\ failedAfter' \in {failedAfter, committed}

\* A step of the worker that leaves the queue alone, and what it must show of
\* the job it holds then, of the file and of the count.
LEMMA WorkerKeeps ==
  ASSUME WriterInv, WriterTypeOK', Sealed \in Nat, Sealed' = Sealed,
         UNCHANGED <<queue, latest, stopping>>, Latches, Missing' \subseteq Missing,
         Len(worker'.job.trials) <= Sealed, Len(disk'.trials) <= Sealed,
         committed' <= Sealed, ClearTo(committed', Missing),
         JobIsClear', DiskIsClear', DiskGrows', QueueGrows'
  PROVE  WriterInv'
<1>1. NothingAhead'
  BY DEF WriterInv, NothingAhead, Latches
<1>2. RowsFollow'
  BY DEF WriterInv, RowsFollow
<1>3. LossIsKnown'
  BY DEF WriterInv, LossIsKnown, Latches
<1>4. CountsAreClear'
  <2>1. ClearTo(committed, Missing) /\ ClearTo(failedAfter, Missing)
    BY DEF WriterInv, CountsAreClear
  <2> QED
    BY <2>1 DEF CountsAreClear, ClearTo, Latches
<1> QED
  BY <1>1, <1>2, <1>3, <1>4 DEF WriterInv

\* The worker comes to rest, with a file that is no shorter than the count and
\* claims no trial with a missing row.
Resting == {"checks", "waits", "closing", "closed"}
ComesToRest ==
  \/ \E p \in Resting : worker' = Rests(p)
  \/ worker.at \in Resting /\ worker' = worker
LeavesQueue ==
  /\ UNCHANGED <<queue, latest, stopping, committed>>
  /\ version' \in {"never failed", "stale", "current"} /\ unavailable' \in BOOLEAN
  /\ lost' \subseteq Trials /\ lost' \subseteq lost \union Held
FileIsTrue ==
  /\ disk'.valid \in BOOLEAN /\ disk'.trials \in Seq(BOOLEAN)
  /\ committed <= Len(disk'.trials) /\ Len(disk'.trials) <= Sealed
  /\ \A i \in 1..Len(disk'.trials) : disk'.trials[i] => i \notin Missing

\* A step that comes to rest keeps the writer's invariant.
LEMMA RestKeeps ==
  ASSUME WriterInv, Sealed \in Nat, Sealed' = Sealed,
         ComesToRest, LeavesQueue, Latches, FileIsTrue
  PROVE  WriterInv'
<1>1. worker'.at \in Resting /\ (worker'.job = NoRow \/ worker'.job = worker.job)
  <2>1. ASSUME NEW p \in Resting, worker' = Rests(p)
        PROVE  worker'.at \in Resting /\ worker'.job = NoRow
    BY <2>1 DEF Rests, At
  <2>2. ASSUME worker.at \in Resting, worker' = worker
        PROVE  worker'.at \in Resting /\ worker'.job = worker.job
    BY <2>2
  <2> QED
    BY <2>1, <2>2 DEF ComesToRest
<1>0. /\ UNCHANGED <<queue, latest, stopping, committed>>
      /\ version' \in {"never failed", "stale", "current"} /\ unavailable' \in BOOLEAN
      /\ lost' \subseteq Trials /\ lost' \subseteq lost \union Held
  BY DEF LeavesQueue
<1>11. /\ disk'.valid \in BOOLEAN /\ disk'.trials \in Seq(BOOLEAN)
       /\ committed <= Len(disk'.trials) /\ Len(disk'.trials) <= Sealed
       /\ \A i \in 1..Len(disk'.trials) : disk'.trials[i] => i \notin Missing
  BY DEF FileIsTrue
<1>2. worker'.job \in JobType /\ Len(worker'.job.trials) <= Sealed
  <2>1. worker.job \in JobType /\ Len(worker.job.trials) <= Sealed
    BY DEF WriterInv, WriterTypeOK, NothingAhead
  <2> QED
    BY <1>1, <2>1, JobsAre
<1>3. WriterTypeOK'
  <2>1. WriterTypeOK
    BY DEF WriterInv
  <2>2. error' \in BOOLEAN /\ failedAfter' \in 0..MaxTrials
    BY <2>1 DEF WriterTypeOK, Latches
  <2> QED
    BY <1>0, <1>2, <1>11, <2>1, <2>2 DEF WriterTypeOK
<1>4. ~Ordinary' /\ ~Failing' /\ Held' = {}
  BY <1>1 DEF Ordinary, Failing, Held, Resting
<1>5. Missing' \subseteq Missing
  BY <1>0, <1>4 DEF Missing, Queued
<1>6. committed' <= Sealed /\ ClearTo(committed', Missing)
  BY <1>0 DEF WriterInv, NothingAhead, CountsAreClear
<1>7. JobIsClear'
  BY <1>1 DEF JobIsClear, Resting
<1>8. DiskIsClear'
  BY <1>5, <1>11 DEF DiskIsClear
<1>9. DiskGrows'
  BY <1>0, <1>1, <1>4, <1>11 DEF WriterInv, DiskGrows, Resting
<1>10. QueueGrows'
  BY <1>0, <1>4 DEF WriterInv, QueueGrows
<1> QED
  BY <1>0, <1>2, <1>3, <1>5, <1>6, <1>7, <1>8, <1>9, <1>10, <1>11, WorkerKeeps

\* A step that leaves the file alone leaves it clear and long enough.
LEMMA DiskStays == ASSUME WriterInv, disk' = disk PROVE FileIsTrue
<1>1. /\ disk.valid \in BOOLEAN /\ disk.trials \in Seq(BOOLEAN)
      /\ committed <= Len(disk.trials) /\ Len(disk.trials) <= Sealed
      /\ \A i \in 1..Len(disk.trials) : disk.trials[i] => i \notin Missing
  BY DEF WriterInv, WriterTypeOK, DiskGrows, NothingAhead, DiskIsClear
<1> QED
  BY <1>1 DEF FileIsTrue

\* The steps that write nothing: a check, a wake-up, a dropped checkpoint.
LEMMA RestsQuietly ==
  ASSUME WriterInv, Sealed \in Nat, Sealed' = Sealed, NEW p \in Resting, worker' = Rests(p),
         UNCHANGED <<shared, committed, disk, lost>>
  PROVE  WriterInv'
<1>1. /\ UNCHANGED <<queue, latest, stopping, committed>> /\ disk' = disk
      /\ lost' = lost /\ error' = error /\ failedAfter' = failedAfter
      /\ version' = version /\ unavailable' = unavailable
  BY DEF shared
<1>2. LeavesQueue
  BY <1>1 DEF WriterInv, WriterTypeOK, LeavesQueue
<1>3. Latches /\ ComesToRest
  BY <1>1 DEF Latches, ComesToRest
<1>4. FileIsTrue
  BY <1>1, DiskStays
<1> QED
  BY <1>2, <1>3, <1>4, RestKeeps

\* A row is written or lost; either way it is held no longer.
LEMMA AppendsKeeps ==
  ASSUME WriterInv, Sealed \in Nat, Sealed' = Sealed, NEW throws \in BOOLEAN, Appends(throws)
  PROVE  WriterInv'
<1>1. /\ worker.at = "appends" /\ worker' = Rests("checks")
      /\ UNCHANGED <<queue, latest, stopping, committed>> /\ disk' = disk
      /\ version' = version /\ unavailable' = unavailable
  BY DEF Appends
<1>2. lost' \subseteq lost \union ({worker.job.trial} \intersect Trials)
  BY DEF Appends
<1>3. Latches
  BY DEF Appends, Latch, Latches
<1>4. LeavesQueue
  BY <1>1, <1>2 DEF WriterInv, WriterTypeOK, LeavesQueue, Held
<1>5. ComesToRest
  BY <1>1 DEF ComesToRest, Resting
<1>6. FileIsTrue
  BY <1>1, DiskStays
<1> QED
  BY <1>3, <1>4, <1>5, <1>6, RestKeeps

\* The files are closed, or the last error is latched.
LEMMA ClosesKeeps ==
  ASSUME WriterInv, Sealed \in Nat, Sealed' = Sealed, NEW throws \in BOOLEAN,
         ClosesFiles(throws)
  PROVE  WriterInv'
<1>1. /\ UNCHANGED <<queue, latest, stopping, committed>> /\ disk' = disk
      /\ version' = version /\ unavailable' = unavailable /\ lost' = lost
  BY DEF ClosesFiles
<1>2. Latches
  BY DEF ClosesFiles, Latch, Latches
<1>3. LeavesQueue
  BY <1>1 DEF WriterInv, WriterTypeOK, LeavesQueue
<1>4. ComesToRest
  BY DEF ClosesFiles, ComesToRest, Resting
<1>5. FileIsTrue
  BY <1>1, DiskStays
<1> QED
  BY <1>2, <1>3, <1>4, <1>5, RestKeeps

\* The failure checkpoint keeps no validity past the count of the error.
LEMMA FailureWrittenKeeps ==
  ASSUME WriterInv, Sealed \in Nat, Sealed' = Sealed, NEW throws \in BOOLEAN,
         FailureWritten(throws)
  PROVE  WriterInv'
<1>1. /\ Failing /\ UNCHANGED <<queue, latest, stopping, committed>> /\ lost' = lost
      /\ error' = error /\ failedAfter' = failedAfter /\ version' = version
      /\ unavailable' = (unavailable \/ throws)
  BY DEF FailureWritten, Failing
<1>2. unavailable' \in BOOLEAN
  BY <1>1
<1>3. LeavesQueue
  BY <1>1, <1>2 DEF WriterInv, WriterTypeOK, LeavesQueue
<1>4. ComesToRest
  BY DEF FailureWritten, ComesToRest, Resting
<1>5. Latches
  BY <1>1 DEF Latches
<1>6. FileIsTrue
  <2>1. CASE throws
    BY <2>1, DiskStays DEF FailureWritten
  <2>2. CASE ~throws
    <3> DEFINE old == worker.job.trials
               new == [i \in 1..Len(old) |-> old[i] /\ i <= failedAfter]
    <3>1. disk' = [valid |-> FALSE, trials |-> new]
      BY <2>2 DEF FailureWritten
    <3>2. old \in Seq(BOOLEAN) /\ Len(old) \in Nat
      BY JobIs DEF WriterInv, WriterTypeOK
    <3> HIDE DEF old
    <3>3. \A i \in 1..Len(old) : (old[i] /\ i <= failedAfter) \in BOOLEAN
      OBVIOUS
    <3>4. new \in Seq(BOOLEAN) /\ Len(new) = Len(old)
      BY <3>2, <3>3
    <3>5. \A i \in 1..Len(new) : new[i] => i <= failedAfter
      BY <3>2, <3>4
    <3> HIDE DEF new
    <3>6. committed <= Len(old) /\ Len(old) <= Sealed
      BY <1>1 DEF WriterInv, DiskGrows, NothingAhead, old
    <3>7. ClearTo(failedAfter, Missing) /\ failedAfter \in Nat
      BY QueueIs DEF WriterInv, CountsAreClear
    <3>8. \A i \in 1..Len(new) : new[i] => i \notin Missing
      BY <3>2, <3>4, <3>5, <3>7 DEF ClearTo
    <3> QED
      BY <3>1, <3>4, <3>6, <3>8 DEF FileIsTrue
  <2> QED
    BY <2>1, <2>2
<1> QED
  BY <1>3, <1>4, <1>5, <1>6, RestKeeps

\* A step that keeps a checkpoint at hand, or takes a copy of the last one.
KeepsJob ==
  /\ worker.at # "appends" /\ worker'.at # "appends"
  /\ UNCHANGED <<queue, latest, stopping, error, failedAfter, unavailable, lost>>
  /\ version' \in {"never failed", "stale", "current"} /\ worker'.job \in JobType

\* Such a step makes no row go missing.
LEMMA JobKept ==
  ASSUME WriterInv, KeepsJob, committed' \in 0..MaxTrials,
         disk'.valid \in BOOLEAN, disk'.trials \in Seq(BOOLEAN)
  PROVE  WriterTypeOK' /\ Latches /\ Missing' \subseteq Missing
<1>1. WriterTypeOK'
  BY DEF WriterInv, WriterTypeOK, KeepsJob
<1>2. Latches
  BY DEF KeepsJob, Latches
<1>3. Missing' \subseteq Missing
  BY DEF KeepsJob, Missing, Queued, Held
<1> QED
  BY <1>1, <1>2, <1>3

\* The worker copies the last snapshot for the failure checkpoint.
LEMMA FailureCopiedKeeps ==
  ASSUME WriterInv, Sealed \in Nat, Sealed' = Sealed, FailureCopied
  PROVE  WriterInv'
<1>1. /\ worker.at \in {"checks", "closing"} /\ version' = "current"
      /\ worker'.at \in {"failing", "failing last"}
      /\ UNCHANGED <<queue, latest, stopping, error, failedAfter, unavailable, lost>>
      /\ committed' = committed /\ disk' = disk
  BY DEF FailureCopied, At
<1>2. worker'.job = Saved(latest, TRUE)
  BY DEF FailureCopied, At
<1>3. latest \in Seq(BOOLEAN) /\ TRUE \in BOOLEAN
  BY DEF WriterInv, WriterTypeOK
<1>4. worker'.job \in JobType /\ worker'.job.trials = latest
  BY <1>2, <1>3, JobsAre
<1>5. KeepsJob
  BY <1>1, <1>4 DEF KeepsJob
<1>6. WriterTypeOK' /\ Latches /\ Missing' \subseteq Missing
  <2>1. committed' \in 0..MaxTrials /\ disk'.valid \in BOOLEAN /\ disk'.trials \in Seq(BOOLEAN)
    BY <1>1 DEF WriterInv, WriterTypeOK
  <2> QED
    BY <1>5, <2>1, JobKept
<1>7. /\ Len(worker'.job.trials) <= Sealed /\ Len(disk'.trials) <= Sealed
      /\ committed' <= Sealed /\ ClearTo(committed', Missing)
  BY <1>1, <1>4 DEF WriterInv, NothingAhead, CountsAreClear
<1>8. ~Ordinary'
  BY <1>1 DEF Ordinary
<1>9. JobIsClear' /\ DiskIsClear'
  BY <1>1, <1>6 DEF WriterInv, JobIsClear, DiskIsClear
<1>10. DiskGrows'
  BY <1>1, <1>4, <1>8 DEF WriterInv, DiskGrows
<1>11. QueueGrows'
  BY <1>1, <1>8 DEF WriterInv, QueueGrows
<1> QED
  BY <1>1, <1>6, <1>7, <1>9, <1>10, <1>11, WorkerKeeps

\* A checkpoint that was not dropped has all its rows in the file.
LEMMA JudgesKeeps ==
  ASSUME WriterInv, Sealed \in Nat, Sealed' = Sealed, Judges
  PROVE  WriterInv'
<1>1. CASE error
  <2>1. worker' = Rests("checks") /\ UNCHANGED <<shared, committed, disk, lost>>
    BY <1>1 DEF Judges
  <2>2. "checks" \in Resting
    BY DEF Resting
  <2> QED
    BY <2>1, <2>2, RestsQuietly
<1>2. CASE ~error
  <2>1. /\ worker.at = "judges" /\ worker'.at = "writes" /\ worker'.job = worker.job
        /\ UNCHANGED <<queue, latest, stopping, error, failedAfter, unavailable, lost>>
        /\ committed' = committed /\ disk' = disk /\ version' = version
    BY <1>2 DEF Judges, At, shared
  <2>2. KeepsJob
    BY <2>1 DEF WriterInv, WriterTypeOK, KeepsJob
  <2>3. WriterTypeOK' /\ Latches /\ Missing' \subseteq Missing
    <3>1. /\ committed' \in 0..MaxTrials /\ disk'.valid \in BOOLEAN
          /\ disk'.trials \in Seq(BOOLEAN)
      BY <2>1 DEF WriterInv, WriterTypeOK
    <3> QED
      BY <2>2, <3>1, JobKept
  <2>4. /\ Len(worker'.job.trials) <= Sealed /\ Len(disk'.trials) <= Sealed
        /\ committed' <= Sealed /\ ClearTo(committed', Missing)
    BY <2>1 DEF WriterInv, NothingAhead, CountsAreClear
  <2>5. Ordinary /\ Ordinary'
    BY <2>1 DEF Ordinary
  <2>6. JobIsClear'
    BY <1>2, <2>1, <2>3 DEF WriterInv, JobIsClear, ClearTo
  <2>7. DiskIsClear'
    BY <2>1, <2>3 DEF WriterInv, DiskIsClear
  <2>8. DiskGrows'
    BY <2>1, <2>5 DEF WriterInv, DiskGrows
  <2>9. QueueGrows'
    BY <2>1, <2>5 DEF WriterInv, QueueGrows
  <2> QED
    BY <2>1, <2>3, <2>4, <2>6, <2>7, <2>8, <2>9, WorkerKeeps
<1> QED
  BY <1>1, <1>2

\* The file is replaced by a checkpoint with all its rows, or stays.
LEMMA ReplacesKeeps ==
  ASSUME WriterInv, Sealed \in Nat, Sealed' = Sealed, NEW throws \in BOOLEAN, Replaces(throws)
  PROVE  WriterInv'
<1>1. /\ worker.at = "writes" /\ UNCHANGED <<queue, latest, stopping, committed>>
      /\ version' = version /\ unavailable' = unavailable /\ lost' = lost
  BY DEF Replaces
<1>2. CASE throws
  <2>1. worker' = Rests("checks") /\ disk' = disk
    BY <1>2 DEF Replaces
  <2>2. LeavesQueue
    BY <1>1 DEF WriterInv, WriterTypeOK, LeavesQueue
  <2>3. Latches
    BY <1>1, <1>2 DEF Replaces, Latch, Latches
  <2>4. ComesToRest
    BY <2>1 DEF ComesToRest, Resting
  <2>5. FileIsTrue
    BY <2>1, DiskStays
  <2> QED
    BY <2>2, <2>3, <2>4, <2>5, RestKeeps
<1>3. CASE ~throws
  <2>1. /\ worker'.at = "commits" /\ worker'.job = worker.job
        /\ error' = error /\ failedAfter' = failedAfter
        /\ disk'.trials = worker.job.trials
        /\ disk'.valid = (disk.valid /\ ~worker.job.faulted)
    BY <1>3 DEF Replaces, At
  <2>2. worker.job \in JobType /\ worker.job.trials \in Seq(BOOLEAN)
    BY JobIs DEF WriterInv, WriterTypeOK
  <2>3. disk'.valid \in BOOLEAN
    BY <2>1
  <2>4. KeepsJob
    BY <1>1, <2>1, <2>2 DEF WriterInv, WriterTypeOK, KeepsJob
  <2>5. WriterTypeOK' /\ Latches /\ Missing' \subseteq Missing
    <3>1. committed' \in 0..MaxTrials
      BY <1>1 DEF WriterInv, WriterTypeOK
    <3> QED
      BY <2>1, <2>2, <2>3, <2>4, <3>1, JobKept
  <2>6. /\ Len(worker'.job.trials) <= Sealed /\ Len(disk'.trials) <= Sealed
        /\ committed' <= Sealed /\ ClearTo(committed', Missing)
    BY <1>1, <2>1 DEF WriterInv, NothingAhead, CountsAreClear
  <2>7. Ordinary /\ Ordinary'
    BY <1>1, <2>1 DEF Ordinary
  <2>8. ClearTo(Len(worker.job.trials), Missing)
    BY <1>1 DEF WriterInv, JobIsClear
  <2>9. JobIsClear'
    BY <2>1, <2>5, <2>8 DEF JobIsClear, ClearTo
  <2>10. DiskIsClear'
    BY <2>1, <2>5, <2>8 DEF DiskIsClear, ClearTo
  <2>11. DiskGrows'
    <3>1. Len(worker.job.trials) \in Nat
      BY <2>2
    <3> QED
      BY <1>1, <2>1, <2>7, <3>1 DEF WriterInv, DiskGrows
  <2>12. QueueGrows'
    BY <1>1, <2>1, <2>7 DEF WriterInv, QueueGrows
  <2> QED
    BY <1>1, <2>5, <2>6, <2>9, <2>10, <2>11, <2>12, WorkerKeeps
<1> QED
  BY <1>2, <1>3

\* What is counted as committed is in the file, with all its rows.
LEMMA CommitsKeeps ==
  ASSUME WriterInv, Sealed \in Nat, Sealed <= MaxTrials, Sealed' = Sealed, Commits
  PROVE  WriterInv'
<1>1. /\ worker.at = "commits" /\ worker' = Rests("checks")
      /\ committed' = Len(worker.job.trials) /\ disk' = disk /\ version' = version
      /\ UNCHANGED <<queue, latest, stopping, error, failedAfter, unavailable, lost>>
  BY DEF Commits, shared
<1>2. worker'.at = "checks" /\ worker'.job = NoRow
  BY <1>1 DEF Rests, At
<1>3. KeepsJob
  BY <1>1, <1>2, JobsAre DEF WriterInv, WriterTypeOK, KeepsJob
<1>4. /\ Len(worker.job.trials) \in Nat /\ Len(worker.job.trials) <= Sealed
      /\ Len(worker.job.trials) <= Len(latest) /\ Len(worker.job.trials) <= Len(disk.trials)
      /\ ClearTo(Len(worker.job.trials), Missing)
      /\ Len(disk.trials) <= Sealed
  BY <1>1, QueueIs DEF WriterInv, NothingAhead, DiskGrows, JobIsClear, Ordinary
<1>5. Len(worker.job.trials) <= MaxTrials
  BY <1>4, Numbers
<1>6. WriterTypeOK' /\ Latches /\ Missing' \subseteq Missing
  <2>1. disk'.valid \in BOOLEAN /\ disk'.trials \in Seq(BOOLEAN)
    BY <1>1 DEF WriterInv, WriterTypeOK
  <2>2. committed' \in 0..MaxTrials
    BY <1>1, <1>4, <1>5, Numbers
  <2> QED
    BY <1>3, <2>1, <2>2, JobKept
<1>7. Ordinary /\ ~Ordinary' /\ ~Failing'
  BY <1>1, <1>2 DEF Ordinary, Failing
<1>8. Len(worker'.job.trials) <= Sealed
  BY <1>2, JobsAre
<1>9. JobIsClear' /\ DiskIsClear'
  BY <1>1, <1>2, <1>6 DEF WriterInv, JobIsClear, DiskIsClear
<1>10. DiskGrows'
  BY <1>1, <1>2, <1>4, <1>7 DEF DiskGrows
<1>11. QueueGrows'
  BY <1>1, <1>7 DEF WriterInv, QueueGrows
<1> QED
  BY <1>1, <1>4, <1>6, <1>8, <1>9, <1>10, <1>11, WorkerKeeps

\* The first job leaves the queue; if it is a checkpoint, its rows went before.
LEMMA TakesKeeps ==
  ASSUME WriterInv, Sealed \in Nat, Sealed' = Sealed, Takes
  PROVE  WriterInv'
<1>1. /\ worker.at = "waits" /\ queue # <<>> /\ queue' = Tail(queue)
      /\ UNCHANGED <<error, unavailable, failedAfter, latest, version, stopping, committed,
                     disk, lost>>
      /\ worker'.job = Head(queue)
      /\ worker'.at = IF Saves(Head(queue)) THEN "judges" ELSE "appends"
  BY DEF Takes, At, Saves
<1>2. queue \in Seq(JobType) /\ Len(queue) <= Capacity
  BY DEF WriterInv, WriterTypeOK
<1>3. /\ queue' \in Seq(JobType) /\ Len(queue) \in Nat /\ Len(queue') = Len(queue) - 1
      /\ 1 \in 1..Len(queue) /\ worker'.job = queue[1] /\ queue[1] \in JobType
      /\ \A i \in 1..Len(queue') : i + 1 \in 1..Len(queue) /\ queue'[i] = queue[i + 1]
  BY <1>1, <1>2, QueueLeaves
<1>4. WriterTypeOK'
  <2>1. Len(queue') <= Capacity
    BY <1>2, <1>3, Numbers
  <2> QED
    BY <1>1, <1>3, <2>1 DEF WriterInv, WriterTypeOK
<1>5. Missing' \subseteq Missing
  <2>1. Queued' \subseteq Queued /\ queue[1].trial \in Queued
    BY <1>3 DEF Queued
  <2>2. Held' \subseteq Queued
    BY <1>1, <1>3, <2>1 DEF Held
  <2> QED
    BY <1>1, <2>1, <2>2 DEF Missing
<1>6. NothingAhead'
  BY <1>1, <1>3 DEF WriterInv, NothingAhead
<1>7. RowsFollow'
  <2> SUFFICES ASSUME NEW i \in 1..Len(queue'), NEW j \in 1..Len(queue'), i < j,
                      queue'[j].trial > 0
               PROVE  queue'[j].trial > Len(queue'[i].trials)
    BY DEF RowsFollow
  <2>1. /\ i + 1 \in 1..Len(queue) /\ j + 1 \in 1..Len(queue) /\ i + 1 < j + 1
        /\ queue'[i] = queue[i + 1] /\ queue'[j] = queue[j + 1]
    BY <1>3
  <2> QED
    BY <2>1 DEF WriterInv, RowsFollow
<1>8. LossIsKnown'
  BY <1>1, <1>3 DEF WriterInv, LossIsKnown
<1>9. CountsAreClear'
  BY <1>1, <1>5 DEF WriterInv, CountsAreClear, ClearTo
<1>10. JobIsClear'
  <2> SUFFICES ASSUME Saves(queue[1]), ~error PROVE ClearTo(Len(queue[1].trials), Missing')
    BY <1>1, <1>3 DEF JobIsClear
  <2>1. Held' = {}
    BY <1>1, <1>3 DEF Held
  <2>2. ASSUME NEW t \in 1..Len(queue[1].trials) PROVE t \notin Missing'
    <3>1. Len(queue[1].trials) \in Nat
      BY <1>3, JobIs
    <3>2. t \notin lost'
      <4>1. ~(t > Len(queue[1].trials))
        BY <3>1
      <4> QED
        BY <1>1, <1>3, <4>1 DEF WriterInv, LossIsKnown
    <3>3. t \notin Queued'
      <4> SUFFICES ASSUME NEW i \in 1..Len(queue'), queue'[i].trial = t PROVE FALSE
        BY DEF Queued
      <4>1. i + 1 \in 1..Len(queue) /\ queue'[i] = queue[i + 1] /\ 1 < i + 1
        BY <1>3
      <4>2. queue[i + 1].trial > Len(queue[1].trials)
        BY <1>3, <3>1, <4>1 DEF WriterInv, RowsFollow
      <4> QED
        BY <3>1, <4>1, <4>2
    <3> QED
      BY <2>1, <3>2, <3>3 DEF Missing
  <2> QED
    BY <2>2 DEF ClearTo
<1>11. DiskIsClear'
  BY <1>1, <1>5 DEF WriterInv, DiskIsClear
<1>12. ~Ordinary /\ ~Failing' /\ (Ordinary' => Saves(queue[1]))
  BY <1>1, <1>3 DEF Ordinary, Failing
<1>13. DiskGrows'
  <2>1. Saves(queue[1]) =>
          committed <= Len(queue[1].trials) /\ Len(queue[1].trials) <= Len(latest)
    BY <1>3 DEF WriterInv, QueueGrows
  <2>2. worker'.at # "commits"
    BY <1>1
  <2> QED
    BY <1>1, <1>3, <1>12, <2>1, <2>2 DEF WriterInv, DiskGrows
<1>14. QueueGrows'
  <2>1. QueueGrows
    BY DEF WriterInv
  <2>2. ASSUME NEW i \in 1..Len(queue'), Saves(queue'[i])
        PROVE  /\ committed <= Len(queue'[i].trials) /\ Len(queue'[i].trials) <= Len(latest)
               /\ Ordinary' => Len(queue[1].trials) <= Len(queue'[i].trials)
    <3>1. i + 1 \in 1..Len(queue) /\ queue'[i] = queue[i + 1] /\ 1 < i + 1
      BY <1>3
    <3> QED
      BY <1>3, <1>12, <2>1, <2>2, <3>1 DEF QueueGrows
  <2>3. ASSUME NEW i \in 1..Len(queue'), NEW j \in 1..Len(queue'), i < j,
               Saves(queue'[i]), Saves(queue'[j])
        PROVE  Len(queue'[i].trials) <= Len(queue'[j].trials)
    <3>1. /\ i + 1 \in 1..Len(queue) /\ j + 1 \in 1..Len(queue) /\ i + 1 < j + 1
          /\ queue'[i] = queue[i + 1] /\ queue'[j] = queue[j + 1]
      BY <1>3, <2>3
    <3> QED
      BY <2>1, <2>3, <3>1 DEF QueueGrows
  <2> QED
    BY <1>1, <1>3, <2>2, <2>3 DEF QueueGrows
<1> QED
  BY <1>4, <1>6, <1>7, <1>8, <1>9, <1>10, <1>11, <1>13, <1>14 DEF WriterInv

\* Every step of the worker keeps the writer's invariant.
LEMMA WorkKeeps ==
  ASSUME WriterInv, Sealed \in Nat, Sealed <= MaxTrials, Sealed' = Sealed, Work
  PROVE  WriterInv'
<1>1. ASSUME Checks PROVE WriterInv'
  <2>1. worker' = Rests("waits") /\ "waits" \in Resting
        /\ UNCHANGED <<shared, committed, disk, lost>>
    BY <1>1 DEF Checks, Resting
  <2> QED
    BY <2>1, RestsQuietly
<1>2. ASSUME Wakes PROVE WriterInv'
  <2>1. /\ \E p \in Resting : worker' = Rests(p)
        /\ UNCHANGED <<shared, committed, disk, lost>>
    BY <1>2 DEF Wakes, Resting
  <2> QED
    BY <2>1, RestsQuietly
<1> QED
  BY <1>1, <1>2, FailureCopiedKeeps, TakesKeeps, JudgesKeeps, CommitsKeeps,
     FailureWrittenKeeps, AppendsKeeps, ReplacesKeeps, ClosesKeeps DEF Work

\* What the writer holds does not depend on the rest of the node.
LEMMA WriterStays ==
  ASSUME WriterInv, UNCHANGED writerVars, SealedGrows PROVE WriterInv'
<1>1. UNCHANGED <<queue, error, unavailable, failedAfter, latest, version, stopping,
                  committed, worker, disk, lost>>
  BY DEF writerVars, shared
<1>2. WriterTypeOK' /\ RowsFollow' /\ LossIsKnown'
  BY <1>1 DEF WriterInv, WriterTypeOK, RowsFollow, LossIsKnown
<1>3. UNCHANGED <<Missing, Ordinary, Failing>>
  BY <1>1 DEF Missing, Queued, Held, Ordinary, Failing
<1>4. CountsAreClear' /\ JobIsClear' /\ DiskIsClear'
  BY <1>1, <1>3 DEF WriterInv, CountsAreClear, JobIsClear, DiskIsClear
<1>5. DiskGrows' /\ QueueGrows'
  BY <1>1, <1>3 DEF WriterInv, DiskGrows, QueueGrows
<1>6. NothingAhead'
  BY <1>1, QueueIs DEF WriterInv, NothingAhead, SealedGrows
<1> QED
  BY <1>2, <1>4, <1>5, <1>6 DEF WriterInv

\* The close forbids further jobs and changes nothing else.
LEMMA CloseKeeps ==
  ASSUME WriterInv, Close, Sealed' = Sealed PROVE WriterInv'
<1>1. /\ stopping' = TRUE
      /\ UNCHANGED <<queue, error, unavailable, failedAfter, latest, version,
                     committed, worker, disk, lost>>
  BY DEF Close
<1>2. WriterTypeOK' /\ RowsFollow' /\ LossIsKnown'
  BY <1>1 DEF WriterInv, WriterTypeOK, RowsFollow, LossIsKnown
<1>3. UNCHANGED <<Missing, Ordinary, Failing>>
  BY <1>1 DEF Missing, Queued, Held, Ordinary, Failing
<1>4. CountsAreClear' /\ JobIsClear' /\ DiskIsClear'
  BY <1>1, <1>3 DEF WriterInv, CountsAreClear, JobIsClear, DiskIsClear
<1>5. DiskGrows' /\ QueueGrows' /\ NothingAhead'
  BY <1>1, <1>3 DEF WriterInv, DiskGrows, QueueGrows, NothingAhead
<1> QED
  BY <1>2, <1>4, <1>5 DEF WriterInv

-----------------------------------------------------------------------------
(* The node's calls of the writer.                                         *)

\* The list of trials only grows.
Grows == trials' \in Seq(BOOLEAN) /\ Len(trials) <= Len(trials') /\ Len(trials') <= MaxTrials

\* The node's place bounds what it has sealed.
LEMMA SealedIs ==
  ASSUME NodeTypeOK, Located
  PROVE  /\ Len(trials) \in Nat /\ Len(trials) <= MaxTrials
         /\ node.first \in Nat /\ node.first <= Len(trials)
         /\ Sealed \in Nat /\ Sealed <= Len(trials)
<1>1. trials \in Seq(BOOLEAN) /\ Len(trials) <= MaxTrials
  BY DEF NodeTypeOK
<1>2. Len(trials) \in Nat
  BY <1>1
<1>3. node.first \in Nat /\ node.first <= Len(trials)
  BY Numbers DEF Located
<1> QED
  BY <1>1, <1>2, <1>3 DEF Sealed

\* A step that is not the tick's head leaves the seal where it was or raises it.
LEMMA SealRises ==
  ASSUME NodeTypeOK, Located, Grows, node'.at # "row" PROVE SealedGrows /\ Sealed' = Len(trials')
<1>1. Len(trials) \in Nat /\ Sealed \in Nat /\ Sealed <= Len(trials)
  BY SealedIs
<1>2. Len(trials') \in Nat /\ Len(trials) <= Len(trials')
  BY DEF Grows
<1>3. Sealed' = Len(trials')
  BY DEF Sealed
<1> QED
  BY <1>1, <1>2, <1>3 DEF SealedGrows

\* A snapshot of the trials.
LEMMA SavesKeeps ==
  ASSUME WriterInv, NodeTypeOK, Located, Grows, node.at # "row", node'.at # "row",
         SubmitTrials(trials, faulted)
  PROVE  WriterInv'
<1> DEFINE job == Saved(trials, faulted)
<1>1. /\ job \in JobType /\ job.trial = 0 /\ job.trials = trials /\ Saves(job)
  BY JobsAre DEF NodeTypeOK
<1> HIDE DEF job
<1>2. Submitted(job) /\ latest' = trials /\ lost' = lost
      /\ UNCHANGED <<unavailable, committed, stopping, worker, disk>>
  BY DEF SubmitTrials, job
<1>3. SealedGrows /\ Sealed' = Len(trials')
  BY SealRises
<1>4. Len(latest) <= Len(trials)
  BY DEF WriterInv, NothingAhead, Sealed
<1>5. IsBehind(job)
  BY <1>1, <1>2, <1>3, <1>4 DEF IsBehind, Grows
<1>6. Records
  <2>1. latest' \in Seq(BOOLEAN)
    BY <1>2 DEF NodeTypeOK
  <2>2. version' \in {"never failed", "stale", "current"}
    BY DEF SubmitTrials, WriterInv, WriterTypeOK
  <2> QED
    BY <1>2, <2>1, <2>2 DEF Records
<1>7. Loses(job)
  BY <1>2 DEF Loses
<1> QED
  BY <1>1, <1>2, <1>3, <1>5, <1>6, <1>7, SubmitKeeps

\* A runtime row or a reset.
LEMMA OtherKeeps ==
  ASSUME WriterInv, NodeTypeOK, Located, Grows, node'.at # "row", SubmitOther
  PROVE  WriterInv'
<1>1. NoRow \in JobType /\ NoRow.trial = 0 /\ Len(NoRow.trials) = 0 /\ ~Saves(NoRow)
  BY JobsAre
<1>2. Submitted(NoRow) /\ latest' = latest /\ lost' = lost /\ version' = version
      /\ UNCHANGED <<unavailable, committed, stopping, worker, disk>>
  BY DEF SubmitOther
<1>3. SealedGrows
  BY SealRises
<1>4. Len(latest) \in Nat /\ Len(latest) <= Sealed
  BY QueueIs DEF WriterInv, NothingAhead
<1>5. Len(latest) <= Sealed' /\ 0 <= Sealed'
  BY <1>3, <1>4 DEF SealedGrows
<1>6. IsBehind(NoRow)
  BY <1>1, <1>2, <1>4, <1>5 DEF IsBehind
<1>7. Records /\ Loses(NoRow)
  BY <1>2 DEF Records, Loses, WriterInv, WriterTypeOK
<1> QED
  BY <1>1, <1>2, <1>3, <1>6, <1>7, SubmitKeeps

\* The row of the trial under measurement, the last that trial may get.
LEMMA RowKeeps ==
  ASSUME WriterInv, NodeTypeOK, Located, Grows, node.at = "row", node'.at # "row",
         SubmitRow(node.first + 1)
  PROVE  WriterInv'
<1> DEFINE job == Row(node.first + 1)
<1>0. node.first \in Nat /\ node.first <= Len(trials) /\ Len(trials) <= MaxTrials
      /\ Len(trials) \in Nat /\ Sealed = node.first
  BY SealedIs DEF Sealed
<1>1. /\ job \in JobType /\ job.trial = node.first + 1 /\ Len(job.trials) = 0 /\ ~Saves(job)
  <2>1. node.first + 1 \in 0..(MaxTrials + 1)
    BY <1>0, Numbers
  <2> QED
    BY <2>1, JobsAre
<1> HIDE DEF job
<1>2. Submitted(job) /\ latest' = latest /\ version' = version
      /\ UNCHANGED <<unavailable, committed, stopping, worker, disk>>
  BY DEF SubmitRow, job
<1>3. SealedGrows
  BY SealRises
<1>4. Len(latest) \in Nat /\ Len(latest) <= Sealed
  BY QueueIs DEF WriterInv, NothingAhead
<1>5. Len(latest) <= Sealed' /\ 0 <= Sealed' /\ job.trial > Sealed
  BY <1>0, <1>1, <1>3, <1>4 DEF SealedGrows
<1>6. IsBehind(job)
  BY <1>1, <1>2, <1>4, <1>5 DEF IsBehind
<1>7. Records
  BY <1>2 DEF Records, WriterInv, WriterTypeOK
<1>8. Loses(job)
  <2>1. lost' = IF Accepts THEN lost ELSE lost \union ({node.first + 1} \intersect Trials)
    BY DEF SubmitRow
  <2> QED
    BY <1>1, <2>1 DEF Loses
<1> QED
  BY <1>1, <1>2, <1>3, <1>6, <1>7, <1>8, SubmitKeeps

-----------------------------------------------------------------------------
(* The engine.                                                             *)

\* An unfinished measurement may become one more trial, if there is one.
LEMMA FinishedIs ==
  ASSUME NodeTypeOK, NEW list \in Finished(trials)
  PROVE  /\ list \in Seq(BOOLEAN) /\ Len(list) \in Nat
         /\ Len(trials) <= Len(list) /\ Len(list) <= MaxTrials
         /\ engine # "ACTIVE" => list = trials
<1>1. trials \in Seq(BOOLEAN) /\ Len(trials) <= MaxTrials
  BY DEF NodeTypeOK
<1>2. Len(trials) \in Nat
  BY <1>1
<1>3. CASE list = trials
  BY <1>1, <1>2, <1>3
<1>4. CASE list # trials
  <2>1. list = Append(trials, FALSE) /\ Len(trials) < MaxTrials /\ engine = "ACTIVE"
    BY <1>4 DEF Finished
  <2>2. Append(trials, FALSE) \in Seq(BOOLEAN) /\ Len(Append(trials, FALSE)) = Len(trials) + 1
    BY <1>1
  <2> QED
    BY <1>2, <2>1, <2>2, Numbers
<1> QED
  BY <1>3, <1>4

\* Invalidation takes validity from trials and leaves their number.
LEMMA InvalidatedIs ==
  ASSUME NEW list \in Seq(BOOLEAN), NEW first
  PROVE  Invalidated(first, list) \in Seq(BOOLEAN) /\ Len(Invalidated(first, list)) = Len(list)
<1> DEFINE new == [i \in 1..Len(list) |-> list[i] /\ i <= first]
<1>1. \A i \in 1..Len(list) : (list[i] /\ i <= first) \in BOOLEAN
  OBVIOUS
<1>2. new \in Seq(BOOLEAN) /\ Len(new) = Len(list)
  BY <1>1
<1> QED
  BY <1>2 DEF Invalidated

\* What the engine may do in any step: an attempt that is over stays over, and
\* then the number of trials stays.
EngineMoves ==
  /\ engine' \in Engines /\ Grows
  /\ engine \notin {"IDLE", "ACTIVE"} =>
       engine' \notin {"IDLE", "ACTIVE"} /\ Len(trials') = Len(trials)

\* The ends of an attempt: finish, with or without invalidation.
LEMMA EndMoves ==
  ASSUME NodeTypeOK, engine' \in {"FAULT", "STOPPING"}, NEW list \in Finished(trials),
         trials' = list \/ \E first : trials' = Invalidated(first, list)
  PROVE  EngineMoves
<1>1. /\ list \in Seq(BOOLEAN) /\ Len(list) \in Nat
      /\ Len(trials) <= Len(list) /\ Len(list) <= MaxTrials
      /\ engine # "ACTIVE" => list = trials
  BY FinishedIs
<1>2. trials' \in Seq(BOOLEAN) /\ Len(trials') = Len(list)
  BY <1>1, InvalidatedIs
<1>3. Grows
  BY <1>1, <1>2 DEF Grows
<1> QED
  BY <1>1, <1>2, <1>3 DEF EngineMoves, Engines

\* Nothing of the engine moves.
LEMMA EngineRests == ASSUME NodeTypeOK, UNCHANGED <<engine, trials>> PROVE EngineMoves
<1>1. trials \in Seq(BOOLEAN) /\ Len(trials) <= MaxTrials /\ engine \in Engines
  BY DEF NodeTypeOK
<1>2. Len(trials) \in Nat
  BY <1>1
<1>3. Grows
  BY <1>1, <1>2 DEF Grows
<1> QED
  BY <1>1, <1>3 DEF EngineMoves

\* The engine's own step.
LEMMA StepMoves == ASSUME NodeTypeOK, EngineStep PROVE EngineMoves
<1>1. CASE UNCHANGED <<engine, trials>>
  BY <1>1, EngineRests
<1>2. CASE /\ engine = "ACTIVE" /\ Len(trials) < MaxTrials
           /\ \E success \in BOOLEAN : trials' = Append(trials, success)
           /\ engine' \in {"COMPLETE"} \union IF Len(trials) + 1 < MaxTrials THEN {"ACTIVE"} ELSE {}
  <2>1. trials \in Seq(BOOLEAN)
    BY DEF NodeTypeOK
  <2>2. trials' \in Seq(BOOLEAN) /\ Len(trials') = Len(trials) + 1 /\ Len(trials) \in Nat
    BY <1>2, <2>1
  <2>3. Grows
    BY <1>2, <2>2, Numbers DEF Grows
  <2> QED
    BY <1>2, <2>3 DEF EngineMoves, Engines
<1>3. CASE engine = "ACTIVE" /\ engine' = "FAULT" /\ trials' \in Finished(trials)
  BY <1>3, EndMoves
<1> QED
  BY <1>1, <1>2, <1>3 DEF EngineStep

-----------------------------------------------------------------------------
(* The node's steps.                                                       *)

\* The operator's share of a step of the node: at most a request was handled.
Handles ==
  /\ faulted' \in BOOLEAN /\ enables' \in 0..1 /\ requests' \subseteq requests
  /\ UNCHANGED <<operator, status>>
  /\ "stop" \in requests /\ "stop" \notin requests' => engine' \notin {"IDLE", "ACTIVE"}

\* A step of the node keeps its own share of the invariant.
LEMMA NodeKeeps ==
  ASSUME NodeInv, EngineMoves, Handles, Located', committed' = committed
  PROVE  NodeInv'
<1>1. NodeTypeOK'
  BY DEF NodeInv, NodeTypeOK, EngineMoves, Grows, Handles
<1>2. StatusHolds'
  <2> SUFFICES ASSUME status' PROVE /\ engine' \in {"STOPPING", "FAULT", "COMPLETE"}
                                    /\ committed' = Len(trials')
    BY DEF StatusHolds
  <2>1. engine \in {"STOPPING", "FAULT", "COMPLETE"} /\ committed = Len(trials)
    BY DEF NodeInv, StatusHolds, Handles
  <2> QED
    BY <2>1 DEF EngineMoves, Engines
<1>3. StopHolds'
  <2> SUFFICES ASSUME Undone' PROVE engine' \notin {"IDLE", "ACTIVE"}
    BY DEF StopHolds
  <2>1. CASE "stop" \in requests
    BY <2>1 DEF Undone, Handles
  <2>2. CASE "stop" \notin requests
    <3>1. engine \notin {"IDLE", "ACTIVE"}
      BY <2>2 DEF NodeInv, StopHolds, Undone, Handles
    <3> QED
      BY <3>1 DEF EngineMoves
  <2> QED
    BY <2>1, <2>2
<1> QED
  BY <1>1, <1>2, <1>3 DEF NodeInv

\* A place in a callback that began at a number of trials that stands.
LEMMA PlaceIs ==
  ASSUME NodeTypeOK, Grows, NEW p \in NodePlaces, NEW first \in Nat, first <= Len(trials),
         NEW saves \in BOOLEAN, node' = InTick(p, first, saves)
  PROVE  Located' /\ node'.at = p /\ node'.first = first
<1>1. node' = [at |-> p, first |-> first, saves |-> saves]
  BY DEF InTick
<1>2. Len(trials) \in Nat /\ Len(trials') \in Nat /\ Len(trials) <= Len(trials')
      /\ Len(trials') <= MaxTrials
  <2>1. trials \in Seq(BOOLEAN)
    BY DEF NodeTypeOK
  <2>2. trials' \in Seq(BOOLEAN) /\ Len(trials) <= Len(trials') /\ Len(trials') <= MaxTrials
    BY DEF Grows
  <2> QED
    BY <2>1, <2>2
<1>3. first <= Len(trials') /\ first \in 0..MaxTrials
  BY <1>2, Numbers
<1> QED
  BY <1>1, <1>3 DEF Located

\* The place between callbacks.
LEMMA IdleIs == Idle = InTick("idle", 0, FALSE) /\ Idle.at = "idle" /\ FALSE \in BOOLEAN /\ 0 \in Nat
  BY DEF Idle, InTick

\* The place a step goes to when it starts nothing at a first trial.
LEMMA StartsAt ==
  ASSUME NodeTypeOK, Grows, NEW p \in NodePlaces, node' = InTick(p, 0, FALSE)
  PROVE  Located' /\ node'.at = p
<1>1. 0 <= Len(trials) /\ 0 \in Nat /\ FALSE \in BOOLEAN
  <2>1. trials \in Seq(BOOLEAN)
    BY DEF NodeTypeOK
  <2> QED
    BY <2>1
<1> QED
  BY <1>1, PlaceIs

\* The head of a tick: the row to come is that of the trial under measurement.
LEMMA TickKeeps == ASSUME SessionInv, Tick PROVE SessionInv'
<1>1. /\ WriterInv /\ NodeInv /\ NodeTypeOK /\ Located
  BY DEF SessionInv, NodeInv
<1>2. /\ node = Idle /\ node' = InTick("row", Len(trials), trials' # trials \/ faulted')
      /\ UNCHANGED writerVars /\ UNCHANGED enables /\ UNCHANGED operatorVars
  BY DEF Tick
<1>3. EngineMoves /\ faulted' \in BOOLEAN
  <2>1. CASE error
    <3>1. /\ engine' = "FAULT" /\ faulted' = TRUE
          /\ \E list \in Finished(trials) :
               trials' = Invalidated(Least(Len(trials), failedAfter), list)
      BY <2>1 DEF Tick
    <3> QED
      BY <1>1, <3>1, EndMoves
  <2>2. CASE ~error
    <3>1. EngineStep /\ faulted' = faulted
      BY <2>2 DEF Tick
    <3> QED
      BY <1>1, <3>1, StepMoves DEF NodeTypeOK
  <2> QED
    BY <2>1, <2>2
<1>4. Grows
  BY <1>3 DEF EngineMoves
<1>5. Len(trials) \in Nat /\ Sealed = Len(trials)
  <2>1. node.at # "row"
    BY <1>2, IdleIs
  <2> QED
    BY <1>1, <2>1, SealedIs DEF Sealed
<1>6. Located' /\ node'.at = "row" /\ node'.first = Len(trials)
  <2> DEFINE saves == trials' # trials \/ faulted'
  <2>1. "row" \in NodePlaces /\ saves \in BOOLEAN
    BY DEF NodePlaces
  <2>2. node' = InTick("row", Len(trials), saves)
    BY <1>2
  <2> HIDE DEF saves
  <2>3. Len(trials) <= Len(trials)
    BY <1>5
  <2> QED
    BY <1>1, <1>4, <1>5, <2>1, <2>2, <2>3, PlaceIs
<1>7. SealedGrows
  BY <1>5, <1>6 DEF Sealed, SealedGrows
<1>8. WriterInv'
  BY <1>1, <1>2, <1>7, WriterStays
<1>9. Handles /\ committed' = committed
  BY <1>1, <1>2, <1>3 DEF Handles, NodeTypeOK, operatorVars, writerVars
<1>10. NodeInv'
  BY <1>1, <1>3, <1>6, <1>9, NodeKeeps
<1> QED
  BY <1>8, <1>10 DEF SessionInv

\* A call that is refused in a tick ends the attempt and invalidates trials.
LEMMA ContinueMoves ==
  ASSUME NodeTypeOK, Located, NEW p \in NodePlaces, p # "row", NEW saves \in BOOLEAN,
         NEW first \in Nat, first <= Len(trials), Continue(InTick(p, first, saves))
  PROVE  EngineMoves /\ Located' /\ node'.at # "row" /\ faulted' \in BOOLEAN
<1>1. CASE Accepts
  <2>1. node' = InTick(p, first, saves) /\ UNCHANGED <<engine, trials>> /\ faulted' = faulted
    BY <1>1 DEF Continue
  <2>2. EngineMoves /\ Grows
    BY <2>1, EngineRests DEF EngineMoves
  <2>3. Located' /\ node'.at = p
    BY <2>1, <2>2, PlaceIs
  <2> QED
    BY <2>1, <2>2, <2>3 DEF NodeTypeOK
<1>2. CASE ~Accepts
  <2>1. /\ node' = InTick("rescue", 0, FALSE) /\ engine' = "FAULT" /\ faulted' = TRUE
        /\ \E list \in Finished(trials) : trials' = Invalidated(node.first, list)
    BY <1>2 DEF Continue
  <2>2. EngineMoves /\ Grows
    BY <2>1, EndMoves DEF EngineMoves
  <2>3. Located' /\ node'.at = "rescue"
    <3>1. "rescue" \in NodePlaces
      BY DEF NodePlaces
    <3> QED
      BY <2>1, <2>2, <3>1, StartsAt
  <2> QED
    BY <2>1, <2>2, <2>3
<1> QED
  BY <1>1, <1>2

\* A call that is refused outside a tick only ends the attempt.
LEMMA OtherwiseMoves ==
  ASSUME NodeTypeOK, NEW p \in NodePlaces, p # "row", Otherwise(InTick(p, 0, FALSE))
  PROVE  EngineMoves /\ Located' /\ node'.at # "row"
<1>1. CASE Accepts
  <2>1. node' = InTick(p, 0, FALSE) /\ UNCHANGED <<engine, trials>>
    BY <1>1 DEF Otherwise
  <2>2. EngineMoves /\ Grows
    BY <2>1, EngineRests DEF EngineMoves
  <2> QED
    BY <2>1, <2>2, StartsAt
<1>2. CASE ~Accepts
  <2>1. node' = InTick("idle", 0, FALSE) /\ engine' = "FAULT" /\ trials' \in Finished(trials)
    BY <1>2, IdleIs DEF Otherwise
  <2>2. EngineMoves /\ Grows
    BY <2>1, EndMoves DEF EngineMoves
  <2>3. Located' /\ node'.at = "idle"
    <3>1. "idle" \in NodePlaces
      BY DEF NodePlaces
    <3> QED
      BY <2>1, <2>2, <3>1, StartsAt
  <2> QED
    BY <2>2, <2>3
<1> QED
  BY <1>1, <1>2

\* The node handles no request while it writes, and the writer's calls leave
\* the count alone.
LEMMA WritesHandle ==
  ASSUME NodeTypeOK, faulted' \in BOOLEAN, UNCHANGED enables, UNCHANGED operatorVars
  PROVE  Handles
  BY DEF Handles, NodeTypeOK, operatorVars

\* The rows and the checkpoint of a tick.
LEMMA TickWritesKeep ==
  ASSUME SessionInv, WriteRow \/ WriteTrials \/ WriteRuntime \/ Rescue PROVE SessionInv'
<1>1. WriterInv /\ NodeInv /\ NodeTypeOK /\ Located
  BY DEF SessionInv, NodeInv
<1>2. node.first \in Nat /\ node.first <= Len(trials) /\ 0 \in Nat /\ 0 <= Len(trials)
  <2>1. Len(trials) \in Nat
    BY <1>1, SealedIs
  <2> QED
    BY <1>1, <2>1, SealedIs
<1>3. {"save", "runtime", "idle"} \subseteq NodePlaces /\ FALSE \in BOOLEAN
  BY DEF NodePlaces
<1>4. UNCHANGED enables /\ UNCHANGED operatorVars /\ committed' = committed
  BY DEF WriteRow, WriteTrials, WriteRuntime, Rescue, SubmitRow, SubmitTrials, SubmitOther
<1>5. CASE WriteRow
  <2>1. /\ node.at = "row" /\ SubmitRow(node.first + 1)
        /\ Continue(InTick(IF node.saves THEN "save" ELSE "runtime", node.first, FALSE))
    BY <1>5 DEF WriteRow
  <2>2. (IF node.saves THEN "save" ELSE "runtime") \in NodePlaces
        /\ (IF node.saves THEN "save" ELSE "runtime") # "row"
    BY <1>3
  <2>3. EngineMoves /\ Located' /\ node'.at # "row" /\ faulted' \in BOOLEAN
    BY <1>1, <1>2, <1>3, <2>1, <2>2, ContinueMoves
  <2>4. WriterInv'
    BY <1>1, <2>1, <2>3, RowKeeps DEF EngineMoves
  <2>5. Handles
    BY <1>1, <1>4, <2>3, WritesHandle
  <2> QED
    BY <1>1, <1>4, <2>3, <2>4, <2>5, NodeKeeps DEF SessionInv
<1>6. CASE WriteTrials
  <2>1. /\ node.at # "row" /\ SubmitTrials(trials, faulted)
        /\ Continue(InTick("runtime", node.first, FALSE))
    BY <1>6 DEF WriteTrials
  <2>2. EngineMoves /\ Located' /\ node'.at # "row" /\ faulted' \in BOOLEAN
    BY <1>1, <1>2, <1>3, <2>1, ContinueMoves
  <2>3. WriterInv'
    BY <1>1, <2>1, <2>2, SavesKeeps DEF EngineMoves
  <2>4. Handles
    BY <1>1, <1>4, <2>2, WritesHandle
  <2> QED
    BY <1>1, <1>4, <2>2, <2>3, <2>4, NodeKeeps DEF SessionInv
<1>7. CASE WriteRuntime
  <2>1. SubmitOther /\ Continue(InTick("idle", 0, FALSE))
    BY <1>7, IdleIs DEF WriteRuntime
  <2>2. EngineMoves /\ Located' /\ node'.at # "row" /\ faulted' \in BOOLEAN
    BY <1>1, <1>2, <1>3, <2>1, ContinueMoves
  <2>3. WriterInv'
    BY <1>1, <2>1, <2>2, OtherKeeps DEF EngineMoves
  <2>4. Handles
    BY <1>1, <1>4, <2>2, WritesHandle
  <2> QED
    BY <1>1, <1>4, <2>2, <2>3, <2>4, NodeKeeps DEF SessionInv
<1>8. CASE Rescue
  <2>1. /\ node.at # "row" /\ SubmitTrials(trials, faulted) /\ node' = InTick("idle", 0, FALSE)
        /\ UNCHANGED <<engine, trials>> /\ faulted' = faulted
    BY <1>8, IdleIs DEF Rescue
  <2>2. EngineMoves /\ Grows
    BY <1>1, <2>1, EngineRests DEF EngineMoves
  <2>3. Located' /\ node'.at = "idle"
    BY <1>1, <1>3, <2>1, <2>2, StartsAt
  <2>4. WriterInv'
    BY <1>1, <2>1, <2>2, <2>3, SavesKeeps
  <2>5. Handles
    BY <1>1, <1>4, <2>1, WritesHandle DEF NodeTypeOK
  <2> QED
    BY <1>1, <1>4, <2>2, <2>3, <2>4, <2>5, NodeKeeps DEF SessionInv
<1> QED
  BY <1>5, <1>6, <1>7, <1>8

\* The rest of a callback: reset, checkpoint, answer, close.
LEMMA AnswersKeep ==
  ASSUME SessionInv, ResetObservations \/ SaveThenAnswer \/ SaveThenClose \/ CloseWriter
  PROVE  SessionInv'
<1>1. WriterInv /\ NodeInv /\ NodeTypeOK /\ Located
  BY DEF SessionInv, NodeInv
<1>2. {"answering", "idle", "closing"} \subseteq NodePlaces
  BY DEF NodePlaces
<1>3. CASE ResetObservations
  <2>1. /\ SubmitOther /\ Otherwise(InTick("answering", 0, FALSE))
        /\ faulted' = faulted /\ UNCHANGED enables /\ UNCHANGED operatorVars
        /\ committed' = committed
    BY <1>3 DEF ResetObservations, SubmitOther
  <2>2. EngineMoves /\ Located' /\ node'.at # "row"
    BY <1>1, <1>2, <2>1, OtherwiseMoves
  <2>3. WriterInv'
    BY <1>1, <2>1, <2>2, OtherKeeps DEF EngineMoves
  <2>4. Handles
    BY <1>1, <2>1, WritesHandle DEF NodeTypeOK
  <2> QED
    BY <1>1, <2>1, <2>2, <2>3, <2>4, NodeKeeps DEF SessionInv
<1>4. CASE SaveThenAnswer
  <2>1. /\ node.at # "row" /\ SubmitTrials(trials, faulted)
        /\ Otherwise(InTick("idle", 0, FALSE))
        /\ faulted' = faulted /\ UNCHANGED enables /\ UNCHANGED operatorVars
        /\ committed' = committed
    BY <1>4, IdleIs DEF SaveThenAnswer, SubmitTrials
  <2>2. EngineMoves /\ Located' /\ node'.at # "row"
    BY <1>1, <1>2, <2>1, OtherwiseMoves
  <2>3. WriterInv'
    BY <1>1, <2>1, <2>2, SavesKeeps DEF EngineMoves
  <2>4. Handles
    BY <1>1, <2>1, WritesHandle DEF NodeTypeOK
  <2> QED
    BY <1>1, <2>1, <2>2, <2>3, <2>4, NodeKeeps DEF SessionInv
<1>5. CASE SaveThenClose
  <2>1. /\ node.at # "row" /\ SubmitTrials(trials, faulted)
        /\ node' = InTick("closing", 0, FALSE) /\ UNCHANGED <<engine, trials>>
        /\ faulted' = faulted /\ UNCHANGED enables /\ UNCHANGED operatorVars
        /\ committed' = committed
    BY <1>5 DEF SaveThenClose, SubmitTrials
  <2>2. EngineMoves /\ Grows
    BY <1>1, <2>1, EngineRests DEF EngineMoves
  <2>3. Located' /\ node'.at = "closing"
    BY <1>1, <1>2, <2>1, <2>2, StartsAt
  <2>4. WriterInv'
    BY <1>1, <2>1, <2>2, <2>3, SavesKeeps
  <2>5. Handles
    BY <1>1, <2>1, WritesHandle DEF NodeTypeOK
  <2> QED
    BY <1>1, <2>1, <2>2, <2>3, <2>4, <2>5, NodeKeeps DEF SessionInv
<1>6. CASE CloseWriter
  <2>1. Close /\ UNCHANGED nodeVars /\ UNCHANGED operatorVars /\ committed' = committed
    BY <1>6 DEF CloseWriter, Close
  <2>2. UNCHANGED <<engine, trials, node, faulted, enables>>
    BY <2>1 DEF nodeVars
  <2>3. WriterInv'
    BY <1>1, <2>1, <2>2, CloseKeeps DEF Sealed
  <2>4. EngineMoves /\ Located'
    BY <1>1, <2>2, EngineRests DEF Located
  <2>5. Handles
    BY <1>1, <2>1, <2>2, WritesHandle DEF NodeTypeOK
  <2> QED
    BY <1>1, <2>1, <2>3, <2>4, <2>5, NodeKeeps DEF SessionInv
<1> QED
  BY <1>3, <1>4, <1>5, <1>6

\* The requests: one attempt of an engine that never ran, a stop, a shutdown.
LEMMA RequestsKeep ==
  ASSUME SessionInv, HandleStart \/ HandleStop \/ Shutdown PROVE SessionInv'
<1>1. WriterInv /\ NodeInv /\ NodeTypeOK /\ Located
  BY DEF SessionInv, NodeInv
<1>2. {"starting", "answering", "leaving"} \subseteq NodePlaces
  BY DEF NodePlaces
<1>3. node.at # "row" /\ UNCHANGED writerVars /\ committed' = committed
  BY IdleIs DEF HandleStart, HandleStop, Shutdown, Between, writerVars
<1>4. /\ requests \subseteq {"start", "stop"} /\ faulted' \in BOOLEAN
      /\ faulted' = faulted /\ UNCHANGED <<operator, status>>
  BY <1>1 DEF HandleStart, HandleStop, Shutdown, operatorVars, NodeTypeOK
<1>5. EngineMoves /\ Grows /\ Located' /\ node'.at # "row" /\ Handles
  <2>1. CASE HandleStart /\ Startable
    <3>1. /\ enables = 0 /\ enables' = enables + 1 /\ engine = "IDLE" /\ engine' = "ACTIVE"
          /\ node' = InTick("starting", 0, FALSE) /\ trials' = trials
          /\ requests' = requests \ {"start"}
      BY <2>1 DEF HandleStart, Startable
    <3>2. trials \in Seq(BOOLEAN) /\ Len(trials) <= MaxTrials
      BY <1>1 DEF NodeTypeOK
    <3>3. Len(trials) \in Nat
      BY <3>2
    <3>4. Grows
      BY <3>1, <3>2, <3>3 DEF Grows
    <3>5. EngineMoves
      BY <3>1, <3>4 DEF EngineMoves, Engines
    <3>6. Located' /\ node'.at = "starting"
      BY <1>1, <1>2, <3>1, <3>4, StartsAt
    <3>7. Handles
      BY <1>4, <3>1 DEF Handles
    <3> QED
      BY <3>4, <3>5, <3>6, <3>7
  <2>2. CASE HandleStart /\ ~Startable
    <3>1. UNCHANGED <<enables, engine, node, trials>> /\ requests' = requests \ {"start"}
      BY <2>2 DEF HandleStart
    <3>2. EngineMoves /\ Grows
      BY <1>1, <3>1, EngineRests DEF EngineMoves
    <3>3. Located'
      BY <1>1, <3>1 DEF Located
    <3>4. Handles
      BY <1>1, <1>4, <3>1 DEF Handles, NodeTypeOK
    <3> QED
      BY <1>3, <3>1, <3>2, <3>3, <3>4
  <2>3. CASE HandleStop
    <3>1. /\ engine' = "STOPPING" /\ trials' \in Finished(trials)
          /\ node' = InTick("answering", 0, FALSE)
          /\ requests' = requests \ {"stop"} /\ enables' = enables
      BY <2>3 DEF HandleStop
    <3>2. EngineMoves /\ Grows
      BY <1>1, <3>1, EndMoves DEF EngineMoves
    <3>3. Located' /\ node'.at = "answering"
      BY <1>1, <1>2, <3>1, <3>2, StartsAt
    <3>4. Handles
      BY <1>1, <1>4, <3>1 DEF Handles, NodeTypeOK
    <3> QED
      BY <3>2, <3>3, <3>4
  <2>4. CASE Shutdown
    <3>1. /\ engine' = "STOPPING" /\ trials' \in Finished(trials)
          /\ node' = InTick("leaving", 0, FALSE)
          /\ requests' = requests /\ enables' = enables
      BY <2>4 DEF Shutdown, operatorVars
    <3>2. EngineMoves /\ Grows
      BY <1>1, <3>1, EndMoves DEF EngineMoves
    <3>3. Located' /\ node'.at = "leaving"
      BY <1>1, <1>2, <3>1, <3>2, StartsAt
    <3>4. Handles
      BY <1>1, <1>4, <3>1 DEF Handles, NodeTypeOK
    <3> QED
      BY <3>2, <3>3, <3>4
  <2> QED
    BY <2>1, <2>2, <2>3, <2>4
<1>6. WriterInv'
  BY <1>1, <1>3, <1>5, SealRises, WriterStays
<1>7. NodeInv'
  BY <1>1, <1>3, <1>5, NodeKeeps
<1> QED
  BY <1>6, <1>7 DEF SessionInv

\* The operator asks, gives up and accepts without touching the node.
LEMMA OperatorKeeps ==
  ASSUME SessionInv, Status \/ Asks \/ GivesUp \/ AcceptsResults PROVE SessionInv'
<1>1. WriterInv /\ NodeInv /\ NodeTypeOK /\ Located
  BY DEF SessionInv, NodeInv
<1>2. UNCHANGED writerVars /\ UNCHANGED <<engine, trials, node, faulted, enables>>
  BY DEF Status, Asks, GivesUp, AcceptsResults, nodeVars
<1>3. SealedGrows
  <2>1. Sealed \in Nat /\ Sealed' = Sealed
    BY <1>1, <1>2, SealedIs DEF Sealed
  <2> QED
    BY <2>1 DEF SealedGrows
<1>4. WriterInv'
  BY <1>1, <1>2, <1>3, WriterStays
<1>5. committed' = committed
  BY <1>2 DEF writerVars
<1>6. NodeTypeOK'
  <2>1. requests' \subseteq {"start", "stop"} /\ status' \in BOOLEAN
    BY <1>1 DEF Status, Asks, GivesUp, AcceptsResults, NodeTypeOK, CompleteAndSaved
  <2> QED
    BY <1>1, <1>2, <2>1 DEF NodeTypeOK
<1>7. Located'
  BY <1>1, <1>2 DEF Located
<1>8. StatusHolds'
  <2>1. CASE Status
    <3>1. status' => engine = "COMPLETE" /\ committed = Len(trials)
      BY <2>1 DEF Status, CompleteAndSaved
    <3> QED
      BY <1>2, <1>5, <3>1 DEF StatusHolds
  <2>2. CASE status' = status
    BY <1>1, <1>2, <1>5, <2>2 DEF NodeInv, StatusHolds
  <2> QED
    BY <2>1, <2>2 DEF Asks, GivesUp, AcceptsResults
<1>9. StopHolds'
  <2>1. Undone' => Undone
    BY DEF Status, Asks, GivesUp, AcceptsResults, Undone
  <2> QED
    BY <1>1, <1>2, <2>1 DEF NodeInv, StopHolds
<1> QED
  BY <1>4, <1>6, <1>7, <1>8, <1>9 DEF SessionInv, NodeInv

\* The worker's steps seen from the session.
LEMMA WorkerStepKeeps ==
  ASSUME SessionInv, Work, UNCHANGED <<nodeVars, operatorVars>> PROVE SessionInv'
<1>1. WriterInv /\ NodeInv /\ NodeTypeOK /\ Located
  BY DEF SessionInv, NodeInv
<1>2. UNCHANGED <<engine, trials, node, faulted, enables>>
      /\ UNCHANGED <<requests, operator, status>>
  BY DEF nodeVars, operatorVars
<1>3. /\ Sealed \in Nat /\ Sealed <= MaxTrials /\ Sealed' = Sealed /\ Len(trials) \in Nat
      /\ Sealed <= Len(trials)
  <2>1. Sealed \in Nat /\ Sealed <= Len(trials) /\ Len(trials) <= MaxTrials /\ Len(trials) \in Nat
    BY <1>1, SealedIs
  <2>2. Sealed' = Sealed
    BY <1>2 DEF Sealed
  <2> QED
    BY <2>1, <2>2, Numbers
<1>4. WriterInv'
  BY <1>1, <1>3, WorkKeeps
<1>5. NodeTypeOK' /\ Located' /\ StopHolds'
  BY <1>1, <1>2 DEF NodeInv, NodeTypeOK, Located, StopHolds, Undone
<1>6. committed' = committed \/ (Commits /\ committed' = Len(worker.job.trials))
  BY DEF Work, FailureCopied, Checks, Takes, Wakes, Judges, Commits, FailureWritten, Appends,
         Replaces, ClosesFiles
<1>7. StatusHolds'
  <2>1. CASE committed' = committed
    BY <1>1, <1>2, <2>1 DEF NodeInv, StatusHolds
  <2>2. CASE Commits /\ committed' = Len(worker.job.trials)
    <3>1. /\ committed <= Len(worker.job.trials) /\ Len(worker.job.trials) <= Sealed
          /\ Len(worker.job.trials) \in Nat /\ committed \in Nat
      BY <1>1, <2>2, QueueIs DEF Commits, WriterInv, DiskGrows, Ordinary, NothingAhead
    <3>2. committed = Len(trials) => committed' = Len(trials)
      BY <1>3, <2>2, <3>1
    <3> QED
      BY <1>1, <1>2, <3>2 DEF NodeInv, StatusHolds
  <2> QED
    BY <1>6, <2>1, <2>2
<1> QED
  BY <1>4, <1>5, <1>7 DEF SessionInv, NodeInv

-----------------------------------------------------------------------------
(* The invariant.                                                          *)

\* The session begins with an empty queue and an empty file.
LEMMA SessionStarts == SessionInit => SessionInv
<1> SUFFICES ASSUME SessionInit PROVE SessionInv
  OBVIOUS
<1> DEFINE none == <<>>
<1>1. none \in Seq(BOOLEAN) /\ none \in Seq(JobType) /\ Len(none) = 0
  OBVIOUS
<1>2. /\ queue = none /\ error = FALSE /\ unavailable = FALSE /\ failedAfter = 0
      /\ committed = 0 /\ latest = none /\ version = "never failed" /\ stopping = FALSE
      /\ worker = Rests("checks") /\ lost = {}
      /\ disk = [valid |-> TRUE, trials |-> none]
      /\ engine = "IDLE" /\ trials = none /\ node = Idle /\ faulted = FALSE /\ enables = 0
      /\ requests = {} /\ operator = "ready" /\ status = FALSE
  BY DEF SessionInit, WriterInit
<1> HIDE DEF none
<1>3. /\ worker.at = "checks" /\ worker.job \in JobType /\ Len(worker.job.trials) = 0
      /\ disk.valid = TRUE /\ disk.trials = none
  <2>1. worker.at = "checks" /\ worker.job = NoRow
    BY <1>2 DEF Rests, At
  <2> QED
    BY <1>2, <2>1, JobsAre
<1>4. node = [at |-> "idle", first |-> 0, saves |-> FALSE]
  BY <1>2 DEF Idle
<1>5. /\ queue \in Seq(JobType) /\ Len(queue) = 0
      /\ latest \in Seq(BOOLEAN) /\ Len(latest) = 0
      /\ trials \in Seq(BOOLEAN) /\ Len(trials) = 0
      /\ disk.trials \in Seq(BOOLEAN) /\ Len(disk.trials) = 0
  BY <1>1, <1>2, <1>3
<1>6. /\ error \in BOOLEAN /\ unavailable \in BOOLEAN /\ stopping \in BOOLEAN
      /\ faulted \in BOOLEAN /\ status \in BOOLEAN /\ disk.valid \in BOOLEAN
      /\ ~status
  BY <1>2, <1>3
<1>7. failedAfter = 0 /\ committed = 0 /\ enables = 0 /\ lost = {} /\ requests = {}
  BY <1>2
<1>8. Located /\ Sealed = 0
  <2>1. node \in [at : NodePlaces, first : 0..MaxTrials, saves : BOOLEAN]
    BY <1>4, Numbers DEF NodePlaces
  <2>2. node.at = "idle" /\ node.first = 0
    BY <1>4
  <2>3. node.first <= Len(trials)
    BY <1>5, <2>2
  <2> QED
    BY <1>5, <2>1, <2>2, <2>3 DEF Located, Sealed
<1>9. NodeTypeOK
  <2>1. engine \in Engines
    BY <1>2 DEF Engines
  <2>2. Len(trials) <= MaxTrials /\ enables \in 0..1 /\ requests \subseteq {"start", "stop"}
    BY <1>5, <1>7, Numbers
  <2> QED
    BY <1>5, <1>6, <2>1, <2>2 DEF NodeTypeOK
<1>10. StatusHolds /\ StopHolds
  <2>1. StatusHolds
    BY <1>6 DEF StatusHolds
  <2>2. operator # "stopped"
    BY <1>2
  <2> QED
    BY <2>1, <2>2 DEF StopHolds, Undone
<1>11. WriterTypeOK
  <2>1. version \in {"never failed", "stale", "current"}
    BY <1>2
  <2>2. /\ Len(queue) <= Capacity /\ failedAfter \in 0..MaxTrials
        /\ committed \in 0..MaxTrials /\ lost \subseteq Trials
    BY <1>5, <1>7, Numbers
  <2> QED
    BY <1>3, <1>5, <1>6, <2>1, <2>2 DEF WriterTypeOK
<1>12. NothingAhead /\ RowsFollow /\ LossIsKnown
  <2>1. 1..Len(queue) = {}
    BY <1>5
  <2> QED
    BY <1>3, <1>5, <1>7, <1>8, <2>1 DEF NothingAhead, RowsFollow, LossIsKnown
<1>13. CountsAreClear /\ JobIsClear /\ DiskIsClear
  <2>1. 1..0 = {} /\ 1..Len(disk.trials) = {}
    BY <1>5
  <2> QED
    BY <1>3, <1>7, <2>1 DEF CountsAreClear, JobIsClear, DiskIsClear, ClearTo
<1>14. DiskGrows /\ QueueGrows
  <2>1. 1..Len(queue) = {} /\ ~Ordinary /\ ~Failing
    BY <1>3, <1>5 DEF Ordinary, Failing
  <2> QED
    BY <1>3, <1>5, <1>7, <2>1 DEF DiskGrows, QueueGrows
<1> QED
  BY <1>8, <1>9, <1>10, <1>11, <1>12, <1>13, <1>14 DEF SessionInv, WriterInv, NodeInv

\* Every step of the session keeps the invariant.
LEMMA SessionSteps == SessionInv /\ [SessionNext]_sessionVars => SessionInv'
<1> SUFFICES ASSUME SessionInv, [SessionNext]_sessionVars PROVE SessionInv'
  OBVIOUS
<1>1. CASE UNCHANGED sessionVars
  <2>1. UNCHANGED writerVars /\ UNCHANGED <<engine, trials, node, faulted, enables>>
        /\ UNCHANGED <<requests, operator, status>>
    BY <1>1 DEF sessionVars, nodeVars, operatorVars
  <2>2. SealedGrows
    <3>1. Sealed \in Nat /\ Sealed' = Sealed
      BY <2>1, SealedIs DEF Sealed, SessionInv, NodeInv
    <3> QED
      BY <3>1 DEF SealedGrows
  <2>3. WriterInv'
    BY <2>1, <2>2, WriterStays DEF SessionInv
  <2>4. NodeTypeOK' /\ Located' /\ StopHolds'
    BY <2>1 DEF SessionInv, NodeInv, NodeTypeOK, Located, StopHolds, Undone
  <2>5. StatusHolds'
    BY <2>1 DEF SessionInv, NodeInv, StatusHolds, writerVars
  <2> QED
    BY <2>3, <2>4, <2>5 DEF SessionInv, NodeInv
<1>2. CASE NodeStep \/ Shutdown
  BY <1>2, TickKeeps, TickWritesKeep, AnswersKeep, RequestsKeep DEF NodeStep
<1>3. CASE Work /\ UNCHANGED <<nodeVars, operatorVars>>
  BY <1>3, WorkerStepKeeps
<1>4. CASE Status \/ Asks \/ GivesUp \/ AcceptsResults
  BY <1>4, OperatorKeeps
<1> QED
  BY <1>1, <1>2, <1>3, <1>4 DEF SessionNext

\* The invariant of the session.
LEMMA SessionInvariance == SessionSpec => []SessionInv
  BY SessionStarts, SessionSteps, PTL DEF SessionSpec

-----------------------------------------------------------------------------
(* Theorems.                                                               *)

\* Every variable keeps its type, and the queue its capacity.
THEOREM SessionTypeCorrect == SessionSpec => []SessionTypeOK
<1>1. SessionInv => SessionTypeOK
  BY DEF SessionInv, WriterInv, NodeInv, WriterTypeOK, NodeTypeOK, SessionTypeOK
<1> QED
  BY <1>1, SessionInvariance, PTL

\* A trial that trials.json calls a valid success has every one of its rows in
\* observations.csv, whatever failed, overflowed or is still queued.
THEOREM EvidenceAlwaysComplete == SessionSpec => []EvidenceComplete
<1>1. SessionInv => EvidenceComplete
  <2> SUFFICES ASSUME SessionInv, NEW i \in 1..Len(disk.trials), disk.trials[i], RowsMissing(i)
               PROVE  FALSE
    BY DEF EvidenceComplete
  <2>1. i \notin Missing
    BY DEF SessionInv, WriterInv, DiskIsClear
  <2> QED
    BY <2>1 DEF RowsMissing, Missing, Queued, Held
<1> QED
  BY <1>1, SessionInvariance, PTL

\* Exit code 0 is given only to a file that holds every trial of a finished
\* acquisition.
THEOREM AcceptedAlwaysWhole == SessionSpec => AcceptedIsWhole
<1>1. SessionInv /\ [SessionNext]_sessionVars
        => [operator' = "accepted" /\ operator # "accepted"
              => Len(disk.trials) = Len(trials) /\ engine # "ACTIVE"]_sessionVars
  <2> SUFFICES ASSUME SessionInv, SessionNext, operator' = "accepted", operator # "accepted"
               PROVE  Len(disk.trials) = Len(trials) /\ engine # "ACTIVE"
    OBVIOUS
  <2>1. AcceptsResults
    BY DEF SessionNext, NodeStep, Tick, WriteRow, WriteTrials, WriteRuntime, Rescue, HandleStart,
           ResetObservations, SaveThenAnswer, HandleStop, SaveThenClose, CloseWriter, Shutdown,
           Status, Asks, GivesUp, operatorVars
  <2>2. engine \in {"STOPPING", "FAULT", "COMPLETE"} /\ committed = Len(trials)
    BY <2>1 DEF AcceptsResults, SessionInv, NodeInv, StatusHolds
  <2>3. committed <= Len(disk.trials) /\ Len(disk.trials) <= Sealed
    BY DEF SessionInv, WriterInv, DiskGrows, NothingAhead
  <2>4. Sealed \in Nat /\ Sealed <= Len(trials) /\ Len(trials) \in Nat
    BY SealedIs DEF SessionInv, NodeInv
  <2>5. Len(disk.trials) \in Nat
    BY QueueIs DEF SessionInv, WriterInv
  <2>6. Len(disk.trials) = Len(trials)
    BY <2>2, <2>3, <2>4, <2>5
  <2> QED
    BY <2>2, <2>6
<1> QED
  BY <1>1, SessionInvariance, PTL DEF AcceptedIsWhole, SessionSpec

\* When the operator gave up on an uncertain start and its stop was handled, the
\* acquisition is over for good, also when the start is handled late.
THEOREM UncertainStartAlwaysUndone == SessionSpec => UncertainStartUndone
<1>1. Undone /\ [SessionNext]_sessionVars => Undone'
  BY DEF Undone, SessionNext, NodeStep, Tick, WriteRow, WriteTrials, WriteRuntime, Rescue,
         HandleStart, ResetObservations, SaveThenAnswer, HandleStop, SaveThenClose, CloseWriter,
         Shutdown, Status, Asks, GivesUp, AcceptsResults, operatorVars, sessionVars
<1>2. SessionInv => (Undone => engine # "ACTIVE")
  BY DEF SessionInv, NodeInv, StopHolds
<1>3. (operator = "stopped" /\ "stop" \notin requests) <=> Undone
  BY DEF Undone
<1> QED
  BY <1>1, <1>2, <1>3, SessionInvariance, PTL DEF UncertainStartUndone, SessionSpec

-----------------------------------------------------------------------------
(* A writer error reaches the disk.  The worker needs a bounded number of  *)
(* its own steps from wherever the error finds it, so the liveness is      *)
(* proved; the provers know nothing of ENABLED, so the worker's fairness   *)
(* is stated with the condition under which it has a step to take.         *)

WorkStep == Work /\ UNCHANGED <<nodeVars, operatorVars>>

Places == {"checks", "waits", "appends", "judges", "writes", "commits", "failing",
           "failing last", "closing", "closed"}

WorkReady ==
  \/ worker.at \in Places \ {"waits", "closed"}
  \/ worker.at = "waits" /\ (queue # <<>> \/ stopping \/ FailureDue)

\* WF_sessionVars(WorkStep): a worker that has a step to take takes one.
WorkerRuns == []<>(~WorkReady) \/ []<><<WorkStep>>_sessionVars

\* The file claims no valid evidence, or the error says that it could not be told.
Durable == ~disk.valid \/ unavailable

\* A failure checkpoint was never begun, is under way, or was made.
Begun == version = "never failed" \/ Failing \/ Durable

\* The worker closes its files only with nothing owed, and after the producer's
\* close no call of the producer can add an error.
ClosedInOrder ==
  /\ worker.at \in {"closing", "failing last", "closed"} => stopping
  /\ worker.at = "closed" /\ error => version # "never failed"

WorkerInv ==
  /\ worker.at \in Places /\ error \in BOOLEAN /\ stopping \in BOOLEAN
  /\ version \in {"never failed", "stale", "current"}
  /\ Begun /\ ClosedInOrder

\* An error no failure checkpoint was begun for, and where it finds the worker.
Owed      == error /\ version = "never failed"
OwedAt(s) == Owed /\ worker.at \in s

\* What a step that is not the worker's leaves of the writer.
WorkerLeft ==
  /\ UNCHANGED <<worker, disk, unavailable>>
  /\ error' \in BOOLEAN /\ (error => error') /\ (error' => error \/ ~stopping)
  /\ stopping' \in BOOLEAN /\ (stopping => stopping')
  /\ version' = version \/ (version = "current" /\ version' = "stale")

\* A submission leaves the worker where it is.
LEMMA SubmitLeaves ==
  ASSUME error \in BOOLEAN, stopping \in BOOLEAN,
         NEW job, Submitted(job), UNCHANGED <<worker, disk, unavailable, stopping>>,
         version' = version \/ (version = "current" /\ version' = "stale")
  PROVE  WorkerLeft
<1>1. (error' = error) \/ (~stopping /\ error' = TRUE)
  BY DEF Submitted, Latch
<1>2. error' \in BOOLEAN /\ (error => error') /\ (error' => error \/ ~stopping)
  <2>1. CASE error' = error
    BY <2>1
  <2>2. CASE ~stopping /\ error' = TRUE
    BY <2>2
  <2> QED
    BY <1>1, <2>1, <2>2
<1>3. UNCHANGED <<worker, disk, unavailable>> /\ stopping' = stopping
  OBVIOUS
<1> QED
  BY <1>2, <1>3 DEF WorkerLeft

\* Only the worker moves the worker.
LEMMA OthersLeaveWorker ==
  ASSUME error \in BOOLEAN, stopping \in BOOLEAN, [SessionNext]_sessionVars
  PROVE  WorkStep \/ WorkerLeft
<1>1. ASSUME NEW list, NEW f, SubmitTrials(list, f) PROVE WorkerLeft
  BY <1>1, SubmitLeaves DEF SubmitTrials
<1>2. ASSUME NEW trial, SubmitRow(trial) PROVE WorkerLeft
  BY <1>2, SubmitLeaves DEF SubmitRow
<1>3. SubmitOther => WorkerLeft
  BY SubmitLeaves DEF SubmitOther
<1>4. UNCHANGED writerVars => WorkerLeft
  BY DEF writerVars, shared, WorkerLeft
<1>5. Close => WorkerLeft
  BY DEF Close, WorkerLeft
<1>6. WriteRow => WorkerLeft
  BY <1>2 DEF WriteRow
<1>7. WriteTrials \/ Rescue \/ SaveThenAnswer \/ SaveThenClose => WorkerLeft
  BY <1>1 DEF WriteTrials, Rescue, SaveThenAnswer, SaveThenClose
<1>8. WriteRuntime \/ ResetObservations => WorkerLeft
  BY <1>3 DEF WriteRuntime, ResetObservations
<1>9. CloseWriter => WorkerLeft
  BY <1>5 DEF CloseWriter
<1>10. Tick \/ HandleStart \/ HandleStop \/ Shutdown \/ Status => WorkerLeft
  BY <1>4 DEF Tick, HandleStart, HandleStop, Shutdown, Status
<1>11. Asks \/ GivesUp \/ AcceptsResults \/ UNCHANGED sessionVars => WorkerLeft
  BY <1>4 DEF Asks, GivesUp, AcceptsResults, sessionVars
<1> QED
  BY <1>6, <1>7, <1>8, <1>9, <1>10, <1>11 DEF SessionNext, NodeStep, WorkStep

\* Where each of the worker's steps leads, and what it does to the failure.
WorkerMoves ==
  /\ UNCHANGED stopping /\ (unavailable => unavailable') /\ (~disk.valid => ~disk'.valid)
  /\ \/ /\ worker.at \in {"checks", "closing"} /\ FailureDue
        /\ worker'.at = (IF worker.at = "checks" THEN "failing" ELSE "failing last")
        /\ version' = "current" /\ error' = error
     \/ /\ worker.at \in {"failing", "failing last"}
        /\ worker'.at = (IF worker.at = "failing" THEN "checks" ELSE "closing")
        /\ Durable' /\ UNCHANGED <<version, error>>
     \/ /\ worker.at = "checks" /\ ~FailureDue /\ worker'.at = "waits"
        /\ UNCHANGED <<version, error>>
     \/ /\ worker.at = "waits" /\ worker'.at \in {"appends", "judges", "checks"}
        /\ UNCHANGED <<version, error>>
     \/ /\ worker.at = "waits" /\ stopping /\ worker'.at = "closing"
        /\ UNCHANGED <<version, error>>
     \/ /\ worker.at \in {"appends", "commits"} /\ worker'.at = "checks"
        /\ UNCHANGED version /\ error' \in {error, TRUE}
     \/ /\ worker.at = "judges" /\ worker'.at = (IF error THEN "checks" ELSE "writes")
        /\ UNCHANGED <<version, error>>
     \/ /\ worker.at = "writes" /\ worker'.at \in {"checks", "commits"}
        /\ UNCHANGED version /\ error' \in {error, TRUE}
     \/ /\ worker.at = "closing" /\ ~FailureDue /\ ~error
        /\ UNCHANGED worker /\ UNCHANGED version /\ error' = TRUE
     \/ /\ worker.at = "closing" /\ ~FailureDue /\ worker'.at = "closed"
        /\ UNCHANGED <<version, error>>

\* Every step of the worker is one of these moves.
LEMMA WorkIsMove == Work => WorkerMoves
<1>1. \A place, job : At(place, job).at = place /\ Rests(place).at = place
  BY DEF At, Rests
<1>2. FailureCopied => WorkerMoves
  <2> SUFFICES ASSUME FailureCopied PROVE WorkerMoves
    OBVIOUS
  <2>1. worker'.at = IF worker.at = "checks" THEN "failing" ELSE "failing last"
    BY <1>1 DEF FailureCopied
  <2> QED
    BY <2>1 DEF FailureCopied, WorkerMoves
<1>3. ASSUME NEW throws \in BOOLEAN, FailureWritten(throws) PROVE WorkerMoves
  <2>1. worker'.at = IF worker.at = "failing" THEN "checks" ELSE "closing"
    BY <1>1, <1>3 DEF FailureWritten
  <2>2. /\ throws => unavailable' /\ disk' = disk
        /\ ~throws => disk'.valid = FALSE
    BY <1>3 DEF FailureWritten
  <2>3. UNCHANGED <<version, error, stopping>> /\ worker.at \in {"failing", "failing last"}
    BY <1>3 DEF FailureWritten
  <2>4. unavailable => unavailable'
    BY <1>3 DEF FailureWritten
  <2>5. Durable' /\ (~disk.valid => ~disk'.valid)
    BY <2>2 DEF Durable
  <2> QED
    BY <2>1, <2>3, <2>4, <2>5 DEF WorkerMoves
<1>4. Checks => WorkerMoves
  BY <1>1 DEF Checks, shared, WorkerMoves
<1>5. Takes => WorkerMoves
  <2> SUFFICES ASSUME Takes PROVE WorkerMoves
    OBVIOUS
  <2>1. worker'.at \in {"appends", "judges"}
    BY <1>1 DEF Takes
  <2> QED
    BY <2>1 DEF Takes, WorkerMoves
<1>6. Wakes => WorkerMoves
  BY <1>1 DEF Wakes, shared, WorkerMoves
<1>7. Judges => WorkerMoves
  BY <1>1 DEF Judges, shared, WorkerMoves
<1>8. Commits => WorkerMoves
  BY <1>1 DEF Commits, shared, WorkerMoves
<1>9. ASSUME NEW throws \in BOOLEAN, Appends(throws) PROVE WorkerMoves
  BY <1>1, <1>9 DEF Appends, Latch, WorkerMoves
<1>10. ASSUME NEW throws \in BOOLEAN, Replaces(throws) PROVE WorkerMoves
  <2>1. UNCHANGED <<unavailable, version, stopping>> /\ worker.at = "writes"
    BY <1>10 DEF Replaces
  <2>2. /\ worker'.at \in {"checks", "commits"} /\ error' \in {error, TRUE}
        /\ (~disk.valid => ~disk'.valid)
    <3>1. CASE throws
      BY <1>1, <1>10, <3>1 DEF Replaces, Latch
    <3>2. CASE ~throws
      BY <1>1, <1>10, <3>2 DEF Replaces
    <3> QED
      BY <3>1, <3>2
  <2> QED
    BY <2>1, <2>2 DEF WorkerMoves
<1>11. ASSUME NEW throws \in BOOLEAN, ClosesFiles(throws) PROVE WorkerMoves
  <2>1. UNCHANGED <<unavailable, version, stopping, disk>> /\ worker.at = "closing"
        /\ ~FailureDue
    BY <1>11 DEF ClosesFiles
  <2>2. \/ ~error /\ UNCHANGED worker /\ error' = TRUE
        \/ worker'.at = "closed" /\ UNCHANGED error
    BY <1>1, <1>11 DEF ClosesFiles, Latch
  <2> QED
    BY <2>1, <2>2 DEF WorkerMoves
<1> QED
  BY <1>2, <1>3, <1>4, <1>5, <1>6, <1>7, <1>8, <1>9, <1>10, <1>11 DEF Work

\* The worker's invariant.
LEMMA WorkerSteps == WorkerInv /\ [SessionNext]_sessionVars => WorkerInv'
<1> SUFFICES ASSUME WorkerInv, [SessionNext]_sessionVars PROVE WorkerInv'
  OBVIOUS
<1>1. CASE WorkerLeft
  BY <1>1 DEF WorkerLeft, WorkerInv, Begun, Failing, Durable, ClosedInOrder
<1>2. CASE WorkerMoves
  <2>1. worker'.at \in Places /\ error' \in BOOLEAN /\ stopping' \in BOOLEAN
        /\ version' \in {"never failed", "stale", "current"}
    BY <1>2 DEF WorkerMoves, WorkerInv, Places
  <2>2. Durable => Durable'
    BY <1>2 DEF WorkerMoves, Durable
  <2>3. Begun'
    BY <1>2, <2>2 DEF WorkerMoves, WorkerInv, Begun, Failing
  <2>4. ClosedInOrder'
    <3>1. worker'.at \in {"closing", "failing last", "closed"} => stopping'
      BY <1>2 DEF WorkerMoves, WorkerInv, ClosedInOrder
    <3>2. worker'.at = "closed" =>
            \/ worker.at = "closing" /\ ~FailureDue /\ UNCHANGED <<version, error>>
            \/ worker.at = "closed" /\ UNCHANGED <<version, error>>
      BY <1>2 DEF WorkerMoves
    <3>3. worker'.at = "closed" /\ error' => version' # "never failed"
      BY <3>2 DEF WorkerInv, ClosedInOrder, FailureDue
    <3> QED
      BY <3>1, <3>3 DEF ClosedInOrder
  <2> QED
    BY <2>1, <2>3, <2>4 DEF WorkerInv
<1> QED
  BY <1>1, <1>2, OthersLeaveWorker, WorkIsMove DEF WorkerInv, WorkStep

\* It holds throughout a session.
LEMMA WorkerInvariance == SessionSpec => []WorkerInv
<1>1. SessionInit => WorkerInv
  <2> SUFFICES ASSUME SessionInit PROVE WorkerInv
    OBVIOUS
  <2>1. /\ worker.at = "checks" /\ version = "never failed"
        /\ error = FALSE /\ stopping = FALSE
    BY DEF SessionInit, WriterInit, Rests, At
  <2> QED
    BY <2>1 DEF WorkerInv, Places, Begun, ClosedInOrder
<1> QED
  BY <1>1, WorkerSteps, PTL DEF SessionSpec

\* From each place a move of the worker takes an owed error on, and only forward.
LEMMA OwedLeaves ==
  ASSUME WorkerInv, WorkerMoves
  PROVE  /\ OwedAt({"waits"}) => OwedAt(Places \ {"waits", "closed"})'
         /\ OwedAt({"writes"}) => OwedAt({"commits", "checks"})'
         /\ OwedAt({"judges", "appends", "commits"}) => OwedAt({"checks"})'
         /\ OwedAt({"checks", "closing"}) => Failing'
         /\ Failing => Durable'
         /\ Durable => Durable'
<1>1. Owed => FailureDue
  BY DEF Owed, FailureDue
<1>2. Durable => Durable'
  BY DEF WorkerMoves, Durable
<1>3. Failing => Durable'
  BY DEF WorkerMoves, Failing
<1>4. error \in BOOLEAN /\ (error => error')
  <2>1. (error' = error) \/ (error' = TRUE)
    BY DEF WorkerMoves
  <2>2. CASE error' = error
    BY <2>2 DEF WorkerInv
  <2>3. CASE error' = TRUE
    BY <2>3 DEF WorkerInv
  <2> QED
    BY <2>1, <2>2, <2>3
<1>5. worker.at \notin {"checks", "closing"} /\ Owed => Owed'
  BY <1>4 DEF WorkerMoves, Owed
<1>6. Owed /\ worker.at = "waits" => worker'.at \in Places \ {"waits", "closed"}
  BY DEF WorkerMoves, Places
<1>7. Owed /\ worker.at = "writes" => worker'.at \in {"commits", "checks"}
  BY DEF WorkerMoves
<1>8. Owed /\ worker.at \in {"judges", "appends", "commits"} => worker'.at = "checks"
  BY DEF WorkerMoves, Owed
<1>9. Owed /\ worker.at \in {"checks", "closing"} => Failing'
  BY <1>1 DEF WorkerMoves, Failing
<1> QED
  BY <1>2, <1>3, <1>5, <1>6, <1>7, <1>8, <1>9 DEF OwedAt

\* Any other step leaves it where it is.
LEMMA OwedStays ==
  ASSUME WorkerInv, WorkerLeft
  PROVE  /\ \A s : OwedAt(s) => OwedAt(s)'
         /\ Failing => Failing'
         /\ Durable => Durable'
  BY DEF WorkerLeft, OwedAt, Owed, Failing, Durable, WorkerInv

\* A writer error reaches trials.json, which never again claims valid evidence, or
\* else the error says that it could not, wherever the error finds the worker and
\* whatever the node, the operator and the disk do meanwhile.
THEOREM FailureAlwaysDurable == SessionSpec /\ WorkerRuns => FailureBecomesDurable
<1> DEFINE Waits  == OwedAt({"waits"})
           Writes == OwedAt({"writes"})
           Acts   == OwedAt({"judges", "appends", "commits"})
           Looks  == OwedAt({"checks", "closing"})
<1>1. WorkerInv /\ error => Waits \/ Writes \/ Acts \/ Looks \/ Failing \/ Durable
  BY DEF WorkerInv, Begun, ClosedInOrder, OwedAt, Owed, Failing, Places
<1>2. Waits \/ Writes \/ Acts \/ Looks \/ Failing => WorkReady
  BY DEF OwedAt, Owed, Failing, WorkReady, FailureDue, Places
<1>3. WorkerInv /\ WorkerMoves =>
        /\ Waits => Writes' \/ Acts' \/ Looks' \/ Failing'
        /\ Writes => Acts' \/ Looks'
        /\ Acts => Looks'
        /\ Looks => Failing'
        /\ Failing => Durable'
        /\ Durable => Durable'
  BY OwedLeaves DEF OwedAt, Failing, Places
<1>4. WorkerInv /\ WorkerLeft =>
        /\ Waits => Waits'
        /\ Writes => Writes'
        /\ Acts => Acts'
        /\ Looks => Looks'
        /\ Failing => Failing'
        /\ Durable => Durable'
  BY OwedStays
<1>5. Durable <=> (~disk.valid \/ unavailable)
  BY DEF Durable
<1>6. WorkerInv /\ [SessionNext]_sessionVars => WorkerMoves \/ WorkerLeft
  BY OthersLeaveWorker, WorkIsMove DEF WorkerInv, WorkStep
<1>7. WorkerInv /\ <<WorkStep>>_sessionVars => WorkerMoves
  BY WorkIsMove DEF WorkStep
<1> HIDE DEF Waits, Writes, Acts, Looks
<1> QED
  BY <1>1, <1>2, <1>3, <1>4, <1>5, <1>6, <1>7, WorkerInvariance, PTL
     DEF SessionSpec, WorkerRuns, FailureBecomesDurable

=============================================================================
