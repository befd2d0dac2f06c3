---------------------------- MODULE EvidenceWriter ----------------------------
(***************************************************************************)
(* The asynchronous evidence writer of the longitudinal calibration        *)
(* (native_runtime.cpp, class AsyncEvidenceWriter): a bounded queue under  *)
(* a mutex and one worker thread that appends observation and runtime rows *)
(* to CSV files and replaces trials.json by rename.                        *)
(*                                                                         *)
(* A trial is reduced to whether its record is a valid success, a row to   *)
(* the trial it was measured for.  A step is one critical section of the   *)
(* mutex or one effect on the disk; the two sections of trials() are one   *)
(* step, since the worker's steps between them commute with the first.     *)
(* Any write may throw.                                                    *)
(***************************************************************************)
EXTENDS Naturals, Sequences

CONSTANTS
  Capacity,    \* capacity of the queue (128)
  MaxTrials    \* bound: trials of an acquisition

ASSUME WriterAssumption == Capacity \in Nat /\ MaxTrials \in Nat

VARIABLES
  queue,           \* queue_
  error,           \* error_ is not empty
  unavailable,     \* error_ says "failure checkpoint unavailable"
  failedAfter,     \* failed_after_
  committed,       \* committed_
  latest,          \* latest_trials_
  version,         \* version_ as seen from failure_version_, see below
  stopping,        \* stopping_
  worker,          \* the worker thread: where it is, and the job or copy it holds
  disk,            \* trials.json
  lost             \* trials with an observation row that was refused or not written

shared     == <<queue, error, unavailable, failedAfter, latest, version, stopping>>
writerVars == <<shared, committed, worker, disk, lost>>

-----------------------------------------------------------------------------
Trials == 1..MaxTrials
Job(kind, trial, trials, faulted) ==
  [kind |-> kind, trial |-> trial, trials |-> trials, faulted |-> faulted]
Row(trial)             == Job("observation", trial, <<>>, FALSE)
NoRow                  == Job("runtime", 0, <<>>, FALSE)     \* runtime and reset jobs
Saved(trials, faulted) == Job("trials", 0, trials, faulted)

At(place, job) == [at |-> place, job |-> job]
Rests(place)   == At(place, NoRow)

\* version_ grows without bound; only whether it differs from
\* failure_version_, which starts as no version at all, is ever read: it is
\* "never failed", or after a failure checkpoint "stale" or "current".

\* latch, and the overflow of submit: only the first error counts.
Latch == failedAfter' = (IF error THEN failedAfter ELSE committed) /\ error' = TRUE

-----------------------------------------------------------------------------
(* The producer's calls.                                                   *)

\* submit refuses after an error or the close, and overflows at the capacity.
AcceptsOneMore == ~error /\ ~stopping /\ Len(queue) <= Capacity
Accepts == ~error /\ ~stopping /\ Len(queue) < Capacity
Submitted(job) ==
  \/ Accepts /\ queue' = Append(queue, job) /\ UNCHANGED <<error, failedAfter>>
  \/ ~Accepts /\ stopping /\ UNCHANGED <<queue, error, failedAfter>>
  \/ ~Accepts /\ ~stopping /\ Latch /\ UNCHANGED queue

SubmitRow(trial) ==
  /\ Submitted(Row(trial))
  /\ lost' = IF Accepts THEN lost ELSE lost \union ({trial} \intersect Trials)
  /\ UNCHANGED <<unavailable, committed, latest, version, stopping, worker, disk>>

SubmitOther ==
  /\ Submitted(NoRow)
  /\ UNCHANGED <<unavailable, committed, latest, version, stopping, worker, disk, lost>>

\* trials(): the snapshot is kept whatever submit then does with the job.
SubmitTrials(trials, faulted) ==
  /\ latest' = trials
  /\ version' = IF trials # latest /\ version = "current" THEN "stale" ELSE version
  /\ Submitted(Saved(trials, faulted))
  /\ UNCHANGED <<unavailable, committed, stopping, worker, disk, lost>>

Close ==
  /\ stopping' = TRUE
  /\ UNCHANGED <<queue, error, unavailable, failedAfter, latest, version, committed, worker,
                 disk, lost>>

-----------------------------------------------------------------------------
(* The worker, run().                                                      *)

FailureDueOnceSaved == error /\ version = "stale"
FailureDue == error /\ version # "current"

\* failure_checkpoint copies the state under the mutex: the failure version
\* will be the one that is current now.
FailureCopied ==
  /\ worker.at \in {"checks", "closing"} /\ FailureDue
  /\ worker' = At(IF worker.at = "checks" THEN "failing" ELSE "failing last", Saved(latest, TRUE))
  /\ version' = "current"
  /\ UNCHANGED <<queue, error, unavailable, failedAfter, latest, stopping, committed, disk, lost>>

\* checkpoint(..., true): trials from failed_after_ on lose their validity.
FailureWritten(throws) ==
  /\ worker.at \in {"failing", "failing last"}
  /\ disk' = IF throws THEN disk
             ELSE [valid |-> FALSE,
                   trials |-> [i \in 1..Len(worker.job.trials) |->
                                 worker.job.trials[i] /\ i <= failedAfter]]
  /\ unavailable' = (unavailable \/ throws)
  /\ worker' = Rests(IF worker.at = "failing" THEN "checks" ELSE "closing")
  /\ UNCHANGED <<queue, error, failedAfter, latest, version, stopping, committed, lost>>

\* The checks before and after a job are one place; an error latched after
\* them does not keep the worker from its next job.
Checks ==
  /\ worker.at = "checks" /\ ~FailureDue /\ worker' = Rests("waits")
  /\ UNCHANGED <<shared, committed, disk, lost>>

Takes ==
  /\ worker.at = "waits" /\ queue # <<>>
  /\ worker' = At(IF Head(queue).kind = "trials" THEN "judges" ELSE "appends", Head(queue))
  /\ queue' = Tail(queue)
  /\ UNCHANGED <<error, unavailable, failedAfter, latest, version, stopping, committed, disk,
                 lost>>

Wakes ==
  /\ worker.at = "waits" /\ queue = <<>> /\ (stopping \/ FailureDue)
  /\ worker' = Rests(IF stopping THEN "closing" ELSE "checks")
  /\ UNCHANGED <<shared, committed, disk, lost>>

\* A row reaches its file, or the write throws; a reset job writes nothing.
Appends(throws) ==
  /\ worker.at = "appends"
  /\ IF throws THEN Latch ELSE UNCHANGED <<error, failedAfter>>
  /\ lost' = IF throws THEN lost \union ({worker.job.trial} \intersect Trials) ELSE lost
  /\ worker' = Rests("checks")
  /\ UNCHANGED <<queue, unavailable, latest, version, stopping, committed, disk>>

\* A checkpoint is dropped once an error is latched.
JudgesNothing ==
  /\ worker.at = "judges" /\ worker' = At("writes", worker.job)
  /\ UNCHANGED <<shared, committed, disk, lost>>
Judges ==
  /\ worker.at = "judges"
  /\ worker' = IF error THEN Rests("checks") ELSE At("writes", worker.job)
  /\ UNCHANGED <<shared, committed, disk, lost>>

\* checkpoint(): the file is replaced, then committed_ is set; an error latched
\* in between finds the old count.  metadata_ never becomes valid again.
Replaces(throws) ==
  /\ worker.at = "writes"
  /\ IF throws
     THEN Latch /\ worker' = Rests("checks") /\ UNCHANGED disk
     ELSE /\ disk' = [valid |-> disk.valid /\ ~worker.job.faulted, trials |-> worker.job.trials]
          /\ worker' = At("commits", worker.job)
          /\ UNCHANGED <<error, failedAfter>>
  /\ UNCHANGED <<queue, unavailable, latest, version, stopping, committed, lost>>

Commits ==
  /\ worker.at = "commits"
  /\ committed' = Len(worker.job.trials)
  /\ worker' = Rests("checks")
  /\ UNCHANGED <<shared, disk, lost>>

\* The files are closed after the last check, which may throw.
ClosesFiles(throws) ==
  /\ worker.at = "closing" /\ ~FailureDue
  /\ IF throws THEN ~error /\ Latch /\ UNCHANGED worker
     ELSE worker' = Rests("closed") /\ UNCHANGED <<error, failedAfter>>
  /\ UNCHANGED <<queue, unavailable, latest, version, stopping, committed, disk, lost>>

Work ==
  \/ FailureCopied \/ Checks \/ Takes \/ Wakes \/ Judges \/ Commits
  \/ \E throws \in BOOLEAN :
       FailureWritten(throws) \/ Appends(throws) \/ Replaces(throws) \/ ClosesFiles(throws)

WriterInit ==
  /\ queue = <<>> /\ error = FALSE /\ unavailable = FALSE
  /\ failedAfter = 0 /\ committed = 0 /\ latest = <<>> /\ version = "never failed"
  /\ stopping = FALSE /\ worker = Rests("checks") /\ lost = {}
  /\ disk = [valid |-> TRUE, trials |-> <<>>]

\* The rows of a trial that are not in observations.csv.
RowsMissing(trial) ==
  \/ trial \in lost
  \/ \E i \in 1..Len(queue) : queue[i].trial = trial
  \/ worker.at = "appends" /\ worker.job.trial = trial

=============================================================================
