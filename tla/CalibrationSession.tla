-------------------------- MODULE CalibrationSession --------------------------
(***************************************************************************)
(* A longitudinal calibration session: the node (native_node.cpp) with its *)
(* engine, its evidence writer, and the operator (native_operator.cpp).    *)
(*                                                                         *)
(* The node is single-threaded, but the writer's worker runs between its   *)
(* calls: a tick is the engine's step, the observation row, a checkpoint   *)
(* when the trials changed, and the runtime row, each a step here.  The    *)
(* engine's phases that drive are one state, "ACTIVE"; what the phases     *)
(* decide (a trial ends, and how) is a choice.  Requests to /calib/enable  *)
(* may be handled in any order, at any time after they were sent.          *)
(***************************************************************************)
EXTENDS EvidenceWriter

VARIABLES
  engine,     \* state of NativeEngine
  trials,     \* its trials, each whether it is a valid success
  node,       \* place in the tick, and what the call keeps in locals
  faulted,    \* evidence_error_ is not empty
  enables,    \* enable_count_
  requests,   \* requests to /calib/enable that are under way
  operator,   \* what the operator has done
  status      \* the last /calib/status it has: is the acquisition complete and saved?

nodeVars     == <<engine, trials, node, faulted, enables>>
operatorVars == <<requests, operator, status>>
sessionVars  == <<writerVars, nodeVars, operatorVars>>

-----------------------------------------------------------------------------
Engines == {"IDLE", "ACTIVE", "STOPPING", "FAULT", "COMPLETE"}

Idle == [at |-> "idle", first |-> 0, saves |-> FALSE]
InTick(place, first, saves) == [at |-> place, first |-> first, saves |-> saves]

Invalidated(first, list) == [i \in 1..Len(list) |-> list[i] /\ i <= first]
Least(a, b) == IF a < b THEN a ELSE b

\* finish(false, ...): an unfinished measurement becomes a failed trial.
Finished(list) ==
  {list} \union IF engine = "ACTIVE" /\ Len(list) < MaxTrials THEN {Append(list, FALSE)} ELSE {}

\* What the engine's own step may do.  The last trial completes the plan.
EngineStep ==
  \/ UNCHANGED <<engine, trials>>
  \/ /\ engine = "ACTIVE" /\ Len(trials) < MaxTrials
     /\ \E success \in BOOLEAN : trials' = Append(trials, success)
     /\ engine' \in {"COMPLETE"} \union IF Len(trials) + 1 < MaxTrials THEN {"ACTIVE"} ELSE {}
  \/ engine = "ACTIVE" /\ engine' = "FAULT" /\ trials' \in Finished(trials)

\* The head of tick(): a writer error is read once, and faults the engine.
Tick ==
  /\ node = Idle
  /\ IF error
     THEN /\ engine' = "FAULT" /\ faulted' = TRUE
          /\ \E list \in Finished(trials) :
               trials' = Invalidated(Least(Len(trials), failedAfter), list)
     ELSE EngineStep /\ UNCHANGED faulted
  /\ node' = InTick("row", Len(trials), trials' # trials \/ faulted')
  /\ UNCHANGED <<writerVars, enables, operatorVars>>

\* A call of the writer that threw: fault, invalidate, and try to save that.
Continue(next) ==
  IF Accepts THEN node' = next /\ UNCHANGED <<engine, trials, faulted>>
  ELSE /\ node' = InTick("rescue", 0, FALSE)
       /\ engine' = "FAULT" /\ faulted' = TRUE
       /\ \E list \in Finished(trials) : trials' = Invalidated(node.first, list)

WriteRow ==
  /\ node.at = "row"
  /\ SubmitRow(node.first + 1)
  /\ Continue(InTick(IF node.saves THEN "save" ELSE "runtime", node.first, FALSE))
  /\ UNCHANGED <<enables, operatorVars>>

WriteTrials ==
  /\ node.at = "save"
  /\ SubmitTrials(trials, faulted)
  /\ Continue(InTick("runtime", node.first, FALSE))
  /\ UNCHANGED <<enables, operatorVars>>

WriteRuntime ==
  /\ node.at = "runtime"
  /\ SubmitOther
  /\ Continue(Idle)
  /\ UNCHANGED <<enables, operatorVars>>

\* The checkpoint of the handler, whose own failure is ignored.
Rescue ==
  /\ node.at = "rescue"
  /\ SubmitTrials(trials, faulted)
  /\ node' = Idle
  /\ UNCHANGED <<engine, trials, faulted, enables, operatorVars>>

Between == node = Idle /\ ~stopping

\* enable(true): one attempt, of an engine that never ran, with a clean log.
\* The reset and the checkpoint may be refused by the writer.
StartsAgain == ~error
Startable   == engine = "IDLE" /\ enables = 0 /\ ~error
HandleStart ==
  /\ Between /\ "start" \in requests
  /\ requests' = requests \ {"start"}
  /\ IF Startable
     THEN /\ enables' = enables + 1 /\ engine' = "ACTIVE"
          /\ node' = InTick("starting", 0, FALSE)
     ELSE UNCHANGED <<enables, engine, node>>
  /\ UNCHANGED <<writerVars, trials, faulted, operator, status>>

\* A call in enable() that throws only faults the engine.
Otherwise(next) ==
  IF Accepts THEN node' = next /\ UNCHANGED <<engine, trials>>
  ELSE node' = Idle /\ engine' = "FAULT" /\ trials' \in Finished(trials)
ResetObservations ==
  /\ node.at = "starting"
  /\ SubmitOther
  /\ Otherwise(InTick("answering", 0, FALSE))
  /\ UNCHANGED <<faulted, enables, operatorVars>>
SaveThenAnswer ==
  /\ node.at = "answering"
  /\ SubmitTrials(trials, faulted)
  /\ Otherwise(Idle)
  /\ UNCHANGED <<faulted, enables, operatorVars>>

HandleStop ==
  /\ Between /\ "stop" \in requests
  /\ requests' = requests \ {"stop"}
  /\ engine' = "STOPPING" /\ trials' \in Finished(trials)
  /\ node' = InTick("answering", 0, FALSE)
  /\ UNCHANGED <<writerVars, faulted, enables, operator, status>>

\* The destructor, after any callback: disable, save, close and join.
Shutdown ==
  /\ Between
  /\ engine' = "STOPPING" /\ trials' \in Finished(trials)
  /\ node' = InTick("leaving", 0, FALSE)
  /\ UNCHANGED <<writerVars, faulted, enables, operatorVars>>
SaveThenClose ==
  /\ node.at = "leaving"
  /\ SubmitTrials(trials, faulted)
  /\ node' = InTick("closing", 0, FALSE)
  /\ UNCHANGED <<engine, trials, faulted, enables, operatorVars>>
CloseWriter ==
  /\ node.at = "closing" /\ ~stopping
  /\ Close
  /\ UNCHANGED <<nodeVars, operatorVars>>

-----------------------------------------------------------------------------
(* The operator, command "start".                                          *)

\* What completion() asks of a status.
CompleteUnsaved == engine = "COMPLETE" /\ ~error
CompleteAndSaved == engine = "COMPLETE" /\ ~error /\ committed = Len(trials)
Status ==
  /\ Between
  /\ status' = CompleteAndSaved
  /\ UNCHANGED <<writerVars, nodeVars, requests, operator>>

Asks ==
  /\ operator = "ready"
  /\ operator' = "asked" /\ requests' = requests \union {"start"}
  /\ UNCHANGED <<writerVars, nodeVars, status>>

\* An uncertain answer, a lost status, a timeout, an interrupt, an end that is
\* not complete: a stop is requested once and the exit code is 3.  Without the
\* service there is no request.
GivesUp ==
  /\ operator = "asked"
  /\ \/ operator' = "stopped" /\ requests' = requests \union {"stop"}
     \/ operator' = "unable" /\ UNCHANGED requests
  /\ UNCHANGED <<writerVars, nodeVars, status>>

\* The results checker reads the file, and accepts no invalid evidence.
AcceptsResults ==
  /\ operator = "asked" /\ status /\ enables > 0
  /\ disk.valid /\ \A i \in 1..Len(disk.trials) : disk.trials[i]
  /\ operator' = "accepted"
  /\ UNCHANGED <<writerVars, nodeVars, requests, status>>

-----------------------------------------------------------------------------
SessionInit ==
  /\ WriterInit
  /\ engine = "IDLE" /\ trials = <<>> /\ node = Idle /\ faulted = FALSE /\ enables = 0
  /\ requests = {} /\ operator = "ready" /\ status = FALSE

NodeStep ==
  \/ Tick \/ WriteRow \/ WriteTrials \/ WriteRuntime \/ Rescue
  \/ HandleStart \/ ResetObservations \/ SaveThenAnswer \/ HandleStop
  \/ SaveThenClose \/ CloseWriter

SessionNext ==
  \/ NodeStep \/ Shutdown \/ Status
  \/ Work /\ UNCHANGED <<nodeVars, operatorVars>>
  \/ Asks \/ GivesUp \/ AcceptsResults

\* The worker thread runs until it is joined, and a callback that began ends.
SessionSpec ==
  /\ SessionInit /\ [][SessionNext]_sessionVars
  /\ WF_sessionVars(Work /\ UNCHANGED <<nodeVars, operatorVars>>)
  /\ WF_sessionVars(NodeStep)

-----------------------------------------------------------------------------
JobType == [kind : {"observation", "runtime", "trials"}, trial : 0..MaxTrials + 1,
            trials : Seq(BOOLEAN), faulted : BOOLEAN]

\* Type invariant.
SessionTypeOK ==
  /\ queue \in Seq(JobType) /\ Len(queue) <= Capacity
  /\ error \in BOOLEAN /\ unavailable \in BOOLEAN /\ stopping \in BOOLEAN
  /\ failedAfter \in 0..MaxTrials /\ committed \in 0..MaxTrials
  /\ latest \in Seq(BOOLEAN) /\ version \in {"never failed", "stale", "current"}
  /\ worker.job \in JobType /\ lost \subseteq Trials
  /\ disk.valid \in BOOLEAN /\ disk.trials \in Seq(BOOLEAN)
  /\ engine \in Engines /\ trials \in Seq(BOOLEAN) /\ Len(trials) <= MaxTrials
  /\ faulted \in BOOLEAN /\ enables \in 0..1
  /\ requests \subseteq {"start", "stop"} /\ status \in BOOLEAN

\* A trial that trials.json calls a valid success has every one of its
\* observation rows in observations.csv, whatever failed, overflowed or is
\* still queued (submit's failed_after_, failure_checkpoint).
EvidenceComplete ==
  \A i \in 1..Len(disk.trials) : disk.trials[i] => ~RowsMissing(i)

\* A writer error reaches trials.json, which never again claims valid evidence,
\* or else the error says that it could not (failure_checkpoint).
FailureBecomesDurable == error ~> [](~disk.valid \/ unavailable)

\* When the operator gave up on an uncertain start and its stop was handled,
\* the acquisition is over for good, also when the start is handled late.
UncertainStartUndone ==
  [](operator = "stopped" /\ "stop" \notin requests => [](engine # "ACTIVE"))

\* Exit code 0 is given only to a file that holds every trial of a finished
\* acquisition (completion, accept_results).
AcceptedIsWhole ==
  [][operator' = "accepted" /\ operator # "accepted"
       => Len(disk.trials) = Len(trials) /\ engine # "ACTIVE"]_sessionVars

=============================================================================
