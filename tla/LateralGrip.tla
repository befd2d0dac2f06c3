------------------------------ MODULE LateralGrip ------------------------------
(***************************************************************************)
(* The lateral grip calibration (core.hpp, class Core, and the node around *)
(* it in node.cpp): a single-use session that drives constant-radius steps *)
(* first to one side and then to the other, each from a standstill.        *)
(*                                                                         *)
(* Time passes at ticks, one unit each; every since_ is the time since     *)
(* then, -1 when unset.  Callbacks run between ticks, one at a time.  The  *)
(* wheel samples and the driver's answers are followed one by one; what    *)
(* else a tick finds wrong (another input missing or late, a conflicting   *)
(* publisher, a mismatch of the final command) is one choice, "sound".     *)
(* Any write of evidence may fail.                                         *)
(***************************************************************************)
EXTENDS Integers, Sequences

CONSTANTS
  Stages,         \* speed_steps: step s asks for speed s
  SettleTime, HoldTime, StageTimeout, MinSamples,
  StopTime, StopTimeout,
  Freshness,      \* freshness
  DriverFresh,    \* how long a driver answer counts (1 s)
  DriverTimeout   \* how long an answer is waited for, and the poll interval (0.5 s)

\* Config::valid, and the node's constants.
ASSUME GripAssumption ==
  /\ Stages \in Nat \ {0} /\ SettleTime \in Nat /\ HoldTime \in Nat /\ MinSamples \in Nat
  /\ StopTime \in Nat /\ StageTimeout \in Nat /\ StopTimeout \in Nat
  /\ StageTimeout > SettleTime + HoldTime /\ StopTimeout > StopTime
  /\ Freshness \in Nat /\ DriverFresh \in Nat /\ DriverTimeout \in Nat

VARIABLES
  core,      \* the members of Core
  speed,     \* input_.speed, of the last valid wheel sample
  wheel,     \* age of the last wheel sample, above Freshness for an invalid one
  fresh,     \* its source stamp is newer than last_wheel_source_
  driver,    \* driver_disabled_, driver_pending_, the ages of the answer and of the request
  evidence,  \* io_ok_
  wire       \* speed of the last published request

vars == <<core, speed, wheel, fresh, driver, evidence, wire>>

-----------------------------------------------------------------------------
(* Core.  Its tick reads the inputs of that moment: the wheel sample's age  *)
(* is the one after the time that passed, wheel'.                          *)

Unlimited(a, b) == b
Lesser(a, b) == IF a < b THEN a ELSE b
Active(c) == c.state \in {"RUN", "COAST"}

stop(c) ==
  IF Active(c) THEN [c EXCEPT !.state = "ABORTED", !.incomplete = (c.state = "RUN")] ELSE c

\* The settle and hold times start over, for the next stage or a lost speed.
RestartedWhole(c) == [c EXCEPT !.settle = -1, !.hold = -1, !.samples = 0, !.since = 0]
Restarted(c) == [c EXCEPT !.settle = -1, !.hold = -1, !.samples = 0]

\* A stage is held: note it, and go on to the next or coast.
Completed(c) ==
  LET noted == [c EXCEPT !.completed = Append(@, <<c.direction, c.stage>>), !.since = 0]
  IN  IF c.stage < Stages THEN Restarted([noted EXCEPT !.stage = @ + 1])
      ELSE [noted EXCEPT !.state = "COAST", !.stopped = -1]

\* The speed is held, as of the last wheel sample; only new samples count.
Held(c) ==
  LET settle == c.settle + 1
      hold   == IF settle >= SettleTime THEN c.hold + 1 ELSE c.hold
      new    == IF fresh /\ hold >= 0 THEN 1 ELSE 0
  IN  [c EXCEPT !.settle = settle, !.hold = hold,
                !.samples = IF hold <= 0 THEN new ELSE c.samples + new]
Driven(c) ==
  LET ramped == [c EXCEPT !.request = Lesser(c.stage, @ + 1), !.since = @ + 1]
      held   == Held(ramped)
      next   == IF speed # c.stage \/ ramped.request < c.stage THEN Restarted(ramped)
                ELSE IF held.hold >= HoldTime /\ held.samples >= MinSamples
                     THEN Completed(held) ELSE held
  IN  IF next.state = "RUN" /\ next.since >= StageTimeout THEN stop(next) ELSE next

\* The next run, or the end; finished_left_ is set when the first run starts.
TurnsOnStage(c) == IF c.finishedLeft THEN [c EXCEPT !.direction = -1]
                   ELSE [c EXCEPT !.finishedLeft = TRUE]
Turns(c) == IF c.finishedLeft THEN [c EXCEPT !.direction = -1, !.stage = 1]
            ELSE [c EXCEPT !.finishedLeft = TRUE]
Stood(c) ==
  IF c.finishedLeft /\ c.direction < 0 THEN [c EXCEPT !.state = "COMPLETE"]
  ELSE Restarted([Turns(c) EXCEPT !.state = "RUN", !.since = 0, !.request = 0])

\* A standstill counts in steady time and in source time.
Coasted(c) ==
  LET stopped == IF speed # 0 THEN -1 ELSE c.stopped + 1
      source  == IF stopped <= 0 THEN wheel' ELSE c.source + 1
      next    == [c EXCEPT !.stopped = stopped, !.source = source, !.since = @ + 1]
  IN  IF stopped >= StopTime /\ source - wheel' >= StopTime THEN Stood(next)
      ELSE IF next.since >= StopTimeout THEN stop(next) ELSE next

tick(c, sound) ==
  IF ~Active(c) THEN c
  ELSE IF ~sound \/ wheel' > Freshness \/ speed > Stages THEN stop(c)
  ELSE IF c.state = "RUN" THEN Driven(c) ELSE Coasted(c)

request(c) == IF c.state = "RUN" THEN c.request ELSE 0

-----------------------------------------------------------------------------
(* The node's callbacks.                                                   *)

\* Every callback writes evidence; when that fails the core is stopped.
Records(c) ==
  \/ core' = c /\ UNCHANGED evidence
  \/ core' = stop(c) /\ evidence' = FALSE

\* A stamp that does not advance, or a value that is not finite, is invalid.
Wheel ==
  /\ \/ \E v \in 0..Stages + 1 : speed' = v /\ wheel' = 0 /\ fresh' = TRUE /\ Records(core)
     \/ wheel' = Freshness + 1 /\ UNCHANGED <<speed, fresh>> /\ Records(stop(core))
  /\ UNCHANGED <<driver, wire>>

\* Another control sample, valid or not, or a message that is only recorded.
Other ==
  /\ Records(core) \/ Records(stop(core))
  /\ UNCHANGED <<speed, wheel, fresh, driver, wire>>

\* The answer to the parameter request that is waited for.
Answer ==
  /\ driver.pending
  /\ \E disabled \in BOOLEAN :
       /\ driver' = [driver EXCEPT !.pending = FALSE, !.disabled = disabled, !.age = 0]
       /\ Records(IF disabled THEN core ELSE stop(core))
  /\ UNCHANGED <<speed, wheel, fresh, wire>>

driver_ready(d) == d.disabled /\ d.age <= DriverFresh

\* The service: enable once, from a standstill, with everything verified.
Enable ==
  /\ core.state = "IDLE" /\ evidence /\ driver_ready(driver)
  /\ wheel <= Freshness /\ speed = 0
  /\ Records([core EXCEPT !.state = "COAST", !.since = 0, !.stopped = 0, !.source = wheel])
  /\ UNCHANGED <<speed, wheel, fresh, driver, wire>>
Disable ==
  /\ Records(stop(core))
  /\ UNCHANGED <<speed, wheel, fresh, driver, wire>>

\* poll_driver: an answer that is late is no longer waited for; a new request
\* goes out when the service is there.
Aged(n, bound) == IF n > bound THEN n ELSE n + 1
Waits(d) == [d EXCEPT !.age = Aged(@, DriverFresh), !.asked = Aged(@, DriverTimeout)]
Late(d) == d.pending /\ d.asked > DriverTimeout
Dropped(d) == IF Late(d) THEN [d EXCEPT !.pending = FALSE, !.disabled = FALSE] ELSE d
Polled(d) ==
  {d} \union IF d.pending \/ d.asked < DriverTimeout THEN {}
             ELSE {[d EXCEPT !.pending = TRUE, !.asked = 0]}

\* tick: the checks, the core, the record of the request and its publication.
\* Without evidence the zero request goes out instead.
CheckedOnce(c, d) == IF Late(d) THEN stop(c) ELSE c
Checked(c, d) == IF Late(d) \/ ~driver_ready(d) THEN stop(c) ELSE c
Tick ==
  /\ wheel' = Aged(wheel, Freshness)
  /\ driver' \in Polled(Dropped(Waits(driver)))
  /\ \E sound \in BOOLEAN :
       LET ticked == tick(Checked(core, Waits(driver)), sound)
           next   == IF evidence THEN ticked ELSE stop(ticked)
       IN  Records(next) /\ wire' = IF evidence' THEN request(next) ELSE 0
  /\ fresh' = (fresh /\ core.state # "RUN")
  /\ UNCHANGED speed

Init ==
  /\ core = [state |-> "IDLE", finishedLeft |-> FALSE, direction |-> 1, stage |-> 1,
             request |-> 0, since |-> 0, stopped |-> -1, source |-> 0, settle |-> -1,
             hold |-> -1, samples |-> 0, incomplete |-> FALSE, completed |-> <<>>]
  /\ speed = 0 /\ wheel = Freshness + 1 /\ fresh = FALSE
  /\ driver = [disabled |-> FALSE, pending |-> FALSE, age |-> DriverFresh + 1,
               asked |-> DriverTimeout + 1]
  /\ evidence = TRUE /\ wire = 0

Next == Wheel \/ Other \/ Answer \/ Enable \/ Disable \/ Tick

\* The 20 ms timer fires again and again.
Spec == Init /\ [][Next]_vars /\ WF_vars(Tick)

-----------------------------------------------------------------------------
\* Type invariant; a stop leaves at most the current stage incomplete.
TypeOK ==
  /\ core.state \in {"IDLE", "COAST", "RUN", "COMPLETE", "ABORTED"}
  /\ core.direction \in {-1, 1} /\ core.stage \in 1..Stages /\ core.request \in 0..Stages
  /\ core.since \in 0..StageTimeout + StopTimeout
  /\ core.incomplete => core.state = "ABORTED"
  /\ speed \in 0..Stages + 1 /\ wheel \in 0..Freshness + 1
  /\ driver.age \in 0..DriverFresh + 1 /\ driver.asked \in 0..DriverTimeout + 1
  /\ {fresh, evidence, driver.disabled, driver.pending} \subseteq BOOLEAN
  /\ wire \in 0..Stages

\* The stages are completed in order, each once, all to one side before any to
\* the other; a session is COMPLETE only when none of them is missing.
Course ==
  [i \in 1..2 * Stages |-> IF i <= Stages THEN <<1, i>> ELSE <<-1, i - Stages>>]
CourseInOrder ==
  /\ Len(core.completed) <= 2 * Stages
  /\ core.completed = SubSeq(Course, 1, Len(core.completed))
  /\ core.state = "COMPLETE" => core.completed = Course

\* The vehicle is told to move only while the driver's last answer is recent
\* and says that its startup current is off, the wheel speed is fresh, and all
\* evidence was written, whichever of the callbacks came before.
MotionVerified ==
  [][wire' > 0 /\ Tick => driver_ready(driver') /\ wheel' <= Freshness /\ evidence']_vars

\* A session does not stay active: it completes or is aborted, also when the
\* vehicle never reaches a speed or never stands still.
SessionEnds == Active(core) ~> ~Active(core)

=============================================================================
