---------------------------- MODULE LateralGripProofs ----------------------------
(***************************************************************************)
(* Theorems about the lateral grip calibration, for any number of stages   *)
(* and any times that Config::valid allows.                                *)
(*                                                                         *)
(* CourseInOrder is not inductive: that the next stage to complete is the  *)
(* one the course asks for rests on the place (Place) that the run's side, *)
(* its stage and the flag finished_left_ stand for.  Nothing in the code   *)
(* compares that place with what was completed.                            *)
(***************************************************************************)
EXTENDS LateralGrip, SequenceTheorems, TLAPS

Sides  == {1, -1}
States == {"IDLE", "COAST", "RUN", "COMPLETE", "ABORTED"}

Cores ==
  [state : States, finishedLeft : BOOLEAN, direction : Sides, stage : 1..Stages,
   request : 0..Stages, since : Nat, stopped : Int, source : Int, settle : Int, hold : Int,
   samples : Int, incomplete : BOOLEAN, completed : Seq(Sides \X (1..Stages))]

\* The stages completed, as the members of Core that a run goes by tell it.
Place(c) ==
  IF ~c.finishedLeft THEN 0
  ELSE (IF c.direction = 1 THEN 0 ELSE Stages) + (IF c.state = "RUN" THEN c.stage - 1 ELSE Stages)

Placed(c) ==
  /\ Active(c) => Len(c.completed) = Place(c)
  /\ c.state = "IDLE" => Len(c.completed) = 0 /\ ~c.finishedLeft
  /\ c.state = "COMPLETE" => Len(c.completed) = 2 * Stages
  /\ ~c.finishedLeft => c.direction = 1 /\ c.stage = 1
  /\ c.state = "RUN" => c.finishedLeft
InCourse(c) ==
  /\ Len(c.completed) <= 2 * Stages
  /\ \A i \in 1..Len(c.completed) : c.completed[i] = Course[i]

\* An active session has not used up its time.
Timely(c) ==
  /\ c.since <= StageTimeout + StopTimeout
  /\ c.state = "RUN" => c.since < StageTimeout
  /\ c.state = "COAST" => c.since < StopTimeout

CourseInv(c) ==
  /\ c \in Cores
  /\ c.incomplete => c.state = "ABORTED"
  /\ Placed(c) /\ InCourse(c)

CoreInv(c) == CourseInv(c) /\ Timely(c)

Drivers ==
  [disabled : BOOLEAN, pending : BOOLEAN, age : 0..DriverFresh + 1,
   asked : 0..DriverTimeout + 1]

GripInv ==
  /\ CoreInv(core)
  /\ speed \in 0..Stages + 1 /\ wheel \in 0..Freshness + 1
  /\ fresh \in BOOLEAN /\ evidence \in BOOLEAN
  /\ driver \in Drivers /\ wire \in 0..Stages

-----------------------------------------------------------------------------
\* What the invariant says of the course depends on these members only.
LEMMA SameCourse ==
  ASSUME NEW c, CourseInv(c), NEW d \in Cores,
         d.state = c.state, d.finishedLeft = c.finishedLeft, d.direction = c.direction,
         d.stage = c.stage, d.completed = c.completed, d.incomplete = c.incomplete
  PROVE  CourseInv(d)
  BY DEF CourseInv, Placed, Place, InCourse, Active

\* A stop keeps everything but the state.
LEMMA StopKeeps ==
  ASSUME NEW c, CourseInv(c), c.since <= StageTimeout + StopTimeout,
         Active(c) \/ Timely(c)
  PROVE  CoreInv(stop(c)) /\ ~Active(stop(c))
<1>1. CASE ~Active(c)
  BY <1>1 DEF stop, CoreInv
<1>2. CASE Active(c)
  <2> DEFINE d == [c EXCEPT !.state = "ABORTED", !.incomplete = (c.state = "RUN")]
  <2>1. stop(c) = d /\ c \in Cores
    BY <1>2 DEF stop, CourseInv
  <2>2. d.state = "ABORTED" /\ d.finishedLeft = c.finishedLeft /\ d.direction = c.direction
        /\ d.stage = c.stage /\ d.since = c.since /\ d.completed = c.completed
    BY <2>1 DEF Cores
  <2>3. d \in Cores
    <3>1. (c.state = "RUN") \in BOOLEAN /\ "ABORTED" \in States
      BY DEF States
    <3> QED
      BY <2>1, <3>1 DEF Cores
  <2> HIDE DEF d
  <2>4. CoreInv(d) /\ ~Active(d)
    BY <2>2, <2>3 DEF CoreInv, CourseInv, Placed, InCourse, Timely, Active
  <2> QED
    BY <2>1, <2>4
<1> QED
  BY <1>1, <1>2

\* The course's places, by side.
LEMMA CoursePlaces ==
  ASSUME NEW n \in 1..2 * Stages
  PROVE  /\ n <= Stages => Course[n] = <<1, n>>
         /\ ~(n <= Stages) => Course[n] = <<-1, n - Stages>>
  BY Zenon DEF Course

\* Restarting the timers of a stage touches nothing else.
LEMMA RestartKeeps ==
  ASSUME NEW c, CourseInv(c)
  PROVE  /\ CourseInv(Restarted(c))
         /\ Restarted(c).state = c.state /\ Restarted(c).since = c.since
<1>1. c \in Cores
  BY DEF CourseInv
<1>2. Restarted(c) \in Cores
  <2>1. -1 \in Int /\ 0 \in Int
    OBVIOUS
  <2> QED
    BY <1>1, <2>1 DEF Restarted, Cores
<1>3. /\ Restarted(c).state = c.state /\ Restarted(c).finishedLeft = c.finishedLeft
      /\ Restarted(c).direction = c.direction /\ Restarted(c).stage = c.stage
      /\ Restarted(c).completed = c.completed /\ Restarted(c).incomplete = c.incomplete
      /\ Restarted(c).since = c.since
  BY <1>1 DEF Restarted, Cores
<1> QED
  BY <1>2, <1>3, SameCourse

\* One more completed stage, the one the course has next.
LEMMA NotesInCourse ==
  ASSUME NEW c \in Cores, InCourse(c), Len(c.completed) = Place(c), c.state = "RUN",
         c.finishedLeft
  PROVE  LET done == Append(c.completed, <<c.direction, c.stage>>)
         IN  /\ done \in Seq(Sides \X (1..Stages))
             /\ Len(done) = Place(c) + 1 /\ Len(done) <= 2 * Stages
             /\ \A i \in 1..Len(done) : done[i] = Course[i]
<1> DEFINE step == <<c.direction, c.stage>>
           done == Append(c.completed, step)
<1>1. c.stage \in 1..Stages /\ c.direction \in Sides /\ step \in Sides \X (1..Stages)
  BY DEF Cores
<1>2. c.completed \in Seq(Sides \X (1..Stages))
  BY DEF Cores
<1>3. /\ done \in Seq(Sides \X (1..Stages)) /\ Len(done) = Len(c.completed) + 1
      /\ \A i \in 1..Len(c.completed) : done[i] = c.completed[i]
      /\ done[Len(c.completed) + 1] = step
  BY <1>1, <1>2, AppendProperties
<1>4. Len(c.completed) \in Nat
  BY <1>2, LenProperties
<1>5. Place(c) = (IF c.direction = 1 THEN 0 ELSE Stages) + c.stage - 1
  BY <1>1, GripAssumption DEF Place
<1>6. Course[Place(c) + 1] = step /\ Place(c) + 1 <= 2 * Stages
  <2> DEFINE n == Place(c) + 1
  <2>1. n = (IF c.direction = 1 THEN 0 ELSE Stages) + c.stage
    BY <1>1, <1>5, GripAssumption
  <2> HIDE DEF n
  <2>2. CASE c.direction = 1
    <3>1. n \in 1..2 * Stages /\ n <= Stages /\ n = c.stage
      BY <1>1, <2>1, <2>2, GripAssumption
    <3> QED
      BY <2>2, <3>1, CoursePlaces DEF n
  <2>3. CASE c.direction = -1
    <3>1. n \in 1..2 * Stages /\ ~(n <= Stages) /\ n - Stages = c.stage
      BY <1>1, <2>1, <2>3, GripAssumption
    <3>2. Course[n] = <<-1, n - Stages>> /\ n <= 2 * Stages
      BY <3>1, CoursePlaces, GripAssumption
    <3> QED
      BY <2>3, <3>1, <3>2, Zenon DEF n
  <2> QED
    BY <1>1, <2>2, <2>3 DEF Sides
<1> QED
  BY <1>3, <1>4, <1>6 DEF InCourse

\* After a held stage the place is the next stage's, or a standstill's.
LEMMA CompletionKeeps ==
  ASSUME NEW c, CourseInv(c), c.state = "RUN"
  PROVE  /\ CourseInv(Completed(c)) /\ Completed(c).since = 0
         /\ Completed(c).state \in {"RUN", "COAST"}
<1> DEFINE step  == <<c.direction, c.stage>>
           done  == Append(c.completed, step)
           noted == [c EXCEPT !.completed = done, !.since = 0]
<1>1. c \in Cores /\ InCourse(c) /\ Len(c.completed) = Place(c) /\ c.finishedLeft
      /\ c.incomplete = FALSE
  BY DEF CourseInv, Placed, Active, Cores
<1>2. /\ done \in Seq(Sides \X (1..Stages))
      /\ Len(done) = Place(c) + 1 /\ Len(done) <= 2 * Stages
      /\ \A i \in 1..Len(done) : done[i] = Course[i]
  BY <1>1, NotesInCourse
<1> HIDE DEF done
<1>3. /\ noted \in Cores /\ noted.state = "RUN" /\ noted.finishedLeft
      /\ noted.direction = c.direction /\ noted.stage = c.stage /\ noted.since = 0
      /\ noted.completed = done /\ noted.incomplete = FALSE
  BY <1>1, <1>2 DEF Cores
<1>4. c.stage \in 1..Stages /\ c.direction \in Sides
  BY <1>1 DEF Cores
<1> HIDE DEF noted
<1>5. CASE c.stage < Stages
  <2> DEFINE d == [noted EXCEPT !.stage = @ + 1]
  <2>1. /\ d \in Cores /\ d.state = "RUN" /\ d.finishedLeft /\ d.direction = c.direction
        /\ d.stage = c.stage + 1 /\ d.since = 0 /\ d.completed = done /\ d.incomplete = FALSE
    <3>1. c.stage + 1 \in 1..Stages
      BY <1>4, <1>5, GripAssumption
    <3> QED
      BY <1>3, <3>1 DEF Cores
  <2>2. Completed(c) = Restarted(d)
    BY <1>1, <1>3, <1>5 DEF Completed, noted, done
  <2> HIDE DEF d
  <2>3. Place(d) = Place(c) + 1
    BY <1>1, <1>4, <2>1, GripAssumption DEF Place
  <2>4. CourseInv(d)
    BY <1>2, <2>1, <2>3 DEF CourseInv, Placed, InCourse
  <2> QED
    BY <2>1, <2>2, <2>4, RestartKeeps
<1>6. CASE ~(c.stage < Stages)
  <2> DEFINE d == [noted EXCEPT !.state = "COAST", !.stopped = -1]
  <2>1. /\ d \in Cores /\ d.state = "COAST" /\ d.finishedLeft /\ d.direction = c.direction
        /\ d.since = 0 /\ d.completed = done /\ d.incomplete = FALSE
    <3>1. -1 \in Int /\ "COAST" \in States
      BY DEF States
    <3> QED
      BY <1>3, <3>1 DEF Cores
  <2>2. Completed(c) = d
    BY <1>1, <1>3, <1>6 DEF Completed, noted, done
  <2> HIDE DEF d
  <2>3. Place(d) = Place(c) + 1
    BY <1>1, <1>4, <1>6, <2>1, GripAssumption DEF Place
  <2>4. CourseInv(d)
    BY <1>2, <2>1, <2>3 DEF CourseInv, Placed, InCourse
  <2> QED
    BY <2>1, <2>2, <2>4
<1> QED
  BY <1>5, <1>6

\* A tick of a run.
LEMMA DrivenKeeps ==
  ASSUME NEW c, CoreInv(c), c.state = "RUN", fresh \in BOOLEAN
  PROVE  CoreInv(Driven(c))
<1> DEFINE ramped == [c EXCEPT !.request = Lesser(c.stage, @ + 1), !.since = @ + 1]
           held   == Held(ramped)
           next   == IF speed # c.stage \/ ramped.request < c.stage THEN Restarted(ramped)
                     ELSE IF held.hold >= HoldTime /\ held.samples >= MinSamples
                          THEN Completed(held) ELSE held
<1>1. c \in Cores /\ CourseInv(c) /\ Timely(c)
  BY DEF CoreInv, CourseInv
<1>2. ramped \in Cores /\ ramped.since = c.since + 1 /\ ramped.state = "RUN" /\ CourseInv(ramped)
  <2>1. Lesser(c.stage, c.request + 1) \in 0..Stages /\ c.since + 1 \in Nat
    BY <1>1, GripAssumption DEF Lesser, Cores
  <2>2. ramped \in Cores
    BY <1>1, <2>1 DEF Cores
  <2>3. /\ ramped.state = c.state /\ ramped.finishedLeft = c.finishedLeft
        /\ ramped.direction = c.direction /\ ramped.stage = c.stage
        /\ ramped.completed = c.completed /\ ramped.incomplete = c.incomplete
        /\ ramped.since = c.since + 1
    BY <1>1 DEF Cores
  <2> HIDE DEF ramped
  <2> QED
    BY <1>1, <2>2, <2>3, SameCourse
<1> HIDE DEF ramped
<1>3. held.since = ramped.since /\ held.state = "RUN" /\ CourseInv(held)
  <2> DEFINE settle == ramped.settle + 1
             hold   == IF settle >= SettleTime THEN ramped.hold + 1 ELSE ramped.hold
             new    == IF fresh /\ hold >= 0 THEN 1 ELSE 0
             samples == IF hold <= 0 THEN new ELSE ramped.samples + new
             d == [ramped EXCEPT !.settle = settle, !.hold = hold, !.samples = samples]
  <2>1. settle \in Int /\ hold \in Int /\ samples \in Int
    BY <1>2 DEF Cores
  <2>2. held = d
    BY <1>2 DEF Held, Cores
  <2> HIDE DEF settle, hold, samples
  <2>3. d \in Cores
    BY <1>2, <2>1 DEF Cores
  <2>4. /\ d.state = ramped.state /\ d.finishedLeft = ramped.finishedLeft
        /\ d.direction = ramped.direction /\ d.stage = ramped.stage
        /\ d.completed = ramped.completed /\ d.incomplete = ramped.incomplete
        /\ d.since = ramped.since
    BY <1>2 DEF Cores
  <2> HIDE DEF d
  <2> QED
    BY <1>2, <2>2, <2>3, <2>4, SameCourse
<1> HIDE DEF held
<1>4. /\ CourseInv(next) /\ next.state \in {"RUN", "COAST"}
      /\ (next.since = 0 \/ (next.state = "RUN" /\ next.since = c.since + 1))
  BY <1>2, <1>3, CompletionKeeps, RestartKeeps
<1>5. Driven(c) = IF next.state = "RUN" /\ next.since >= StageTimeout THEN stop(next) ELSE next
  BY DEF Driven, ramped, held
<1> HIDE DEF next
<1>6. c.since \in Nat /\ c.since < StageTimeout
  BY <1>1 DEF Timely, Cores
<1>7. CASE next.state = "RUN" /\ next.since >= StageTimeout
  <2>1. next.since <= StageTimeout + StopTimeout /\ Active(next)
    BY <1>4, <1>6, <1>7, GripAssumption DEF Active
  <2> QED
    BY <1>4, <1>5, <1>7, <2>1, StopKeeps
<1>8. CASE ~(next.state = "RUN" /\ next.since >= StageTimeout)
  <2>1. Timely(next)
    BY <1>4, <1>6, <1>8, GripAssumption DEF Timely
  <2> QED
    BY <1>4, <1>5, <1>8, <2>1 DEF CoreInv
<1> QED
  BY <1>7, <1>8

\* After a standstill the next run begins at the place it left, or all is done.
LEMMA StandingKeeps ==
  ASSUME NEW c \in Cores, CourseInv(c), c.state = "COAST",
         c.since <= StageTimeout + StopTimeout
  PROVE  CoreInv(Stood(c))
<1>1. Len(c.completed) = Place(c) /\ c.incomplete = FALSE
      /\ c.stage \in 1..Stages /\ c.direction \in Sides
      /\ (~c.finishedLeft => c.direction = 1 /\ c.stage = 1) /\ InCourse(c)
  BY DEF CourseInv, Placed, Active, Cores
<1>2. CASE c.finishedLeft /\ c.direction < 0
  <2> DEFINE d == [c EXCEPT !.state = "COMPLETE"]
  <2>1. /\ d \in Cores /\ d.state = "COMPLETE" /\ d.finishedLeft /\ d.since = c.since
        /\ d.completed = c.completed /\ d.incomplete = FALSE
    <3>1. "COMPLETE" \in States
      BY DEF States
    <3> QED
      BY <1>1, <1>2, <3>1 DEF Cores
  <2>2. Stood(c) = d
    BY <1>2 DEF Stood
  <2> HIDE DEF d
  <2>3. Place(c) = 2 * Stages
    BY <1>1, <1>2, GripAssumption DEF Place
  <2> QED
    BY <1>1, <2>1, <2>2, <2>3 DEF CoreInv, CourseInv, Placed, InCourse, Timely, Active
<1>3. CASE ~(c.finishedLeft /\ c.direction < 0)
  <2>1. CASE c.finishedLeft
    <3> DEFINE t == [c EXCEPT !.direction = -1, !.stage = 1]
               d == [t EXCEPT !.state = "RUN", !.since = 0, !.request = 0]
    <3>1. -1 \in Sides /\ 1 \in 1..Stages /\ 0 \in 0..Stages /\ "RUN" \in States
      BY GripAssumption DEF Sides, States
    <3>2. /\ d \in Cores /\ d.state = "RUN" /\ d.finishedLeft /\ d.direction = -1
          /\ d.stage = 1 /\ d.since = 0 /\ d.completed = c.completed /\ d.incomplete = FALSE
      BY <1>1, <2>1, <3>1 DEF Cores
    <3>3. Stood(c) = Restarted(d)
      BY <1>3, <2>1, Zenon DEF Stood, Turns
    <3> HIDE DEF d
    <3>4. Place(d) = Place(c)
      <4>1. c.direction = 1
        BY <1>1, <1>3, <2>1 DEF Sides
      <4> QED
        BY <2>1, <3>2, <4>1, GripAssumption DEF Place
    <3>5. CourseInv(d)
      BY <1>1, <3>2, <3>4 DEF CourseInv, Placed, InCourse
    <3> QED
      BY <3>2, <3>3, <3>5, RestartKeeps, GripAssumption DEF CoreInv, Timely
  <2>2. CASE ~c.finishedLeft
    <3> DEFINE t == [c EXCEPT !.finishedLeft = TRUE]
               d == [t EXCEPT !.state = "RUN", !.since = 0, !.request = 0]
    <3>1. 0 \in 0..Stages /\ "RUN" \in States
      BY GripAssumption DEF States
    <3>2. /\ d \in Cores /\ d.state = "RUN" /\ d.finishedLeft /\ d.direction = 1
          /\ d.stage = c.stage /\ d.since = 0 /\ d.completed = c.completed
          /\ d.incomplete = FALSE
      BY <1>1, <2>2, <3>1 DEF Cores
    <3>3. Stood(c) = Restarted(d)
      BY <1>3, <2>2, Zenon DEF Stood, Turns
    <3> HIDE DEF d
    <3>4. Place(d) = Place(c)
      BY <1>1, <2>2, <3>2, GripAssumption DEF Place
    <3>5. CourseInv(d)
      BY <1>1, <3>2, <3>4 DEF CourseInv, Placed, InCourse
    <3> QED
      BY <3>2, <3>3, <3>5, RestartKeeps, GripAssumption DEF CoreInv, Timely
  <2> QED
    BY <2>1, <2>2
<1> QED
  BY <1>2, <1>3

\* A tick of a standstill.
LEMMA CoastedKeeps ==
  ASSUME NEW c, CoreInv(c), c.state = "COAST", wheel' \in Nat
  PROVE  CoreInv(Coasted(c))
<1> DEFINE stopped == IF speed # 0 THEN -1 ELSE c.stopped + 1
           source  == IF stopped <= 0 THEN wheel' ELSE c.source + 1
           since   == c.since + 1
           next    == [c EXCEPT !.stopped = stopped, !.source = source, !.since = since]
<1>1. c \in Cores /\ CourseInv(c) /\ c.since \in Nat /\ c.since < StopTimeout
  BY DEF CoreInv, CourseInv, Timely, Cores
<1>2. stopped \in Int /\ source \in Int /\ since \in Nat
  <2>1. -1 \in Int /\ c.stopped + 1 \in Int /\ c.source + 1 \in Int /\ wheel' \in Int
    BY <1>1 DEF Cores
  <2> QED
    BY <1>1, <2>1
<1>3. Coasted(c) = IF stopped >= StopTime /\ source - wheel' >= StopTime THEN Stood(next)
                   ELSE IF next.since >= StopTimeout THEN stop(next) ELSE next
  BY DEF Coasted
<1> HIDE DEF stopped, source
<1>4. /\ next \in Cores /\ next.state = "COAST" /\ next.finishedLeft = c.finishedLeft
      /\ next.direction = c.direction /\ next.stage = c.stage /\ next.since = since
      /\ next.completed = c.completed /\ next.incomplete = c.incomplete
  BY <1>1, <1>2 DEF Cores
<1> HIDE DEF next
<1>5. CourseInv(next)
  BY <1>1, <1>4, SameCourse
<1>6. next.since <= StageTimeout + StopTimeout /\ next.since \in Nat /\ Active(next)
  BY <1>1, <1>4, GripAssumption DEF Active
<1>7. CoreInv(Stood(next)) /\ CoreInv(stop(next))
  BY <1>4, <1>5, <1>6, StandingKeeps, StopKeeps
<1>8. next.since < StopTimeout => CoreInv(next)
  BY <1>4, <1>5, <1>6 DEF CoreInv, Timely
<1>9. next.since < StopTimeout \/ next.since >= StopTimeout
  BY <1>6, GripAssumption
<1> QED
  BY <1>3, <1>7, <1>8, <1>9

\* A stop of a state that is within its time.
LEMMA StopStays == ASSUME NEW c, CoreInv(c) PROVE CoreInv(stop(c)) /\ ~Active(stop(c))
  BY StopKeeps DEF CoreInv, Timely

\* A tick keeps the invariant of the core, whatever it finds wrong.
LEMMA TickKeeps ==
  ASSUME NEW c, CoreInv(c), fresh \in BOOLEAN, wheel' \in Nat, NEW sound
  PROVE  CoreInv(tick(c, sound))
  BY StopStays, DrivenKeeps, CoastedKeeps DEF tick, Active

\* What a callback records satisfies the invariant.
LEMMA RecordsKeeps ==
  ASSUME NEW c, CoreInv(c), evidence \in BOOLEAN, Records(c)
  PROVE  CoreInv(core') /\ evidence' \in BOOLEAN
  BY StopStays DEF Records

\* The poll of the driver keeps its types, and the driver's answer.
LEMMA PollTypes ==
  ASSUME NEW d \in Drivers, NEW e \in Polled(Dropped(Waits(d)))
  PROVE  /\ e \in Drivers
         /\ driver_ready(Waits(d)) /\ ~Late(Waits(d)) => driver_ready(e)
<1>1. Aged(d.age, DriverFresh) \in 0..DriverFresh + 1
      /\ Aged(d.asked, DriverTimeout) \in 0..DriverTimeout + 1
  BY GripAssumption DEF Aged, Drivers
<1>2. Waits(d) \in Drivers
  BY <1>1 DEF Waits, Drivers
<1>3. Dropped(Waits(d)) \in Drivers
  BY <1>2 DEF Dropped, Drivers
<1>4. \A f \in Drivers : Polled(f) \subseteq Drivers
                         /\ \A g \in Polled(f) : g.disabled = f.disabled /\ g.age = f.age
  <2> TAKE f \in Drivers
  <2> DEFINE asked == [f EXCEPT !.pending = TRUE, !.asked = 0]
  <2>1. 0 \in 0..DriverTimeout + 1
    BY GripAssumption
  <2>2. asked \in Drivers /\ asked.disabled = f.disabled /\ asked.age = f.age
    BY <2>1 DEF Drivers
  <2>3. Polled(f) \subseteq {f, asked}
    BY DEF Polled
  <2> HIDE DEF asked
  <2> QED
    BY <2>2, <2>3
<1> QED
  BY <1>2, <1>3, <1>4 DEF Dropped, driver_ready

\* A wheel sample's age stays within its cap.
LEMMA AgedWheel ==
  ASSUME wheel \in 0..Freshness + 1
  PROVE  Aged(wheel, Freshness) \in 0..Freshness + 1
  BY GripAssumption DEF Aged

\* The calibration begins idle, with an empty course.
LEMMA InitGrip == Init => GripInv
<1> SUFFICES ASSUME Init PROVE GripInv
  OBVIOUS
<1>1. core \in Cores
  <2>1. /\ "IDLE" \in States /\ 1 \in Sides /\ 1 \in 1..Stages /\ 0 \in 0..Stages
        /\ -1 \in Int /\ <<>> \in Seq(Sides \X (1..Stages))
    BY GripAssumption, EmptySeq DEF States, Sides
  <2> QED
    BY <2>1 DEF Init, Cores
<1>2. /\ core.state = "IDLE" /\ core.completed = <<>> /\ core.finishedLeft = FALSE
      /\ core.direction = 1 /\ core.stage = 1 /\ core.since = 0 /\ core.incomplete = FALSE
  BY DEF Init
<1>3. Len(core.completed) = 0
  BY <1>2, EmptySeq
<1>4. CoreInv(core)
  BY <1>1, <1>2, <1>3, GripAssumption
     DEF CoreInv, CourseInv, Placed, InCourse, Timely, Active
<1>5. driver \in Drivers
  BY GripAssumption DEF Init, Drivers
<1>6. 0 \in 0..Stages + 1 /\ 0 \in 0..Stages /\ Freshness + 1 \in 0..Freshness + 1
  BY GripAssumption
<1>7. /\ speed = 0 /\ wheel = Freshness + 1 /\ fresh = FALSE /\ evidence = TRUE /\ wire = 0
  BY DEF Init
<1> QED
  BY <1>4, <1>5, <1>6, <1>7 DEF GripInv

-----------------------------------------------------------------------------
\* A wheel sample may stop the core, and is recorded.
LEMMA WheelGrip == ASSUME GripInv, Wheel PROVE GripInv'
<1>1. CoreInv(stop(core)) /\ CoreInv(core)
  BY StopStays DEF GripInv
<1>2. CoreInv(core') /\ evidence' \in BOOLEAN
  BY <1>1, RecordsKeeps DEF Wheel, GripInv
<1>3. 0 \in 0..Freshness + 1 /\ Freshness + 1 \in 0..Freshness + 1
  BY GripAssumption
<1>4. speed' \in 0..Stages + 1 /\ wheel' \in 0..Freshness + 1 /\ fresh' \in BOOLEAN
  BY <1>3 DEF Wheel, GripInv
<1> QED
  BY <1>2, <1>4 DEF Wheel, GripInv

\* The other callbacks may stop the core.
LEMMA OtherGrip == ASSUME GripInv, Other \/ Disable PROVE GripInv'
<1>1. CoreInv(stop(core)) /\ CoreInv(core)
  BY StopStays DEF GripInv
<1>2. CoreInv(core') /\ evidence' \in BOOLEAN
  BY <1>1, RecordsKeeps DEF Other, Disable, GripInv
<1> QED
  BY <1>2 DEF Other, Disable, GripInv

\* The answer to the parameter polling.
LEMMA AnswerGrip == ASSUME GripInv, Answer PROVE GripInv'
<1>1. CoreInv(stop(core)) /\ CoreInv(core)
  BY StopStays DEF GripInv
<1>2. CoreInv(core') /\ evidence' \in BOOLEAN
  BY <1>1, RecordsKeeps DEF Answer, GripInv
<1>3. driver' \in Drivers
  <2>1. 0 \in 0..DriverFresh + 1 /\ driver \in Drivers
    BY GripAssumption DEF GripInv
  <2> QED
    BY <2>1 DEF Answer, Drivers
<1> QED
  BY <1>2, <1>3 DEF Answer, GripInv

\* An idle core that is enabled coasts first.
LEMMA EnableGrip == ASSUME GripInv, Enable PROVE GripInv'
<1> DEFINE c == [core EXCEPT !.state = "COAST", !.since = 0, !.stopped = 0, !.source = wheel]
<1>1. core \in Cores /\ CoreInv(core) /\ core.state = "IDLE" /\ wheel \in Int
  BY DEF GripInv, CoreInv, CourseInv, Enable
<1>2. /\ c \in Cores /\ c.state = "COAST" /\ c.since = 0 /\ c.stage = core.stage
      /\ c.finishedLeft = core.finishedLeft /\ c.direction = core.direction
      /\ c.completed = core.completed /\ c.incomplete = core.incomplete
  <2>1. "COAST" \in States /\ 0 \in Int /\ 0 \in Nat
    BY DEF States
  <2> QED
    BY <1>1, <2>1 DEF Cores
<1>3. Records(c)
  BY DEF Enable
<1> HIDE DEF c
<1>4. Len(c.completed) = 0 /\ ~c.finishedLeft
  BY <1>1, <1>2 DEF CoreInv, CourseInv, Placed
<1>5. CoreInv(c)
  BY <1>1, <1>2, <1>4, GripAssumption
     DEF CoreInv, CourseInv, Placed, Place, InCourse, Timely, Active
<1>6. CoreInv(core') /\ evidence' \in BOOLEAN
  BY <1>3, <1>5, RecordsKeeps DEF GripInv
<1> QED
  BY <1>6 DEF Enable, GripInv

\* The timer tick.
LEMMA TickGrip == ASSUME GripInv, Tick PROVE GripInv'
<1>1. wheel' \in 0..Freshness + 1
  BY AgedWheel DEF Tick, GripInv
<1>2. driver' \in Drivers
  BY PollTypes DEF Tick, GripInv
<1>3. CoreInv(Checked(core, Waits(driver)))
  BY StopStays DEF Checked, GripInv
<1>4. PICK sound \in BOOLEAN :
        LET ticked == tick(Checked(core, Waits(driver)), sound)
            next   == IF evidence THEN ticked ELSE stop(ticked)
        IN  Records(next) /\ wire' = IF evidence' THEN request(next) ELSE 0
  BY DEF Tick
<1> DEFINE ticked == tick(Checked(core, Waits(driver)), sound)
           next   == IF evidence THEN ticked ELSE stop(ticked)
<1>5. CoreInv(ticked)
  BY <1>1, <1>3, TickKeeps DEF GripInv
<1>6. Records(next) /\ wire' = IF evidence' THEN request(next) ELSE 0
  BY <1>4
<1> HIDE DEF ticked
<1>7. CoreInv(next)
  BY <1>5, StopStays
<1> HIDE DEF next
<1>8. CoreInv(core') /\ evidence' \in BOOLEAN
  BY <1>6, <1>7, RecordsKeeps DEF GripInv
<1>9. wire' \in 0..Stages
  BY <1>6, <1>7, GripAssumption DEF request, CoreInv, CourseInv, Cores
<1>10. speed' = speed /\ fresh' \in BOOLEAN
  BY DEF Tick, GripInv
<1> QED
  BY <1>1, <1>2, <1>8, <1>9, <1>10 DEF GripInv

\* The inductive invariant of the lateral calibration: the types, the course in its
\* order, and every state within its time-out.
THEOREM GripInvariance == Spec => []GripInv
<1>1. GripInv /\ [Next]_vars => GripInv'
  <2> SUFFICES ASSUME GripInv, [Next]_vars PROVE GripInv'
    OBVIOUS
  <2>1. CASE UNCHANGED vars
    BY <2>1 DEF vars, GripInv
  <2>2. CASE Next
    BY <2>2, WheelGrip, OtherGrip, AnswerGrip, EnableGrip, TickGrip DEF Next
  <2> QED
    BY <2>1, <2>2
<1> QED
  BY <1>1, InitGrip, PTL DEF Spec

-----------------------------------------------------------------------------
\* The types of the session's state, and that an unfinished stage is only ever
\* left by an abort.
THEOREM GripTypeCorrect == Spec => []TypeOK
<1>1. GripInv => TypeOK
  <2> SUFFICES ASSUME GripInv PROVE TypeOK
    OBVIOUS
  <2>1. core \in Cores /\ core.since <= StageTimeout + StopTimeout
        /\ (core.incomplete => core.state = "ABORTED") /\ driver \in Drivers
    BY DEF GripInv, CoreInv, CourseInv, Timely
  <2>2. core.since \in 0..StageTimeout + StopTimeout
    BY <2>1, GripAssumption DEF Cores
  <2> QED
    BY <2>1, <2>2 DEF TypeOK, GripInv, Cores, States, Sides, Drivers
<1> QED
  BY <1>1, GripInvariance, PTL

\* Stages complete in the course's order, each once, and a session is COMPLETE
\* only with all of them, however often a speed is lost or a standstill broken.
THEOREM CourseAlwaysInOrder == Spec => []CourseInOrder
<1>1. GripInv => CourseInOrder
  <2> SUFFICES ASSUME GripInv PROVE CourseInOrder
    OBVIOUS
  <2> DEFINE done == core.completed
             n == Len(done)
             Steps == Sides \X (1..Stages)
  <2>1. done \in Seq(Steps) /\ n \in Nat /\ n <= 2 * Stages
        /\ (core.state = "COMPLETE" => n = 2 * Stages)
        /\ \A i \in 1..n : done[i] = Course[i]
    BY LenProperties DEF GripInv, CoreInv, CourseInv, Placed, InCourse, Cores
  <2>2. Course = [i \in 1..2 * Stages |-> Course[i]] /\ DOMAIN Course = 1..2 * Stages
    BY DEF Course
  <2>3. \A i \in 1..n : Course[i] \in Steps
    BY <2>1, ElementOfSeq
  <2>4. /\ SubSeq(Course, 1, n) \in Seq(Steps)
        /\ Len(SubSeq(Course, 1, n)) = n
        /\ \A i \in 1..n : SubSeq(Course, 1, n)[i] = Course[i]
    <3>1. /\ SubSeq(Course, 1, n) \in Seq(Steps)
          /\ Len(SubSeq(Course, 1, n)) = (IF 1 <= n THEN n - 1 + 1 ELSE 0)
          /\ \A i \in 1..(n - 1 + 1) : SubSeq(Course, 1, n)[i] = Course[1 + i - 1]
      BY <2>1, <2>3, SubSeqProperties
    <3> QED
      BY <2>1, <3>1
  <2>5. done = SubSeq(Course, 1, n)
    BY <2>1, <2>4, SeqEqual
  <2>6. core.state = "COMPLETE" => done = Course
    <3> SUFFICES ASSUME n = 2 * Stages PROVE done = Course
      BY <2>1
    <3>1. done = [i \in 1..n |-> done[i]]
      BY <2>1, LenProperties
    <3> QED
      BY <2>1, <2>2, <3>1
  <2> QED
    BY <2>1, <2>5, <2>6 DEF CourseInOrder
<1> QED
  BY <1>1, GripInvariance, PTL

\* The published request is nonzero only out of a tick that found the driver's
\* last answer recent and favourable, the wheel speed fresh, and evidence whole.
THEOREM MotionAlwaysVerified == Spec => MotionVerified
<1>1. GripInv /\ [Next]_vars =>
        [wire' > 0 /\ Tick => driver_ready(driver') /\ wheel' <= Freshness /\ evidence']_vars
  <2> SUFFICES ASSUME GripInv, Tick, wire' > 0
               PROVE  driver_ready(driver') /\ wheel' <= Freshness /\ evidence'
    OBVIOUS
  <2>1. PICK sound \in BOOLEAN :
          LET ticked == tick(Checked(core, Waits(driver)), sound)
              next   == IF evidence THEN ticked ELSE stop(ticked)
          IN  Records(next) /\ wire' = IF evidence' THEN request(next) ELSE 0
    BY DEF Tick
  <2> DEFINE checked == Checked(core, Waits(driver))
             ticked  == tick(checked, sound)
  <2>2. evidence' /\ evidence
    BY <2>1 DEF Records, GripInv
  <2>3. wire' = request(ticked)
    BY <2>1, <2>2
  <2>4. ticked.state = "RUN"
    BY <2>3 DEF request
  <2>5. CoreInv(stop(core)) /\ ~Active(stop(core)) /\ driver \in Drivers
    BY StopStays DEF GripInv
  <2>6. Active(checked) /\ wheel' <= Freshness
    <3>1. wheel' \in 0..Freshness + 1
      BY AgedWheel DEF Tick, GripInv
    <3>2. Active(checked)
      BY <2>4 DEF tick, Active
    <3>3. ~(wheel' > Freshness)
      <4>1. CoreInv(checked)
        BY <2>5 DEF Checked, GripInv
      <4>2. ~Active(stop(checked))
        BY <4>1, StopStays
      <4> QED
        BY <2>4, <3>2, <4>2 DEF tick, Active
    <3> QED
      BY <3>1, <3>2, <3>3, GripAssumption
  <2>7. driver_ready(Waits(driver)) /\ ~Late(Waits(driver))
    BY <2>5, <2>6 DEF Checked
  <2>8. driver_ready(driver')
    BY <2>5, <2>7, PollTypes DEF Tick
  <2> QED
    BY <2>2, <2>6, <2>8
<1> QED
  BY <1>1, GripInvariance, PTL DEF Spec, MotionVerified

-----------------------------------------------------------------------------
(* A session comes to its end.  How often its phases change is bounded by   *)
(* the course, and how long each lasts by its time-out; that every step of  *)
(* the timer uses up some of the one or the other is proved, so that only   *)
(* the induction over what is left of both stays with the model checker.    *)

\* The phases a session has gone through: every completed stage and every run that
\* began after a standstill is one more.
Runs(c)  == IF ~c.finishedLeft THEN 0 ELSE IF c.direction = 1 THEN 1 ELSE 2
Phase(c) == Len(c.completed) + Runs(c)

\* A later phase, or the same one a unit of time later.
GoesOn(d, c) ==
  \/ Phase(c) < Phase(d)
  \/ Phase(d) = Phase(c) /\ d.state = c.state /\ d.since = c.since + 1

\* While a session is active a tick uses up its time, and nothing else touches it
\* unless it ends it.
SessionAdvances ==
  [][Active(core) /\ Active(core') =>
       IF Tick THEN GoesOn(core', core) ELSE core' = core]_vars

\* What there is to use up.
SessionBounded ==
  Active(core) =>
    /\ Phase(core) \in 0..2 * Stages + 2
    /\ core.since < IF core.state = "RUN" THEN StageTimeout ELSE StopTimeout

\* A session is used once: how it ended is how it stays.
Ended == core.state \in {"COMPLETE", "ABORTED"}
EndStands == [][Ended => Ended' /\ core' = core]_vars

\* WF_vars(Tick), with what is known of its ENABLED: an active session's tick does
\* change something.
TimerTicks == []<>(~Active(core)) \/ []<><<Tick>>_vars

\* What the phase is made of has no effect on the rest.
LEMMA SamePhase ==
  ASSUME NEW c, NEW d, d.completed = c.completed, d.finishedLeft = c.finishedLeft,
         d.direction = c.direction
  PROVE  Phase(d) = Phase(c)
  BY DEF Phase, Runs

\* Restarting the timers of a stage is no new phase.
LEMMA RestartPhase ==
  ASSUME NEW c \in Cores
  PROVE  Phase(Restarted(c)) = Phase(c)
<1>1. /\ Restarted(c).completed = c.completed /\ Restarted(c).finishedLeft = c.finishedLeft
      /\ Restarted(c).direction = c.direction
  BY DEF Restarted, Cores
<1> QED
  BY <1>1, SamePhase

\* Phases are counted in natural numbers.
LEMMA PhaseIs == ASSUME NEW c \in Cores PROVE Phase(c) \in Nat
<1>1. Len(c.completed) \in Nat
  BY DEF Cores
<1>2. Runs(c) \in 0..2
  BY DEF Runs
<1> QED
  BY <1>1, <1>2 DEF Phase

\* A completed stage is a phase.
LEMMA CompletionPhase ==
  ASSUME NEW c \in Cores
  PROVE  Phase(Completed(c)) = Phase(c) + 1
<1> DEFINE done  == Append(c.completed, <<c.direction, c.stage>>)
           noted == [c EXCEPT !.completed = done, !.since = 0]
<1>1. c.completed \in Seq(Sides \X (1..Stages)) /\ <<c.direction, c.stage>> \in Sides \X (1..Stages)
  BY DEF Cores
<1>2. done \in Seq(Sides \X (1..Stages)) /\ Len(done) = Len(c.completed) + 1
      /\ Len(c.completed) \in Nat
  BY <1>1
<1> HIDE DEF done
<1>3. /\ noted \in Cores /\ noted.completed = done /\ noted.finishedLeft = c.finishedLeft
      /\ noted.direction = c.direction /\ noted.stage = c.stage
  BY <1>2 DEF Cores
<1> HIDE DEF noted
<1>4. Phase(noted) = Phase(c) + 1
  <2>1. Runs(noted) = Runs(c) /\ Runs(c) \in 0..2
    BY <1>3 DEF Runs
  <2> QED
    BY <1>2, <1>3, <2>1 DEF Phase
<1>5. CASE c.stage < Stages
  <2> DEFINE d == [noted EXCEPT !.stage = @ + 1]
  <2>1. Completed(c) = Restarted(d)
    BY <1>3, <1>5 DEF Completed, noted, done
  <2>2. c.stage \in 1..Stages
    BY DEF Cores
  <2>3. d \in Cores
    <3>1. noted.stage + 1 \in 1..Stages
      BY <1>3, <1>5, <2>2, GripAssumption
    <3> QED
      BY <1>3, <3>1 DEF Cores
  <2>4. /\ d.completed = noted.completed /\ d.finishedLeft = noted.finishedLeft
        /\ d.direction = noted.direction
    BY <1>3 DEF Cores
  <2> HIDE DEF d
  <2> QED
    BY <1>4, <2>1, <2>3, <2>4, SamePhase, RestartPhase
<1>6. CASE ~(c.stage < Stages)
  <2> DEFINE d == [noted EXCEPT !.state = "COAST", !.stopped = -1]
  <2>1. Completed(c) = d
    BY <1>3, <1>6 DEF Completed, noted, done
  <2>2. /\ d.completed = noted.completed /\ d.finishedLeft = noted.finishedLeft
        /\ d.direction = noted.direction
    BY <1>3 DEF Cores
  <2> HIDE DEF d
  <2> QED
    BY <1>4, <2>1, <2>2, SamePhase
<1> QED
  BY <1>5, <1>6

\* A run goes on, completes a stage, or is given up.
LEMMA DrivenGoesOn ==
  ASSUME NEW c, CoreInv(c), c.state = "RUN", fresh \in BOOLEAN, Active(Driven(c))
  PROVE  GoesOn(Driven(c), c)
<1> DEFINE ramped == [c EXCEPT !.request = Lesser(c.stage, @ + 1), !.since = @ + 1]
           held   == Held(ramped)
           next   == IF speed # c.stage \/ ramped.request < c.stage THEN Restarted(ramped)
                     ELSE IF held.hold >= HoldTime /\ held.samples >= MinSamples
                          THEN Completed(held) ELSE held
<1>1. c \in Cores /\ CourseInv(c) /\ Timely(c)
  BY DEF CoreInv, CourseInv
<1>2. /\ ramped \in Cores /\ ramped.since = c.since + 1 /\ ramped.state = "RUN"
      /\ Phase(ramped) = Phase(c)
  <2>1. Lesser(c.stage, c.request + 1) \in 0..Stages /\ c.since + 1 \in Nat
    BY <1>1, GripAssumption DEF Lesser, Cores
  <2>2. ramped \in Cores
    BY <1>1, <2>1 DEF Cores
  <2>3. /\ ramped.state = c.state /\ ramped.finishedLeft = c.finishedLeft
        /\ ramped.direction = c.direction
        /\ ramped.completed = c.completed /\ ramped.since = c.since + 1
    BY <1>1 DEF Cores
  <2> HIDE DEF ramped
  <2> QED
    BY <2>2, <2>3, SamePhase
<1> HIDE DEF ramped
<1>3. /\ held \in Cores /\ held.since = ramped.since /\ held.state = "RUN"
      /\ Phase(held) = Phase(ramped)
  <2> DEFINE settle == ramped.settle + 1
             hold   == IF settle >= SettleTime THEN ramped.hold + 1 ELSE ramped.hold
             new    == IF fresh /\ hold >= 0 THEN 1 ELSE 0
             samples == IF hold <= 0 THEN new ELSE ramped.samples + new
             d == [ramped EXCEPT !.settle = settle, !.hold = hold, !.samples = samples]
  <2>1. settle \in Int /\ hold \in Int /\ samples \in Int
    BY <1>2 DEF Cores
  <2>2. held = d
    BY <1>2 DEF Held, Cores
  <2> HIDE DEF settle, hold, samples
  <2>3. d \in Cores
    BY <1>2, <2>1 DEF Cores
  <2>4. /\ d.state = ramped.state /\ d.finishedLeft = ramped.finishedLeft
        /\ d.direction = ramped.direction /\ d.completed = ramped.completed
        /\ d.since = ramped.since
    BY <1>2 DEF Cores
  <2> HIDE DEF d
  <2> QED
    BY <1>2, <2>2, <2>3, <2>4, SamePhase
<1> HIDE DEF held
<1>4. /\ Restarted(ramped).state = "RUN" /\ Restarted(ramped).since = c.since + 1
      /\ Phase(Restarted(ramped)) = Phase(c)
  <2>1. Restarted(ramped).state = ramped.state /\ Restarted(ramped).since = ramped.since
    BY <1>2 DEF Restarted, Cores
  <2> QED
    BY <1>2, <2>1, RestartPhase
<1>5. Phase(c) < Phase(Completed(held))
  BY <1>1, <1>2, <1>3, CompletionPhase, PhaseIs
<1>6. GoesOn(next, c)
  BY <1>1, <1>2, <1>3, <1>4, <1>5 DEF GoesOn
<1>7. /\ CourseInv(next) /\ next.state \in {"RUN", "COAST"}
      /\ (next.since = 0 \/ (next.state = "RUN" /\ next.since = c.since + 1))
  <2>1. CourseInv(ramped) /\ CourseInv(held)
    <3>1. ramped.stage = c.stage /\ held.stage = c.stage
          /\ ramped.incomplete = c.incomplete /\ held.incomplete = c.incomplete
          /\ ramped.completed = c.completed /\ held.completed = c.completed
          /\ ramped.finishedLeft = c.finishedLeft /\ held.finishedLeft = c.finishedLeft
          /\ ramped.direction = c.direction /\ held.direction = c.direction
      BY <1>1 DEF ramped, held, Held, Cores
    <3> QED
      BY <1>1, <1>2, <1>3, <3>1, SameCourse
  <2> QED
    BY <1>2, <1>3, <2>1, CompletionKeeps, RestartKeeps
<1>8. Driven(c) = IF next.state = "RUN" /\ next.since >= StageTimeout THEN stop(next) ELSE next
  BY DEF Driven, ramped, held
<1> HIDE DEF next
<1>9. CASE next.state = "RUN" /\ next.since >= StageTimeout
  <2>1. next.since <= StageTimeout + StopTimeout /\ Active(next)
    BY <1>1, <1>7, <1>9, GripAssumption DEF Active, Timely, Cores
  <2> QED
    BY <1>7, <1>8, <1>9, <2>1, StopKeeps
<1> QED
  BY <1>6, <1>8, <1>9

\* A standstill goes on, or a run begins, or the session is complete or given up.
LEMMA CoastedGoesOn ==
  ASSUME NEW c, CoreInv(c), c.state = "COAST", wheel' \in Nat, Active(Coasted(c))
  PROVE  GoesOn(Coasted(c), c)
<1> DEFINE stopped == IF speed # 0 THEN -1 ELSE c.stopped + 1
           source  == IF stopped <= 0 THEN wheel' ELSE c.source + 1
           since   == c.since + 1
           next    == [c EXCEPT !.stopped = stopped, !.source = source, !.since = since]
<1>1. c \in Cores /\ CourseInv(c) /\ c.since \in Nat /\ c.since < StopTimeout
  BY DEF CoreInv, CourseInv, Timely, Cores
<1>2. stopped \in Int /\ source \in Int /\ since \in Nat
  <2>1. -1 \in Int /\ c.stopped + 1 \in Int /\ c.source + 1 \in Int /\ wheel' \in Int
    BY <1>1 DEF Cores
  <2> QED
    BY <1>1, <2>1
<1>3. Coasted(c) = IF stopped >= StopTime /\ source - wheel' >= StopTime THEN Stood(next)
                   ELSE IF next.since >= StopTimeout THEN stop(next) ELSE next
  BY DEF Coasted
<1> HIDE DEF stopped, source
<1>4. /\ next \in Cores /\ next.state = "COAST" /\ next.finishedLeft = c.finishedLeft
      /\ next.direction = c.direction /\ next.stage = c.stage /\ next.since = c.since + 1
      /\ next.completed = c.completed /\ next.incomplete = c.incomplete
  BY <1>1, <1>2 DEF Cores
<1> HIDE DEF next
<1>5. CourseInv(next) /\ Phase(next) = Phase(c)
  BY <1>1, <1>4, SameCourse, SamePhase
<1>6. next.since <= StageTimeout + StopTimeout /\ Active(next)
  BY <1>1, <1>4, GripAssumption DEF Active
<1>7. ~Active(stop(next))
  BY <1>5, <1>6, StopKeeps
<1>8. GoesOn(next, c)
  BY <1>4, <1>5 DEF GoesOn
<1>9. Active(Stood(next)) => Phase(next) < Phase(Stood(next))
  <2>1. CASE next.finishedLeft /\ next.direction < 0
    <3>1. Stood(next).state = "COMPLETE"
      BY <1>4, <2>1 DEF Stood, Cores
    <3> QED
      BY <3>1 DEF Active
  <2>2. CASE ~(next.finishedLeft /\ next.direction < 0)
    <3> DEFINE turned == Turns(next)
               d == [turned EXCEPT !.state = "RUN", !.since = 0, !.request = 0]
    <3>1. /\ next.direction \in {-1, 1} /\ Len(next.completed) \in Nat
          /\ next.finishedLeft \in BOOLEAN
          /\ (~next.finishedLeft => next.direction = 1)
      BY <1>4, <1>5 DEF Cores, Sides, CourseInv, Placed
    <3>2. /\ turned \in Cores /\ turned.completed = next.completed /\ turned.finishedLeft = TRUE
          /\ turned.direction = IF next.finishedLeft THEN -1 ELSE next.direction
      <4>1. CASE next.finishedLeft
        <5> DEFINE e == [next EXCEPT !.direction = -1, !.stage = 1]
        <5>1. turned = e
          BY <4>1 DEF Turns
        <5>2. -1 \in Sides /\ 1 \in 1..Stages
          BY GripAssumption DEF Sides
        <5>3. /\ e \in Cores /\ e.completed = next.completed
              /\ e.finishedLeft = next.finishedLeft /\ e.direction = -1
          BY <1>4, <5>2 DEF Cores
        <5> HIDE DEF e, turned
        <5> QED
          BY <3>1, <4>1, <5>1, <5>3
      <4>2. CASE ~next.finishedLeft
        <5> DEFINE e == [next EXCEPT !.finishedLeft = TRUE]
        <5>1. turned = e
          BY <4>2 DEF Turns
        <5>2. /\ e \in Cores /\ e.completed = next.completed
              /\ e.finishedLeft = TRUE /\ e.direction = next.direction
          BY <1>4 DEF Cores
        <5> HIDE DEF e, turned
        <5> QED
          BY <4>2, <5>1, <5>2
      <4> QED
        BY <4>1, <4>2
    <3>3. Stood(next) = Restarted(d)
      BY <2>2, Zenon DEF Stood
    <3> HIDE DEF turned
    <3>4. /\ d \in Cores /\ d.completed = turned.completed
          /\ d.finishedLeft = turned.finishedLeft /\ d.direction = turned.direction
      <4>1. 0 \in 0..Stages /\ "RUN" \in States
        BY GripAssumption DEF States
      <4> QED
        BY <3>2, <4>1 DEF Cores
    <3> HIDE DEF d
    <3>5. Phase(d) = Phase(next) + 1
      <4>1. Runs(d) = Runs(next) + 1
        <5>1. next.finishedLeft => next.direction = 1
          BY <2>2, <3>1
        <5>2. next.finishedLeft => Runs(next) = 1 /\ Runs(d) = 2
          BY <3>2, <3>4, <5>1 DEF Runs
        <5>3. ~next.finishedLeft => Runs(next) = 0 /\ Runs(d) = 1
          BY <3>1, <3>2, <3>4 DEF Runs
        <5> QED
          BY <3>1, <5>2, <5>3
      <4>2. Runs(next) \in 0..2
        BY DEF Runs
      <4> QED
        BY <3>1, <3>2, <3>4, <4>1, <4>2 DEF Phase
    <3>6. Phase(Stood(next)) = Phase(next) + 1 /\ Phase(next) \in Nat
      BY <1>4, <3>3, <3>4, <3>5, RestartPhase, PhaseIs
    <3> QED
      BY <3>6
  <2> QED
    BY <2>1, <2>2
<1> QED
  BY <1>3, <1>5, <1>7, <1>8, <1>9 DEF GoesOn

\* A tick, whatever it finds wrong and whatever cannot be recorded.
LEMMA TickGoesOn ==
  ASSUME GripInv, Tick, Active(core), Active(core')
  PROVE  GoesOn(core', core)
<1>1. PICK sound \in BOOLEAN :
        LET ticked == tick(Checked(core, Waits(driver)), sound)
            next   == IF evidence THEN ticked ELSE stop(ticked)
        IN  Records(next)
  BY DEF Tick
<1> DEFINE checked == Checked(core, Waits(driver))
           ticked  == tick(checked, sound)
<1>2. wheel' \in 0..Freshness + 1
  BY AgedWheel DEF Tick, GripInv
<1>3. CoreInv(core) /\ CoreInv(checked) /\ ~Active(stop(core)) /\ wheel' \in Nat
      /\ fresh \in BOOLEAN
  BY <1>2, StopStays, GripAssumption DEF Checked, GripInv
<1>4. CoreInv(ticked)
  BY <1>3, TickKeeps
<1>5. \A c : CoreInv(c) => CoreInv(stop(c)) /\ ~Active(stop(c))
  BY StopStays
<1>6. core' = ticked
  <2> HIDE DEF ticked
  <2>1. core' \in {ticked, stop(ticked), stop(stop(ticked))}
    BY <1>1 DEF Records, ticked
  <2> QED
    BY <1>4, <1>5, <2>1
<1>7. Active(checked)
  BY <1>6 DEF tick
<1>8. checked = core
  BY <1>3, <1>7 DEF Checked
<1>9. \/ ticked = Driven(core) /\ core.state = "RUN"
      \/ ticked = Coasted(core) /\ core.state = "COAST"
  BY <1>3, <1>6, <1>8 DEF tick, Active
<1> QED
  BY <1>3, <1>6, <1>9, DrivenGoesOn, CoastedGoesOn

\* No other callback does more to an active session than end it, and none revives
\* one that has ended.
LEMMA OthersEnd ==
  ASSUME GripInv, [Next]_vars
  PROVE  /\ Active(core) /\ Active(core') /\ ~Tick => core' = core
         /\ Ended => core' = core
<1>1. \A c : CoreInv(c) => ~Active(stop(c))
  BY StopStays
<1>2. CoreInv(core) /\ CoreInv(stop(core))
  BY StopStays DEF GripInv
<1>3. \A c : Records(c) => core' \in {c, stop(c)}
  BY DEF Records
<1>4. Wheel \/ Other \/ Answer \/ Disable =>
        core' \in {core, stop(core), stop(stop(core))}
  BY <1>3 DEF Wheel, Other, Answer, Disable
<1>5. Enable => core.state = "IDLE"
  BY DEF Enable
<1>6. Ended => ~Active(core) /\ stop(core) = core /\ core.state # "IDLE"
  BY DEF Ended, Active, stop
<1>7. Tick /\ ~Active(core) => core' \in {core, stop(core), stop(stop(core))}
  <2> SUFFICES ASSUME Tick, ~Active(core)
               PROVE  core' \in {core, stop(core), stop(stop(core))}
    OBVIOUS
  <2>1. stop(core) = core
    BY DEF stop
  <2>2. Checked(core, Waits(driver)) = core
    BY <2>1 DEF Checked
  <2>3. \A sound : tick(core, sound) = core
    BY DEF tick
  <2>4. Records(core)
    BY <2>1, <2>2, <2>3 DEF Tick
  <2> QED
    BY <1>3, <2>4
<1>8. UNCHANGED vars => core' = core
  BY DEF vars
<1>9. Active(core) => core.state # "IDLE"
  BY DEF Active
<1> QED
  BY <1>1, <1>2, <1>4, <1>5, <1>6, <1>7, <1>8, <1>9 DEF Next

\* An active session's every tick uses up what is left of it: its phases, or the time
\* of the present one.
THEOREM SessionAlwaysAdvances == Spec => SessionAdvances
<1>1. GripInv /\ [Next]_vars =>
        [Active(core) /\ Active(core') =>
           IF Tick THEN GoesOn(core', core) ELSE core' = core]_vars
  BY TickGoesOn, OthersEnd
<1> QED
  BY <1>1, GripInvariance, PTL DEF Spec, SessionAdvances

\* And what is left of it is bounded by the course and by the time-outs.
THEOREM SessionAlwaysBounded == Spec => []SessionBounded
<1>1. GripInv => SessionBounded
  <2> SUFFICES ASSUME GripInv, Active(core) PROVE SessionBounded
    BY DEF SessionBounded
  <2>1. core \in Cores /\ Len(core.completed) <= 2 * Stages
    BY DEF GripInv, CoreInv, CourseInv, InCourse
  <2>2. Len(core.completed) \in Nat /\ Stages \in Nat
    BY <2>1, GripAssumption DEF Cores
  <2>3. Phase(core) \in 0..2 * Stages + 2
    <3>1. Runs(core) \in 0..2
      BY DEF Runs
    <3> QED
      BY <2>1, <2>2, <3>1 DEF Phase
  <2>4. core.since < IF core.state = "RUN" THEN StageTimeout ELSE StopTimeout
    BY DEF GripInv, CoreInv, Timely, Active
  <2> QED
    BY <2>3, <2>4 DEF SessionBounded
<1> QED
  BY <1>1, GripInvariance, PTL

\* The step of the induction behind SessionEnds, for every phase and time: while the
\* timer fires, a session is over, in a later phase, or a unit of time on.
THEOREM SessionGoesOn ==
  ASSUME NEW p \in Nat, NEW n \in Nat
  PROVE  Spec /\ TimerTicks =>
           ((Active(core) /\ Phase(core) = p /\ core.since = n)
              ~> (\/ ~Active(core)
                  \/ p < Phase(core)
                  \/ Phase(core) = p /\ core.since = n + 1))
<1> DEFINE Here  == Active(core) /\ Phase(core) = p /\ core.since = n
           There == ~Active(core) \/ p < Phase(core) \/ (Phase(core) = p /\ core.since = n + 1)
<1>1. GripInv /\ [Next]_vars => (Here => Here' \/ There')
  BY TickGoesOn, OthersEnd DEF GoesOn
<1>2. GripInv /\ <<Next /\ Tick>>_vars => (Here => There')
  BY TickGoesOn DEF GoesOn
<1>3. Here => Active(core)
  OBVIOUS
<1>4. Here <=> Active(core) /\ Phase(core) = p /\ core.since = n
  OBVIOUS
<1>5. There <=> (~Active(core) \/ p < Phase(core) \/ (Phase(core) = p /\ core.since = n + 1))
  OBVIOUS
<1> HIDE DEF Here, There
<1>6. Spec /\ TimerTicks => (Here ~> There)
  BY <1>1, <1>2, <1>3, GripInvariance, PTL DEF Spec, TimerTicks
<1> QED
  BY <1>4, <1>5, <1>6, PTL

\* How a session ended is how it stays: an ended core is never enabled again.
THEOREM EndAlwaysStands == Spec => EndStands
<1>1. GripInv /\ [Next]_vars => [Ended => Ended' /\ core' = core]_vars
  BY OthersEnd DEF Ended
<1> QED
  BY <1>1, GripInvariance, PTL DEF Spec, EndStands

=============================================================================
