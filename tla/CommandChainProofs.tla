--------------------------- MODULE CommandChainProofs ---------------------------
(***************************************************************************)
(* Theorems about the command loop, for every timeout of the selector,     *)
(* every delay of the report and any number of runs.                       *)
(*                                                                         *)
(* Neither property is inductive: both bound a time by what is still on    *)
(* its way.  The invariant follows the report that decides.  As long as    *)
(* the controller may still act on an old grant, the first withdrawal is   *)
(* in the topic, and its age there is the time being bounded; it is heard  *)
(* before it is older than MaxDelay, and nothing it was heard before can   *)
(* begin a run, because the topic keeps its order.                         *)
(***************************************************************************)
EXTENDS CommandChain, SelectorProofs

-----------------------------------------------------------------------------
(* The inductive invariant.                                                *)

Report == [data : BOOLEAN, age : 0..MaxDelay]

\* One report a period, and none is lost: the i-th last is at least i periods old.
InOrder(topic, fresh) ==
  /\ \A i, j \in 1..Len(topic) : i < j => topic[i].age > topic[j].age
  /\ \A i \in 1..Len(topic) : topic[i].age >= (Len(topic) - i) + fresh
Periodic == InOrder(reports, IF due THEN 1 ELSE 0)

\* A withdrawal of this age is on its way.
Withdrawal(topic, age) ==
  \E i \in 1..Len(topic) : topic[i].age = age /\ ~topic[i].data

\* A run is under the grant that was heard last.
RunGranted == enabled => granted /\ run \in Runs

\* What was reported since the operator withheld autonomy was a withdrawal.
WithheldReported ==
  /\ withheld > 0 => ~Grants
  /\ \A i \in 1..Len(reports) : reports[i].age < withheld => ~reports[i].data

\* The first of those reports is on its way while a grant counts or may come.
GrantMayStand == granted \/ \E i \in 1..Len(reports) : reports[i].data
WithdrawalComes ==
  withheld > 0 /\ ~(withheld = 1 /\ due) /\ GrantMayStand
    => Withdrawal(reports, withheld - 1)

\* The first withdrawal of a run is on its way as long as the run goes on.
RunWithdrawalComes ==
  /\ \A r \in Runs : r > run => since[r] = Unreported
  /\ enabled /\ since[run] > 0 => Withdrawal(reports, since[run] - 1)

\* Motion that is still fresh was generated before the withdrawal was heard.
Young(r, age) == r > 0 /\ age <= NavTimeout => since[r] <= MaxDelay + 1 + age
MotionIsYoung ==
  /\ drive.present => Young(drive.run, drive.age)
  /\ navigation.present => Young(cachedRun, navigation.age)

LoopInv ==
  /\ ChainTypeOK /\ Periodic /\ RunGranted /\ WithheldReported
  /\ WithdrawalComes /\ RunWithdrawalComes /\ MotionIsYoung

-----------------------------------------------------------------------------
(* The report's topic.                                                     *)

\* The bounds as numbers.
LEMMA Bounds ==
  /\ Depth \in Nat /\ MaxDelay \in Nat /\ MaxRuns \in Nat /\ MaxDelay < Depth
  /\ Cap \in Nat /\ NavTimeout \in Nat /\ NavTimeout < Cap /\ RcTimeout \in Nat
  /\ Reaction = MaxDelay + NavTimeout /\ Unreported = 0
  BY ChainAssumption, TimeoutsAssumption DEF Reaction, Unreported

\* What a topic holds.
LEMMA ReportIs ==
  ASSUME NEW topic \in Seq(Report)
  PROVE  /\ Len(topic) \in Nat
         /\ \A i \in 1..Len(topic) :
              /\ topic[i] \in Report /\ topic[i].data \in BOOLEAN
              /\ topic[i].age \in Nat /\ topic[i].age <= MaxDelay
<1>1. Len(topic) \in Nat /\ \A i \in 1..Len(topic) : topic[i] \in Report
  OBVIOUS
<1>2. \A r \in Report : r.data \in BOOLEAN /\ r.age \in Nat /\ r.age <= MaxDelay
  BY Bounds DEF Report
<1> QED
  BY <1>1, <1>2

\* A report that joins an ordered topic is not dropped and leaves it ordered.
LEMMA ReportJoins ==
  ASSUME NEW topic \in Seq(Report), InOrder(topic, 1), NEW data \in BOOLEAN
  PROVE  LET r == [data |-> data, age |-> 0]
             new == Kept(Append(topic, r)) IN
         /\ new \in Seq(Report) /\ Len(new) <= Depth /\ InOrder(new, 0)
         /\ Len(new) = Len(topic) + 1 /\ new[Len(new)] = r
         /\ \A i \in 1..Len(topic) : new[i] = topic[i]
<1> DEFINE r == [data |-> data, age |-> 0]
           new == Append(topic, r)
<1>1. r \in Report /\ r.age = 0
  BY Bounds DEF Report
<1> HIDE DEF r
<1>2. /\ new \in Seq(Report) /\ Len(new) = Len(topic) + 1 /\ new[Len(topic) + 1] = r
      /\ \A i \in 1..Len(topic) : new[i] = topic[i]
  BY <1>1
<1>3. Len(topic) \in Nat
      /\ \A i \in 1..Len(topic) : topic[i].age \in Nat /\ topic[i].age <= MaxDelay
  BY ReportIs
<1>4. Len(topic) <= MaxDelay
  <2>1. CASE Len(topic) = 0
    BY <2>1, Bounds
  <2>2. CASE Len(topic) # 0
    <3>1. 1 \in 1..Len(topic)
      BY <1>3, <2>2
    <3>2. topic[1].age >= (Len(topic) - 1) + 1 /\ topic[1].age \in Nat
          /\ topic[1].age <= MaxDelay
      BY <1>3, <3>1 DEF InOrder
    <3> QED
      BY <1>3, <3>2, Bounds
  <2> QED
    BY <2>1, <2>2
<1> HIDE DEF new
<1>5. Kept(new) = new /\ Len(new) <= Depth
  BY <1>2, <1>3, <1>4, Bounds DEF Kept
<1>6. \A i \in 1..Len(new) : i \in 1..Len(topic) \/ i = Len(topic) + 1
  BY <1>2, <1>3
<1>7. \A i \in 1..Len(topic) : topic[i].age >= (Len(topic) - i) + 1
  BY DEF InOrder
<1>8. \A i \in 1..Len(new) : new[i].age >= Len(new) - i
  <2> TAKE i \in 1..Len(new)
  <2>1. CASE i \in 1..Len(topic)
    BY <1>2, <1>3, <1>7, <2>1
  <2>2. CASE i = Len(topic) + 1
    BY <1>1, <1>2, <1>3, <2>2
  <2> QED
    BY <1>6, <2>1, <2>2
<1>9. \A i, j \in 1..Len(new) : i < j => new[i].age > new[j].age
  <2> SUFFICES ASSUME NEW i \in 1..Len(new), NEW j \in 1..Len(new), i < j
               PROVE  new[i].age > new[j].age
    OBVIOUS
  <2>1. i \in 1..Len(topic)
    BY <1>2, <1>3
  <2>2. CASE j \in 1..Len(topic)
    BY <1>2, <2>1, <2>2 DEF InOrder
  <2>3. CASE j = Len(topic) + 1
    <3>1. topic[i].age >= (Len(topic) - i) + 1 /\ topic[i].age \in Nat
      BY <1>3, <1>7, <2>1
    <3>2. topic[i].age > 0
      BY <1>3, <2>1, <3>1
    <3> QED
      BY <1>1, <1>2, <2>1, <2>3, <3>2
  <2> QED
    BY <1>6, <2>2, <2>3
<1>10. InOrder(new, 0)
  <2>1. \A i \in 1..Len(new) : new[i].age >= (Len(new) - i) + 0
    BY <1>2, <1>3, <1>8
  <2> QED
    BY <1>9, <2>1 DEF InOrder
<1> QED
  BY <1>2, <1>5, <1>10 DEF r, new

\* Hearing one leaves the topic ordered.
LEMMA ReportLeaves ==
  ASSUME NEW topic \in Seq(Report), topic # <<>>, NEW fresh \in {0, 1},
         InOrder(topic, fresh)
  PROVE  /\ Tail(topic) \in Seq(Report) /\ Len(Tail(topic)) = Len(topic) - 1
         /\ InOrder(Tail(topic), fresh)
         /\ Len(topic) >= 1 /\ Head(topic) = topic[1] /\ Head(topic) \in Report
         /\ \A i \in 1..Len(Tail(topic)) : /\ i + 1 \in 1..Len(topic)
                                           /\ Tail(topic)[i] = topic[i + 1]
<1> DEFINE t == Tail(topic)
<1>1. /\ t \in Seq(Report) /\ Len(t) = Len(topic) - 1 /\ Len(topic) \in Nat
      /\ Len(topic) >= 1 /\ Head(topic) = topic[1] /\ Head(topic) \in Report
      /\ \A i \in 1..Len(t) : i + 1 \in 1..Len(topic) /\ t[i] = topic[i + 1]
  OBVIOUS
<1>2. \A i \in 1..Len(topic) : topic[i].age \in Nat
  BY ReportIs
<1> HIDE DEF t
<1>3. \A i \in 1..Len(t) : t[i].age >= (Len(t) - i) + fresh
  <2> TAKE i \in 1..Len(t)
  <2>1. topic[i + 1].age >= (Len(topic) - (i + 1)) + fresh
    BY <1>1 DEF InOrder
  <2>2. t[i].age = topic[i + 1].age /\ t[i].age \in Nat
    BY <1>1, <1>2
  <2> QED
    BY <1>1, <2>1, <2>2
<1>4. \A i, j \in 1..Len(t) : i < j => t[i].age > t[j].age
  <2> SUFFICES ASSUME NEW i \in 1..Len(t), NEW j \in 1..Len(t), i < j
               PROVE  t[i].age > t[j].age
    OBVIOUS
  <2>1. i + 1 < j + 1
    BY <1>1
  <2> QED
    BY <1>1, <2>1 DEF InOrder
<1> QED
  BY <1>1, <1>3, <1>4 DEF InOrder, t

\* A period makes every report older, and the topic's order stays.
Aged(topic) == [i \in 1..Len(topic) |-> [topic[i] EXCEPT !.age = @ + 1]]
\* A period makes every report one older and keeps the order.
LEMMA ReportsAge ==
  ASSUME NEW topic \in Seq(Report), InOrder(topic, 0),
         \A i \in 1..Len(topic) : topic[i].age < MaxDelay
  PROVE  LET new == Aged(topic) IN
         /\ new \in Seq(Report) /\ Len(new) = Len(topic) /\ InOrder(new, 1)
         /\ \A i \in 1..Len(topic) : /\ new[i].age = topic[i].age + 1
                                     /\ new[i].data = topic[i].data
<1> DEFINE new == Aged(topic)
<1>1. \A i \in 1..Len(topic) : /\ topic[i].age \in Nat /\ topic[i].age + 1 \in 0..MaxDelay
                               /\ topic[i].data \in BOOLEAN /\ topic[i] \in Report
  BY ReportIs, Bounds
<1>2. \A i \in 1..Len(topic) : /\ new[i] \in Report /\ new[i].age = topic[i].age + 1
                               /\ new[i].data = topic[i].data
  BY <1>1 DEF Aged, Report
<1>3. new \in Seq(Report) /\ Len(new) = Len(topic)
  <2>1. Len(topic) \in Nat
    OBVIOUS
  <2>2. new \in [1..Len(topic) -> Report]
    BY <1>2 DEF Aged
  <2> QED
    BY <2>1, <2>2
<1> HIDE DEF new
<1>4. \A i \in 1..Len(new) : new[i].age >= (Len(new) - i) + 1
  <2> TAKE i \in 1..Len(new)
  <2>1. topic[i].age >= (Len(topic) - i) + 0 /\ Len(topic) \in Nat
    BY <1>3 DEF InOrder
  <2> QED
    BY <1>1, <1>2, <1>3, <2>1
<1>5. \A i, j \in 1..Len(new) : i < j => new[i].age > new[j].age
  <2> SUFFICES ASSUME NEW i \in 1..Len(new), NEW j \in 1..Len(new), i < j
               PROVE  new[i].age > new[j].age
    OBVIOUS
  <2>1. topic[i].age > topic[j].age
    BY <1>3 DEF InOrder
  <2>2. /\ topic[i].age \in Nat /\ topic[j].age \in Nat
        /\ new[i].age = topic[i].age + 1 /\ new[j].age = topic[j].age + 1
    BY <1>1, <1>2, <1>3
  <2> QED
    BY <2>1, <2>2
<1> QED
  BY <1>2, <1>3, <1>4, <1>5 DEF InOrder, new

-----------------------------------------------------------------------------
(* The steps.                                                              *)

\* The controller's and the operator's steps leave the operator's grant alone
\* unless they bring a frame.
LEMMA GrantsKept == ASSUME UNCHANGED <<rc, rcAge>> PROVE Grants' = Grants
  BY DEF Grants, Permitted, Autonomy

\* The loop begins with nothing on its way.
LEMMA LoopStarts == ChainInit => LoopInv
<1> SUFFICES ASSUME ChainInit PROVE LoopInv
  OBVIOUS
<1>1. ~Grants
  BY DEF ChainInit, Init, NoFrame, Grants, Permitted
<1>2. /\ reports = <<>> /\ Len(reports) = 0 /\ run = 0 /\ withheld = MaxDelay + 2
      /\ since = [r \in Runs |-> Unreported] /\ due = TRUE
      /\ drive = [present |-> FALSE, run |-> 0, age |-> 0] /\ cachedRun = 0
      /\ granted = FALSE /\ enabled = FALSE /\ motion = FALSE
  BY DEF ChainInit, NoDrive, Controller!Idle
<1>3. ChainTypeOK
  <2>1. reports \in Seq([data : BOOLEAN, age : 0..MaxDelay]) /\ Len(reports) <= Depth
    BY <1>2, Bounds
  <2>2. 0 \in 0..MaxRuns /\ 0 \in 0..Cap /\ 0 \in 0..(Reaction + 2)
        /\ MaxDelay + 2 \in 0..(MaxDelay + 2)
    BY Bounds
  <2>3. since \in [Runs -> 0..(Reaction + 2)]
    BY <1>2, <2>2, Bounds
  <2>4. drive \in [present : BOOLEAN, run : 0..MaxRuns, age : 0..Cap]
    BY <1>2, <2>2
  <2>5. TypeOK
    BY SelectorStarts DEF ChainInit
  <2> QED
    BY <1>2, <2>1, <2>2, <2>3, <2>4, <2>5 DEF ChainTypeOK
<1>4. Periodic /\ RunGranted /\ WithheldReported
  BY <1>1, <1>2 DEF Periodic, InOrder, RunGranted, WithheldReported
<1>5. WithdrawalComes
  BY <1>2 DEF WithdrawalComes, GrantMayStand
<1>6. RunWithdrawalComes
  BY <1>2 DEF RunWithdrawalComes
<1>7. MotionIsYoung
  BY <1>2, Bounds DEF MotionIsYoung, Young
<1> QED
  BY <1>3, <1>4, <1>5, <1>6, <1>7 DEF LoopInv

\* The operator: a frame changes only whether autonomy is withheld now.
LEMMA OperatorActsKeeps ==
  ASSUME LoopInv, NEW frame \in OperatorFrames, OperatorActs(frame)
  PROVE  LoopInv'
<1>1. /\ UNCHANGED <<control, topics, due, cachedRun, since>>
      /\ withheld' = IF Grants' THEN 0 ELSE withheld
      /\ UNCHANGED navigation
  BY DEF OperatorActs, Withholds, ReceiveRc
<1>2. /\ UNCHANGED <<granted, enabled, motion, run, reports, drive>>
  BY <1>1 DEF control, topics
<1>3. TypeOK'
  <2>1. Next
    BY DEF OperatorActs, OperatorFrames, Next
  <2> QED
    BY <2>1, SelectorSteps DEF LoopInv, ChainTypeOK
<1>4. withheld \in 0..(MaxDelay + 2) /\ withheld' \in 0..(MaxDelay + 2)
  BY <1>1, Bounds DEF LoopInv, ChainTypeOK
<1>5. ChainTypeOK'
  BY <1>1, <1>2, <1>3, <1>4 DEF LoopInv, ChainTypeOK
<1>6. Periodic' /\ RunGranted'
  BY <1>1, <1>2 DEF LoopInv, Periodic, RunGranted
<1>7. WithheldReported'
  <2>1. \A i \in 1..Len(reports) : reports[i].age \in Nat
    BY ReportIs DEF LoopInv, ChainTypeOK, Report
  <2> QED
    BY <1>1, <1>2, <1>4, <2>1 DEF LoopInv, WithheldReported
<1>8. WithdrawalComes'
  BY <1>1, <1>2 DEF LoopInv, WithdrawalComes, GrantMayStand
<1>9. RunWithdrawalComes' /\ MotionIsYoung'
  BY <1>1, <1>2 DEF LoopInv, RunWithdrawalComes, MotionIsYoung, Young
<1> QED
  BY <1>5, <1>6, <1>7, <1>8, <1>9 DEF LoopInv

\* The selector takes the waiting command with the age it has.
LEMMA TakesDriveKeeps ==
  ASSUME LoopInv, TakesDrive
  PROVE  LoopInv'
<1>1. /\ drive.present /\ drive' = NoDrive /\ cachedRun' = drive.run
      /\ navigation' = [present |-> TRUE, valid |-> TRUE, mode |-> "speed", age |-> drive.age]
      /\ UNCHANGED <<rc, rcAge, granted, enabled, motion, run, reports, due, since, withheld>>
  BY DEF TakesDrive, ReceiveNavigation, control
<1>2. TypeOK'
  <2>1. drive.age \in 0..Cap
    BY DEF LoopInv, ChainTypeOK
  <2>2. Next
    BY <2>1 DEF TakesDrive, Next
  <2> QED
    BY <2>2, SelectorSteps DEF LoopInv, ChainTypeOK
<1>3. ChainTypeOK'
  <2>1. drive' \in [present : BOOLEAN, run : 0..MaxRuns, age : 0..Cap]
    BY <1>1, Bounds DEF NoDrive
  <2>2. cachedRun' \in 0..MaxRuns
    BY <1>1 DEF LoopInv, ChainTypeOK
  <2> QED
    BY <1>1, <1>2, <2>1, <2>2 DEF LoopInv, ChainTypeOK
<1>4. Grants' = Grants
  BY <1>1, GrantsKept
<1>5. Periodic' /\ RunGranted' /\ WithheldReported'
  BY <1>1, <1>4 DEF LoopInv, Periodic, RunGranted, WithheldReported
<1>6. WithdrawalComes' /\ RunWithdrawalComes'
  BY <1>1 DEF LoopInv, WithdrawalComes, GrantMayStand, RunWithdrawalComes
<1>7. MotionIsYoung'
  <2>1. Young(drive.run, drive.age)
    BY <1>1 DEF LoopInv, MotionIsYoung
  <2>2. drive'.present = FALSE /\ navigation'.age = drive.age
    BY <1>1 DEF NoDrive
  <2> QED
    BY <1>1, <2>1, <2>2 DEF MotionIsYoung, Young
<1> QED
  BY <1>3, <1>5, <1>6, <1>7 DEF LoopInv

\* The controller's own steps: a start only under a grant, a stop, an amnesia.
LEMMA StartsKeeps ==
  ASSUME LoopInv, Starts
  PROVE  LoopInv'
<1>1. /\ granted /\ ~enabled /\ enabled' = TRUE /\ run < MaxRuns /\ run' = run + 1
      /\ UNCHANGED <<selector, granted, motion, reports, drive, due, cachedRun, since,
                     withheld>>
  BY DEF Starts, Controller!Start, topics, records
<1>2. UNCHANGED <<rc, rcAge, armedAge, navigation, calibration, wire>>
  BY <1>1 DEF selector
<1>3. run \in 0..MaxRuns /\ run' \in Runs /\ run' \in 0..MaxRuns /\ run' > run
  BY <1>1, Bounds DEF LoopInv, ChainTypeOK, Runs
<1>4. TypeOK'
  BY <1>2 DEF LoopInv, ChainTypeOK, TypeOK
<1>5. ChainTypeOK'
  BY <1>1, <1>3, <1>4 DEF LoopInv, ChainTypeOK
<1>6. Grants' = Grants
  BY <1>2, GrantsKept
<1>7. Periodic' /\ RunGranted' /\ WithheldReported'
  BY <1>1, <1>3, <1>6 DEF LoopInv, Periodic, RunGranted, WithheldReported
<1>8. WithdrawalComes'
  BY <1>1 DEF LoopInv, WithdrawalComes, GrantMayStand
<1>9. RunWithdrawalComes'
  <2>1. since'[run'] = 0
    BY <1>1, <1>3, Bounds DEF LoopInv, RunWithdrawalComes
  <2>2. \A r \in Runs : r > run' => r > run
    BY <1>1, <1>3, Bounds DEF Runs
  <2>3. \A r \in Runs : r > run' => since'[r] = Unreported
    BY <1>1, <2>2 DEF LoopInv, RunWithdrawalComes
  <2> QED
    BY <2>1, <2>3 DEF RunWithdrawalComes
<1>10. MotionIsYoung'
  BY <1>1, <1>2 DEF LoopInv, MotionIsYoung, Young
<1> QED
  BY <1>5, <1>7, <1>8, <1>9, <1>10 DEF LoopInv

\* A run that ends leaves the topics as they are.
LEMMA EndsKeeps ==
  ASSUME LoopInv, Ends
  PROVE  LoopInv'
<1>1. /\ enabled' = FALSE /\ granted' \in BOOLEAN /\ (granted' => granted)
      /\ UNCHANGED <<selector, motion, run, reports, drive, due, cachedRun, since, withheld>>
  <2>1. UNCHANGED <<selector, run, reports, drive, due, cachedRun, since, withheld>>
    BY DEF Ends, topics, records
  <2>2. CASE Controller!Stop
    BY <2>1, <2>2 DEF Controller!Stop, LoopInv, ChainTypeOK
  <2>3. CASE Controller!Forget
    BY <2>1, <2>3 DEF Controller!Forget
  <2> QED
    BY <2>2, <2>3 DEF Ends
<1>2. UNCHANGED <<rc, rcAge, armedAge, navigation, calibration, wire>>
  BY <1>1 DEF selector
<1>3. TypeOK'
  BY <1>2 DEF LoopInv, ChainTypeOK, TypeOK
<1>4. ChainTypeOK'
  BY <1>1, <1>3 DEF LoopInv, ChainTypeOK
<1>5. Grants' = Grants
  BY <1>2, GrantsKept
<1>6. Periodic' /\ RunGranted' /\ WithheldReported'
  BY <1>1, <1>5 DEF LoopInv, Periodic, RunGranted, WithheldReported
<1>7. WithdrawalComes' /\ RunWithdrawalComes'
  BY <1>1 DEF LoopInv, WithdrawalComes, GrantMayStand, RunWithdrawalComes
<1>8. MotionIsYoung'
  BY <1>1, <1>2 DEF LoopInv, MotionIsYoung, Young
<1> QED
  BY <1>4, <1>6, <1>7, <1>8 DEF LoopInv

\* A command of a run is generated while the run's first withdrawal, if there is
\* one, has not been heard.
LEMMA CommandsKeeps ==
  ASSUME LoopInv, NEW moves \in BOOLEAN, Commands(moves)
  PROVE  LoopInv'
<1> DEFINE d == [present |-> TRUE, run |-> IF moves THEN run ELSE 0, age |-> 0]
<1>1. /\ moves => enabled /\ granted
      /\ motion' = moves /\ drive' \in {drive, d}
      /\ UNCHANGED <<selector, granted, enabled, run, reports, due, cachedRun, since,
                     withheld>>
  BY DEF Commands, Controller!Command, records
<1>2. UNCHANGED <<rc, rcAge, armedAge, navigation, calibration, wire>>
  BY <1>1 DEF selector
<1>3. TypeOK'
  BY <1>2 DEF LoopInv, ChainTypeOK, TypeOK
<1>4. d.present = TRUE /\ d.run = (IF moves THEN run ELSE 0) /\ d.age = 0
      /\ d \in [present : BOOLEAN, run : 0..MaxRuns, age : 0..Cap]
  BY Bounds DEF LoopInv, ChainTypeOK
<1> HIDE DEF d
<1>5. ChainTypeOK'
  BY <1>1, <1>3, <1>4 DEF LoopInv, ChainTypeOK
<1>6. Grants' = Grants
  BY <1>2, GrantsKept
<1>7. Periodic' /\ RunGranted' /\ WithheldReported'
  BY <1>1, <1>6 DEF LoopInv, Periodic, RunGranted, WithheldReported
<1>8. WithdrawalComes' /\ RunWithdrawalComes'
  BY <1>1 DEF LoopInv, WithdrawalComes, GrantMayStand, RunWithdrawalComes
<1>9. Young(d.run, d.age)
  <2>1. SUFFICES ASSUME moves, run > 0 PROVE since[run] <= MaxDelay + 1
    BY <1>4, Bounds DEF Young
  <2>2. enabled /\ run \in Runs /\ since[run] \in Nat
    BY <1>1, <2>1, Bounds DEF LoopInv, RunGranted, ChainTypeOK
  <2>3. CASE since[run] = 0
    BY <2>3, Bounds
  <2>4. CASE since[run] > 0
    <3>1. PICK i \in 1..Len(reports) : reports[i].age = since[run] - 1
      BY <2>2, <2>4 DEF LoopInv, RunWithdrawalComes, Withdrawal
    <3>2. reports[i].age <= MaxDelay
      BY ReportIs DEF LoopInv, ChainTypeOK, Report
    <3> QED
      BY <2>2, <3>1, <3>2, Bounds
  <2> QED
    BY <2>2, <2>3, <2>4
<1>10. MotionIsYoung'
  BY <1>1, <1>2, <1>4, <1>9 DEF LoopInv, MotionIsYoung, Young
<1> QED
  BY <1>5, <1>7, <1>8, <1>10 DEF LoopInv

\* A publication reports the withdrawal of its moment, and is the first one of an
\* interruption that has lasted for a period.
LEMMA ReportsKeeps ==
  ASSUME LoopInv, Reports
  PROVE  LoopInv'
<1> DEFINE a == Selected.autonomy
           new == Kept(Append(reports, [data |-> a, age |-> 0]))
<1>1. /\ due = TRUE /\ due' = FALSE /\ reports' = new
      /\ since' = IF ~a /\ enabled /\ since[run] = Unreported
                  THEN [since EXCEPT ![run] = 1] ELSE since
      /\ UNCHANGED <<rc, rcAge, navigation, granted, enabled, motion, run, drive, cachedRun,
                     withheld>>
  BY DEF Reports, Publish, control, LoopInv, ChainTypeOK
<1>2. TypeOK'
  <2>1. Next
    BY DEF Reports, Next
  <2> QED
    BY <2>1, SelectorSteps DEF LoopInv, ChainTypeOK
<1>3. a \in BOOLEAN /\ (a => Grants)
  <2>1. a \in BOOLEAN
    BY SelectedType DEF LoopInv, ChainTypeOK, Selection
  <2> QED
    BY <2>1, SelectedAuthority DEF Grants, Permitted, RcFresh
<1>4. reports \in Seq(Report) /\ InOrder(reports, 1)
  BY <1>1 DEF LoopInv, ChainTypeOK, Report, Periodic
<1>5. /\ new \in Seq(Report) /\ Len(new) <= Depth /\ InOrder(new, 0)
      /\ Len(new) = Len(reports) + 1 /\ new[Len(new)].data = a /\ new[Len(new)].age = 0
      /\ \A i \in 1..Len(reports) : new[i] = reports[i]
  BY <1>3, <1>4, ReportJoins
<1> HIDE DEF new, a
<1>6. /\ Len(reports) \in Nat /\ Len(new) \in 1..Len(new)
      /\ \A i \in 1..Len(new) : i \in 1..Len(reports) \/ i = Len(new)
      /\ \A i \in 1..Len(reports) : i \in 1..Len(new)
  <2>1. Len(reports) \in Nat
    BY <1>4, ReportIs
  <2> QED
    BY <1>5, <2>1
<1>7. \A age : Withdrawal(reports, age) => Withdrawal(new, age)
  BY <1>5, <1>6 DEF Withdrawal
<1>8. ~a => Withdrawal(new, 0)
  BY <1>5, <1>6 DEF Withdrawal
<1>9. since' \in [Runs -> 0..(Reaction + 2)]
  <2>1. since \in [Runs -> 0..(Reaction + 2)] /\ 1 \in 0..(Reaction + 2)
    BY Bounds DEF LoopInv, ChainTypeOK
  <2> QED
    BY <1>1, <2>1
<1>10. ChainTypeOK'
  BY <1>1, <1>2, <1>5, <1>9 DEF LoopInv, ChainTypeOK, Report
<1>11. Periodic' /\ RunGranted'
  BY <1>1, <1>5 DEF LoopInv, Periodic, RunGranted
<1>12. Grants' = Grants
  BY <1>1, GrantsKept
<1>13. WithheldReported'
  <2>1. ASSUME NEW i \in 1..Len(new), new[i].age < withheld PROVE ~new[i].data
    <3>1. CASE i \in 1..Len(reports)
      BY <1>5, <2>1, <3>1 DEF LoopInv, WithheldReported
    <3>2. CASE i = Len(new)
      <4>1. withheld > 0
        BY <1>5, <2>1, <3>2
      <4> QED
        BY <1>3, <1>5, <3>2, <4>1 DEF LoopInv, WithheldReported
    <3> QED
      BY <1>6, <3>1, <3>2
  <2> QED
    BY <1>1, <1>12, <2>1 DEF LoopInv, WithheldReported
<1>14. WithdrawalComes'
  <2>1. SUFFICES ASSUME withheld > 0, GrantMayStand'
                 PROVE  Withdrawal(new, withheld - 1)
    BY <1>1 DEF WithdrawalComes
  <2>2. ~a
    BY <1>3, <2>1 DEF LoopInv, WithheldReported
  <2>3. CASE withheld = 1
    BY <1>8, <2>2, <2>3
  <2>4. CASE withheld # 1
    <3>1. GrantMayStand
      BY <1>1, <1>5, <1>6, <2>1, <2>2 DEF GrantMayStand
    <3>2. Withdrawal(reports, withheld - 1)
      BY <2>1, <2>4, <3>1 DEF LoopInv, WithdrawalComes
    <3> QED
      BY <1>7, <3>2
  <2> QED
    BY <2>3, <2>4
<1>15. since \in [Runs -> Nat] /\ (enabled => run \in Runs) /\ run \in Nat /\ Runs \subseteq Nat
  BY Bounds DEF LoopInv, ChainTypeOK, RunGranted, Runs
<1>16. RunWithdrawalComes'
  <2>1. ASSUME NEW r \in Runs, r > run PROVE since'[r] = Unreported
    <3>1. r # run
      BY <1>15, <2>1
    <3>2. since'[r] = since[r]
      BY <1>1, <1>15, <3>1
    <3> QED
      BY <2>1, <3>2 DEF LoopInv, RunWithdrawalComes
  <2>2. ASSUME enabled, since'[run] > 0 PROVE Withdrawal(new, since'[run] - 1)
    <3>1. CASE since'[run] = since[run]
      BY <1>7, <2>2, <3>1 DEF LoopInv, RunWithdrawalComes
    <3>2. CASE since'[run] # since[run]
      <4>1. ~a /\ since'[run] = 1
        BY <1>1, <1>15, <2>2, <3>2
      <4> QED
        BY <1>8, <4>1
    <3> QED
      BY <3>1, <3>2
  <2> QED
    BY <1>1, <2>1, <2>2 DEF RunWithdrawalComes
<1>17. \A r \in 0..MaxRuns, age \in Nat :
         Young(r, age) => (r > 0 /\ age <= NavTimeout => since'[r] <= MaxDelay + 1 + age)
  <2> SUFFICES ASSUME NEW r \in 0..MaxRuns, NEW age \in Nat, Young(r, age), r > 0,
                      age <= NavTimeout
               PROVE  since'[r] <= MaxDelay + 1 + age
    OBVIOUS
  <2>1. r \in Runs
    BY Bounds DEF Runs
  <2>2. since'[r] = since[r] \/ since'[r] = 1
    BY <1>1, <1>15, <2>1
  <2>3. since[r] <= MaxDelay + 1 + age
    BY DEF Young
  <2>4. 1 <= MaxDelay + 1 + age
    BY Bounds
  <2> QED
    BY <2>2, <2>3, <2>4
<1>18. MotionIsYoung'
  <2>1. /\ drive.run \in 0..MaxRuns /\ drive.age \in Nat /\ cachedRun \in 0..MaxRuns
        /\ navigation.age \in Nat
    BY Bounds DEF LoopInv, ChainTypeOK, TypeOK, Cached
  <2> QED
    BY <1>1, <1>17, <2>1 DEF LoopInv, MotionIsYoung, Young
<1> QED
  BY <1>10, <1>11, <1>13, <1>14, <1>16, <1>18 DEF LoopInv

\* What the controller hears is the oldest report: if it is the withdrawal, all
\* that follow are withdrawals too.
LEMMA HearsKeeps ==
  ASSUME LoopInv, Hears
  PROVE  LoopInv'
<1>1. /\ reports # <<>> /\ reports' = Tail(reports)
      /\ granted' = Head(reports).data /\ enabled' = (enabled /\ Head(reports).data)
      /\ UNCHANGED <<selector, motion, run, drive, due, cachedRun, since, withheld>>
  BY DEF Hears, Controller!Hear, records
<1>2. UNCHANGED <<rc, rcAge, armedAge, navigation, calibration, wire>>
  BY <1>1 DEF selector
<1> DEFINE fresh == IF due THEN 1 ELSE 0
<1>3. reports \in Seq(Report) /\ InOrder(reports, fresh) /\ fresh \in {0, 1}
  BY DEF LoopInv, ChainTypeOK, Report, Periodic
<1>4. /\ reports' \in Seq(Report) /\ Len(reports') = Len(reports) - 1
      /\ InOrder(reports', fresh)
      /\ Len(reports) >= 1 /\ Head(reports) = reports[1] /\ Head(reports) \in Report
      /\ \A i \in 1..Len(reports') : /\ i + 1 \in 1..Len(reports)
                                     /\ reports'[i] = reports[i + 1]
  BY <1>1, <1>3, ReportLeaves
<1>5. Len(reports) \in Nat /\ \A i \in 1..Len(reports) : reports[i].age \in Nat
  BY <1>3, ReportIs
<1>6. Head(reports).data \in BOOLEAN /\ 1 \in 1..Len(reports)
  BY <1>4, <1>5 DEF Report
<1>7. TypeOK'
  BY <1>2 DEF LoopInv, ChainTypeOK, TypeOK
<1>8. ChainTypeOK'
  <2>1. Len(reports') <= Depth
    BY <1>4, <1>5, Bounds DEF LoopInv, ChainTypeOK
  <2>2. granted' \in BOOLEAN /\ enabled' \in BOOLEAN
    BY <1>1, <1>6
  <2>3. reports' \in Seq([data : BOOLEAN, age : 0..MaxDelay])
    BY <1>4 DEF Report
  <2> QED
    BY <1>1, <1>7, <2>1, <2>2, <2>3 DEF LoopInv, ChainTypeOK
<1>9. Grants' = Grants
  BY <1>2, GrantsKept
<1>10. Periodic' /\ RunGranted'
  BY <1>1, <1>4 DEF LoopInv, Periodic, RunGranted
<1>11. WithheldReported'
  BY <1>1, <1>4, <1>9 DEF LoopInv, WithheldReported
\* A withdrawal on its way is the one heard, or still on its way.
<1>12. ASSUME NEW j \in 1..Len(reports), j # 1, ~reports[j].data
       PROVE  Withdrawal(reports', reports[j].age)
  <2>1. j - 1 \in 1..Len(reports') /\ (j - 1) + 1 = j
    BY <1>4, <1>5, <1>12
  <2>2. reports'[j - 1] = reports[j]
    BY <1>4, <2>1
  <2> QED
    BY <1>12, <2>1, <2>2 DEF Withdrawal
<1>13. WithdrawalComes'
  <2>1. SUFFICES ASSUME withheld > 0, ~(withheld = 1 /\ due), GrantMayStand'
                 PROVE  Withdrawal(reports', withheld - 1)
    BY <1>1 DEF WithdrawalComes
  <2>2. GrantMayStand
    BY <1>1, <1>4, <1>6, <2>1 DEF GrantMayStand
  <2>3. PICK j \in 1..Len(reports) : reports[j].age = withheld - 1 /\ ~reports[j].data
    BY <2>1, <2>2 DEF LoopInv, WithdrawalComes, Withdrawal
  <2>4. CASE j # 1
    BY <1>12, <2>3, <2>4
  <2>5. CASE j = 1
    <3>1. ~granted'
      BY <1>1, <1>4, <2>3, <2>5
    <3>2. PICK i \in 1..Len(reports') : reports'[i].data
      BY <2>1, <3>1 DEF GrantMayStand
    <3>3. i + 1 \in 1..Len(reports) /\ reports[i + 1].data /\ 1 < i + 1
      BY <1>4, <1>5, <3>2
    <3>4. reports[1].age > reports[i + 1].age
      BY <1>3, <1>6, <3>3 DEF InOrder
    <3>5. reports[i + 1].age < withheld
      <4>1. withheld \in Nat /\ reports[1].age \in Nat /\ reports[i + 1].age \in Nat
        BY <1>5, <1>6, <3>3, Bounds DEF LoopInv, ChainTypeOK
      <4> QED
        BY <2>3, <2>5, <3>4, <4>1
    <3> QED
      BY <3>3, <3>5 DEF LoopInv, WithheldReported
  <2> QED
    BY <2>4, <2>5
<1>14. RunWithdrawalComes'
  <2>1. ASSUME enabled', since[run] > 0 PROVE Withdrawal(reports', since[run] - 1)
    <3>1. enabled /\ reports[1].data
      BY <1>1, <1>4, <2>1
    <3>2. PICK j \in 1..Len(reports) : reports[j].age = since[run] - 1 /\ ~reports[j].data
      BY <2>1, <3>1 DEF LoopInv, RunWithdrawalComes, Withdrawal
    <3> QED
      BY <1>12, <3>1, <3>2
  <2> QED
    BY <1>1, <2>1 DEF LoopInv, RunWithdrawalComes
<1>15. MotionIsYoung'
  BY <1>1, <1>2 DEF LoopInv, MotionIsYoung, Young
<1> QED
  BY <1>8, <1>10, <1>11, <1>13, <1>14, <1>15 DEF LoopInv

\* A period ages the report, the motion and the interruption alike.
LEMMA PassesKeeps ==
  ASSUME LoopInv, Passes
  PROVE  LoopInv'
<1>1. /\ due = FALSE /\ due' = TRUE /\ reports' = Aged(reports)
      /\ \A i \in 1..Len(reports) : reports[i].age < MaxDelay
      /\ drive' = IF drive.present THEN [drive EXCEPT !.age = Later(drive.age)] ELSE drive
      /\ since' = [r \in Runs |-> IF since[r] = Unreported THEN Unreported
                                  ELSE Counted(since[r], Reaction + 2)]
      /\ withheld' = IF Grants' THEN 0 ELSE Counted(withheld, MaxDelay + 2)
      /\ navigation' = IF navigation.present
                       THEN [navigation EXCEPT !.age = Later(navigation.age)] ELSE navigation
      /\ UNCHANGED <<granted, enabled, motion, run, cachedRun>>
  BY DEF Passes, Aged, Withholds, Tick, control, LoopInv, ChainTypeOK
<1>2. TypeOK'
  <2>1. Next
    BY DEF Passes, Next
  <2> QED
    BY <2>1, SelectorSteps DEF LoopInv, ChainTypeOK
<1>3. reports \in Seq(Report) /\ InOrder(reports, 0)
  BY <1>1 DEF LoopInv, ChainTypeOK, Report, Periodic
<1>4. /\ reports' \in Seq(Report) /\ Len(reports') = Len(reports) /\ InOrder(reports', 1)
      /\ \A i \in 1..Len(reports) : /\ reports'[i].age = reports[i].age + 1
                                    /\ reports'[i].data = reports[i].data
  BY <1>1, <1>3, ReportsAge
<1>5. Len(reports) \in Nat /\ \A i \in 1..Len(reports) : reports[i].age \in Nat
  BY <1>3, ReportIs
<1>6. \A age \in Nat : Withdrawal(reports, age) => Withdrawal(reports', age + 1)
  BY <1>4, <1>5 DEF Withdrawal
<1>7. \A age \in Nat : Withdrawal(reports, age) => age < MaxDelay
  BY <1>1 DEF Withdrawal
<1>8. withheld \in Nat /\ withheld <= MaxDelay + 2 /\ withheld' \in 0..(MaxDelay + 2)
  <2>1. withheld \in 0..(MaxDelay + 2)
    BY DEF LoopInv, ChainTypeOK
  <2> QED
    BY <1>1, <2>1, Bounds DEF Counted
<1>9. since \in [Runs -> 0..(Reaction + 2)] /\ since' \in [Runs -> 0..(Reaction + 2)]
  <2>1. since \in [Runs -> 0..(Reaction + 2)]
    BY DEF LoopInv, ChainTypeOK
  <2>2. \A n \in 0..(Reaction + 2) : Counted(n, Reaction + 2) \in 0..(Reaction + 2)
    BY Bounds DEF Counted
  <2>3. Unreported \in 0..(Reaction + 2)
    BY Bounds
  <2> QED
    BY <1>1, <2>1, <2>2, <2>3
<1>10. drive' \in [present : BOOLEAN, run : 0..MaxRuns, age : 0..Cap]
  BY <1>1, LaterAges DEF LoopInv, ChainTypeOK
<1>11. ChainTypeOK'
  <2>1. Len(reports') <= Depth /\ due' \in BOOLEAN
    BY <1>1, <1>4 DEF LoopInv, ChainTypeOK
  <2> QED
    BY <1>1, <1>2, <1>4, <1>8, <1>9, <1>10, <2>1 DEF LoopInv, ChainTypeOK, Report
<1>12. Periodic' /\ RunGranted'
  BY <1>1, <1>4 DEF LoopInv, Periodic, RunGranted
<1>13. withheld' # 0 => ~Grants'
  BY <1>1
<1>14. withheld' # 0 =>
         \/ withheld < MaxDelay + 2 /\ withheld' = withheld + 1
         \/ withheld = MaxDelay + 2 /\ withheld' = withheld
  BY <1>1, <1>8, Bounds DEF Counted
<1>15. WithheldReported'
  <2>1. ASSUME NEW i \in 1..Len(reports), reports'[i].age < withheld' PROVE ~reports'[i].data
    <3>1. reports'[i].age = reports[i].age + 1 /\ reports[i].age < MaxDelay
          /\ reports[i].age \in Nat
      BY <1>1, <1>4, <1>5
    <3>2. withheld' # 0
      BY <1>8, <2>1, <3>1
    <3>3. reports[i].age < withheld
      BY <1>8, <1>14, <2>1, <3>1, <3>2, Bounds
    <3> QED
      BY <1>4, <3>3 DEF LoopInv, WithheldReported
  <2>2. withheld' > 0 => withheld' # 0
    BY <1>8
  <2> QED
    BY <1>4, <1>13, <2>1, <2>2 DEF WithheldReported
<1>16. WithdrawalComes'
  <2>1. SUFFICES ASSUME withheld' > 0, withheld' # 1, GrantMayStand'
                 PROVE  Withdrawal(reports', withheld' - 1)
    BY <1>1 DEF WithdrawalComes
  <2>2. GrantMayStand
    BY <1>1, <1>4, <2>1 DEF GrantMayStand
  <2>3. withheld > 0
    BY <1>8, <1>14, <2>1, Bounds
  <2>4. Withdrawal(reports, withheld - 1)
    BY <1>1, <2>2, <2>3 DEF LoopInv, WithdrawalComes
  <2>5. withheld - 1 \in Nat
    BY <1>8, <2>3
  <2>6. withheld - 1 < MaxDelay
    BY <1>7, <2>4, <2>5
  <2>7. withheld' - 1 = (withheld - 1) + 1
    <3>1. withheld' \in Nat /\ withheld' # 0
      BY <1>8, <2>1, Bounds
    <3>2. withheld < MaxDelay + 2
      BY <1>8, <2>6, Bounds
    <3>3. withheld # MaxDelay + 2
      BY <1>8, <3>2, Bounds
    <3>4. withheld' = withheld + 1
      BY <1>14, <3>1, <3>3
    <3> QED
      BY <1>8, <3>4
  <2> QED
    BY <1>6, <2>4, <2>5, <2>7
<1>17. RunWithdrawalComes'
  <2>1. \A r \in Runs : r > run => since'[r] = Unreported
    BY <1>1 DEF LoopInv, RunWithdrawalComes
  <2>2. ASSUME enabled, since'[run] > 0 PROVE Withdrawal(reports', since'[run] - 1)
    <3>1. run \in Runs
      BY <2>2 DEF LoopInv, RunGranted
    <3>2. since[run] \in Nat /\ since[run] # 0 /\ since'[run] = Counted(since[run], Reaction + 2)
      BY <1>1, <1>9, <2>2, <3>1, Bounds
    <3>3. Withdrawal(reports, since[run] - 1) /\ since[run] - 1 \in Nat
      BY <2>2, <3>2 DEF LoopInv, RunWithdrawalComes
    <3>4. since[run] - 1 < MaxDelay
      BY <1>7, <3>3
    <3>5. since'[run] - 1 = (since[run] - 1) + 1
      BY <3>2, <3>4, Bounds DEF Counted
    <3> QED
      BY <1>6, <3>3, <3>5
  <2> QED
    BY <1>1, <2>1, <2>2 DEF RunWithdrawalComes
<1>18. \A r \in 0..MaxRuns, age \in 0..Cap :
         Young(r, age) =>
           (r > 0 /\ Later(age) <= NavTimeout => since'[r] <= MaxDelay + 1 + Later(age))
  <2> SUFFICES ASSUME NEW r \in 0..MaxRuns, NEW age \in 0..Cap, Young(r, age), r > 0,
                      Later(age) <= NavTimeout
               PROVE  since'[r] <= MaxDelay + 1 + Later(age)
    OBVIOUS
  <2>1. r \in Runs
    BY Bounds DEF Runs
  <2>2. age \in Nat /\ Later(age) = age + 1 /\ age <= NavTimeout
    BY Bounds DEF Later
  <2>3. since[r] \in Nat /\ since[r] <= MaxDelay + 1 + age
    BY <1>9, <2>1, <2>2, Bounds DEF Young
  <2>4. since'[r] \in Nat /\ since'[r] <= since[r] + 1
    <3>1. Counted(since[r], Reaction + 2) <= since[r] + 1
      BY <2>3, Bounds DEF Counted
    <3>2. since'[r] = Unreported \/ since'[r] = Counted(since[r], Reaction + 2)
      BY <1>1, <2>1
    <3>3. since'[r] \in Nat
      BY <1>9, <2>1, Bounds
    <3> QED
      BY <2>3, <3>1, <3>2, <3>3, Bounds
  <2> QED
    BY <2>2, <2>3, <2>4, Bounds
<1>19. MotionIsYoung'
  <2>1. /\ drive.run \in 0..MaxRuns /\ drive.age \in 0..Cap /\ cachedRun \in 0..MaxRuns
        /\ navigation.age \in 0..Cap
    BY DEF LoopInv, ChainTypeOK, TypeOK, Cached
  <2>2. drive'.present => drive.present /\ drive'.run = drive.run
                          /\ drive'.age = Later(drive.age)
    BY <1>1 DEF LoopInv, ChainTypeOK
  <2>3. navigation'.present => navigation.present /\ navigation'.age = Later(navigation.age)
    BY <1>1 DEF LoopInv, ChainTypeOK, TypeOK, Cached
  <2>4. (drive.present => Young(drive.run, drive.age))
        /\ (navigation.present => Young(cachedRun, navigation.age))
    BY DEF LoopInv, MotionIsYoung
  <2> QED
    BY <1>1, <1>18, <2>1, <2>2, <2>3, <2>4 DEF MotionIsYoung, Young
<1> QED
  BY <1>11, <1>12, <1>15, <1>16, <1>17, <1>19 DEF LoopInv

\* Every step of the loop keeps the invariant.
LEMMA LoopSteps == LoopInv /\ [ChainNext]_chainVars => LoopInv'
<1> SUFFICES ASSUME LoopInv, [ChainNext]_chainVars PROVE LoopInv'
  OBVIOUS
<1>1. CASE UNCHANGED chainVars
  <2>1. UNCHANGED <<rc, rcAge, armedAge, navigation, calibration, wire, granted, enabled,
                    motion, run, reports, drive, due, cachedRun, since, withheld>>
    BY <1>1 DEF chainVars, selector, control, topics, records
  <2>2. TypeOK'
    BY <2>1 DEF LoopInv, ChainTypeOK, TypeOK
  <2>3. ChainTypeOK'
    BY <2>1, <2>2 DEF LoopInv, ChainTypeOK
  <2>4. Grants' = Grants
    BY <2>1, GrantsKept
  <2>5. Periodic' /\ RunGranted' /\ WithheldReported' /\ WithdrawalComes'
    BY <2>1, <2>4 DEF LoopInv, Periodic, RunGranted, WithheldReported, WithdrawalComes,
                      GrantMayStand
  <2>6. RunWithdrawalComes' /\ MotionIsYoung'
    BY <2>1 DEF LoopInv, RunWithdrawalComes, MotionIsYoung, Young
  <2> QED
    BY <2>3, <2>5, <2>6 DEF LoopInv
<1>2. CASE ChainNext
  BY <1>2, OperatorActsKeeps, TakesDriveKeeps, ReportsKeeps, HearsKeeps, StartsKeeps,
     EndsKeeps, CommandsKeeps, PassesKeeps DEF ChainNext
<1> QED
  BY <1>1, <1>2

\* The invariant of the loop.
LEMMA LoopInvariance == ChainSpec => []LoopInv
  BY LoopStarts, LoopSteps, PTL DEF ChainSpec

-----------------------------------------------------------------------------
(* Theorems.                                                               *)

\* Every variable keeps its type, and the report's topic never loses one.
THEOREM LoopTypeCorrect == ChainSpec => []ChainTypeOK
<1>1. LoopInv => ChainTypeOK
  BY DEF LoopInv
<1> QED
  BY <1>1, LoopInvariance, PTL

\* The selector forwards the motion of a run no longer than the report's delay
\* and the command's time-out after it first reported a withdrawal in that run.
THEOREM WithdrawnMotionAlwaysEnds == ChainSpec => []WithdrawnMotionEnds
<1>1. LoopInv => WithdrawnMotionEnds
  <2> SUFFICES ASSUME LoopInv, Selected.state = "Navigation", cachedRun > 0
               PROVE  since[cachedRun] <= Reaction + 1
    BY DEF WithdrawnMotionEnds
  <2>1. \A state, autonomy : StoppedWith(state, autonomy).state = state
    BY DEF StoppedWith
  <2>2. SelectedCalibration.state # "Navigation"
    <3>1. [state |-> "Calibration", mode |-> calibration.mode, autonomy |-> FALSE,
           calibration |-> TRUE].state = "Calibration"
      OBVIOUS
    <3>2. /\ StoppedWith("WaitingCalibration", FALSE).state = "WaitingCalibration"
          /\ StoppedWith("InvalidCalibration", FALSE).state = "InvalidCalibration"
          /\ StoppedWith("CalibrationExpired", FALSE).state = "CalibrationExpired"
      BY DEF StoppedWith
    <3>3. SelectedCalibration.state \in
            {"WaitingCalibration", "InvalidCalibration", "CalibrationExpired", "Calibration"}
      <4>1. CASE ~calibration.present
        BY <3>2, <4>1 DEF SelectedCalibration
      <4>2. CASE calibration.present /\ ~calibration.valid
        BY <3>2, <4>2 DEF SelectedCalibration
      <4>3. CASE calibration.present /\ calibration.valid /\ calibration.age > CalibTimeout
        BY <3>2, <4>3 DEF SelectedCalibration
      <4>4. CASE calibration.present /\ calibration.valid /\ ~(calibration.age > CalibTimeout)
        <5>1. SelectedCalibration =
                [state |-> "Calibration", mode |-> calibration.mode, autonomy |-> FALSE,
                 calibration |-> TRUE]
          BY <4>4 DEF SelectedCalibration
        <5> QED
          BY <3>1, <5>1
      <4> QED
        BY <4>1, <4>2, <4>3, <4>4
    <3> QED
      BY <3>3
  <2>3. SelectedNavigation.state = "Navigation"
    BY <2>1, <2>2 DEF Selected
  <2>4. navigation.present /\ ~(navigation.age > NavTimeout)
    BY <2>1, <2>3 DEF SelectedNavigation
  <2>5. navigation.age \in Nat /\ cachedRun \in Runs
    BY Bounds DEF LoopInv, ChainTypeOK, TypeOK, Cached, Runs
  <2>6. since[cachedRun] \in Nat
    BY <2>5, Bounds DEF LoopInv, ChainTypeOK
  <2>7. navigation.age <= NavTimeout
    BY <2>4, <2>5, Bounds
  <2>8. since[cachedRun] <= MaxDelay + 1 + navigation.age
    BY <2>4, <2>7 DEF LoopInv, MotionIsYoung, Young
  <2> QED
    BY <2>5, <2>6, <2>7, <2>8, Bounds
<1> QED
  BY <1>1, LoopInvariance, PTL

\* No run outlives, by more than a period and the report's delay, the moment the
\* operator withheld autonomy for good.
THEOREM ControllerAlwaysFollows == ChainSpec => []ControllerFollowsOperator
<1>1. LoopInv => ControllerFollowsOperator
  <2> SUFFICES ASSUME LoopInv, enabled PROVE withheld <= MaxDelay + 1
    BY DEF ControllerFollowsOperator
  <2>0. withheld \in 0..(MaxDelay + 2)
    BY DEF LoopInv, ChainTypeOK
  <2> SUFFICES ASSUME withheld = MaxDelay + 2 PROVE FALSE
    BY <2>0, Bounds
  <2>1. withheld = MaxDelay + 2
    OBVIOUS
  <2>2. GrantMayStand /\ withheld > 0 /\ withheld # 1
    BY <2>1, Bounds DEF LoopInv, RunGranted, GrantMayStand
  <2>3. PICK i \in 1..Len(reports) : reports[i].age = withheld - 1
    BY <2>2 DEF LoopInv, WithdrawalComes, Withdrawal
  <2>4. reports[i].age <= MaxDelay
    BY ReportIs DEF LoopInv, ChainTypeOK, Report
  <2> QED
    BY <2>1, <2>3, <2>4, Bounds
<1> QED
  BY <1>1, LoopInvariance, PTL

-----------------------------------------------------------------------------
(* The two sides of the loop, each still the component it was on its own.  *)

\* A step of the loop is, for the selector, one of its callbacks, a tick of
\* its clock, or nothing.
LEMMA LoopStepsSelector == LoopInv /\ [ChainNext]_chainVars => [Next]_vars
<1> SUFFICES ASSUME LoopInv, [ChainNext]_chainVars PROVE [Next]_vars
  OBVIOUS
<1>1. CASE \E frame \in OperatorFrames : OperatorActs(frame)
  BY <1>1 DEF OperatorActs, OperatorFrames, Next
<1>2. CASE TakesDrive
  <2>1. drive.age \in 0..Cap /\ ReceiveNavigation(TRUE, drive.age)
    BY <1>2 DEF TakesDrive, LoopInv, ChainTypeOK
  <2> QED
    BY <2>1 DEF Next
<1>3. CASE Reports \/ Passes
  BY <1>3 DEF Reports, Passes, Next
<1>4. CASE Hears \/ Starts \/ Ends \/ \E moves \in BOOLEAN : Commands(moves)
  BY <1>4 DEF Hears, Starts, Ends, Commands, selector, vars
<1>5. CASE UNCHANGED chainVars
  BY <1>5 DEF chainVars, selector, vars
<1> QED
  BY <1>1, <1>2, <1>3, <1>4, <1>5 DEF ChainNext

\* A step of the loop is, for the controller, a report heard, a start, an end,
\* a command, or nothing.
LEMMA LoopStepsController ==
  LoopInv /\ [ChainNext]_chainVars => [Controller!Act]_(Controller!authorityVars)
<1> SUFFICES ASSUME LoopInv, [ChainNext]_chainVars
             PROVE  [Controller!Act]_(Controller!authorityVars)
  OBVIOUS
<1>1. CASE Hears
  <2>1. reports \in Seq(Report) /\ reports # <<>>
    BY <1>1 DEF LoopInv, ChainTypeOK, Hears, Report
  <2>2. Head(reports) \in Report
    BY <2>1
  <2>3. Head(reports).data \in BOOLEAN /\ Controller!Hear(Head(reports).data)
    BY <1>1, <2>2 DEF Report, Hears
  <2> QED
    BY <2>3 DEF Controller!Act
<1>2. CASE Starts \/ Ends \/ \E moves \in BOOLEAN : Commands(moves)
  BY <1>2 DEF Starts, Ends, Commands, Controller!Act
<1>3. CASE \/ \E frame \in OperatorFrames : OperatorActs(frame)
           \/ TakesDrive \/ Reports \/ Passes
  BY <1>3 DEF OperatorActs, TakesDrive, Reports, Passes, control, Controller!authorityVars
<1>4. CASE UNCHANGED chainVars
  BY <1>4 DEF chainVars, control, Controller!authorityVars
<1> QED
  BY <1>1, <1>2, <1>3, <1>4 DEF ChainNext

\* What the loop lets happen to the selector is a behaviour of JoystickSelector:
\* every theorem about the selector alone holds of the selector in the loop.
THEOREM LoopImplementsSelector == ChainSpec => Spec
<1>1. ChainInit => Init
  BY DEF ChainInit
<1> QED
  BY <1>1, LoopStepsSelector, LoopInvariance, PTL DEF ChainSpec, Spec

\* And what it lets happen to the controller is a behaviour of DriveAuthority,
\* which is all the loop asks of a controller and what MpccRuntime implements.
THEOREM LoopImplementsController == ChainSpec => Controller!Spec
<1>1. ChainInit => Controller!Idle
  BY DEF ChainInit
<1> QED
  BY <1>1, LoopStepsController, LoopInvariance, PTL DEF ChainSpec, Controller!Spec

\* What is forwarded under reported authority is a speed command or a stop in the
\* loop too: carried over from the selector by the refinement.
THEOREM LoopForwardsSpeed == ChainSpec => []AutonomyForwardsSpeed
  BY LoopImplementsSelector, AutonomyAlwaysForwardsSpeed, PTL

\* And the loop cannot keep a vehicle moving whose operator's frames stopped, as
\* long as the selector's timer fires.
THEOREM LoopEndsMotion == ChainSpec /\ TimerFires => MotionEndsWithoutRc
  BY LoopImplementsSelector, TimerEndsMotion, PTL

=============================================================================
