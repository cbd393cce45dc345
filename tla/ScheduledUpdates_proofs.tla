----------------------- MODULE ScheduledUpdates_proofs -----------------------
(***************************************************************************)
(* Proofs about ScheduledUpdates, for every set of processes, plans and    *)
(* identifiers, every horizon and every wall clock: at most one update per *)
(* minute whatever fails, that Deliveries is implemented, and exactly one  *)
(* update per prescribed minute when nothing fails.                        *)
(***************************************************************************)
EXTENDS ScheduledUpdates, TLAPS

(***************************************************************************)
(* The rules of Schedules agree with what the feature prescribes.          *)
(***************************************************************************)

\* The minutes that pass the test of a callback are the boundaries of the hour.
LEMMA BoundaryMinutes ==
    ASSUME NEW f \in SupportedFrequencies, NEW time \in MinutesOfDay,
           IsRecurringBoundary(time, f)
    PROVE  IsBoundary(time, f)
<1> DEFINE hour == time \div 60
           k == (time % 60) \div f
<1>1. /\ hour \in 0 .. 23
      /\ time = 60 * hour + (time % 60)
      /\ time % 60 \in 0 .. 59
  BY DEF MinutesOfDay
<1>2. k \in 0 .. (60 \div f) - 1 /\ time % 60 = k * f
  <2>1. CASE f = 1  BY <1>1, <2>1
  <2>2. CASE f = 5  BY <1>1, <2>2 DEF IsRecurringBoundary
  <2>3. CASE f = 10 BY <1>1, <2>3 DEF IsRecurringBoundary
  <2>4. CASE f = 15 BY <1>1, <2>4 DEF IsRecurringBoundary
  <2>5. CASE f = 30 BY <1>1, <2>5 DEF IsRecurringBoundary
  <2>6. CASE f = 60 BY <1>1, <2>6 DEF IsRecurringBoundary
  <2> QED BY <2>1, <2>2, <2>3, <2>4, <2>5, <2>6 DEF SupportedFrequencies
<1> HIDE DEF hour, k
<1>3. time = 60 * hour + k * f
  BY <1>1, <1>2
<1>4. \E h \in 0 .. 23, i \in 0 .. (60 \div f) - 1 : time = 60 * h + i * f
  BY <1>1, <1>2, <1>3, Zenon
<1> QED BY <1>4 DEF IsBoundary

\* The two comparisons of is_time_within_window are the window on the circle of the
\* day, whether or not it spans midnight.
LEMMA CyclicInterval ==
    ASSUME NEW a \in MinutesOfDay, NEW b \in MinutesOfDay, NEW t \in MinutesOfDay, a # b
    PROVE  (IF a < b THEN a <= t /\ t <= b ELSE a <= t \/ t <= b)
               <=> (t - a) % 1440 <= (b - a) % 1440
<1>1. a \in 0 .. 1439 /\ b \in 0 .. 1439 /\ t \in 0 .. 1439
  BY DEF MinutesOfDay
<1>2. /\ (t - a) % 1440 = IF a <= t THEN t - a ELSE t - a + 1440
      /\ (b - a) % 1440 = IF a <= b THEN b - a ELSE b - a + 1440
  BY <1>1
<1> QED BY <1>1, <1>2

LEMMA ScheduleMinutes ==
    ASSUME NEW s \in ScheduleConfig
    PROVE  /\ s.start \in MinutesOfDay /\ s.end \in MinutesOfDay /\ s.start # s.end
           /\ s.frequency \in SupportedFrequencies
<1>1. s.start \in Times /\ s.end \in Times /\ s.start # s.end /\ s.frequency \in Frequencies
  BY DEF ScheduleConfig
<1>2. Times \subseteq MinutesOfDay /\ Frequencies \subseteq SupportedFrequencies
  BY SchedulesAssumption
<1> QED BY <1>1, <1>2

LEMMA WindowIsCyclic ==
    ASSUME NEW s \in ScheduleConfig, NEW time \in MinutesOfDay
    PROVE  InWindow(time, s) <=> (time - s.start) % 1440 <= (s.end - s.start) % 1440
BY ScheduleMinutes, CyclicInterval DEF InWindow

LEMMA AcceptedIsPrescribed ==
    ASSUME TypeOK, NEW c \in calls, active[c.proc] \in Plans, Accepts(c), InActiveWindow(c)
    PROVE  Prescribed(active[c.proc], Wall[active[c.proc].zone][now])
<1> DEFINE s == active[c.proc]
           wall == Wall[s.zone][now]
<1>1. s \in ScheduleConfig
  BY UpdatesAssumption
<1>2. wall \in WallClock
  <2>1. s.zone \in Zones
    BY <1>1 DEF ScheduleConfig
  <2> QED BY <2>1, UpdatesAssumption DEF TypeOK
<1>3. wall.time \in MinutesOfDay
  BY <1>2 DEF WallClock
<1>4. wall.fold = 0 /\ InWindow(wall.time, s)
  BY DEF Accepts, InActiveWindow
<1>5. wall.time = s.start \/ IsRecurringBoundary(wall.time, s.frequency)
  BY DEF Accepts
<1> HIDE DEF s, wall
<1>6. wall.time = s.start \/ IsBoundary(wall.time, s.frequency)
  BY <1>1, <1>3, <1>5, ScheduleMinutes, BoundaryMinutes
<1>7. Prescribed(s, wall)
  BY <1>1, <1>3, <1>4, <1>6, WindowIsCyclic DEF Prescribed
<1> QED BY <1>7 DEF s, wall

(***************************************************************************)
(* The inductive invariant.  A process that accepts callbacks has exactly  *)
(* the jobs of its active schedule in its queue; the callbacks that it     *)
(* would accept are callbacks of queued jobs.  A callback that is about to *)
(* send owns its occurrence: it is claimed, nothing was sent for it, and   *)
(* no other callback is about to send for it.                              *)
(***************************************************************************)
QueueInv ==
    \A p \in Procs :
        /\ due[p] \subseteq jobs[p]
        /\ generation[p] # None => /\ active[p] # None
                                   /\ jobs[p] = JobsFor(active[p], generation[p])

CallsInv ==
    \A c \in calls : c.job.generation = generation[c.proc] => c.job \in jobs[c.proc]

SentIsClaimed ==
    \A k \in Keys : sends[k] \in {0, 1} /\ (sends[k] = 1 => k \in claims)

SenderOwns ==
    \A c \in calls : c.stage = "send" =>
        /\ Occurrence(c) \in claims
        /\ sends[Occurrence(c)] = 0
        /\ \A d \in calls : d.stage = "send" /\ Occurrence(d) = Occurrence(c) => d = c

IInv ==
    /\ TypeOK
    /\ QueueInv
    /\ CallsInv
    /\ OnlyPrescribed
    /\ SentIsClaimed
    /\ SenderOwns

LEMMA InitIInv == Init => IInv
BY UpdatesAssumption DEF Init, IInv, TypeOK, Instants, Keys, QueueInv, CallsInv,
   OnlyPrescribed, SentIsClaimed, SenderOwns

LEMMA CallTypes ==
    ASSUME TypeOK, NEW c \in calls
    PROVE  /\ c.proc \in Procs /\ c.job \in PlannedJob
           /\ c.job.generation \in Generations
           /\ c.stage \in {"dispatched", "claim", "send"}
           /\ c.stage # "dispatched" => /\ c.schedule \in Plans /\ c.at \in Instants
                                        /\ Occurrence(c) \in Keys
           /\ c = [proc |-> c.proc, job |-> c.job, stage |-> c.stage,
                   schedule |-> c.schedule, at |-> c.at]
<1>1. c \in CallType
  BY DEF TypeOK
<1>2. /\ c.proc \in Procs /\ c.job \in PlannedJob
      /\ c.stage \in {"dispatched", "claim", "send"}
      /\ c.stage # "dispatched" => c.schedule \in Plans /\ c.at \in Instants
      /\ c = [proc |-> c.proc, job |-> c.job, stage |-> c.stage,
              schedule |-> c.schedule, at |-> c.at]
  BY <1>1 DEF CallType
<1>3. c.job.generation \in Generations
  BY <1>2 DEF PlannedJob, Job
<1>4. c.stage # "dispatched" => Occurrence(c) \in Keys
  BY <1>2 DEF Occurrence, Keys
<1> QED BY <1>2, <1>3, <1>4

LEMMA SendingFields ==
    ASSUME TypeOK, NEW c \in calls
    PROVE  [c EXCEPT !.stage = "send"]
                = [proc |-> c.proc, job |-> c.job, stage |-> "send",
                   schedule |-> c.schedule, at |-> c.at]
<1>1. PICK p, j, stage, u, v :
          c = [proc |-> p, job |-> j, stage |-> stage, schedule |-> u, at |-> v]
  BY CallTypes
<1> QED BY <1>1

LEMMA PlannedJobs ==
    ASSUME NEW s \in Plans, NEW g \in Generations
    PROVE  /\ JobsFor(s, g) \subseteq PlannedJob
           /\ \A j \in JobsFor(s, g) : j.schedule = s /\ j.generation = g
BY UpdatesAssumption DEF JobsFor, JobKinds, Kinds, Job, PlannedJob

(***************************************************************************)
(* One lemma per action.                                                   *)
(***************************************************************************)
LEMMA TickIInv == IInv /\ Tick => IInv'
<1> SUFFICES ASSUME IInv, Tick PROVE IInv'
  OBVIOUS
<1> USE DEF IInv, Tick, procVars
<1>1. now' \in Instants
  BY UpdatesAssumption DEF TypeOK, Instants
<1>2. \A p \in Procs : due'[p] \subseteq jobs[p]
  OBVIOUS
<1>3. due' \in [Procs -> SUBSET PlannedJob] /\ settled' \in [Procs -> BOOLEAN]
  BY <1>2 DEF TypeOK
<1>4. TypeOK'
  BY <1>1, <1>3 DEF TypeOK
<1>5. QueueInv'
  BY <1>2 DEF QueueInv
<1>6. CallsInv' /\ OnlyPrescribed'
  BY DEF CallsInv, OnlyPrescribed
<1>7. SentIsClaimed' /\ SenderOwns'
  BY DEF SentIsClaimed, SenderOwns
<1> QED BY <1>4, <1>5, <1>6, <1>7

LEMMA DispatchIInv ==
    ASSUME IInv, NEW p \in Procs, NEW j \in due[p], Dispatch(p, j)
    PROVE  IInv'
<1> USE DEF IInv, Dispatch, procVars
<1>1. calls' \subseteq calls \cup {Dispatched(p, j)}
  OBVIOUS
<1>2. j \in jobs[p] /\ j \in PlannedJob
  BY DEF QueueInv, TypeOK
<1>3. Dispatched(p, j) \in CallType
  BY <1>2 DEF Dispatched, CallType
<1>4. /\ Dispatched(p, j).stage = "dispatched"
      /\ Dispatched(p, j).proc = p /\ Dispatched(p, j).job = j
  BY DEF Dispatched
<1>5. TypeOK'
  <2>1. due' \in [Procs -> SUBSET PlannedJob]
    BY DEF TypeOK
  <2> QED BY <1>1, <1>3, <2>1 DEF TypeOK
<1>6. QueueInv'
  BY DEF QueueInv, TypeOK
<1>7. CallsInv' /\ OnlyPrescribed'
  BY <1>1, <1>2, <1>4 DEF CallsInv, OnlyPrescribed
<1>8. SentIsClaimed' /\ SenderOwns'
  BY <1>1, <1>4 DEF SentIsClaimed, SenderOwns
<1> QED BY <1>5, <1>6, <1>7, <1>8

LEMMA TimerStartIInv ==
    ASSUME IInv, NEW c \in calls, TimerStart(c)
    PROVE  IInv'
<1> USE DEF IInv, TimerStart, procVars
<1> DEFINE d == Claiming(c)
<1>1. CASE calls' = calls \ {c}
  <2>1. TypeOK' /\ QueueInv'
    BY <1>1 DEF TypeOK, QueueInv
  <2>2. CallsInv' /\ OnlyPrescribed' /\ SentIsClaimed' /\ SenderOwns'
    BY <1>1 DEF CallsInv, OnlyPrescribed, SentIsClaimed, SenderOwns
  <2> QED BY <2>1, <2>2
<1>2. CASE Accepts(c) /\ InActiveWindow(c) /\ calls' = (calls \ {c}) \cup {d}
  <2>1. active[c.proc] \in Plans
    BY <1>2, CallTypes DEF Accepts, QueueInv, TypeOK
  <2>2. d = [proc |-> c.proc, job |-> c.job, stage |-> "claim",
             schedule |-> active[c.proc], at |-> now]
    BY DEF Claiming
  <2> HIDE DEF d
  <2>3. d \in CallType
    BY <2>1, <2>2, CallTypes DEF CallType, TypeOK
  <2>4. /\ d.stage = "claim" /\ d.proc = c.proc /\ d.job = c.job
        /\ d.schedule = active[c.proc] /\ d.at = now
    BY <2>2
  <2>5. TypeOK' /\ QueueInv'
    BY <1>2, <2>3 DEF TypeOK, QueueInv
  <2>6. CallsInv'
    BY <1>2, <2>4 DEF CallsInv
  <2>7. OnlyPrescribed'
    BY <1>2, <2>1, <2>4, AcceptedIsPrescribed DEF OnlyPrescribed
  <2>8. SentIsClaimed' /\ SenderOwns'
    BY <1>2, <2>4 DEF SentIsClaimed, SenderOwns
  <2> QED BY <2>5, <2>6, <2>7, <2>8
<1> QED BY <1>1, <1>2 DEF Continue, Return

LEMMA ClaimIInv ==
    ASSUME IInv, NEW c \in calls, Claim(c)
    PROVE  IInv'
<1> USE DEF IInv, procVars
<1> DEFINE d == [c EXCEPT !.stage = "send"]
           k == Occurrence(c)
<1>1. c.stage = "claim" /\ k \in Keys
  BY CallTypes DEF Claim
<1>2. claims \subseteq claims' /\ claims' \subseteq claims \cup {k}
  BY DEF Claim
<1>3. UNCHANGED <<now, up, jobs, active, generation, settled, due, sends>>
  BY DEF Claim
<1>4. \/ calls' = calls \ {c}
      \/ k \notin claims /\ k \in claims' /\ calls' = (calls \ {c}) \cup {d}
  BY DEF Claim, Return, Continue
<1>5. d = [proc |-> c.proc, job |-> c.job, stage |-> "send",
           schedule |-> c.schedule, at |-> c.at]
  BY SendingFields
<1> HIDE DEF d
<1>6. /\ d.stage = "send" /\ d.proc = c.proc /\ d.job = c.job
      /\ d.schedule = c.schedule /\ d.at = c.at
  BY <1>5
<1>7. Occurrence(d) = k
  BY <1>6 DEF Occurrence
<1> HIDE DEF k
<1>8. d \in CallType
  BY <1>1, <1>5, CallTypes DEF CallType
<1>9. TypeOK'
  BY <1>1, <1>2, <1>3, <1>4, <1>8 DEF TypeOK
<1>10. QueueInv'
  BY <1>3 DEF QueueInv
<1>11. CallsInv' /\ OnlyPrescribed'
  BY <1>1, <1>3, <1>4, <1>6 DEF CallsInv, OnlyPrescribed
<1>12. SentIsClaimed'
  BY <1>2, <1>3 DEF SentIsClaimed
<1>13. SenderOwns'
  <2>1. CASE calls' = calls \ {c}
    BY <1>2, <1>3, <2>1 DEF SenderOwns
  <2>2. CASE k \notin claims /\ k \in claims' /\ calls' = (calls \ {c}) \cup {d}
    <3>1. sends[k] = 0
      BY <1>1, <2>2 DEF SentIsClaimed
    <3>2. \A e \in calls : e.stage = "send" => Occurrence(e) # k
      BY <2>2 DEF SenderOwns
    <3> QED BY <1>2, <1>3, <1>6, <1>7, <2>2, <3>1, <3>2 DEF SenderOwns
  <2> QED BY <1>4, <2>1, <2>2
<1> QED BY <1>9, <1>10, <1>11, <1>12, <1>13

\* A callback that returns without sending: after an error of Redis or of Telegram.
LEMMA ReturnIInv ==
    ASSUME IInv, NEW c \in calls, calls' = calls \ {c},
           claims \subseteq claims', claims' \subseteq Keys,
           UNCHANGED <<now, procVars, due, sends>>
    PROVE  IInv'
<1> USE DEF IInv, procVars
<1>1. TypeOK' /\ QueueInv'
  BY DEF TypeOK, QueueInv
<1>2. CallsInv' /\ OnlyPrescribed' /\ SentIsClaimed' /\ SenderOwns'
  BY DEF CallsInv, OnlyPrescribed, SentIsClaimed, SenderOwns
<1> QED BY <1>1, <1>2

LEMMA SendIInv ==
    ASSUME IInv, NEW c \in calls, Send(c)
    PROVE  IInv'
<1> USE DEF IInv, procVars, Send, Return
<1> DEFINE k == Occurrence(c)
<1>1. k \in Keys /\ sends[k] = 0 /\ k \in claims
  BY CallTypes DEF SenderOwns
<1>2. sends' = [sends EXCEPT ![k] = 1]
  BY <1>1
<1>3. \A e \in calls' : e.stage = "send" => Occurrence(e) \in Keys /\ Occurrence(e) # k
  BY CallTypes DEF SenderOwns
<1> HIDE DEF k
<1>4. sends' \in [Keys -> Nat]
  <2>1. sends \in [Keys -> Nat]
    BY DEF TypeOK
  <2> QED BY ONLY <1>2, <2>1
<1>5. TypeOK' /\ QueueInv'
  BY <1>4 DEF TypeOK, QueueInv
<1>6. CallsInv' /\ OnlyPrescribed'
  BY DEF CallsInv, OnlyPrescribed
<1>7. SentIsClaimed'
  BY <1>1, <1>2 DEF SentIsClaimed, TypeOK
<1>8. SenderOwns'
  BY <1>2, <1>3 DEF SenderOwns, TypeOK
<1> QED BY <1>5, <1>6, <1>7, <1>8

LEMMA RegisterIInv ==
    ASSUME IInv, NEW p \in Procs, NEW s \in Plans, Register(p, s),
           up' \in [Procs -> BOOLEAN], UNCHANGED <<now, calls, claims, sends>>
    PROVE  IInv'
<1> USE DEF IInv
<1>1. PICK g \in Generations :
          /\ Fresh(p, g)
          /\ jobs' = [jobs EXCEPT ![p] = JobsFor(s, g)]
          /\ generation' = [generation EXCEPT ![p] = g]
  BY DEF Register
<1>2. /\ active' = [active EXCEPT ![p] = s]
      /\ settled' = [settled EXCEPT ![p] = FALSE]
      /\ due' = [due EXCEPT ![p] = {}]
  BY DEF Register
<1>3. TypeOK'
  BY <1>1, <1>2, PlannedJobs DEF TypeOK
<1>4. QueueInv'
  BY <1>1, <1>2, UpdatesAssumption DEF QueueInv, TypeOK
<1>5. CallsInv'
  BY <1>1, <1>2, CallTypes DEF CallsInv, Fresh, TypeOK
<1>6. OnlyPrescribed' /\ SentIsClaimed' /\ SenderOwns'
  BY DEF OnlyPrescribed, SentIsClaimed, SenderOwns
<1> QED BY <1>3, <1>4, <1>5, <1>6

LEMMA LoseScheduleIInv ==
    ASSUME IInv, NEW p \in Procs, LoseSchedule(p)
    PROVE  IInv'
<1> USE DEF IInv, LoseSchedule
<1>0. Leftovers(p) \subseteq SUBSET PlannedJob
  <2>1. jobs[p] \subseteq PlannedJob
    BY DEF TypeOK
  <2>2. \A s \in Plans, g \in Generations : JobsFor(s, g) \subseteq PlannedJob
    BY PlannedJobs
  <2> QED
    BY <2>1, <2>2 DEF Leftovers
<1>1. PICK left \in SUBSET PlannedJob :
          /\ jobs' = [jobs EXCEPT ![p] = left]
          /\ due' = [due EXCEPT ![p] = @ \cap left]
  BY <1>0
<1>2. TypeOK'
  BY <1>1 DEF TypeOK
<1>3. QueueInv'
  BY <1>1 DEF QueueInv, TypeOK
<1>4. CallsInv'
  BY <1>1, CallTypes, UpdatesAssumption DEF CallsInv, TypeOK
<1>5. OnlyPrescribed' /\ SentIsClaimed' /\ SenderOwns'
  BY DEF OnlyPrescribed, SentIsClaimed, SenderOwns
<1> QED BY <1>2, <1>3, <1>4, <1>5

LEMMA CrashIInv ==
    ASSUME IInv, NEW p \in Procs, Crash(p)
    PROVE  IInv'
<1> USE DEF IInv, Crash
<1>1. TypeOK'
  BY DEF TypeOK
<1>2. QueueInv'
  BY DEF QueueInv, TypeOK
<1>3. CallsInv'
  BY CallTypes DEF CallsInv, TypeOK
<1>4. OnlyPrescribed' /\ SentIsClaimed' /\ SenderOwns'
  BY DEF OnlyPrescribed, SentIsClaimed, SenderOwns
<1> QED BY <1>1, <1>2, <1>3, <1>4

(***************************************************************************)
(* Theorems.                                                               *)
(***************************************************************************)

\* Every step of the specification keeps the inductive invariant.
LEMMA NextIInv == IInv /\ [Next]_vars => IInv'
<1> SUFFICES ASSUME IInv, [Next]_vars PROVE IInv'
  OBVIOUS
<1>1. CASE UNCHANGED vars
  <2> USE <1>1 DEF vars
  <2>1. TypeOK' /\ QueueInv' /\ CallsInv'
    BY DEF IInv, TypeOK, QueueInv, CallsInv
  <2>2. OnlyPrescribed' /\ SentIsClaimed' /\ SenderOwns'
    BY DEF IInv, OnlyPrescribed, SentIsClaimed, SenderOwns
  <2> QED BY <2>1, <2>2 DEF IInv
<1>2. CASE Tick
  BY <1>2, TickIInv
<1>3. ASSUME NEW p \in Procs, NEW j \in due[p], Dispatch(p, j) PROVE IInv'
  BY <1>3, DispatchIInv
<1>4. ASSUME NEW p \in Procs, Start(p) PROVE IInv'
  <2>1. PICK s \in Plans : Register(p, s)
    BY <1>4 DEF Start
  <2>2. up' \in [Procs -> BOOLEAN]
    BY <1>4 DEF Start, IInv, TypeOK
  <2> QED BY <1>4, <2>1, <2>2, RegisterIInv DEF Start
<1>5. ASSUME NEW p \in Procs, Reschedule(p) PROVE IInv'
  <2>1. PICK s \in Plans : Register(p, s)
    BY <1>5 DEF Reschedule
  <2>2. up' \in [Procs -> BOOLEAN]
    BY <1>5 DEF Reschedule, IInv, TypeOK
  <2> QED BY <1>5, <2>1, <2>2, RegisterIInv DEF Reschedule
<1>6. ASSUME NEW p \in Procs, LoseSchedule(p) PROVE IInv'
  BY <1>6, LoseScheduleIInv
<1>7. ASSUME NEW p \in Procs, Crash(p) PROVE IInv'
  BY <1>7, CrashIInv
<1>8. ASSUME NEW c \in calls, Step(c) PROVE IInv'
  <2>1. CASE TimerStart(c)
    BY <2>1, TimerStartIInv
  <2>2. CASE Claim(c)
    BY <2>2, ClaimIInv
  <2>3. CASE ClaimError(c)
    <3>1. Occurrence(c) \in Keys /\ claims \subseteq Keys
      BY <2>3, CallTypes DEF ClaimError, IInv, TypeOK
    <3> QED BY <2>3, <3>1, ReturnIInv DEF ClaimError, Return
  <2>4. CASE Send(c)
    BY <2>4, SendIInv
  <2>5. CASE SendError(c)
    <3>1. claims \subseteq Keys
      BY DEF IInv, TypeOK
    <3> QED BY <2>5, <3>1, ReturnIInv DEF SendError, Return
  <2> QED BY <1>8, <2>1, <2>2, <2>3, <2>4, <2>5 DEF Step
<1> QED BY <1>1, <1>2, <1>3, <1>4, <1>5, <1>6, <1>7, <1>8 DEF Next

\* The inductive invariant holds in every reachable state.
THEOREM Invariance == Spec => []IInv
<1>1. Init => IInv
  BY InitIInv
<1>2. IInv /\ [Next]_vars => IInv'
  BY NextIInv
<1> QED BY <1>1, <1>2, PTL DEF Spec

\* Every variable of the timer, the claims and the processes keeps its type.
THEOREM TypeCorrect == Spec => []TypeOK
<1>1. IInv => TypeOK
  BY DEF IInv
<1> QED BY <1>1, Invariance, PTL

\* No local minute of a zone gets two scheduled updates, whatever processes overlap,
\* whatever fails and however late callbacks run: the sender of an occurrence is the
\* one that claimed it.
THEOREM SentAtMostOnce == Spec => []AtMostOnce
<1>1. IInv => AtMostOnce
  BY DEF IInv, SentIsClaimed, AtMostOnce
<1> QED BY <1>1, Invariance, PTL

\* A callback claims and sends only for minutes that its schedule prescribes.
THEOREM ClaimsArePrescribed == Spec => []OnlyPrescribed
<1>1. IInv => OnlyPrescribed
  BY DEF IInv
<1> QED BY <1>1, Invariance, PTL

\* A callback goes on to its claim only if its job is queued for the active schedule.
THEOREM StaleCallbacks == Spec => StaleCallbacksEnd
<1> DEFINE Stale ==
        \A c \in calls, d \in calls' \ calls :
            c.stage = "dispatched" /\ d.stage = "claim" /\ d.proc = c.proc /\ d.job = c.job
                => c.job \in jobs[c.proc] /\ c.job.schedule = active[c.proc]
<1>1. IInv /\ [Next]_vars => [Stale]_vars
  <2> SUFFICES ASSUME IInv, Next,
                      NEW c \in calls, NEW d \in calls', d \notin calls,
                      d.stage = "claim", d.proc = c.proc, d.job = c.job
               PROVE  c.job \in jobs[c.proc] /\ c.job.schedule = active[c.proc]
    OBVIOUS
  <2>1. PICK b \in calls : TimerStart(b) /\ d = Claiming(b) /\ Accepts(b)
    <3>1. ~(calls' \subseteq calls)
      OBVIOUS
    <3>2. \A p \in Procs : \A j \in due[p] : ~Dispatch(p, j)
      BY DEF Dispatch, Dispatched
    <3>3. PICK b \in calls : TimerStart(b) \/ Claim(b)
      BY <3>1, <3>2 DEF Next, Step, Tick, Start, Reschedule, LoseSchedule, Crash,
         ClaimError, Send, SendError, Return
    <3>4. ~Claim(b)
      <4>1. [b EXCEPT !.stage = "send"].stage = "send"
        BY SendingFields DEF IInv
      <4> QED BY <4>1 DEF Claim, Continue, Return
    <3> QED BY <3>3, <3>4 DEF TimerStart, Continue, Return
  <2>2. b.proc = c.proc /\ b.job = c.job
    BY <2>1 DEF Claiming
  <2>3. generation[c.proc] # None /\ c.job.generation = generation[c.proc]
    BY <2>1, <2>2 DEF Accepts
  <2>4. /\ c.job \in jobs[c.proc]
        /\ jobs[c.proc] = JobsFor(active[c.proc], generation[c.proc])
    BY <2>3, CallTypes DEF IInv, CallsInv, QueueInv
  <2> QED BY <2>4 DEF JobsFor
<1> QED BY <1>1, Invariance, PTL DEF Spec, StaleCallbacksEnd

(***************************************************************************)
(* ScheduledUpdates implements Deliveries: without the processes, the jobs *)
(* and the callbacks, an occurrence is claimed and then sent.              *)
(***************************************************************************)

\* No callback acts for a time that has not come.
NotEarly == \A c \in calls : c.stage # "dispatched" => c.at <= now

LEMMA NeverEarly == Spec => []NotEarly
<1>1. Init => NotEarly
  BY DEF Init, NotEarly
<1>2. IInv /\ NotEarly /\ [Next]_vars => NotEarly'
  <2> SUFFICES ASSUME IInv, NotEarly, [Next]_vars,
                      NEW d \in calls', d.stage # "dispatched"
               PROVE  d.at <= now'
    BY DEF NotEarly
  <2>1. now \in Int /\ now' \in Int /\ now <= now'
    <3>1. now' = now \/ Tick
      BY DEF Next, Dispatch, Start, Reschedule, LoseSchedule, Crash, Step,
         TimerStart, Claim, ClaimError, Send, SendError, vars
    <3>2. now \in Int
      BY UpdatesAssumption DEF IInv, TypeOK, Instants
    <3> QED
      BY <3>1, <3>2 DEF Tick
  <2>2. CASE d \in calls
    <3>1. d.at \in Int
      BY <2>2, CallTypes, UpdatesAssumption DEF IInv, Instants
    <3> QED
      BY <2>1, <2>2, <3>1 DEF NotEarly
  <2>3. CASE d \notin calls
    <3>1. PICK c \in calls : (TimerStart(c) /\ d = Claiming(c))
                             \/ (Claim(c) /\ d = [c EXCEPT !.stage = "send"])
      BY <2>3 DEF Next, Tick, Dispatch, Dispatched, Start, Reschedule, LoseSchedule, Crash,
         Step, TimerStart, Claim, ClaimError, Send, SendError, Continue, Return, vars
    <3>2. CASE TimerStart(c) /\ d = Claiming(c)
      BY <2>1, <3>2 DEF Claiming
    <3>3. CASE Claim(c) /\ d = [c EXCEPT !.stage = "send"]
      <4>1. d.at = c.at /\ c.stage = "claim" /\ c.at \in Int
        BY <3>3, SendingFields, CallTypes, UpdatesAssumption DEF IInv, Claim, Instants
      <4> QED
        BY <2>1, <4>1 DEF NotEarly
    <3> QED
      BY <3>1, <3>2, <3>3
  <2> QED
    BY <2>2, <2>3
<1> QED BY <1>1, <1>2, Invariance, PTL DEF Spec

\* The occurrence of a callback that is about to claim falls to a time that has come.
LEMMA ClaimIsDue ==
    ASSUME IInv, NotEarly, NEW c \in calls, c.stage = "claim", Occurrence(c) \notin claims,
           claims' = claims \cup {Occurrence(c)}, UNCHANGED <<now, sends>>
    PROVE  Delivered!DeliveryNext
<1>1. c.schedule \in Plans /\ c.at \in Instants /\ Occurrence(c) \in Keys
  BY CallTypes DEF IInv
<1>2. c.at \in 0 .. now
  BY <1>1, UpdatesAssumption DEF NotEarly, IInv, TypeOK, Instants
<1>3. Prescribed(c.schedule, Wall[c.schedule.zone][c.at])
  BY DEF IInv, OnlyPrescribed
<1>4. Occurrence(c) \in Due[c.at]
  BY <1>1, <1>3 DEF Due, Occurrence
<1> QED BY <1>1, <1>2, <1>4 DEF Delivered!DeliveryNext, Delivered!Claim

\* Each occurrence is claimed once, when a schedule prescribes it and not before its
\* minute, and its claim is answered by one message or none, whatever fails or dies.
THEOREM UpdatesAreDelivered == Spec => ImplementsDeliveries
<1>1. Init => Delivered!DeliveryInit
  BY DEF Init, Delivered!DeliveryInit
<1>2. IInv /\ NotEarly /\ [Next]_vars => [Delivered!DeliveryNext]_Delivered!deliveryVars
  <2> SUFFICES ASSUME IInv, NotEarly, [Next]_vars
               PROVE  Delivered!DeliveryNext \/ UNCHANGED Delivered!deliveryVars
    OBVIOUS
  <2> USE DEF Delivered!deliveryVars, procVars
  <2>1. CASE Tick
    BY <2>1 DEF Tick, Delivered!DeliveryNext, Delivered!Pass
  <2>2. ASSUME NEW p \in Procs,
               \/ \E j \in due[p] : Dispatch(p, j)
               \/ Start(p) \/ Reschedule(p) \/ LoseSchedule(p) \/ Crash(p)
        PROVE  UNCHANGED Delivered!deliveryVars
    BY <2>2 DEF Dispatch, Start, Reschedule, LoseSchedule, Crash
  <2>3. ASSUME NEW c \in calls, Claim(c) \/ ClaimError(c)
        PROVE  Delivered!DeliveryNext \/ UNCHANGED Delivered!deliveryVars
    BY <2>3, ClaimIsDue DEF Claim, ClaimError
  <2>4. ASSUME NEW c \in calls, Send(c)
        PROVE  Delivered!DeliveryNext
    <3>1. /\ Occurrence(c) \in Keys /\ Occurrence(c) \in claims
          /\ sends[Occurrence(c)] = 0
      BY <2>4, CallTypes DEF Send, IInv, SenderOwns
    <3>2. sends' = [sends EXCEPT ![Occurrence(c)] = 1]
      BY <2>4, <3>1 DEF Send
    <3> QED
      BY <2>4, <3>1, <3>2 DEF Send, Delivered!DeliveryNext, Delivered!Deliver
  <2>5. ASSUME NEW c \in calls, TimerStart(c) \/ SendError(c)
        PROVE  UNCHANGED Delivered!deliveryVars
    BY <2>5 DEF TimerStart, SendError
  <2>6. CASE UNCHANGED vars
    BY <2>6 DEF vars
  <2> QED
    BY <2>1, <2>2, <2>3, <2>4, <2>5, <2>6 DEF Next, Step
<1> QED
  BY <1>1, <1>2, Invariance, NeverEarly, PTL
  DEF Spec, ImplementsDeliveries, Delivered!DeliverySpec

(***************************************************************************)
(* PromptSpec: when nothing fails, each prescribed minute has its update.  *)
(* Until it is claimed, a job for it is due or its callback under way; and *)
(* who has claimed it sends before the clock goes on.                      *)
(***************************************************************************)
Here(p) == Wall[active[p].zone][now]

\* The job is one of the active schedule and is there for this minute.
Serves(p, j) == j \in jobs[p] /\ FiresAt(j.kind, active[p], Here(p).time)

RegisteredInv ==
    \A p \in Procs :
        /\ active[p] # None => generation[p] # None
        /\ settled[p] => active[p] # None

DueInv ==
    \A p \in Procs : \A j \in due[p], c \in calls : ~(c.proc = p /\ c.job = j)

ClaimedInv ==
    \A k \in claims :
        sends[k] = 1 \/ \E c \in calls : c.stage = "send" /\ Occurrence(c) = k

UnderWay(p) ==
    \/ \E j \in due[p] : Serves(p, j)
    \/ \E c \in calls : c.stage = "dispatched" /\ c.proc = p /\ Serves(p, c.job)
    \/ \E c \in calls : c.stage = "claim" /\ Occurrence(c) = KeyAt(active[p], now)
    \/ KeyAt(active[p], now) \in claims

PendingInv ==
    \A p \in Procs : settled[p] /\ Prescribed(active[p], Here(p)) => UnderWay(p)

PInv == IInv /\ RegisteredInv /\ DueInv /\ ClaimedInv /\ PendingInv

\* The cron expression, the test of a callback and the boundaries agree.
LEMMA CronBoundaries ==
    ASSUME NEW f \in SupportedFrequencies, NEW time \in MinutesOfDay
    PROVE  /\ time % 60 \in CronMinutes(f) => IsRecurringBoundary(time, f)
           /\ IsBoundary(time, f) => time % 60 \in CronMinutes(f)
<1>1. time % 60 \in 0 .. 59
  BY DEF MinutesOfDay
<1>2. ASSUME time % 60 \in CronMinutes(f)
      PROVE  IsRecurringBoundary(time, f)
  <2>1. CASE f = 1  BY <1>1, <2>1 DEF IsRecurringBoundary
  <2>2. CASE f = 60 BY <1>1, <1>2, <2>2 DEF IsRecurringBoundary, CronMinutes
  <2>3. CASE f \in {5, 10, 15, 30}
    <3>1. PICK k \in 0 .. 59 : time % 60 = k * f
      BY <1>2, <2>3 DEF CronMinutes
    <3>2. (k * f) % f = 0
      BY <2>3
    <3> QED BY <3>1, <3>2 DEF IsRecurringBoundary
  <2> QED BY <2>1, <2>2, <2>3 DEF SupportedFrequencies
<1>3. ASSUME IsBoundary(time, f)
      PROVE  time % 60 \in CronMinutes(f)
  <2>1. PICK hour \in 0 .. 23, k \in 0 .. (60 \div f) - 1 : time = 60 * hour + k * f
    BY <1>3 DEF IsBoundary
  <2>2. CASE f = 1  BY <1>1, <2>2 DEF CronMinutes
  <2>3. CASE f = 60 BY <2>1, <2>3 DEF CronMinutes
  <2>4. CASE f \in {5, 10, 15, 30}
    <3>1. k \in 0 .. 59 /\ k * f \in 0 .. 59
      BY <2>1, <2>4
    <3>2. time % 60 = k * f
      BY <2>1, <2>4, <3>1
    <3> QED BY <2>4, <3>1, <3>2 DEF CronMinutes
  <2> QED BY <2>2, <2>3, <2>4 DEF SupportedFrequencies
<1> QED BY <1>2, <1>3

\* For each prescribed minute of a schedule it has a job: no minute is lost between the
\* opening job and the recurring one.
LEMMA PrescribedHasJob ==
    ASSUME NEW s \in ScheduleConfig, NEW wall \in WallClock, Prescribed(s, wall)
    PROVE  \E k \in JobKinds(s) : FiresAt(k, s, wall.time)
<1>1. wall.time \in MinutesOfDay
  BY DEF WallClock
<1>2. CASE IsBoundary(wall.time, s.frequency)
  <2>1. wall.time % 60 \in CronMinutes(s.frequency)
    BY <1>1, <1>2, ScheduleMinutes, CronBoundaries
  <2> QED BY <2>1 DEF FiresAt, JobKinds, Kinds
<1>3. CASE wall.time = s.start
  <2>1. CASE IsRecurringBoundary(s.start, s.frequency)
    <3>1. IsBoundary(wall.time, s.frequency)
      BY <1>1, <1>3, <2>1, ScheduleMinutes, BoundaryMinutes
    <3> QED BY <1>2, <3>1
  <2>2. CASE ~IsRecurringBoundary(s.start, s.frequency)
    BY <1>3, <2>2 DEF FiresAt, JobKinds, Kinds
  <2> QED BY <2>1, <2>2
<1> QED BY <1>2, <1>3 DEF Prescribed

\* And only one: the minutes that a schedule prescribes are those in its window at which
\* exactly one of its jobs fires, so no minute is lost between the opening job and the
\* recurring one, and none is served by both.
THEOREM OneJobPerMinute ==
    ASSUME NEW s \in ScheduleConfig, NEW wall \in WallClock
    PROVE  Prescribed(s, wall) <=>
               /\ wall.fold = 0
               /\ InWindow(wall.time, s)
               /\ \E k \in JobKinds(s) :
                     /\ FiresAt(k, s, wall.time)
                     /\ \A l \in JobKinds(s) : FiresAt(l, s, wall.time) => l = k
<1>1. wall.time \in MinutesOfDay /\ s.frequency \in SupportedFrequencies
  BY ScheduleMinutes DEF WallClock
<1>2. InWindow(wall.time, s) <=> (wall.time - s.start) % 1440 <= (s.end - s.start) % 1440
  BY <1>1, WindowIsCyclic
<1>3. ASSUME NEW k \in JobKinds(s), NEW l \in JobKinds(s),
             FiresAt(k, s, wall.time), FiresAt(l, s, wall.time), k # l
      PROVE  FALSE
  <2>1. wall.time = s.start /\ wall.time % 60 \in CronMinutes(s.frequency)
    BY <1>3 DEF JobKinds, Kinds, FiresAt
  <2>2. ~IsRecurringBoundary(s.start, s.frequency)
    BY <1>3 DEF JobKinds, Kinds
  <2> QED
    BY <1>1, <2>1, <2>2, CronBoundaries
<1>4. ASSUME NEW k \in JobKinds(s), FiresAt(k, s, wall.time)
      PROVE  wall.time = s.start \/ IsBoundary(wall.time, s.frequency)
  BY <1>1, <1>4, CronBoundaries, BoundaryMinutes DEF FiresAt
<1>5. CASE Prescribed(s, wall)
  BY <1>2, <1>3, <1>5, PrescribedHasJob DEF Prescribed
<1>6. CASE ~Prescribed(s, wall)
  BY <1>2, <1>4, <1>6 DEF Prescribed
<1> QED BY <1>5, <1>6

\* The wall clock of a process with an active schedule.
LEMMA Walls ==
    ASSUME TypeOK, NEW p \in Procs, active[p] # None, NEW t \in Instants
    PROVE  /\ active[p] \in Plans /\ active[p] \in ScheduleConfig
           /\ Wall[active[p].zone][t] \in WallClock
<1>1. active[p] \in Plans /\ active[p] \in ScheduleConfig
  BY UpdatesAssumption DEF TypeOK
<1>2. active[p].zone \in Zones
  BY <1>1 DEF ScheduleConfig
<1> QED BY <1>1, <1>2, UpdatesAssumption

\* The callback of a job that serves the minute is accepted.
LEMMA ServingIsAccepted ==
    ASSUME IInv, RegisteredInv, NEW c \in calls,
           settled[c.proc], Prescribed(active[c.proc], Here(c.proc)), Serves(c.proc, c.job)
    PROVE  Accepts(c) /\ InActiveWindow(c)
<1> DEFINE p == c.proc
           s == active[p]
           time == Here(p).time
<1>1. p \in Procs /\ s # None /\ generation[p] # None /\ now \in Instants
  BY CallTypes DEF IInv, TypeOK, RegisteredInv
<1>2. s \in ScheduleConfig /\ Here(p) \in WallClock
  BY <1>1, Walls DEF IInv, Here
<1>3. /\ s.frequency \in SupportedFrequencies /\ time \in MinutesOfDay
      /\ s.start \in MinutesOfDay
  BY <1>2, ScheduleMinutes DEF WallClock
<1>4. c.job \in JobsFor(s, generation[p])
  BY <1>1 DEF Serves, IInv, QueueInv
<1>5. c.job.generation = generation[p] /\ c.job.kind \in JobKinds(s)
  BY <1>4 DEF JobsFor
<1>6. FiresAt(c.job.kind, s, time) /\ Here(p).fold = 0
  BY DEF Serves, Prescribed
<1>7. IF c.job.kind = "cron"
      THEN IsRecurringBoundary(time, s.frequency)
      ELSE time = s.start /\ ~IsRecurringBoundary(s.start, s.frequency)
  <2>1. CASE c.job.kind = "cron"
    BY <1>3, <1>6, <2>1, CronBoundaries DEF FiresAt
  <2>2. CASE c.job.kind # "cron"
    BY <1>5, <1>6, <2>2 DEF FiresAt, JobKinds
  <2> QED BY <2>1, <2>2
<1>8. InWindow(time, s)
  BY <1>2, <1>3, WindowIsCyclic DEF Prescribed
<1> QED BY <1>1, <1>5, <1>6, <1>7, <1>8 DEF Accepts, InActiveWindow, Here

LEMMA PromptInit == Init => PInv
<1>1. Init => IInv
  BY InitIInv
<1> QED BY <1>1 DEF Init, PInv, RegisteredInv, DueInv, ClaimedInv, PendingInv

LEMMA PromptTick ==
    ASSUME PInv, Tick, calls = {}
    PROVE  RegisteredInv' /\ DueInv' /\ ClaimedInv' /\ PendingInv'
<1> USE DEF PInv, IInv
<1>1. now' \in Instants /\ UNCHANGED <<active, jobs, generation>>
  BY UpdatesAssumption DEF Tick, TypeOK, Instants
<1>2. RegisteredInv' /\ DueInv' /\ ClaimedInv'
  BY DEF Tick, TypeOK, RegisteredInv, DueInv, ClaimedInv
<1>3. ASSUME NEW p \in Procs, settled'[p], Prescribed(active'[p], Here(p)')
      PROVE  \E j \in due'[p] : j \in jobs'[p] /\ FiresAt(j.kind, active'[p], Here(p)'.time)
  <2> DEFINE s == active[p]
             wall == Wall[s.zone][now']
  <2>1. active[p] # None /\ generation[p] # None
    BY <1>3 DEF Tick, RegisteredInv
  <2>2. s \in ScheduleConfig /\ wall \in WallClock
    BY <1>1, <2>1, Walls
  <2>3. Prescribed(s, wall) /\ wall = Here(p)'
    BY <1>1, <1>3 DEF Here
  <2> HIDE DEF wall
  <2>4. PICK k \in JobKinds(s) : FiresAt(k, s, wall.time)
    BY <2>2, <2>3, PrescribedHasJob
  <2> DEFINE j == [kind |-> k, schedule |-> s, generation |-> generation[p]]
  <2>5. j \in jobs[p]
    BY <2>1 DEF QueueInv, JobsFor
  <2>6. Fires(j, now')
    BY <2>3, <2>4 DEF Fires, Prescribed, wall
  <2>7. j \in due'[p]
    BY <2>5, <2>6 DEF Tick
  <2> QED BY <1>1, <2>3, <2>4, <2>5, <2>7
<1>4. PendingInv'
  BY <1>3 DEF PendingInv, UnderWay, Serves
<1> QED BY <1>2, <1>4

LEMMA PromptDispatch ==
    ASSUME PInv, NEW p \in Procs, NEW j \in due[p], Dispatch(p, j)
    PROVE  RegisteredInv' /\ DueInv' /\ ClaimedInv' /\ PendingInv'
<1> USE DEF PInv, IInv
<1> DEFINE d == Dispatched(p, j)
<1>1. calls' = calls \cup {d}
  BY DEF Dispatch, DueInv
<1>2. d.stage = "dispatched" /\ d.proc = p /\ d.job = j
  BY DEF Dispatched
<1> HIDE DEF d
<1>3. /\ UNCHANGED <<now, up, jobs, active, generation, settled, claims, sends>>
      /\ due' = [due EXCEPT ![p] = @ \ {j}]
  BY DEF Dispatch, procVars
<1>4. /\ due'[p] = due[p] \ {j}
      /\ \A q \in Procs : q # p => due'[q] = due[q]
  BY <1>3 DEF TypeOK
<1>5. RegisteredInv' /\ DueInv' /\ ClaimedInv'
  BY <1>1, <1>2, <1>3, <1>4 DEF RegisteredInv, DueInv, ClaimedInv, Occurrence
<1>6. ASSUME NEW q \in Procs, UnderWay(q)
      PROVE  UnderWay(q)'
  <2>1. \A i : Serves(q, i) => Serves(q, i)'
    BY <1>3 DEF Serves, Here
  <2>2. ASSUME NEW i \in due[q], Serves(q, i)
        PROVE  UnderWay(q)'
    <3>1. CASE q = p /\ i = j
      BY <1>1, <1>2, <2>1, <2>2, <3>1 DEF UnderWay
    <3>2. CASE ~(q = p /\ i = j)
      <4>1. i \in due'[q]
        BY <1>4, <2>2, <3>2
      <4> QED BY <2>1, <2>2, <4>1 DEF UnderWay
    <3> QED BY <3>1, <3>2
  <2>3. ASSUME NEW c \in calls, c.stage = "dispatched", c.proc = q, Serves(q, c.job)
        PROVE  UnderWay(q)'
    BY <1>1, <2>1, <2>3 DEF UnderWay
  <2>4. ASSUME NEW c \in calls, c.stage = "claim", Occurrence(c) = KeyAt(active[q], now)
        PROVE  UnderWay(q)'
    BY <1>1, <1>3, <2>4 DEF UnderWay, KeyAt, Occurrence
  <2>5. CASE KeyAt(active[q], now) \in claims
    BY <1>3, <2>5 DEF UnderWay, KeyAt
  <2> QED BY <1>6, <2>2, <2>3, <2>4, <2>5 DEF UnderWay
<1>7. PendingInv'
  BY <1>3, <1>6 DEF PendingInv, Here
<1> QED BY <1>5, <1>7

LEMMA PromptRegister ==
    ASSUME PInv, NEW p \in Procs, NEW s \in Plans, Register(p, s),
           UNCHANGED <<now, calls, claims, sends>>
    PROVE  RegisteredInv' /\ DueInv' /\ ClaimedInv' /\ PendingInv'
<1> USE DEF PInv, IInv
<1>1. /\ active'[p] # None /\ generation'[p] # None /\ ~settled'[p] /\ due'[p] = {}
      /\ \A q \in Procs : q # p => /\ active'[q] = active[q] /\ generation'[q] = generation[q]
                                   /\ settled'[q] = settled[q] /\ due'[q] = due[q]
                                   /\ jobs'[q] = jobs[q]
  BY UpdatesAssumption DEF Register, Fresh, TypeOK
<1>2. RegisteredInv' /\ DueInv'
  BY <1>1 DEF RegisteredInv, DueInv
<1>3. ClaimedInv'
  BY DEF ClaimedInv
<1>4. PendingInv'
  BY <1>1 DEF PendingInv, UnderWay, Serves, Here
<1> QED BY <1>2, <1>3, <1>4

LEMMA PromptTimerStart ==
    ASSUME PInv, NEW c \in calls, TimerStart(c)
    PROVE  RegisteredInv' /\ DueInv' /\ ClaimedInv' /\ PendingInv'
<1> USE DEF PInv, IInv
<1> DEFINE d == Claiming(c)
<1>1. /\ UNCHANGED <<now, up, jobs, active, generation, settled, due, claims, sends>>
      /\ c.stage = "dispatched"
      /\ \/ calls' = calls \ {c} /\ ~(Accepts(c) /\ InActiveWindow(c))
         \/ calls' = (calls \ {c}) \cup {d}
  BY DEF TimerStart, procVars, Continue, Return
<1>2. /\ d.stage = "claim" /\ d.proc = c.proc /\ d.job = c.job
      /\ Occurrence(d) = KeyAt(active[c.proc], now)
  BY DEF Claiming, Occurrence
<1> HIDE DEF d
<1>3. RegisteredInv' /\ DueInv'
  BY <1>1, <1>2 DEF RegisteredInv, DueInv
<1>4. ClaimedInv'
  BY <1>1 DEF ClaimedInv
<1>5. ASSUME NEW p \in Procs, settled[p], Prescribed(active[p], Here(p)), UnderWay(p)
      PROVE  UnderWay(p)'
  <2>1. CASE c.proc = p /\ Serves(p, c.job)
    <3>1. calls' = (calls \ {c}) \cup {d}
      BY <1>1, <1>5, <2>1, ServingIsAccepted
    <3> QED BY <1>1, <1>2, <2>1, <3>1 DEF UnderWay
  <2>2. CASE ~(c.proc = p /\ Serves(p, c.job))
    BY <1>1, <1>5, <2>2 DEF UnderWay, Serves, Here, KeyAt, Occurrence
  <2> QED BY <2>1, <2>2
<1>6. PendingInv'
  BY <1>1, <1>5 DEF PendingInv, Here
<1> QED BY <1>3, <1>4, <1>6

LEMMA PromptClaim ==
    ASSUME PInv, NEW c \in calls, Claim(c)
    PROVE  RegisteredInv' /\ DueInv' /\ ClaimedInv' /\ PendingInv'
<1> USE DEF PInv, IInv
<1> DEFINE d == [c EXCEPT !.stage = "send"]
           k == Occurrence(c)
<1>1. Wall[c.schedule.zone][c.at].fold = 0 /\ c.stage = "claim"
  BY DEF Claim, OnlyPrescribed, Prescribed
<1>2. d.stage = "send" /\ d.proc = c.proc /\ d.job = c.job /\ Occurrence(d) = k
  BY SendingFields DEF Occurrence
<1>3. /\ UNCHANGED <<now, up, jobs, active, generation, settled, due, sends>>
      /\ claims' = claims \cup {k}
      /\ \/ k \in claims /\ calls' = calls \ {c}
         \/ calls' = (calls \ {c}) \cup {d}
  BY <1>1 DEF Claim, procVars, Continue, Return
<1> HIDE DEF d, k
<1>4. RegisteredInv' /\ DueInv'
  BY <1>2, <1>3 DEF RegisteredInv, DueInv
<1>5. ClaimedInv'
  BY <1>1, <1>2, <1>3 DEF ClaimedInv
<1>6. ASSUME NEW p \in Procs, UnderWay(p)
      PROVE  UnderWay(p)'
  BY <1>1, <1>3, <1>6 DEF UnderWay, Serves, Here, KeyAt, Occurrence, k
<1>7. PendingInv'
  BY <1>3, <1>6 DEF PendingInv, Here
<1> QED BY <1>4, <1>5, <1>7

LEMMA PromptSend ==
    ASSUME PInv, NEW c \in calls, Send(c)
    PROVE  RegisteredInv' /\ DueInv' /\ ClaimedInv' /\ PendingInv'
<1> USE DEF PInv, IInv
<1> DEFINE k == Occurrence(c)
<1>1. /\ UNCHANGED <<now, up, jobs, active, generation, settled, due, claims>>
      /\ calls' = calls \ {c} /\ c.stage = "send"
      /\ sends' = [sends EXCEPT ![k] = @ + 1]
  BY DEF Send, procVars, Return
<1>2. k \in Keys /\ sends[k] = 0 /\ sends \in [Keys -> Nat]
  BY <1>1, CallTypes DEF SenderOwns, TypeOK
<1>3. sends'[k] = 1 /\ \A l \in Keys : l # k => sends'[l] = sends[l]
  BY <1>1, <1>2
<1>4. claims \subseteq Keys
  BY DEF TypeOK
<1> HIDE DEF k
<1>5. RegisteredInv' /\ DueInv'
  BY <1>1 DEF RegisteredInv, DueInv
<1>6. ClaimedInv'
  BY <1>1, <1>3, <1>4 DEF ClaimedInv, k
<1>7. ASSUME NEW p \in Procs, UnderWay(p)
      PROVE  UnderWay(p)'
  BY <1>1, <1>7 DEF UnderWay, Serves, Here, KeyAt, Occurrence
<1>8. PendingInv'
  BY <1>1, <1>7 DEF PendingInv, Here
<1> QED BY <1>5, <1>6, <1>8

LEMMA PromptInvariance == PromptSpec => []PInv
<1>1. PInv /\ [PromptNext]_vars => PInv'
  <2> SUFFICES ASSUME PInv, [PromptNext]_vars PROVE PInv'
    OBVIOUS
  <2>1. IInv'
    BY NextIInv DEF PInv, PromptNext, Next, Step
  <2>2. CASE Tick /\ calls = {}
    BY <2>1, <2>2, PromptTick DEF PInv
  <2>3. ASSUME NEW p \in Procs, NEW j \in due[p], Dispatch(p, j)
        PROVE  PInv'
    BY <2>1, <2>3, PromptDispatch DEF PInv
  <2>4. ASSUME NEW p \in Procs, Start(p) \/ Reschedule(p)
        PROVE  PInv'
    <3>1. PICK s \in Plans : Register(p, s)
      BY <2>4 DEF Start, Reschedule
    <3>2. UNCHANGED <<now, calls, claims, sends>>
      BY <2>4 DEF Start, Reschedule
    <3> QED BY <2>1, <3>1, <3>2, PromptRegister DEF PInv
  <2>5. ASSUME NEW c \in calls, TimerStart(c) \/ Claim(c) \/ Send(c)
        PROVE  PInv'
    BY <2>1, <2>5, PromptTimerStart, PromptClaim, PromptSend DEF PInv
  <2>6. CASE UNCHANGED vars
    BY <2>1, <2>6 DEF vars, PInv, RegisteredInv, DueInv, ClaimedInv, PendingInv, UnderWay,
                      Serves, Here, KeyAt, Occurrence
  <2> QED BY <2>2, <2>3, <2>4, <2>5, <2>6 DEF PromptNext
<1> QED BY <1>1, PromptInit, PTL DEF PromptSpec

\* When nothing fails and callbacks end within their minute, each prescribed minute of
\* a schedule that was registered before it gets its update, for every window, every
\* frequency and every wall clock.
THEOREM NothingMissed == PromptSpec => NoneMissed
<1> DEFINE Sent ==
        now' # now =>
          \A p \in Procs :
              settled[p]
              /\ Prescribed(active[p], Wall[active[p].zone][now])
                  => sends[KeyAt(active[p], now)] = 1
<1>1. PInv /\ [PromptNext]_vars => [Sent]_vars
  <2> SUFFICES ASSUME PInv, PromptNext, now' # now, NEW p \in Procs,
                      settled[p], Prescribed(active[p], Wall[active[p].zone][now])
               PROVE  sends[KeyAt(active[p], now)] = 1
    OBVIOUS
  <2>1. calls = {} /\ \A q \in Procs : due[q] = {}
    BY DEF PromptNext, Dispatch, Start, Reschedule, TimerStart, Claim, Send
  <2>2. UnderWay(p)
    BY DEF PInv, PendingInv, Here
  <2>3. KeyAt(active[p], now) \in claims
    BY <2>1, <2>2 DEF UnderWay
  <2> QED BY <2>1, <2>3 DEF PInv, ClaimedInv
<1> QED BY <1>1, PromptInvariance, PTL DEF PromptSpec, NoneMissed

=============================================================================
