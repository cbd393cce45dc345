----------------------- MODULE SchedulerService_proofs -----------------------
(***************************************************************************)
(* Proofs about SchedulerService, for every set of frequencies, times,     *)
(* zones and identifiers.                                                  *)
(***************************************************************************)
EXTENDS SchedulerService, TLAPS

(***************************************************************************)
(* The inductive invariant.  What is queued depends on where the call is:  *)
(* nothing when jobs are about to be registered, otherwise the old jobs or *)
(* those of the registration that failed.  Together with the generation    *)
(* being invalid during the whole call, this gives the invariants.         *)
(***************************************************************************)
CallInvalidatesGeneration == stage # "idle" => generation = None

CallRemembersRollback == stage # "idle" /\ call.rollback = None => active = None

CallIdIsNew ==
    stage # "idle" =>
        /\ call.id # call.replaced
        /\ \A j \in call.queued : j.generation # call.id

FailedRegistration(schedule) ==
    schedule # None /\ jobs \subseteq JobsFor(schedule, call.id)

QueuedAtStage ==
    /\ stage = "remove" => jobs = call.queued
    /\ stage \in {"register", "restore"} => jobs = {}
    /\ stage = "cleanup" =>
           jobs \subseteq call.queued \/ FailedRegistration(call.candidate)
    /\ stage = "discard" => FailedRegistration(call.rollback)
    /\ stage = "restore" => call.rollback # None

IInv ==
    /\ TypeOK
    /\ QueueMatchesPublished
    /\ OneGenerationQueued
    /\ CallInvalidatesGeneration
    /\ CallRemembersRollback
    /\ CallIdIsNew
    /\ QueuedAtStage

(***************************************************************************)
(* Facts about the jobs of a schedule.                                     *)
(***************************************************************************)
LEMMA JobsForType ==
    ASSUME NEW s \in ScheduleConfig, NEW g \in Generations
    PROVE  /\ JobsFor(s, g) \subseteq Job(Generations)
           /\ \A j \in JobsFor(s, g) : j.generation = g
BY DEF JobsFor, Job, JobKinds, Kinds

LEMMA CallUnderWay ==
    ASSUME stage # "idle", TypeOK
    PROVE  call \in Call
BY DEF TypeOK

LEMMA InitIInv == Init => IInv
BY DEF Init, IInv, TypeOK, QueueMatchesPublished, OneGenerationQueued, Stages,
       CallInvalidatesGeneration, CallRemembersRollback, CallIdIsNew, QueuedAtStage

(***************************************************************************)
(* One lemma per action.                                                   *)
(***************************************************************************)
LEMMA BeginIInv ==
    ASSUME IInv,
           NEW candidate \in ScheduleConfig, NEW rollback \in ScheduleConfig \cup {None},
           Begin(candidate, rollback)
    PROVE  IInv'
<1>1. PICK g \in Generations :
        /\ Fresh(g)
        /\ call' = [candidate |-> candidate,
                    rollback |-> IF rollback = None THEN active ELSE rollback,
                    id |-> g, queued |-> jobs, replaced |-> generation]
  BY DEF Begin
<1>2. TypeOK /\ call' \in Call
  BY <1>1 DEF IInv, TypeOK, Call
<1>3. TypeOK'
  BY <1>2 DEF TypeOK, Begin, Stages
<1>4. QueueMatchesPublished' /\ CallInvalidatesGeneration'
  BY GenerationsAssumption DEF Begin, QueueMatchesPublished, CallInvalidatesGeneration
<1>5. OneGenerationQueued'
  BY DEF IInv, Begin, OneGenerationQueued
<1>6. CallRemembersRollback'
  BY <1>1, <1>2 DEF Begin, CallRemembersRollback
<1>7. CallIdIsNew'
  BY <1>1 DEF Fresh, CallIdIsNew
<1>8. QueuedAtStage'
  BY <1>1 DEF Begin, QueuedAtStage
<1> QED
  BY <1>3, <1>4, <1>5, <1>6, <1>7, <1>8 DEF IInv

LEMMA RemoveIInv ==
    ASSUME IInv, Remove
    PROVE  IInv'
<1>1. PICK r \in Removals : /\ jobs' = r.left
                            /\ stage' = IF r.raised THEN "cleanup" ELSE "register"
  BY DEF Remove
<1>2. r.left \subseteq jobs /\ (~r.raised => r.left = {})
  BY <1>1 DEF Removals
<1>3. jobs = call.queued /\ generation = None /\ call \in Call
  BY CallUnderWay DEF IInv, Remove, QueuedAtStage, CallInvalidatesGeneration
<1>4. TypeOK'
  BY <1>1, <1>2, <1>3 DEF IInv, Remove, TypeOK, Stages
<1>5. QueueMatchesPublished' /\ OneGenerationQueued' /\ CallInvalidatesGeneration'
      /\ CallRemembersRollback' /\ CallIdIsNew'
  BY <1>1, <1>2, <1>3 DEF IInv, Remove, QueueMatchesPublished, OneGenerationQueued,
     CallInvalidatesGeneration, CallRemembersRollback, CallIdIsNew
<1>6. QueuedAtStage'
  BY <1>1, <1>2, <1>3 DEF Remove, QueuedAtStage
<1> QED
  BY <1>4, <1>5, <1>6 DEF IInv

\* A registration into an empty queue, of the candidate or of the rollback schedule.
LEMMA RegistrationFacts ==
    ASSUME NEW s \in ScheduleConfig, NEW g \in Generations,
           NEW r \in Registrations(s, g)
    PROVE  /\ r.added \subseteq JobsFor(s, g)
           /\ r.added \subseteq Job(Generations)
           /\ \A j, k \in r.added : j.generation = k.generation
           /\ ~r.raised => r.added = JobsFor(s, g)
<1>1. r.added \subseteq JobsFor(s, g) /\ (~r.raised => r.added = JobsFor(s, g))
  BY DEF Registrations
<1> QED
  BY <1>1, JobsForType

LEMMA RegisterCandidateIInv ==
    ASSUME IInv, RegisterCandidate
    PROVE  IInv'
<1>1. stage = "register" /\ jobs = {} /\ generation = None /\ call \in Call
  BY CallUnderWay DEF IInv, RegisterCandidate, QueuedAtStage, CallInvalidatesGeneration
<1>2. call.candidate \in ScheduleConfig /\ call.id \in Generations
  BY <1>1 DEF Call
<1>3. PICK r \in Registrations(call.candidate, call.id) :
        /\ jobs' = jobs \cup r.added
        /\ IF r.raised
           THEN /\ stage' = "cleanup"
                /\ UNCHANGED <<active, generation, health, outcome, call>>
           ELSE Publish(call.candidate, "scheduled")
  BY DEF RegisterCandidate
<1>4. /\ jobs' = r.added
      /\ r.added \subseteq JobsFor(call.candidate, call.id)
      /\ r.added \subseteq Job(Generations)
      /\ \A j, k \in r.added : j.generation = k.generation
      /\ ~r.raised => r.added = JobsFor(call.candidate, call.id)
  BY <1>1, <1>2, <1>3, RegistrationFacts
<1>5. CASE r.raised
  <2>1. stage' = "cleanup" /\ UNCHANGED <<active, generation, health, outcome, call>>
    BY <1>3, <1>5
  <2>2. TypeOK'
    BY <2>1, <1>1, <1>4 DEF IInv, TypeOK, Stages
  <2>3. QueuedAtStage'
    BY <2>1, <1>2, <1>4, SchedulesAssumption DEF QueuedAtStage, FailedRegistration
  <2>4. QueueMatchesPublished' /\ OneGenerationQueued' /\ CallInvalidatesGeneration'
        /\ CallRemembersRollback' /\ CallIdIsNew'
    BY <2>1, <1>1, <1>4 DEF IInv, QueueMatchesPublished, OneGenerationQueued,
       CallInvalidatesGeneration, CallRemembersRollback, CallIdIsNew
  <2> QED
    BY <2>2, <2>3, <2>4 DEF IInv
<1>6. CASE ~r.raised
  <2>1. Publish(call.candidate, "scheduled")
    BY <1>3, <1>6
  <2>2. TypeOK'
    BY <2>1, <1>2, <1>4 DEF TypeOK, Publish, Stages
  <2>3. QueueMatchesPublished' /\ OneGenerationQueued'
    BY <2>1, <1>4, <1>6 DEF Publish, QueueMatchesPublished, OneGenerationQueued
  <2>4. CallInvalidatesGeneration' /\ CallRemembersRollback' /\ CallIdIsNew'
        /\ QueuedAtStage'
    BY <2>1 DEF Publish, CallInvalidatesGeneration, CallRemembersRollback,
       CallIdIsNew, QueuedAtStage
  <2> QED
    BY <2>2, <2>3, <2>4 DEF IInv
<1> QED
  BY <1>5, <1>6

\* The end of a call that failed: what is still queued stays, nothing is active.
LEMMA FailDegradedIInv ==
    ASSUME NEW result \in {"registration_error", "rollback_error"},
           FailDegraded(result),
           jobs' \subseteq Job(Generations),
           \A j, k \in jobs' : j.generation = k.generation
    PROVE  IInv'
<1>1. TypeOK'
  BY DEF FailDegraded, TypeOK, Stages
<1>2. QueueMatchesPublished' /\ OneGenerationQueued'
  BY DEF FailDegraded, QueueMatchesPublished, OneGenerationQueued
<1>3. CallInvalidatesGeneration' /\ CallRemembersRollback' /\ CallIdIsNew' /\ QueuedAtStage'
  BY DEF FailDegraded, CallInvalidatesGeneration, CallRemembersRollback, CallIdIsNew,
     QueuedAtStage
<1> QED
  BY <1>1, <1>2, <1>3 DEF IInv

LEMMA CleanupIInv ==
    ASSUME IInv, Cleanup
    PROVE  IInv'
<1>1. stage = "cleanup" /\ generation = None /\ call \in Call
  BY CallUnderWay DEF IInv, Cleanup, CallInvalidatesGeneration
<1>2. PICK r \in Removals :
        /\ jobs' = r.left
        /\ \/ r.raised /\ FailDegraded("rollback_error")
           \/ /\ ~r.raised /\ call.rollback = None
              /\ FailDegraded("registration_error")
           \/ /\ ~r.raised /\ call.rollback # None
              /\ \E g \in Generations : Fresh(g) /\ call' = [call EXCEPT !.id = g]
              /\ stage' = "restore"
              /\ UNCHANGED <<active, generation, health, outcome>>
  BY DEF Cleanup
<1>3. /\ r.left \subseteq jobs
      /\ ~r.raised => r.left = {}
  BY <1>2 DEF Removals
<1>4. jobs' \subseteq Job(Generations) /\ \A j, k \in jobs' : j.generation = k.generation
  BY <1>2, <1>3 DEF IInv, TypeOK, OneGenerationQueued
<1>5. CASE FailDegraded("rollback_error") \/ FailDegraded("registration_error")
  BY <1>4, <1>5, FailDegradedIInv
<1>6. CASE /\ ~r.raised /\ call.rollback # None
           /\ \E g \in Generations : Fresh(g) /\ call' = [call EXCEPT !.id = g]
           /\ stage' = "restore"
           /\ UNCHANGED <<active, generation, health, outcome>>
  <2>1. PICK g \in Generations : Fresh(g) /\ call' = [call EXCEPT !.id = g]
    BY <1>6
  <2>2. /\ call' \in Call
        /\ call'.id = g
        /\ call'.rollback = call.rollback
        /\ call'.queued = call.queued
        /\ call'.replaced = call.replaced
    BY <1>1, <2>1 DEF Call
  <2>3. jobs' = {}
    BY <1>2, <1>3, <1>6
  <2>4. TypeOK'
    BY <1>6, <2>2, <2>3 DEF IInv, TypeOK, Stages
  <2>5. QueueMatchesPublished' /\ OneGenerationQueued' /\ CallInvalidatesGeneration'
        /\ CallRemembersRollback'
    BY <1>1, <1>6, <2>2, <2>3 DEF QueueMatchesPublished, OneGenerationQueued,
       CallInvalidatesGeneration, CallRemembersRollback
  <2>6. CallIdIsNew'
    BY <2>1, <2>2 DEF Fresh, CallIdIsNew
  <2>7. QueuedAtStage'
    BY <1>6, <2>2, <2>3 DEF QueuedAtStage
  <2> QED
    BY <2>4, <2>5, <2>6, <2>7 DEF IInv
<1> QED
  BY <1>2, <1>5, <1>6

LEMMA RegisterRollbackIInv ==
    ASSUME IInv, RegisterRollback
    PROVE  IInv'
<1>1. /\ stage = "restore" /\ jobs = {} /\ generation = None
      /\ call \in Call /\ call.rollback # None
  BY CallUnderWay DEF IInv, RegisterRollback, QueuedAtStage, CallInvalidatesGeneration
<1>2. call.rollback \in ScheduleConfig /\ call.id \in Generations
  BY <1>1 DEF Call
<1>3. PICK r \in Registrations(call.rollback, call.id) :
        /\ jobs' = jobs \cup r.added
        /\ IF r.raised
           THEN /\ stage' = "discard"
                /\ UNCHANGED <<active, generation, health, outcome, call>>
           ELSE Publish(call.rollback, "registration_error")
  BY DEF RegisterRollback
<1>4. /\ jobs' = r.added
      /\ r.added \subseteq JobsFor(call.rollback, call.id)
      /\ r.added \subseteq Job(Generations)
      /\ \A j, k \in r.added : j.generation = k.generation
      /\ ~r.raised => r.added = JobsFor(call.rollback, call.id)
  BY <1>1, <1>2, <1>3, RegistrationFacts
<1>5. CASE r.raised
  <2>1. stage' = "discard" /\ UNCHANGED <<active, generation, health, outcome, call>>
    BY <1>3, <1>5
  <2>2. TypeOK'
    BY <2>1, <1>1, <1>4 DEF IInv, TypeOK, Stages
  <2>3. QueuedAtStage'
    BY <2>1, <1>1, <1>4 DEF QueuedAtStage, FailedRegistration
  <2>4. QueueMatchesPublished' /\ OneGenerationQueued' /\ CallInvalidatesGeneration'
        /\ CallRemembersRollback' /\ CallIdIsNew'
    BY <2>1, <1>1, <1>4 DEF IInv, QueueMatchesPublished, OneGenerationQueued,
       CallInvalidatesGeneration, CallRemembersRollback, CallIdIsNew
  <2> QED
    BY <2>2, <2>3, <2>4 DEF IInv
<1>6. CASE ~r.raised
  <2>1. Publish(call.rollback, "registration_error")
    BY <1>3, <1>6
  <2>2. TypeOK'
    BY <2>1, <1>2, <1>4 DEF TypeOK, Publish, Stages
  <2>3. QueueMatchesPublished' /\ OneGenerationQueued'
    BY <2>1, <1>4, <1>6 DEF Publish, QueueMatchesPublished, OneGenerationQueued
  <2>4. CallInvalidatesGeneration' /\ CallRemembersRollback' /\ CallIdIsNew'
        /\ QueuedAtStage'
    BY <2>1 DEF Publish, CallInvalidatesGeneration, CallRemembersRollback,
       CallIdIsNew, QueuedAtStage
  <2> QED
    BY <2>2, <2>3, <2>4 DEF IInv
<1> QED
  BY <1>5, <1>6

LEMMA DiscardIInv ==
    ASSUME IInv, Discard
    PROVE  IInv'
<1>1. jobs' \subseteq jobs
  BY DEF Discard, Removals
<1> QED
  BY <1>1, FailDegradedIInv DEF IInv, TypeOK, OneGenerationQueued, Discard

\* The steps between calls leave the queue and what is published alone.
LEMMA IdleIInv ==
    ASSUME IInv, RefuseReschedule \/ WithoutJobQueue \/ ClaimFailed
    PROVE  IInv'
<1>1. /\ stage = "idle" /\ UNCHANGED <<jobs, active, generation, stage, call>>
      /\ health' \in {"active", "degraded"}
      /\ outcome' \in {"none", "scheduled", "registration_error", "rollback_error"}
  BY DEF IInv, TypeOK, RefuseReschedule, WithoutJobQueue, ClaimFailed
<1> QED
  BY <1>1 DEF IInv, TypeOK, QueueMatchesPublished, OneGenerationQueued,
     CallInvalidatesGeneration, CallRemembersRollback, CallIdIsNew, QueuedAtStage

LEMMA StutterIInv ==
    ASSUME IInv, UNCHANGED vars
    PROVE  IInv'
BY DEF vars, IInv, TypeOK, QueueMatchesPublished, OneGenerationQueued,
   CallInvalidatesGeneration, CallRemembersRollback, CallIdIsNew, QueuedAtStage,
   FailedRegistration

\* The invariant holds in every state of every behaviour: no sequence of calls and
\* of failures in them leads out of it.
THEOREM Invariance == Spec => []IInv
<1>1. IInv /\ [Next]_vars => IInv'
  <2> SUFFICES ASSUME IInv, [Next]_vars
               PROVE  IInv'
    OBVIOUS
  <2>1. CASE \E candidate \in ScheduleConfig, rollback \in ScheduleConfig \cup {None} :
               Begin(candidate, rollback)
    BY <2>1, BeginIInv
  <2>2. CASE Remove
    BY <2>2, RemoveIInv
  <2>3. CASE RegisterCandidate
    BY <2>3, RegisterCandidateIInv
  <2>4. CASE Cleanup
    BY <2>4, CleanupIInv
  <2>5. CASE RegisterRollback
    BY <2>5, RegisterRollbackIInv
  <2>6. CASE Discard
    BY <2>6, DiscardIInv
  <2>7. CASE RefuseReschedule \/ WithoutJobQueue \/ ClaimFailed
    BY <2>7, IdleIInv
  <2>8. CASE UNCHANGED vars
    BY <2>8, StutterIInv
  <2> QED
    BY <2>1, <2>2, <2>3, <2>4, <2>5, <2>6, <2>7, <2>8 DEF Next
<1> QED
  BY <1>1, InitIInv, PTL DEF Spec

\* Type correctness.
THEOREM TypeCorrect == Spec => []TypeOK
BY Invariance, PTL DEF IInv

\* While a generation is current, the queue holds exactly the jobs of the schedule
\* published under it.
THEOREM QueueIsPublished == Spec => []QueueMatchesPublished
BY Invariance, PTL DEF IInv

\* Jobs of two registrations are never queued together.
THEOREM OneGeneration == Spec => []OneGenerationQueued
BY Invariance, PTL DEF IInv

\* A schedule is never lost while the state keeps reading "active".
THEOREM NoSilentLoss == Spec => LossIsReported
<1> DEFINE Reported == active' = None /\ health' = "active"
                         => active = None /\ health = "active"
<1>1. IInv /\ [Next]_vars => [Reported]_vars
  <2> SUFFICES ASSUME IInv, [Next]_vars
               PROVE  Reported \/ UNCHANGED vars
    OBVIOUS
  <2>1. CASE UNCHANGED <<active, health>> \/ health' = "degraded"
    BY <2>1
  <2>2. ASSUME NEW s \in ScheduleConfig, NEW result, Publish(s, result)
        PROVE  Reported
    BY <2>2, SchedulesAssumption DEF Publish
  <2>3. CASE RegisterCandidate
    <3>1. call.candidate \in ScheduleConfig
      BY <2>3, CallUnderWay DEF IInv, RegisterCandidate, Call
    <3> QED
      BY <2>1, <2>2, <2>3, <3>1 DEF RegisterCandidate
  <2>4. CASE RegisterRollback
    <3>1. call.rollback \in ScheduleConfig
      BY <2>4, CallUnderWay DEF IInv, RegisterRollback, QueuedAtStage, Call
    <3> QED
      BY <2>1, <2>2, <2>4, <3>1 DEF RegisterRollback
  <2>5. CASE Cleanup \/ Discard
    BY <2>1, <2>5 DEF Cleanup, Discard, FailDegraded
  <2>6. CASE \/ \E candidate \in ScheduleConfig, rollback \in ScheduleConfig \cup {None} :
                   Begin(candidate, rollback)
             \/ Remove \/ RefuseReschedule \/ WithoutJobQueue \/ ClaimFailed
    BY <2>1, <2>6 DEF Begin, Remove, RefuseReschedule, WithoutJobQueue, ClaimFailed
  <2>7. CASE UNCHANGED vars
    BY <2>7
  <2> QED
    BY <2>3, <2>4, <2>5, <2>6, <2>7 DEF Next
<1>2. Spec => [][Reported]_vars
  BY <1>1, Invariance, PTL DEF Spec
<1> QED
  BY <1>2 DEF LossIsReported

(***************************************************************************)
(* The step-by-step replacement implements the one in one step.            *)
(***************************************************************************)
LEMMA InitRefines == Init => Atomic!ServiceInit
BY DEF Init, Atomic!ServiceInit

\* The steps inside a call are not seen: the mapping shows the state it found.
LEMMA InsideCallRefines ==
    ASSUME IInv, stage # "idle", stage' # "idle",
           UNCHANGED <<active, health, outcome>>,
           call'.queued = call.queued, call'.replaced = call.replaced
    PROVE  UNCHANGED Atomic!serviceVars
BY DEF Atomic!serviceVars

LEMMA SameData ==
    /\ Atomic!ScheduleConfig = ScheduleConfig
    /\ \A t, g : Atomic!JobsFor(t, g) = JobsFor(t, g)
BY DEF Atomic!ScheduleConfig, ScheduleConfig, Atomic!JobsFor, JobsFor, Atomic!JobKinds,
   JobKinds, Atomic!IsRecurringBoundary, IsRecurringBoundary, Atomic!Kinds, Kinds

\* What the call found, as the one-step specification sees it.
LEMMA CallFacts ==
    ASSUME IInv, stage # "idle"
    PROVE  /\ call \in Call
           /\ call.candidate \in ScheduleConfig
           /\ call.rollback \in ScheduleConfig \cup {None}
           /\ call.id \in Generations
           /\ Atomic!Fresh(call.id)
           /\ Atomic!EffectiveRollback(call.rollback) = call.rollback
<1>1. call \in Call
  BY CallUnderWay DEF IInv
<1>2. Atomic!Fresh(call.id)
  BY <1>1 DEF IInv, CallIdIsNew, Atomic!Fresh, Call
<1>3. Atomic!EffectiveRollback(call.rollback) = call.rollback
  BY DEF IInv, CallRemembersRollback, Atomic!EffectiveRollback
<1> QED
  BY <1>1, <1>2, <1>3 DEF Call

LEMMA PublishRefines ==
    ASSUME IInv, stage # "idle",
           NEW s, NEW result, Publish(s, result), jobs' = JobsFor(s, call.id)
    PROVE  Atomic!Published(s, result)
BY CallFacts, SameData DEF Publish, Atomic!Published

LEMMA FailDegradedRefines ==
    ASSUME IInv, stage # "idle",
           NEW result \in {"registration_error", "rollback_error"},
           FailDegraded(result),
           \/ jobs' \subseteq call.queued
           \/ jobs' \subseteq JobsFor(call.candidate, call.id)
           \/ call.rollback # None /\ jobs' \subseteq JobsFor(call.rollback, call.id),
           result = "registration_error" => call.rollback = None /\ jobs' = {}
    PROVE  Atomic!Lost(call.candidate, call.rollback)
<1>1. call.candidate # None
  BY CallFacts, SchedulesAssumption
<1>2. Atomic!Leftover(call.candidate, call.rollback)
  <2> stage' = "idle"
    BY DEF FailDegraded
  <2>1. CASE jobs' \subseteq call.queued
    BY <2>1 DEF Atomic!Leftover
  <2>2. ASSUME NEW s \in {call.candidate, call.rollback}, s # None,
               jobs' \subseteq JobsFor(s, call.id)
        PROVE  Atomic!Leftover(call.candidate, call.rollback)
    BY <2>2, CallFacts, SameData DEF Atomic!Leftover
  <2> QED
    BY <1>1, <2>1, <2>2
<1> QED
  BY <1>2, CallFacts DEF FailDegraded, Atomic!Lost

LEMMA CallEndRefines ==
    ASSUME IInv, stage # "idle",
           \/ Atomic!Published(call.candidate, "scheduled")
           \/ call.rollback # None /\ Atomic!Published(call.rollback, "registration_error")
           \/ Atomic!Lost(call.candidate, call.rollback)
    PROVE  Atomic!ServiceNext
<1>1. Atomic!SchedulePriceUpdate(call.candidate, call.rollback)
  BY CallFacts DEF Atomic!SchedulePriceUpdate, Atomic!Replaced, Atomic!Restored
<1> QED
  BY <1>1, CallFacts, SameData DEF Atomic!ServiceNext

LEMMA StepRefines ==
    ASSUME IInv, Next
    PROVE  [Atomic!ServiceNext]_Atomic!serviceVars
<1>1. ASSUME NEW candidate \in ScheduleConfig, NEW rollback \in ScheduleConfig \cup {None},
             Begin(candidate, rollback)
      PROVE  UNCHANGED Atomic!serviceVars
  BY <1>1 DEF Begin, Atomic!serviceVars
<1>2. CASE Remove
  BY <1>2, InsideCallRefines DEF Remove
<1>3. CASE RegisterCandidate
  <2>1. stage = "register" /\ jobs = {}
    BY <1>3 DEF IInv, RegisterCandidate, QueuedAtStage
  <2>2. CASE UNCHANGED <<active, generation, health, outcome, call>> /\ stage' = "cleanup"
    BY <2>1, <2>2, InsideCallRefines
  <2>3. CASE Publish(call.candidate, "scheduled") /\ jobs' = JobsFor(call.candidate, call.id)
    BY <2>1, <2>3, PublishRefines, CallEndRefines
  <2> QED
    BY <1>3, <2>1, <2>2, <2>3 DEF RegisterCandidate, Registrations
<1>4. CASE Cleanup
  <2>1. PICK r \in Removals :
          /\ jobs' = r.left
          /\ \/ r.raised /\ FailDegraded("rollback_error")
             \/ /\ ~r.raised /\ call.rollback = None
                /\ FailDegraded("registration_error")
             \/ /\ ~r.raised /\ call.rollback # None
                /\ \E g \in Generations : Fresh(g) /\ call' = [call EXCEPT !.id = g]
                /\ stage' = "restore"
                /\ UNCHANGED <<active, generation, health, outcome>>
    BY <1>4 DEF Cleanup
  <2>2. /\ stage = "cleanup" /\ jobs' \subseteq jobs
        /\ ~r.raised => jobs' = {}
        /\ jobs \subseteq call.queued \/ jobs \subseteq JobsFor(call.candidate, call.id)
    BY <1>4, <2>1 DEF Cleanup, Removals, IInv, QueuedAtStage, FailedRegistration
  <2>3. CASE \/ FailDegraded("rollback_error")
             \/ FailDegraded("registration_error") /\ call.rollback = None /\ ~r.raised
    <3>1. Atomic!Lost(call.candidate, call.rollback)
      BY <2>2, <2>3, FailDegradedRefines
    <3> QED
      BY <2>2, <3>1, CallEndRefines
  <2>4. CASE /\ \E g \in Generations : Fresh(g) /\ call' = [call EXCEPT !.id = g]
             /\ stage' = "restore"
             /\ UNCHANGED <<active, generation, health, outcome>>
    <3>1. call'.queued = call.queued /\ call'.replaced = call.replaced
      BY <2>2, <2>4, CallFacts DEF Call
    <3> QED
      BY <2>2, <2>4, <3>1, InsideCallRefines
  <2> QED
    BY <2>1, <2>3, <2>4
<1>5. CASE RegisterRollback
  <2>1. stage = "restore" /\ jobs = {} /\ call.rollback # None
    BY <1>5 DEF IInv, RegisterRollback, QueuedAtStage
  <2>2. CASE UNCHANGED <<active, generation, health, outcome, call>> /\ stage' = "discard"
    BY <2>1, <2>2, InsideCallRefines
  <2>3. CASE /\ Publish(call.rollback, "registration_error")
             /\ jobs' = JobsFor(call.rollback, call.id)
    BY <2>1, <2>3, PublishRefines, CallEndRefines
  <2> QED
    BY <1>5, <2>1, <2>2, <2>3 DEF RegisterRollback, Registrations
<1>6. CASE Discard
  <2>1. /\ stage = "discard" /\ jobs' \subseteq jobs
        /\ call.rollback # None /\ jobs \subseteq JobsFor(call.rollback, call.id)
        /\ FailDegraded("rollback_error")
    BY <1>6 DEF Discard, Removals, IInv, QueuedAtStage, FailedRegistration
  <2>2. Atomic!Lost(call.candidate, call.rollback)
    BY <2>1, FailDegradedRefines
  <2> QED
    BY <2>1, <2>2, CallEndRefines
<1>7. CASE RefuseReschedule
  BY <1>7 DEF RefuseReschedule, Atomic!ServiceNext, Atomic!RefusedWithoutRollback,
     Atomic!EffectiveRollback
<1>8. CASE WithoutJobQueue
  BY <1>8 DEF WithoutJobQueue, Atomic!ServiceNext, Atomic!WithoutJobQueue
<1>9. CASE ClaimFailed
  BY <1>9 DEF ClaimFailed, Atomic!ServiceNext, Atomic!ClaimFailed
<1> QED
  BY <1>1, <1>2, <1>3, <1>4, <1>5, <1>6, <1>7, <1>8, <1>9 DEF Next

\* Every behaviour of the code's steps is one of the one-step replacement that the
\* settings service relies on.
THEOREM Refinement == Spec => ImplementsReplaceSchedule
<1>1. UNCHANGED vars => UNCHANGED Atomic!serviceVars
  BY DEF vars, Atomic!serviceVars
<1>2. IInv /\ [Next]_vars => [Atomic!ServiceNext]_Atomic!serviceVars
  BY <1>1, StepRefines
<1> QED
  BY <1>2, InitRefines, Invariance, PTL DEF Spec, ImplementsReplaceSchedule,
     Atomic!ServiceSpec

=============================================================================
