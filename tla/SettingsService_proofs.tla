----------------------- MODULE SettingsService_proofs -----------------------
(***************************************************************************)
(* Proofs about SettingsService, for every set of callers, requests,       *)
(* schedules and identifiers and for every content of Redis at the start:  *)
(* its invariants, that it implements AtomicSchedule, that it drives       *)
(* ScheduledUpdates, and that it is the writer beside which ConfigLoad     *)
(* loads.                                                                  *)
(***************************************************************************)
EXTENDS SettingsDriveUpdates, SettingsBesideLoad, PersistedSettings_proofs, TLAPS

(***************************************************************************)
(* The inductive invariant.  The holder of the lock is the one change that *)
(* is under way: the schedule it found is the effective one until it       *)
(* activates its candidate, Redis holds its snapshot or its candidate, and *)
(* its snapshot is the effective schedule unless a rollback was incomplete.*)
(***************************************************************************)
Holding == {"snapshot", "persist", "activate", "compensate", "restore"}
Snapshotted == {"persist", "activate", "compensate", "restore"}

HolderWorks == \A c \in Callers : pc[c] \in Holding <=> lock = c

Underway(c) ==
    /\ pc[c] # "idle" => request[c] \in Requests
    /\ pc[c] # "idle" <=> reply[c] = "pending"
    /\ pc[c] \in Holding => previous[c] = memory /\ Candidate(c) \in ScheduleConfig
    /\ IF pc[c] \in Snapshotted THEN snapshot[c] \in Raw ELSE snapshot[c] = None
    /\ pc[c] \in Snapshotted /\ ~incomplete => Load(snapshot[c]) = memory
    /\ pc[c] = "persist" => raw = snapshot[c]
    /\ pc[c] = "activate" => raw = Persisted(Candidate(c))
    /\ pc[c] \in {"compensate", "restore"} =>
           raw = snapshot[c] \/ raw = Persisted(Candidate(c))

StoredBetweenChanges ==
    up /\ ~incomplete /\ (\A c \in Callers : pc[c] \notin Snapshotted)
        => Load(raw) = memory

DownIsQuiet ==
    ~up => /\ \A c \in Callers : pc[c] = "idle"
           /\ lock = None /\ active = None /\ generation = None /\ jobs = {}
           /\ ~incomplete

\* The jobs in the queue are exactly those of the active schedule.
QueueMatchesPublished == generation # None => jobs = JobsFor(active, generation)

\* The part of the invariant that is about the jobs.
ServiceInv ==
    /\ ServiceTypeOK
    /\ EffectiveIsActive
    /\ QueueMatchesPublished
    /\ SilenceIsReported

\* The part that is about the changes and Redis.
ChangeInv ==
    /\ up \in BOOLEAN /\ memory \in ScheduleConfig /\ raw \in Raw
    /\ lock \in Callers \cup {None}
    /\ pc \in [Callers -> Steps]
    /\ request \in [Callers -> Requests \cup {None}]
    /\ previous \in [Callers -> ScheduleConfig \cup {None}]
    /\ snapshot \in [Callers -> Raw \cup {None}]
    /\ reply \in [Callers -> Replies]
    /\ incomplete \in BOOLEAN
    /\ HolderWorks
    /\ \A c \in Callers : Underway(c)
    /\ StoredBetweenChanges

IInv == ServiceInv /\ ChangeInv /\ DownIsQuiet

LEMMA InitIInv == Init => IInv
<1> SUFFICES ASSUME Init PROVE IInv
  OBVIOUS
<1>1. TypeOK
  BY SettingsAssumption, PersistedAssumption DEF Init, ServiceInit, TypeOK, ServiceTypeOK, Outcomes, Steps, Replies
<1>2. \A c \in Callers : Underway(c)
  BY DEF Init, Underway, Holding, Snapshotted
<1>3. HolderWorks
  BY SettingsAssumption, PersistedAssumption DEF Init, HolderWorks, Holding
<1> QED
  BY <1>1, <1>2, <1>3 DEF Init, ServiceInit, IInv, ServiceInv, ChangeInv, TypeOK,
     EffectiveIsActive, QueueMatchesPublished, SilenceIsReported, StoredBetweenChanges,
     DownIsQuiet

(***************************************************************************)
(* The jobs, over the outcomes of a replacement.                           *)
(***************************************************************************)
LEMMA JobsForType ==
    ASSUME NEW s \in ScheduleConfig, NEW g \in Generations
    PROVE  JobsFor(s, g) \subseteq Job(Generations)
BY DEF JobsFor, Job, JobKinds, Kinds

LEMMA PublishedFacts ==
    ASSUME NEW s \in ScheduleConfig, NEW result \in Outcomes, Published(s, result)
    PROVE  ServiceTypeOK' /\ QueueMatchesPublished' /\ active' = s /\ active' # None
           /\ outcome' = result
BY JobsForType, SchedulesAssumption
   DEF Published, ServiceTypeOK, QueueMatchesPublished, Outcomes

LEMMA LostFacts ==
    ASSUME ServiceTypeOK, NEW s \in ScheduleConfig,
           NEW rollback \in ScheduleConfig \cup {None}, Lost(s, rollback)
    PROVE  ServiceTypeOK' /\ QueueMatchesPublished' /\ active' = None
           /\ health' = "degraded" /\ outcome' # "scheduled"
<1>1. jobs' \subseteq Job(Generations)
  <2>1. EffectiveRollback(rollback) \in ScheduleConfig \cup {None}
    BY DEF EffectiveRollback, ServiceTypeOK
  <2>2. CASE jobs' \in SUBSET jobs
    BY <2>2 DEF ServiceTypeOK
  <2>3. ASSUME NEW t \in {s, EffectiveRollback(rollback)}, NEW g \in Generations,
               t # None, jobs' \in SUBSET JobsFor(t, g)
        PROVE  jobs' \subseteq Job(Generations)
    BY <2>1, <2>3, JobsForType
  <2> QED
    BY <2>2, <2>3 DEF Lost, Leftover
<1> QED
  BY <1>1 DEF Lost, ServiceTypeOK, QueueMatchesPublished, Outcomes

(***************************************************************************)
(* The changes.                                                            *)
(***************************************************************************)

\* A caller that does not hold the lock does not depend on what the holder does.
LEMMA OthersUnderway ==
    ASSUME NEW d \in Callers, Underway(d), pc[d] \notin Holding,
           pc'[d] = pc[d], request'[d] = request[d], reply'[d] = reply[d],
           snapshot'[d] = snapshot[d]
    PROVE  Underway(d)'
BY DEF Underway, Holding, Snapshotted

\* A change ends: its caller is idle, the lock is free and nobody holds it.
LEMMA FinishChange ==
    ASSUME ChangeInv, NEW c \in Callers, NEW answer \in Replies \ {"pending"},
           lock = c \/ lock = None, Finish(c, answer),
           up' = up, raw' \in Raw, memory' \in ScheduleConfig, incomplete' \in BOOLEAN,
           up /\ ~incomplete' => Load(raw') = memory'
    PROVE  ChangeInv'
<1>1. /\ lock' \in Callers \cup {None}
      /\ pc' \in [Callers -> Steps]
      /\ request' \in [Callers -> Requests \cup {None}]
      /\ previous' \in [Callers -> ScheduleConfig \cup {None}]
      /\ snapshot' \in [Callers -> Raw \cup {None}]
      /\ reply' \in [Callers -> Replies]
  BY DEF ChangeInv, Finish, Steps
<1>2. \A d \in Callers : d # c => pc[d] \notin Holding
  BY SettingsAssumption, PersistedAssumption DEF ChangeInv, HolderWorks
<1>3. HolderWorks'
  BY <1>2, SettingsAssumption, PersistedAssumption DEF ChangeInv, Finish, HolderWorks, Holding
<1>4. \A d \in Callers : Underway(d)'
  <2> SUFFICES ASSUME NEW d \in Callers
               PROVE  Underway(d)'
    OBVIOUS
  <2>1. CASE d = c
    BY <2>1 DEF ChangeInv, Finish, Underway, Holding, Snapshotted
  <2>2. CASE d # c
    <3>1. Underway(d) /\ pc[d] \notin Holding
      BY <1>2, <2>2 DEF ChangeInv
    <3>2. /\ pc'[d] = pc[d] /\ request'[d] = request[d] /\ reply'[d] = reply[d]
          /\ snapshot'[d] = snapshot[d]
      BY <2>2 DEF ChangeInv, Finish
    <3> QED
      BY <3>1, <3>2, OthersUnderway
  <2> QED
    BY <2>1, <2>2
<1>5. StoredBetweenChanges'
  BY DEF StoredBetweenChanges
<1> QED
  BY <1>1, <1>3, <1>4, <1>5 DEF ChangeInv

\* The holder goes on to another step of its change.
LEMMA HolderStep ==
    ASSUME ChangeInv, NEW c \in Callers, pc[c] \in Holding,
           NEW step \in Snapshotted, pc' = [pc EXCEPT ![c] = step],
           UNCHANGED <<up, lock, request, reply>>,
           raw' \in Raw, memory' \in ScheduleConfig, UNCHANGED incomplete,
           previous' \in [Callers -> ScheduleConfig \cup {None}],
           snapshot' \in [Callers -> Raw \cup {None}],
           \A d \in Callers : d # c => snapshot'[d] = snapshot[d],
           Underway(c)'
    PROVE  ChangeInv'
<1>1. pc' \in [Callers -> Steps] /\ pc'[c] = step
  BY DEF ChangeInv, Steps, Snapshotted
<1>2. \A d \in Callers : d # c => pc[d] \notin Holding
  BY DEF ChangeInv, HolderWorks
<1>3. HolderWorks'
  BY <1>1, <1>2 DEF ChangeInv, HolderWorks, Holding, Snapshotted
<1>4. \A d \in Callers : Underway(d)'
  <2> SUFFICES ASSUME NEW d \in Callers, d # c
               PROVE  Underway(d)'
    OBVIOUS
  <2>1. Underway(d) /\ pc[d] \notin Holding /\ pc'[d] = pc[d]
    BY <1>2 DEF ChangeInv
  <2> QED
    BY <2>1, OthersUnderway
<1>5. StoredBetweenChanges'
  BY <1>1 DEF StoredBetweenChanges
<1> QED
  BY <1>1, <1>3, <1>4, <1>5 DEF ChangeInv

LEMMA RequestChangeInv ==
    ASSUME IInv, NEW c \in Callers, RequestChange(c)
    PROVE  IInv'
<1>1. PICK r \in Requests : request' = [request EXCEPT ![c] = r]
  BY DEF RequestChange
<1>2. ChangeInv
  BY DEF IInv
<1>3. /\ pc' \in [Callers -> Steps] /\ request' \in [Callers -> Requests \cup {None}]
      /\ reply' \in [Callers -> Replies]
      /\ pc'[c] = "waiting" /\ request'[c] = r /\ reply'[c] = "pending"
  BY <1>1, <1>2 DEF ChangeInv, RequestChange, Steps, Replies
<1>4. HolderWorks'
  BY <1>2 DEF ChangeInv, RequestChange, HolderWorks, Holding
<1>5. \A d \in Callers : Underway(d)'
  <2> SUFFICES ASSUME NEW d \in Callers
               PROVE  Underway(d)'
    OBVIOUS
  <2>1. CASE d = c
    BY <1>2, <1>3, <2>1 DEF ChangeInv, RequestChange, Underway, Holding, Snapshotted
  <2>2. CASE d # c
    <3>1. /\ pc'[d] = pc[d] /\ request'[d] = request[d] /\ reply'[d] = reply[d]
          /\ Underway(d)
      BY <1>1, <1>2, <2>2 DEF ChangeInv, RequestChange
    <3> QED
      BY <3>1 DEF RequestChange, Underway, Candidate
  <2> QED
    BY <2>1, <2>2
<1>6. StoredBetweenChanges'
  BY <1>2 DEF ChangeInv, RequestChange, StoredBetweenChanges, Snapshotted
<1>7. ChangeInv'
  BY <1>2, <1>3, <1>4, <1>5, <1>6 DEF ChangeInv, RequestChange
<1>8. ServiceInv' /\ DownIsQuiet'
  BY DEF IInv, RequestChange, serviceVars, ServiceInv, ServiceTypeOK,
     EffectiveIsActive, QueueMatchesPublished, SilenceIsReported, DownIsQuiet
<1> QED
  BY <1>7, <1>8 DEF IInv

\* A step that changes no job and nothing the process uses.
LEMMA ServiceUnchanged ==
    ASSUME IInv, up, UNCHANGED <<up, memory, jobs, active, generation, outcome>>,
           health' = health \/ health' = "degraded"
    PROVE  ServiceInv' /\ DownIsQuiet'
BY DEF IInv, ServiceInv, ServiceTypeOK, EffectiveIsActive, QueueMatchesPublished,
   SilenceIsReported, DownIsQuiet

LEMMA WorkingIsUp ==
    ASSUME IInv, NEW c \in Callers, pc[c] # "idle"
    PROVE  up
BY DEF IInv, DownIsQuiet

LEMMA AcquireInv ==
    ASSUME IInv, NEW c \in Callers, Acquire(c)
    PROVE  IInv'
<1>1. ChangeInv /\ up /\ \A d \in Callers : pc[d] \notin Holding
  BY WorkingIsUp, SettingsAssumption, PersistedAssumption DEF IInv, Acquire, ChangeInv, HolderWorks
<1>2. ServiceInv' /\ DownIsQuiet'
  BY <1>1, ServiceUnchanged DEF Acquire, serviceVars
<1>3. ~incomplete => Load(raw) = memory
  BY <1>1 DEF ChangeInv, StoredBetweenChanges, Holding, Snapshotted
<1>4. CASE Merge(memory, request[c]) \in ScheduleConfig
  <2>1. /\ lock' = c
        /\ pc' = [pc EXCEPT ![c] = "snapshot"]
        /\ previous' = [previous EXCEPT ![c] = memory]
        /\ UNCHANGED <<request, snapshot, reply, up, memory, raw, incomplete>>
    BY <1>4 DEF Acquire
  <2>2. /\ pc' \in [Callers -> Steps]
        /\ previous' \in [Callers -> ScheduleConfig \cup {None}]
        /\ pc'[c] = "snapshot" /\ previous'[c] = memory
        /\ \A d \in Callers \ {c} : pc'[d] = pc[d]
    BY <1>1, <2>1 DEF ChangeInv, Steps
  <2>3. HolderWorks'
    BY <1>1, <2>1, <2>2 DEF HolderWorks, Holding
  <2>4. Underway(c)'
    BY <1>1, <1>4, <2>1, <2>2 DEF Acquire, ChangeInv, Underway, Candidate, Holding, Snapshotted
  <2>5. \A d \in Callers : d # c => Underway(d)'
    BY <1>1, <2>1, <2>2, OthersUnderway DEF ChangeInv
  <2>6. StoredBetweenChanges'
    BY <1>3, <2>1 DEF StoredBetweenChanges
  <2>7. ChangeInv'
    BY <1>1, <2>1, <2>2, <2>3, <2>4, <2>5, <2>6 DEF ChangeInv
  <2> QED
    BY <1>2, <2>7 DEF IInv
<1>5. CASE Merge(memory, request[c]) \notin ScheduleConfig
  <2>1. Finish(c, "rejected") /\ lock = None /\ UNCHANGED <<up, memory, raw, incomplete>>
    BY <1>5 DEF Acquire
  <2>2. ChangeInv'
    BY <1>1, <1>3, <2>1, FinishChange DEF ChangeInv, Replies
  <2> QED
    BY <1>2, <2>2 DEF IInv
<1> QED
  BY <1>4, <1>5

\* What is known about the holder of the lock.
LEMMA HolderFacts ==
    ASSUME IInv, NEW c \in Callers, pc[c] \in Holding
    PROVE  /\ ChangeInv /\ up /\ lock = c
           /\ previous[c] = memory
           /\ memory \in ScheduleConfig /\ Candidate(c) \in ScheduleConfig
           /\ pc[c] \in Snapshotted => snapshot[c] \in Raw
           /\ pc[c] \in Snapshotted /\ ~incomplete => Load(snapshot[c]) = memory
           /\ request[c] \in Requests /\ reply[c] = "pending"
BY WorkingIsUp DEF IInv, ChangeInv, HolderWorks, Underway, Holding, Snapshotted

LEMMA SnapshotInv ==
    ASSUME IInv, NEW c \in Callers, Snapshot(c)
    PROVE  IInv'
<1>1. pc[c] = "snapshot" /\ pc[c] \in Holding /\ UNCHANGED <<up, memory, raw, incomplete>>
  BY DEF Snapshot, Holding
<1>2. ServiceInv' /\ DownIsQuiet'
  BY <1>1, HolderFacts, ServiceUnchanged DEF Snapshot, serviceVars
<1>3. ~incomplete => Load(raw) = memory
  BY <1>1, HolderFacts DEF ChangeInv, StoredBetweenChanges, HolderWorks, Holding, Snapshotted
<1>4. CASE Finish(c, "update_failed")
  <2>1. ChangeInv'
    BY <1>1, <1>3, <1>4, HolderFacts, FinishChange DEF ChangeInv, Replies
  <2> QED
    BY <1>2, <2>1 DEF IInv
<1>5. CASE /\ snapshot' = [snapshot EXCEPT ![c] = raw]
           /\ pc' = [pc EXCEPT ![c] = "persist"]
           /\ UNCHANGED <<lock, request, previous, reply>>
  <2>1. /\ snapshot' \in [Callers -> Raw \cup {None}]
        /\ snapshot'[c] = raw /\ pc'[c] = "persist" /\ raw \in Raw
        /\ \A d \in Callers : d # c => snapshot'[d] = snapshot[d]
    BY <1>1, <1>5, HolderFacts DEF ChangeInv
  <2>2. Underway(c)'
    BY <1>1, <1>3, <1>5, <2>1, HolderFacts
    DEF Underway, Candidate, Holding, Snapshotted
  <2>3. ChangeInv'
    BY <1>1, <1>5, <2>1, <2>2, HolderFacts, HolderStep DEF ChangeInv, Snapshotted
  <2> QED
    BY <1>2, <2>3 DEF IInv
<1> QED
  BY <1>4, <1>5 DEF Snapshot

LEMMA PersistInv ==
    ASSUME IInv, NEW c \in Callers, Persist(c) \/ PersistError(c)
    PROVE  IInv'
<1>1. /\ pc[c] = "persist" /\ pc[c] \in Holding /\ pc[c] \in Snapshotted
      /\ UNCHANGED <<up, memory, incomplete, lock, request, previous, snapshot, reply>>
  BY DEF Persist, PersistError, GoTo, Holding, Snapshotted
<1>2. ServiceInv' /\ DownIsQuiet'
  BY <1>1, HolderFacts, ServiceUnchanged DEF Persist, PersistError, serviceVars
<1>3. PICK step \in {"activate", "compensate"} : pc' = [pc EXCEPT ![c] = step]
  BY DEF Persist, PersistError, GoTo
<1>4. /\ raw' = Persisted(Candidate(c)) \/ (pc'[c] = "compensate" /\ raw' = raw)
      /\ raw = snapshot[c] /\ raw' \in Raw /\ pc'[c] = step
  BY <1>1, <1>3, HolderFacts, PersistedRoundTrip
  DEF Persist, PersistError, GoTo, ChangeInv, Underway
<1>5. Underway(c)'
  BY <1>1, <1>3, <1>4, HolderFacts DEF Underway, Candidate, Holding, Snapshotted
<1>6. ChangeInv'
  BY <1>1, <1>3, <1>4, <1>5, HolderFacts, HolderStep DEF ChangeInv, Snapshotted
<1> QED
  BY <1>2, <1>6 DEF IInv

\* A replacement made by a change: the jobs are those of what is effective then.
LEMMA ActivateService ==
    ASSUME IInv, NEW c \in Callers, Activate(c)
    PROVE  ServiceInv' /\ memory' \in ScheduleConfig /\ up
<1>1. pc[c] = "activate" /\ pc[c] \in Holding
  BY DEF Activate, Holding
<1>2. /\ Candidate(c) \in ScheduleConfig /\ previous[c] = memory /\ memory \in ScheduleConfig
      /\ up /\ ServiceTypeOK /\ EffectiveRollback(previous[c]) = memory
  BY <1>1, HolderFacts, SchedulesAssumption DEF IInv, ServiceInv, EffectiveRollback
<1>3. CASE Replaced(Candidate(c))
  <2>1. /\ ServiceTypeOK' /\ QueueMatchesPublished' /\ active' = Candidate(c)
        /\ active' # None /\ outcome' = "scheduled"
    BY <1>2, <1>3, PublishedFacts DEF Replaced, Outcomes
  <2> QED
    BY <1>2, <2>1 DEF Activate, ServiceInv, EffectiveIsActive, SilenceIsReported
<1>4. CASE Restored(previous[c])
  <2>1. /\ ServiceTypeOK' /\ QueueMatchesPublished' /\ active' = memory
        /\ active' # None /\ outcome' = "registration_error"
    BY <1>2, <1>4, PublishedFacts DEF Restored, Outcomes
  <2> QED
    BY <1>2, <2>1 DEF Activate, ServiceInv, EffectiveIsActive, SilenceIsReported
<1>5. CASE Lost(Candidate(c), previous[c])
  <2>1. /\ ServiceTypeOK' /\ QueueMatchesPublished' /\ active' = None
        /\ health' = "degraded" /\ outcome' # "scheduled"
    BY <1>2, <1>5, LostFacts
  <2> QED
    BY <1>2, <2>1 DEF Activate, ServiceInv, EffectiveIsActive, SilenceIsReported
<1> QED
  BY <1>3, <1>4, <1>5 DEF Activate, SchedulePriceUpdate

LEMMA ActivateInv ==
    ASSUME IInv, NEW c \in Callers, Activate(c)
    PROVE  IInv'
<1>1. /\ pc[c] = "activate" /\ pc[c] \in Holding /\ pc[c] \in Snapshotted
      /\ UNCHANGED <<up, raw>>
  BY DEF Activate, Holding, Snapshotted
<1>2. ServiceInv' /\ memory' \in ScheduleConfig /\ up /\ DownIsQuiet'
  BY <1>1, ActivateService DEF DownIsQuiet
<1>3. raw = Persisted(Candidate(c)) /\ raw \in Raw /\ Load(raw) = Candidate(c)
  BY <1>1, HolderFacts, PersistedRoundTrip DEF ChangeInv, Underway
<1>4. CASE outcome' = "scheduled"
  <2>1. Finish(c, "changed") /\ memory' = Candidate(c) /\ incomplete' = FALSE
    BY <1>4 DEF Activate
  <2>2. ChangeInv'
    BY <1>1, <1>2, <1>3, <2>1, HolderFacts, FinishChange DEF Replies
  <2> QED
    BY <1>2, <2>2 DEF IInv
<1>5. CASE outcome' # "scheduled"
  <2>1. /\ memory' = memory /\ pc' = [pc EXCEPT ![c] = "restore"]
        /\ UNCHANGED <<lock, request, previous, snapshot, reply, incomplete>>
    BY <1>1, <1>5, HolderFacts DEF Activate, GoTo
  <2>2. Underway(c)'
    BY <1>1, <1>3, <2>1, HolderFacts DEF ChangeInv, Underway, Candidate, Holding, Snapshotted
  <2>3. ChangeInv'
    BY <1>1, <1>2, <2>1, <2>2, HolderFacts, HolderStep DEF ChangeInv, Snapshotted
  <2> QED
    BY <1>2, <2>3 DEF IInv
<1> QED
  BY <1>4, <1>5

LEMMA WriteBackInv ==
    ASSUME IInv, NEW c \in Callers, Compensate(c) \/ Restore(c) \/ RollbackError(c)
    PROVE  IInv'
<1>1. /\ pc[c] \in {"compensate", "restore"} /\ pc[c] \in Holding /\ pc[c] \in Snapshotted
      /\ UNCHANGED <<up, memory, jobs, active, generation, outcome>>
      /\ health' = health \/ health' = "degraded"
  BY DEF Compensate, Restore, RollbackError, serviceVars, Holding, Snapshotted
<1>2. ServiceInv' /\ DownIsQuiet'
  BY <1>1, HolderFacts, ServiceUnchanged
<1>3. PICK answer \in {"update_failed", "rollback_failed"} :
        /\ Finish(c, answer)
        /\ raw' \in {raw, snapshot[c]}
        /\ \/ incomplete' = TRUE
           \/ incomplete' = incomplete /\ raw' = snapshot[c]
  BY DEF Compensate, Restore, RollbackError
<1>4. raw' \in Raw /\ incomplete' \in BOOLEAN /\ (up /\ ~incomplete' => Load(raw') = memory')
  <2>1. /\ raw \in Raw /\ snapshot[c] \in Raw /\ incomplete \in BOOLEAN
        /\ memory' = memory
        /\ ~incomplete => Load(snapshot[c]) = memory
    BY <1>1, HolderFacts DEF ChangeInv
  <2>2. raw' \in Raw
    BY <1>3, <2>1
  <2>3. CASE incomplete' = TRUE
    BY <2>2, <2>3
  <2>4. CASE incomplete' = incomplete /\ raw' = snapshot[c]
    BY <2>1, <2>2, <2>4
  <2> QED
    BY <1>3, <2>3, <2>4
<1>5. ChangeInv'
  BY <1>1, <1>3, <1>4, HolderFacts, FinishChange DEF Replies
<1> QED
  BY <1>2, <1>5 DEF IInv

(***************************************************************************)
(* The process.                                                            *)
(***************************************************************************)
LEMMA CrashInv ==
    ASSUME IInv, Crash
    PROVE  IInv'
<1>1. ServiceInv' /\ DownIsQuiet'
  BY DEF Crash, ServiceInv, ServiceTypeOK, Outcomes, EffectiveIsActive,
     QueueMatchesPublished, SilenceIsReported, DownIsQuiet
<1>2. raw' \in Raw
  <2>1. \A c \in Callers : pc[c] = "persist" => Persisted(Candidate(c)) \in Raw
    BY HolderFacts, PersistedRoundTrip DEF Holding
  <2>2. \A c \in Callers : pc[c] \in {"compensate", "restore"} => snapshot[c] \in Raw
    BY HolderFacts DEF Holding, Snapshotted
  <2> QED
    BY <2>1, <2>2 DEF Crash, InFlight, IInv, ChangeInv
<1>3. \A c \in Callers : Underway(c)'
  BY DEF Crash, Underway, Holding, Snapshotted
<1>4. HolderWorks'
  BY SettingsAssumption, PersistedAssumption DEF Crash, HolderWorks, Holding
<1>5. ChangeInv'
  BY <1>2, <1>3, <1>4, SettingsAssumption, PersistedAssumption
  DEF Crash, ChangeInv, StoredBetweenChanges, Steps, Replies
<1> QED
  BY <1>1, <1>5 DEF IInv

LEMMA StartInv ==
    ASSUME IInv, Start \/ StartFails
    PROVE  IInv'
<1>1. /\ ~up /\ raw \in Raw /\ raw' = Migrated(raw) /\ ChangeInv
      /\ UNCHANGED <<lock, pc, request, previous, snapshot, reply, incomplete>>
      /\ \A c \in Callers : pc[c] = "idle"
      /\ lock = None
  BY DEF IInv, ChangeInv, DownIsQuiet, Start, StartFails, changeVars
<1>2. raw' \in Raw /\ Load(raw') = Load(raw) /\ Load(raw) \in ScheduleConfig
  BY <1>1, MigrationKeepsSettings, LoadIsValid
<1>3. /\ memory' \in ScheduleConfig
      /\ up' => memory' = Load(raw)
      /\ up' \in BOOLEAN
  <2>1. CASE Start
    BY <1>2, <2>1 DEF Start
  <2>2. CASE StartFails
    BY <1>1, <2>2 DEF StartFails, ChangeInv
  <2> QED
    BY <2>1, <2>2
<1>4. \A c \in Callers : Underway(c)'
  BY <1>1 DEF ChangeInv, Underway, Holding, Snapshotted
<1>5. ChangeInv'
  BY <1>1, <1>2, <1>3, <1>4 DEF ChangeInv, HolderWorks, StoredBetweenChanges
<1>6. CASE Start
  <2>1. ServiceTypeOK' /\ QueueMatchesPublished' /\ active' = Load(raw) /\ active' # None
    BY <1>2, <1>6, PublishedFacts DEF Start, Replaced, Outcomes
  <2>2. ServiceInv' /\ DownIsQuiet'
    BY <1>6, <2>1 DEF Start, ServiceInv, EffectiveIsActive, SilenceIsReported, DownIsQuiet
  <2> QED
    BY <1>5, <2>2 DEF IInv
<1>7. CASE StartFails
  <2>1. ServiceInv' /\ DownIsQuiet'
    BY <1>7 DEF StartFails, serviceVars, changeVars, IInv, ServiceInv, ServiceTypeOK,
       EffectiveIsActive, QueueMatchesPublished, SilenceIsReported, DownIsQuiet
  <2> QED
    BY <1>5, <2>1 DEF IInv
<1> QED
  BY <1>6, <1>7

LEMMA UnchangedChangeInv ==
    ASSUME ChangeInv, UNCHANGED <<up, memory, raw, changeVars, reply, incomplete>>
    PROVE  ChangeInv'
BY DEF changeVars, ChangeInv, HolderWorks, Underway, Candidate, StoredBetweenChanges

LEMMA TimerClaimFailedInv ==
    ASSUME IInv, TimerClaimFailed
    PROVE  IInv'
<1>1. ServiceInv' /\ DownIsQuiet'
  BY ServiceUnchanged DEF TimerClaimFailed, ClaimFailed
<1>2. ChangeInv'
  BY UnchangedChangeInv DEF IInv, TimerClaimFailed
<1> QED
  BY <1>1, <1>2 DEF IInv

LEMMA StutterInv ==
    ASSUME IInv, UNCHANGED vars
    PROVE  IInv'
<1>1. UNCHANGED <<up, memory, raw, changeVars, reply, incomplete>>
  BY DEF vars, changeVars
<1>2. ServiceInv' /\ DownIsQuiet'
  BY DEF vars, IInv, ServiceInv, ServiceTypeOK, EffectiveIsActive, QueueMatchesPublished,
     SilenceIsReported, DownIsQuiet
<1> QED
  BY <1>1, <1>2, UnchangedChangeInv DEF IInv

\* The invariant holds whatever fails in whatever order: Redis before or after it has
\* executed a transaction, the job queue, the rollback of either, or the process.
THEOREM Invariance == Spec => []IInv
<1>1. IInv /\ [Next]_vars => IInv'
  <2> SUFFICES ASSUME IInv, [Next]_vars
               PROVE  IInv'
    OBVIOUS
  <2>1. ASSUME NEW c \in Callers, RequestChange(c) \/ Acquire(c) \/ Continue(c)
        PROVE  IInv'
    BY <2>1, RequestChangeInv, AcquireInv, SnapshotInv, PersistInv, ActivateInv,
       WriteBackInv DEF Continue
  <2>2. CASE TimerClaimFailed
    BY <2>2, TimerClaimFailedInv
  <2>3. CASE Crash
    BY <2>3, CrashInv
  <2>4. CASE Start \/ StartFails
    BY <2>4, StartInv
  <2>5. CASE UNCHANGED vars
    BY <2>5, StutterInv
  <2> QED
    BY <2>1, <2>2, <2>3, <2>4, <2>5 DEF Next
<1> QED
  BY <1>1, InitIInv, PTL DEF Spec

\* Type correctness.
THEOREM TypeCorrect == Spec => []TypeOK
<1>1. IInv => TypeOK
  BY DEF IInv, ServiceInv, ChangeInv, TypeOK
<1> QED
  BY <1>1, Invariance, PTL

\* The active schedule is the effective one, through every change and restart.
THEOREM ActiveIsEffective == Spec => []EffectiveIsActive
<1>1. IInv => EffectiveIsActive
  BY DEF IInv, ServiceInv
<1> QED
  BY <1>1, Invariance, PTL

\* A process without an active schedule reports itself degraded.
THEOREM SilenceReported == Spec => []SilenceIsReported
<1>1. IInv => SilenceIsReported
  BY DEF IInv, ServiceInv
<1> QED
  BY <1>1, Invariance, PTL

\* Between changes Redis and the process agree, unless a rollback was reported
\* incomplete.
THEOREM StoredIsEffective == Spec => []StoredUnlessIncomplete
<1>1. IInv => StoredUnlessIncomplete
  BY SettingsAssumption, PersistedAssumption DEF IInv, ChangeInv, HolderWorks, StoredBetweenChanges,
     StoredUnlessIncomplete, Holding, Snapshotted
<1> QED
  BY <1>1, Invariance, PTL

(***************************************************************************)
(* SettingsService implements AtomicSchedule, for every value of the       *)
(* constants: the steps of a change are invisible until the change ends,   *)
(* and each end is one of the answers the abstract specification allows.   *)
(* And it drives ScheduledUpdates as that module assumes.                  *)
(***************************************************************************)

\* The abstract state of the implementation.
Effective == IF up THEN memory ELSE Load(raw)
Stored == Load(StoredRaw)

LEMMA SameData ==
    /\ Atomically!ScheduleConfig = ScheduleConfig
    /\ \A s, r : Atomically!Merge(s, r) = Merge(s, r)
BY DEF Atomically!ScheduleConfig, ScheduleConfig, Atomically!Merge, Merge,
   Atomically!KeepOr, KeepOr

LEMMA AbstractVars ==
    ASSUME up' = up, Effective' = Effective, Stored' = Stored, request' = request,
           reply' = reply, incomplete' = incomplete
    PROVE  UNCHANGED Atomically!atomicVars
BY DEF Atomically!atomicVars, Effective, Stored

\* What is stored, as seen from where the holder of the lock is.
LEMMA StoredRawFacts ==
    ASSUME ChangeInv
    PROVE  /\ lock = None => StoredRaw = raw
           /\ \A c \in Callers : pc[c] = "snapshot" => StoredRaw = raw
           /\ \A c \in Callers : pc[c] \in Snapshotted => StoredRaw = snapshot[c]
BY SettingsAssumption, PersistedAssumption
DEF StoredRaw, ChangeInv, HolderWorks, Underway, Holding, Snapshotted

LEMMA StoredRawFactsNext ==
    ASSUME ChangeInv'
    PROVE  /\ lock' = None => StoredRaw' = raw'
           /\ \A c \in Callers : pc'[c] = "snapshot" => StoredRaw' = raw'
           /\ \A c \in Callers : pc'[c] \in Snapshotted => StoredRaw' = snapshot'[c]
BY SettingsAssumption, PersistedAssumption
DEF StoredRaw, ChangeInv, HolderWorks, Underway, Holding, Snapshotted

\* The candidate is what the caller asked for, from the effective schedule.
LEMMA CandidateIsAsked ==
    ASSUME IInv, NEW c \in Callers, pc[c] \in Holding
    PROVE  /\ c \in Atomically!Pending
           /\ Candidate(c) \in Atomically!Asked({c})
           /\ Candidate(c) \in Atomically!Asked(Atomically!Pending)
<1>1. /\ up /\ reply[c] = "pending" /\ Candidate(c) = Merge(memory, request[c])
      /\ request[c] \in Requests /\ Candidate(c) \in ScheduleConfig
  BY HolderFacts DEF Candidate
<1> QED
  BY <1>1, SameData DEF Atomically!Asked, Atomically!Pending

LEMMA RequestRefines ==
    ASSUME IInv, IInv', NEW c \in Callers, RequestChange(c)
    PROVE  Atomically!Ask(c)
<1>1. /\ up /\ c \notin Atomically!Pending /\ reply' = [reply EXCEPT ![c] = "pending"]
      /\ \E r \in Requests : request' = [request EXCEPT ![c] = r]
  BY DEF IInv, ChangeInv, Underway, RequestChange, Atomically!Pending
<1>2. UNCHANGED <<up, memory, raw, lock, snapshot, incomplete>>
  BY DEF RequestChange
<1> QED
  BY <1>1, <1>2 DEF Atomically!Ask, StoredRaw

\* The end of a change, with the answer the caller gets.
LEMMA AnswerRefines ==
    ASSUME IInv, NEW c \in Callers, pc[c] # "idle", NEW answer, Finish(c, answer), up' = up
    PROVE  Atomically!Answer(c, answer)
BY WorkingIsUp DEF IInv, ChangeInv, Underway, Finish, Atomically!Answer, Atomically!Pending

LEMMA RefuseRefines ==
    ASSUME IInv, IInv', NEW c \in Callers, pc[c] # "idle",
           NEW answer \in {"rejected", "update_failed"}, Finish(c, answer),
           UNCHANGED <<up, memory, incomplete>>, raw' = StoredRaw
    PROVE  Atomically!Refuse(c)
<1>1. Atomically!Answer(c, answer)
  BY AnswerRefines
<1>2. up /\ StoredRaw' = raw'
  BY WorkingIsUp, StoredRawFactsNext DEF IInv, Finish
<1> QED
  BY <1>1, <1>2 DEF Atomically!Refuse

LEMMA SpoilRefines ==
    ASSUME IInv, IInv', NEW c \in Callers, pc[c] \in {"compensate", "restore"},
           Finish(c, "rollback_failed"), incomplete' = TRUE,
           UNCHANGED <<up, memory>>, raw' \in {raw, snapshot[c]}
    PROVE  Atomically!Spoil(c)
<1>1. pc[c] # "idle" /\ pc[c] \in Holding /\ pc[c] \in Snapshotted
  BY DEF Holding, Snapshotted
<1>2. Atomically!Answer(c, "rollback_failed")
  BY <1>1, AnswerRefines
<1>3. up /\ StoredRaw' = raw' /\ StoredRaw = snapshot[c]
  BY <1>1, WorkingIsUp, StoredRawFacts, StoredRawFactsNext DEF IInv, Finish
<1>4. raw = snapshot[c] \/ raw = Persisted(Candidate(c))
  BY DEF IInv, ChangeInv, Underway
<1>5. Load(Persisted(Candidate(c))) \in Atomically!Asked({c})
  BY <1>1, CandidateIsAsked, HolderFacts, PersistedRoundTrip
<1>6. Load(raw') \in {Load(StoredRaw)} \cup Atomically!Asked({c})
  BY <1>3, <1>4, <1>5
<1> QED
  BY <1>2, <1>3, <1>6 DEF Atomically!Spoil

LEMMA AcquireRefines ==
    ASSUME IInv, IInv', NEW c \in Callers, Acquire(c)
    PROVE  Atomically!Refuse(c) \/ UNCHANGED Atomically!atomicVars
<1>1. /\ pc[c] = "waiting" /\ StoredRaw = raw /\ UNCHANGED <<up, memory, raw, incomplete>>
  BY StoredRawFacts DEF Acquire, IInv
<1>2. CASE Merge(memory, request[c]) \in ScheduleConfig
  <2>1. pc' = [pc EXCEPT ![c] = "snapshot"] /\ UNCHANGED <<request, reply>>
    BY <1>2 DEF Acquire
  <2>2. pc'[c] = "snapshot"
    BY <2>1 DEF IInv, ChangeInv
  <2>3. StoredRaw' = raw'
    BY <2>2, StoredRawFactsNext DEF IInv
  <2> QED
    BY <1>1, <2>1, <2>3, AbstractVars DEF Effective, Stored
<1>3. CASE Merge(memory, request[c]) \notin ScheduleConfig
  BY <1>1, <1>3, RefuseRefines DEF Acquire
<1> QED
  BY <1>2, <1>3

LEMMA SnapshotRefines ==
    ASSUME IInv, IInv', NEW c \in Callers, Snapshot(c)
    PROVE  Atomically!Refuse(c) \/ UNCHANGED Atomically!atomicVars
<1>1. /\ pc[c] = "snapshot" /\ StoredRaw = raw /\ UNCHANGED <<up, memory, raw, incomplete>>
  BY StoredRawFacts DEF Snapshot, IInv
<1>2. CASE Finish(c, "update_failed")
  BY <1>1, <1>2, RefuseRefines
<1>3. CASE /\ snapshot' = [snapshot EXCEPT ![c] = raw]
           /\ pc' = [pc EXCEPT ![c] = "persist"]
           /\ UNCHANGED <<lock, request, previous, reply>>
  <2>1. pc'[c] = "persist" /\ snapshot'[c] = raw
    BY <1>3 DEF IInv, ChangeInv
  <2>2. StoredRaw' = raw'
    BY <1>1, <2>1, StoredRawFactsNext DEF IInv, Snapshotted
  <2> QED
    BY <1>1, <1>3, <2>2, AbstractVars DEF Effective, Stored
<1> QED
  BY <1>2, <1>3 DEF Snapshot

LEMMA PersistRefines ==
    ASSUME IInv, IInv', NEW c \in Callers, Persist(c) \/ PersistError(c)
    PROVE  UNCHANGED Atomically!atomicVars
<1>1. /\ pc[c] = "persist"
      /\ UNCHANGED <<up, memory, incomplete, lock, request, snapshot, reply>>
  BY DEF Persist, PersistError, GoTo
<1>2. up /\ StoredRaw = snapshot[c] /\ lock = c /\ snapshot[c] # None
  BY <1>1, HolderFacts, StoredRawFacts, SettingsAssumption, PersistedAssumption DEF Holding, Snapshotted, IInv
<1>3. StoredRaw' = snapshot[c]
  BY <1>1, <1>2, SettingsAssumption, PersistedAssumption DEF StoredRaw
<1> QED
  BY <1>1, <1>2, <1>3, AbstractVars DEF Effective, Stored

LEMMA ActivateRefines ==
    ASSUME IInv, IInv', NEW c \in Callers, Activate(c)
    PROVE  Atomically!Apply(c) \/ UNCHANGED Atomically!atomicVars
<1>1. /\ pc[c] = "activate" /\ pc[c] \in Holding /\ pc[c] \in Snapshotted
      /\ pc[c] # "idle" /\ UNCHANGED <<up, raw>>
  BY DEF Activate, Holding, Snapshotted
<1>2. /\ up /\ lock = c /\ previous[c] = memory /\ snapshot[c] # None
      /\ raw = Persisted(Candidate(c)) /\ Load(raw) = Candidate(c)
  BY <1>1, HolderFacts, PersistedRoundTrip, SettingsAssumption, PersistedAssumption DEF ChangeInv, Underway
<1>3. CASE outcome' = "scheduled"
  <2>1. memory' = Candidate(c) /\ Finish(c, "changed") /\ incomplete' = FALSE
    BY <1>3 DEF Activate
  <2>2. Atomically!Answer(c, "changed")
    BY <1>1, <2>1, AnswerRefines
  <2>3. StoredRaw' = raw'
    BY <2>1, StoredRawFactsNext DEF Finish, IInv
  <2> QED
    BY <1>1, <1>2, <2>1, <2>2, <2>3, CandidateIsAsked DEF Atomically!Apply
<1>4. CASE outcome' # "scheduled"
  <2>1. memory' = memory /\ UNCHANGED <<lock, request, snapshot, reply, incomplete>>
    BY <1>2, <1>4 DEF Activate, GoTo
  <2>2. StoredRaw' = StoredRaw
    BY <1>1, <2>1 DEF StoredRaw
  <2> QED
    BY <1>1, <1>2, <2>1, <2>2, AbstractVars DEF Effective, Stored
<1> QED
  BY <1>3, <1>4

LEMMA WriteBackRefines ==
    ASSUME IInv, IInv', NEW c \in Callers, Compensate(c) \/ Restore(c) \/ RollbackError(c)
    PROVE  Atomically!Refuse(c) \/ Atomically!Spoil(c)
<1>1. /\ pc[c] \in {"compensate", "restore"} /\ pc[c] # "idle" /\ pc[c] \in Snapshotted
      /\ UNCHANGED <<up, memory>>
  BY DEF Compensate, Restore, RollbackError, Snapshotted
<1>2. StoredRaw = snapshot[c]
  BY <1>1, StoredRawFacts DEF IInv
<1>3. CASE Finish(c, "update_failed") /\ raw' = snapshot[c] /\ UNCHANGED incomplete
  BY <1>1, <1>2, <1>3, RefuseRefines
<1>4. CASE Finish(c, "rollback_failed") /\ raw' \in {raw, snapshot[c]} /\ incomplete' = TRUE
  BY <1>1, <1>4, SpoilRefines
<1> QED
  BY <1>3, <1>4 DEF Compensate, Restore, RollbackError

LEMMA CrashRefines ==
    ASSUME IInv, IInv', Crash
    PROVE  Atomically!Die
<1>1. /\ up /\ up' = FALSE /\ incomplete' = FALSE
      /\ request' = [c \in Callers |-> None] /\ reply' = [c \in Callers |-> "none"]
  BY DEF Crash
<1>2. StoredRaw' = raw'
  BY StoredRawFactsNext DEF Crash, IInv
<1>3. \/ Load(raw') = Load(StoredRaw)
      \/ Load(raw') \in Atomically!Asked(Atomically!Pending)
  <2>1. ASSUME NEW c \in Callers, pc[c] \in Holding, raw' = Persisted(Candidate(c))
        PROVE  Load(raw') \in Atomically!Asked(Atomically!Pending)
    BY <2>1, HolderFacts, CandidateIsAsked, PersistedRoundTrip
  <2>2. CASE raw' \in InFlight
    <3>1. PICK c \in Callers :
            \/ pc[c] = "persist" /\ raw' = Persisted(Candidate(c))
            \/ pc[c] \in {"compensate", "restore"} /\ raw' = snapshot[c]
      BY <2>2 DEF InFlight
    <3> QED
      BY <2>1, <3>1, StoredRawFacts DEF IInv, Holding, Snapshotted
  <2>3. CASE raw' = raw /\ \A c \in Callers : pc[c] \notin Snapshotted
    <3>1. StoredRaw = raw
      BY <2>3, StoredRawFacts, SettingsAssumption, PersistedAssumption
      DEF StoredRaw, IInv, ChangeInv, Underway, HolderWorks
    <3> QED
      BY <2>3, <3>1
  <2>4. ASSUME raw' = raw, NEW c \in Callers, pc[c] \in Snapshotted
        PROVE  raw' = StoredRaw \/ raw' = Persisted(Candidate(c))
    BY <2>4, StoredRawFacts DEF IInv, ChangeInv, Underway, Snapshotted
  <2> QED
    BY <2>1, <2>2, <2>3, <2>4 DEF Crash, Holding, Snapshotted
<1> QED
  BY <1>1, <1>2, <1>3 DEF Atomically!Die

LEMMA StartRefines ==
    ASSUME IInv, IInv', Start \/ StartFails
    PROVE  Atomically!Revive \/ UNCHANGED Atomically!atomicVars
<1>1. /\ ~up /\ raw \in Raw /\ raw' = Migrated(raw) /\ lock = None
      /\ UNCHANGED <<lock, request, snapshot, reply, incomplete>>
  BY DEF Start, StartFails, changeVars, IInv, ChangeInv, DownIsQuiet
<1>2. Load(raw') = Load(raw)
  BY <1>1, MigrationKeepsSettings
<1>3. StoredRaw = raw /\ StoredRaw' = raw'
  BY <1>1 DEF StoredRaw
<1>4. CASE Start
  BY <1>1, <1>2, <1>3, <1>4 DEF Start, Atomically!Revive
<1>5. CASE StartFails
  BY <1>1, <1>2, <1>3, <1>5, AbstractVars DEF StartFails, Effective, Stored
<1> QED
  BY <1>4, <1>5

\* Every schedule change is atomic, in every behaviour of the code's steps: Redis errors
\* on either side of the commit, failed replacements of the jobs and crashes included.
THEOREM ChangesAreAtomic == Spec => ImplementsAtomicSchedule
<1>1. Init => Atomically!AtomicInit
  <2> SUFFICES ASSUME Init PROVE Atomically!AtomicInit
    OBVIOUS
  <2>1. Load(raw) \in ScheduleConfig /\ StoredRaw = raw
    BY LoadIsValid, SettingsAssumption, PersistedAssumption DEF Init, StoredRaw
  <2> QED
    BY <2>1, SameData DEF Init, Atomically!AtomicInit
<1>2. IInv /\ IInv' /\ [Next]_vars => [Atomically!AtomicNext]_Atomically!atomicVars
  <2> SUFFICES ASSUME IInv, IInv', [Next]_vars
               PROVE  Atomically!AtomicNext \/ UNCHANGED Atomically!atomicVars
    OBVIOUS
  <2>1. ASSUME NEW c \in Callers, RequestChange(c) \/ Acquire(c) \/ Continue(c)
        PROVE  Atomically!AtomicNext \/ UNCHANGED Atomically!atomicVars
    BY <2>1, RequestRefines, AcquireRefines, SnapshotRefines, PersistRefines,
       ActivateRefines, WriteBackRefines DEF Continue, Atomically!AtomicNext
  <2>2. CASE TimerClaimFailed
    BY <2>2 DEF TimerClaimFailed, changeVars, Atomically!atomicVars, StoredRaw
  <2>3. CASE Crash
    BY <2>3, CrashRefines DEF Atomically!AtomicNext
  <2>4. CASE Start \/ StartFails
    BY <2>4, StartRefines DEF Atomically!AtomicNext
  <2>5. CASE UNCHANGED vars
    BY <2>5 DEF vars, Atomically!atomicVars, StoredRaw
  <2> QED
    BY <2>1, <2>2, <2>3, <2>4, <2>5 DEF Next
<1> QED
  BY <1>1, <1>2, Invariance, PTL DEF Spec, ImplementsAtomicSchedule, Atomically!AtomicSpec

(***************************************************************************)
(* The composition with ScheduledUpdates: what a change, a start and a     *)
(* crash do to the jobs is one of the four steps assumed there.            *)
(***************************************************************************)
LEMMA SameSchedules ==
    /\ Updates!ScheduleConfig = ScheduleConfig
    /\ \A s, g : Updates!JobsFor(s, g) = JobsFor(s, g)
BY DEF Updates!ScheduleConfig, ScheduleConfig, Updates!JobsFor, JobsFor, Updates!JobKinds,
   JobKinds, Updates!IsRecurringBoundary, IsRecurringBoundary, Updates!Kinds, Kinds

LEMMA FreshRefines ==
    ASSUME NEW g, Fresh(g)
    PROVE  Updates!Fresh("bot", g)
BY DEF Fresh, Updates!Fresh, AtProcess, Process

LEMMA PublishedRefines ==
    ASSUME NEW s \in ScheduleConfig, NEW result, Published(s, result)
    PROVE  \E t \in ScheduleConfig : Updates!Register("bot", t)
<1>1. PICK g \in Generations : /\ Fresh(g) /\ jobs' = JobsFor(s, g)
                               /\ active' = s /\ generation' = g
  BY DEF Published
<1>2. Updates!Fresh("bot", g) /\ jobs' = Updates!JobsFor(s, g)
  BY <1>1, FreshRefines, SameSchedules
<1>3. /\ AtProcess(jobs)' = [AtProcess(jobs) EXCEPT !["bot"] = Updates!JobsFor(s, g)]
      /\ AtProcess(generation)' = [AtProcess(generation) EXCEPT !["bot"] = g]
      /\ AtProcess(active)' = [AtProcess(active) EXCEPT !["bot"] = s]
      /\ AtProcess(FALSE)' = [AtProcess(FALSE) EXCEPT !["bot"] = FALSE]
      /\ AtProcess({})' = [AtProcess({}) EXCEPT !["bot"] = {}]
  BY <1>1, <1>2 DEF AtProcess, Process
<1> QED
  BY <1>2, <1>3 DEF Updates!Register

LEMMA LostRefines ==
    ASSUME NEW s \in ScheduleConfig, NEW rollback \in ScheduleConfig \cup {None},
           active \in ScheduleConfig \cup {None}, Lost(s, rollback), up, up' = up
    PROVE  Updates!LoseSchedule("bot")
<1>1. jobs' \in Updates!Leftovers("bot")
  <2>1. EffectiveRollback(rollback) \in ScheduleConfig \cup {None}
    BY DEF EffectiveRollback
  <2>2. CASE jobs' \in SUBSET jobs
    BY <2>2 DEF Updates!Leftovers, AtProcess, Process
  <2>3. ASSUME NEW t \in {s, EffectiveRollback(rollback)}, NEW g \in Generations,
               t # None, Fresh(g), jobs' \in SUBSET JobsFor(t, g)
        PROVE  jobs' \in Updates!Leftovers("bot")
    <3>1. t \in ScheduleConfig /\ Updates!Fresh("bot", g) /\ jobs' \in SUBSET Updates!JobsFor(t, g)
      BY <2>1, <2>3, FreshRefines, SameSchedules
    <3>2. g \in { h \in Generations : Updates!Fresh("bot", h) }
      BY <3>1
    <3> DEFINE New == { SUBSET Updates!JobsFor(s1, g1) : s1 \in ScheduleConfig,
                            g1 \in { h \in Generations : Updates!Fresh("bot", h) } }
    <3>3. SUBSET Updates!JobsFor(t, g) \in New
      BY <3>1, <3>2
    <3>4. Updates!Leftovers("bot") = (SUBSET AtProcess(jobs)["bot"]) \cup UNION New
      BY DEF Updates!Leftovers
    <3> HIDE DEF New
    <3>5. jobs' \in UNION New
      BY <3>1, <3>3
    <3> QED
      BY <3>4, <3>5
  <2> QED
    BY <2>2, <2>3 DEF Lost, Leftover
<1>2. /\ AtProcess(jobs)' = [AtProcess(jobs) EXCEPT !["bot"] = jobs']
      /\ AtProcess(active)' = [AtProcess(active) EXCEPT !["bot"] = None]
      /\ AtProcess(generation)' = [AtProcess(generation) EXCEPT !["bot"] = None]
      /\ AtProcess(FALSE)' = [AtProcess(FALSE) EXCEPT !["bot"] = FALSE]
      /\ AtProcess({})' = [AtProcess({}) EXCEPT !["bot"] = AtProcess({})["bot"] \cap jobs']
      /\ AtProcess(up)["bot"] /\ AtProcess(up)' = AtProcess(up)
  BY DEF Lost, AtProcess, Process
<1> QED
  BY <1>1, <1>2 DEF Updates!LoseSchedule

\* A step that leaves the jobs of the process alone.
LEMMA UpdatesVars ==
    ASSUME UNCHANGED <<up, jobs, active, generation>>
    PROVE  UNCHANGED Updates!vars
BY DEF Updates!vars, AtProcess

LEMMA ActivateDrives ==
    ASSUME IInv, NEW c \in Callers, Activate(c)
    PROVE  Updates!Next
<1>1. /\ up /\ up' = up /\ previous[c] \in ScheduleConfig /\ Candidate(c) \in ScheduleConfig
      /\ active \in ScheduleConfig \cup {None}
  BY HolderFacts DEF Activate, Holding, IInv, ServiceInv, ServiceTypeOK
<1>2. CASE Lost(Candidate(c), previous[c])
  BY <1>1, <1>2, LostRefines DEF Updates!Next, Process
<1>3. ASSUME NEW s \in ScheduleConfig, NEW result, Published(s, result)
      PROVE  Updates!Reschedule("bot")
  <2>1. AtProcess(up)["bot"] /\ AtProcess(up)' = AtProcess(up)
    BY <1>1 DEF AtProcess, Process
  <2> QED
    BY <1>3, <2>1, PublishedRefines DEF Updates!Reschedule
<1>4. EffectiveRollback(previous[c]) \in ScheduleConfig
  BY <1>1, SchedulesAssumption DEF EffectiveRollback
<1> QED
  BY <1>1, <1>2, <1>3, <1>4 DEF Activate, SchedulePriceUpdate, Replaced, Restored,
     Updates!Next, Process

LEMMA CrashDrives ==
    ASSUME Crash
    PROVE  Updates!Crash("bot")
<1>1. /\ AtProcess(up)["bot"]
      /\ AtProcess(up)' = [AtProcess(up) EXCEPT !["bot"] = FALSE]
      /\ AtProcess(jobs)' = [AtProcess(jobs) EXCEPT !["bot"] = {}]
      /\ AtProcess(active)' = [AtProcess(active) EXCEPT !["bot"] = None]
      /\ AtProcess(generation)' = [AtProcess(generation) EXCEPT !["bot"] = None]
      /\ AtProcess(FALSE)' = [AtProcess(FALSE) EXCEPT !["bot"] = FALSE]
      /\ AtProcess({})' = [AtProcess({}) EXCEPT !["bot"] = {}]
  BY DEF Crash, AtProcess, Process
<1> QED
  BY <1>1 DEF Updates!Crash

LEMMA StartDrives ==
    ASSUME IInv, Start
    PROVE  Updates!Start("bot")
<1>1. /\ ~AtProcess(up)["bot"]
      /\ AtProcess(up)' = [AtProcess(up) EXCEPT !["bot"] = TRUE]
  BY DEF Start, AtProcess, Process
<1>2. Load(raw) \in ScheduleConfig
  BY LoadIsValid DEF IInv, ChangeInv
<1> QED
  BY <1>1, <1>2, PublishedRefines DEF Start, Replaced, Updates!Start

\* What ScheduledUpdates assumes of the schedule of a process is what the settings
\* service does to it, in every behaviour.
THEOREM UpdatesAreDriven == Spec => SettingsDriveUpdates
<1>1. Init => Updates!Init
  <2>1. Updates!Keys = { <<s.zone, 0, 0>> : s \in ScheduleConfig }
    <3>1. Updates!Instants = {0}
      BY DEF Updates!Instants
    <3>2. \A s \in ScheduleConfig : Updates!KeyAt(s, 0) = <<s.zone, 0, 0>>
      BY DEF Updates!KeyAt, ScheduleConfig
    <3> QED
      BY <3>1, <3>2 DEF Updates!Keys
  <2> QED
    BY <2>1 DEF Init, ServiceInit, Updates!Init, AtProcess, Process
<1>2. IInv /\ [Next]_vars => [Updates!Next]_Updates!vars
  <2> SUFFICES ASSUME IInv, [Next]_vars
               PROVE  Updates!Next \/ UNCHANGED Updates!vars
    OBVIOUS
  <2>1. ASSUME NEW c \in Callers, RequestChange(c) \/ Acquire(c) \/ Continue(c), ~Activate(c)
        PROVE  UNCHANGED <<up, jobs, active, generation>>
    BY <2>1 DEF RequestChange, Acquire, Continue, Snapshot, Persist, PersistError, Compensate,
       Restore, RollbackError, serviceVars
  <2>2. ASSUME NEW c \in Callers, Activate(c)
        PROVE  Updates!Next
    BY <2>2, ActivateDrives
  <2>3. CASE TimerClaimFailed \/ StartFails \/ UNCHANGED vars
    BY <2>3, UpdatesVars DEF TimerClaimFailed, ClaimFailed, StartFails, serviceVars, vars
  <2>4. CASE Crash
    BY <2>4, CrashDrives DEF Updates!Next, Process
  <2>5. CASE Start
    BY <2>5, StartDrives DEF Updates!Next, Process
  <2> QED
    BY <2>1, <2>2, <2>3, <2>4, <2>5, UpdatesVars DEF Next
<1> QED
  BY <1>1, <1>2, Invariance, PTL DEF Spec, SettingsDriveUpdates, Updates!Spec

(***************************************************************************)
(* The composition with ConfigLoad: the change that the holder of the lock *)
(* is in is the one change of its writer.                                  *)
(***************************************************************************)
LEMMA SameStore ==
    /\ \A s : Beside!Persisted(s) = Persisted(s)
    /\ \A r : Beside!Load(r) = Load(r) /\ Beside!Migrated(r) = Migrated(r)
    /\ Beside!NoChange = Change("idle", None, None)
    /\ Beside!Down = Change("down", None, None)
BY DEF Beside!Persisted, Persisted, Beside!Load, Load, Beside!Migrated, Migrated,
   Beside!Valid, Valid, Beside!NoChange, Beside!Down, Change

\* Nothing is remembered of a load that is not under way.
LEMMA NothingLoads ==
    /\ Beside!Past(TRUE) /\ Beside!Past(FALSE)
    /\ UNCHANGED <<Beside!loadVars, Beside!pastVars>>
BY DEF Beside!Past, Beside!Loading, Beside!loadVars, Beside!pastVars

\* What the writer of ConfigLoad is, from where the holder of the lock is.
LEMMA WriterFacts ==
    ASSUME IInv
    PROVE  /\ ~up => ServiceAsWriter = Beside!Down
           /\ up /\ (\A c \in Callers : pc[c] \notin Snapshotted)
                  => ServiceAsWriter = Beside!NoChange
           /\ \A c \in Callers : pc[c] \in Snapshotted =>
                  ServiceAsWriter = Change(WriterStage(pc[c]), Candidate(c), snapshot[c])
<1>1. \A c \in Callers : pc[c] \in Snapshotted => up /\ lock = c
  BY HolderFacts DEF Holding, Snapshotted
<1>2. lock \in Callers \cup {None}
  BY DEF IInv, ChangeInv
<1> QED
  BY <1>1, <1>2, SameStore, SettingsAssumption
  DEF ServiceAsWriter, Sending, Snapshotted

LEMMA WriterFactsNext ==
    ASSUME IInv'
    PROVE  /\ ~up' => ServiceAsWriter' = Beside!Down
           /\ up' /\ (\A c \in Callers : pc'[c] \notin Snapshotted)
                  => ServiceAsWriter' = Beside!NoChange
           /\ \A c \in Callers : pc'[c] \in Snapshotted =>
                  ServiceAsWriter' = Change(WriterStage(pc'[c]), Candidate(c)', snapshot'[c])
<1>1. \A c \in Callers : pc'[c] \in Holding => lock' = c
  BY DEF IInv, ChangeInv, HolderWorks
<1>2. \A c \in Callers : pc'[c] \in Snapshotted => up' /\ lock' = c
  BY <1>1 DEF IInv, DownIsQuiet, Holding, Snapshotted
<1>3. lock' \in Callers \cup {None}
  BY DEF IInv, ChangeInv
<1> QED
  BY <1>2, <1>3, SameStore, SettingsAssumption
  DEF ServiceAsWriter, Sending, Snapshotted

\* A change that ends leaves nobody else in one.
LEMMA NobodySends ==
    ASSUME IInv, IInv', up', lock' = None
    PROVE  ServiceAsWriter' = Beside!NoChange
<1>1. \A c \in Callers : pc'[c] \notin Snapshotted
  BY SettingsAssumption DEF IInv, ChangeInv, HolderWorks, Holding, Snapshotted
<1> QED
  BY <1>1, WriterFactsNext

\* A step that the writer, Redis and what was committed do not see.
LEMMA BesideVars ==
    ASSUME raw' = raw, ServiceAsWriter' = ServiceAsWriter, Kept' = Kept
    PROVE  UNCHANGED Beside!vars
BY DEF Beside!vars

LEMMA RequestBeside ==
    ASSUME IInv, IInv', NEW c \in Callers, RequestChange(c) \/ Acquire(c)
    PROVE  UNCHANGED Beside!vars
<1>1. /\ up /\ up' /\ raw' = raw /\ memory' = memory /\ incomplete' = incomplete
      /\ snapshot' = snapshot
  <2>1. CASE RequestChange(c)
    BY <2>1 DEF RequestChange
  <2>2. CASE Acquire(c)
    <3>1. pc[c] = "waiting" /\ snapshot[c] = None
      BY <2>2 DEF Acquire, IInv, ChangeInv, Underway, Snapshotted
    <3>2. [snapshot EXCEPT ![c] = None] = snapshot
      BY <3>1 DEF IInv, ChangeInv
    <3> QED
      BY <2>2, <3>1, <3>2, WorkingIsUp DEF Acquire, Finish
  <2> QED
    BY <2>1, <2>2
<1>2. CASE \A d \in Callers : pc[d] \notin Snapshotted
  <2>1. \A d \in Callers : pc'[d] \notin Snapshotted
    BY <1>2 DEF RequestChange, Acquire, Finish, IInv, ChangeInv, Snapshotted
  <2>2. ServiceAsWriter' = ServiceAsWriter
    BY <1>1, <1>2, <2>1, WriterFacts, WriterFactsNext
  <2>3. StoredRaw = raw /\ StoredRaw' = raw'
    BY <1>1, <1>2, <2>1, SettingsAssumption, PersistedAssumption
    DEF StoredRaw, IInv, ChangeInv, Underway
  <2> QED
    BY <1>1, <2>2, <2>3, BesideVars DEF Kept
<1>3. ASSUME NEW d \in Callers, pc[d] \in Snapshotted
      PROVE  UNCHANGED Beside!vars
  <2>1. lock = d /\ lock # None /\ RequestChange(c)
    BY <1>3, HolderFacts, SettingsAssumption DEF Acquire, Holding, Snapshotted
  <2>2. pc[c] = "idle" /\ d # c /\ lock' = lock
    BY <1>3, <2>1 DEF RequestChange, Snapshotted
  <2>3. /\ pc'[d] = pc[d] /\ request'[d] = request[d] /\ previous'[d] = previous[d]
    BY <2>1, <2>2 DEF RequestChange, IInv, ChangeInv
  <2>4. Candidate(d)' = Candidate(d)
    BY <2>3 DEF Candidate
  <2>5. ServiceAsWriter' = ServiceAsWriter
    BY <1>1, <1>3, <2>3, <2>4, WriterFacts, WriterFactsNext
  <2>6. StoredRaw' = StoredRaw
    BY <1>1, <2>2 DEF StoredRaw
  <2> QED
    BY <1>1, <2>5, <2>6, BesideVars DEF Kept
<1> QED
  BY <1>2, <1>3

LEMMA SnapshotBeside ==
    ASSUME IInv, IInv', NEW c \in Callers, Snapshot(c)
    PROVE  Beside!WriterSnapshot \/ UNCHANGED Beside!vars
<1>1. /\ pc[c] = "snapshot" /\ pc[c] \in Holding /\ StoredRaw = raw
      /\ UNCHANGED <<up, memory, raw, incomplete>>
  BY StoredRawFacts DEF Snapshot, Holding, IInv
<1>2. up /\ up' /\ lock = c /\ raw \in Raw /\ Candidate(c) \in ScheduleConfig
  BY <1>1, HolderFacts DEF ChangeInv
<1>3. ServiceAsWriter = Beside!NoChange
  <2>1. \A d \in Callers : pc[d] \notin Snapshotted
    BY <1>1, <1>2 DEF IInv, ChangeInv, HolderWorks, Holding, Snapshotted
  <2> QED
    BY <1>2, <2>1, WriterFacts
<1>4. CASE Finish(c, "update_failed")
  <2>1. ServiceAsWriter' = Beside!NoChange /\ StoredRaw' = raw'
    BY <1>2, <1>4, NobodySends, StoredRawFactsNext DEF Finish, IInv
  <2> QED
    BY <1>1, <1>3, <2>1, BesideVars DEF Kept
<1>5. CASE /\ snapshot' = [snapshot EXCEPT ![c] = raw]
           /\ pc' = [pc EXCEPT ![c] = "persist"]
           /\ UNCHANGED <<lock, request, previous, reply>>
  <2>1. pc'[c] = "persist" /\ snapshot'[c] = raw /\ Candidate(c)' = Candidate(c)
    BY <1>5 DEF IInv, ChangeInv, Candidate
  <2>2. ServiceAsWriter' = [stage |-> "persist", candidate |-> Candidate(c), snapshot |-> raw]
    BY <2>1, WriterFactsNext DEF Snapshotted, WriterStage, Change
  <2>3. StoredRaw' = raw
    BY <1>1, <2>1, StoredRawFactsNext DEF IInv, Snapshotted
  <2>4. Kept' = Kept
    BY <1>1, <2>3 DEF Kept
  <2>5. ServiceAsWriter.stage = "idle"
    BY <1>3 DEF Beside!NoChange
  <2> QED
    BY <1>1, <1>2, <2>2, <2>4, <2>5, NothingLoads DEF Beside!WriterSnapshot
<1> QED
  BY <1>4, <1>5 DEF Snapshot

LEMMA PersistBeside ==
    ASSUME IInv, IInv', NEW c \in Callers, Persist(c) \/ PersistError(c)
    PROVE  Beside!WriterPersist \/ Beside!WriterError
<1>1. /\ pc[c] = "persist" /\ pc[c] \in Holding /\ pc[c] \in Snapshotted
      /\ UNCHANGED <<up, memory, incomplete, lock, request, previous, snapshot>>
  BY DEF Persist, PersistError, GoTo, Holding, Snapshotted
<1>2. ServiceAsWriter = Change("persist", Candidate(c), snapshot[c])
  BY <1>1, WriterFacts DEF WriterStage
<1>3. PICK step \in {"activate", "compensate"} : pc' = [pc EXCEPT ![c] = step]
  BY DEF Persist, PersistError, GoTo
<1>4. pc'[c] = step /\ Candidate(c)' = Candidate(c)
  BY <1>1, <1>3 DEF IInv, ChangeInv, Candidate
<1>5. ServiceAsWriter' = Change(WriterStage(step), Candidate(c), snapshot[c])
  BY <1>1, <1>4, WriterFactsNext DEF Snapshotted
<1>6. Kept' = Kept
  <2>1. StoredRaw = snapshot[c] /\ StoredRaw' = snapshot[c]
    BY <1>1, <1>3, <1>4, StoredRawFacts, StoredRawFactsNext DEF IInv, Snapshotted
  <2> QED
    BY <1>1, <2>1 DEF Kept
<1>7. CASE Persist(c)
  <2>1. step = "activate"
    BY <1>3, <1>7 DEF Persist, GoTo, IInv, ChangeInv
  <2> QED
    BY <1>2, <1>5, <1>6, <1>7, <2>1, SameStore
    DEF Persist, Beside!WriterPersist, Change, WriterStage, Beside!Past, Beside!Loading,
        Beside!loadVars
<1>8. CASE PersistError(c)
  <2>1. step = "compensate"
    BY <1>3, <1>8 DEF PersistError, GoTo, IInv, ChangeInv
  <2> QED
    BY <1>2, <1>5, <1>6, <1>8, <2>1, SameStore
    DEF PersistError, Beside!WriterError, Change, WriterStage, Beside!Past, Beside!Loading,
        Beside!loadVars
<1> QED
  BY <1>7, <1>8

LEMMA ActivateBeside ==
    ASSUME IInv, IInv', NEW c \in Callers, Activate(c)
    PROVE  Beside!WriterCommit \/ UNCHANGED Beside!vars
<1>1. /\ pc[c] = "activate" /\ pc[c] \in Holding /\ pc[c] \in Snapshotted
      /\ UNCHANGED <<up, raw>>
  BY DEF Activate, Holding, Snapshotted
<1>2. up /\ previous[c] = memory /\ Candidate(c) \in ScheduleConfig
      /\ raw = Persisted(Candidate(c))
  BY <1>1, HolderFacts DEF ChangeInv, Underway
<1>3. ServiceAsWriter = Change("written", Candidate(c), snapshot[c])
  BY <1>1, WriterFacts DEF WriterStage
<1>4. CASE outcome' = "scheduled"
  <2>1. memory' = Candidate(c) /\ Finish(c, "changed") /\ incomplete' = FALSE
    BY <1>4 DEF Activate
  <2>2. ServiceAsWriter' = Beside!NoChange /\ StoredRaw' = raw'
    BY <1>1, <1>2, <2>1, NobodySends, StoredRawFactsNext DEF Finish, IInv
  <2>3. StoredRaw'.frequency # None
    BY <1>1, <1>2, <2>2, SchedulesAssumption DEF Persisted, ScheduleConfig
  <2>4. Kept' = Candidate(c)
    BY <1>1, <1>2, <2>1, <2>3 DEF Kept
  <2> QED
    BY <1>1, <1>3, <2>2, <2>4, NothingLoads DEF Beside!WriterCommit, Change
<1>5. CASE outcome' # "scheduled"
  <2>1. /\ memory' = memory /\ pc' = [pc EXCEPT ![c] = "restore"]
        /\ UNCHANGED <<lock, request, previous, snapshot, incomplete>>
    BY <1>2, <1>5 DEF Activate, GoTo
  <2>2. pc'[c] = "restore" /\ Candidate(c)' = Candidate(c) /\ StoredRaw' = StoredRaw
    BY <1>1, <2>1 DEF IInv, ChangeInv, Candidate, StoredRaw
  <2>3. ServiceAsWriter' = Change("written", Candidate(c), snapshot[c])
    BY <2>1, <2>2, WriterFactsNext DEF Snapshotted, WriterStage
  <2> QED
    BY <1>1, <1>3, <2>1, <2>2, <2>3, BesideVars DEF Kept
<1> QED
  BY <1>4, <1>5

LEMMA WriteBackBeside ==
    ASSUME IInv, IInv', NEW c \in Callers, Compensate(c) \/ Restore(c) \/ RollbackError(c)
    PROVE  Beside!WriterUndo \/ Beside!WriterUndoError
<1>1. /\ pc[c] \in {"compensate", "restore"} /\ pc[c] \in Holding /\ pc[c] \in Snapshotted
      /\ UNCHANGED <<up, memory>>
  BY DEF Compensate, Restore, RollbackError, Holding, Snapshotted
<1>2. up /\ StoredRaw = snapshot[c]
  BY <1>1, HolderFacts, StoredRawFacts DEF IInv
<1>3. PICK answer \in {"update_failed", "rollback_failed"} :
        /\ Finish(c, answer)
        /\ \/ incomplete' = TRUE /\ raw' \in {raw, snapshot[c]}
           \/ incomplete' = incomplete /\ raw' = snapshot[c]
  BY DEF Compensate, Restore, RollbackError
<1>4. /\ ServiceAsWriter.stage \in {"written", "undo"}
      /\ ServiceAsWriter.snapshot = snapshot[c]
  BY <1>1, WriterFacts DEF WriterStage, Change
<1>5. ServiceAsWriter' = Beside!NoChange /\ StoredRaw' = raw'
  BY <1>1, <1>2, <1>3, NobodySends, StoredRawFactsNext DEF Finish, IInv
<1>6. CASE incomplete' = TRUE /\ raw' \in {raw, snapshot[c]}
  BY <1>4, <1>5, <1>6, NothingLoads DEF Kept, Beside!WriterUndoError
<1>7. CASE incomplete' = incomplete /\ raw' = snapshot[c]
  <2>1. Kept' = Kept
    BY <1>1, <1>2, <1>5, <1>7 DEF Kept
  <2> QED
    BY <1>4, <1>5, <1>7, <2>1, NothingLoads DEF Beside!WriterUndo
<1> QED
  BY <1>3, <1>6, <1>7

LEMMA CrashBeside ==
    ASSUME IInv, IInv', Crash
    PROVE  Beside!WriterCrash
<1>1. up /\ ~up' /\ ServiceAsWriter' = Beside!Down /\ Kept' = None
  BY WriterFactsNext DEF Crash, Kept
<1>2. CASE \A c \in Callers : pc[c] \notin Snapshotted
  <2>1. ServiceAsWriter.stage = "idle"
    BY <1>1, <1>2, WriterFacts DEF Beside!NoChange
  <2>2. raw' = raw
    BY <1>2 DEF Crash, InFlight, Snapshotted
  <2> QED
    BY <1>1, <2>1, <2>2
    DEF Beside!WriterCrash, Beside!Past, Beside!Loading, Beside!loadVars
<1>3. ASSUME NEW c \in Callers, pc[c] \in Snapshotted
      PROVE  Beside!WriterCrash
  <2>1. ServiceAsWriter = Change(WriterStage(pc[c]), Candidate(c), snapshot[c])
    BY <1>3, WriterFacts
  <2>2. \A d \in Callers : pc[d] \in Snapshotted => d = c
    BY <1>3, HolderFacts DEF Holding, Snapshotted
  <2>3. \/ raw' = raw
        \/ pc[c] = "persist" /\ raw' = Persisted(Candidate(c))
        \/ pc[c] \in {"compensate", "restore"} /\ raw' = snapshot[c]
    BY <2>2 DEF Crash, InFlight, Snapshotted
  <2>4. CASE pc[c] = "persist"
    BY <1>1, <2>1, <2>3, <2>4, SameStore
    DEF Beside!WriterCrash, Change, WriterStage, Beside!Past, Beside!Loading, Beside!loadVars
  <2>5. CASE pc[c] # "persist"
    <3>1. ServiceAsWriter.stage \in {"written", "undo"} /\ ServiceAsWriter.snapshot = snapshot[c]
      BY <1>3, <2>1, <2>5 DEF Change, WriterStage, Snapshotted
    <3>2. raw' \in {raw} \cup {snapshot[c]}
      BY <2>3, <2>5
    <3> QED
      BY <1>1, <3>1, <3>2
      DEF Beside!WriterCrash, Beside!Past, Beside!Loading, Beside!loadVars
  <2> QED
    BY <2>4, <2>5
<1> QED
  BY <1>2, <1>3

LEMMA StartBeside ==
    ASSUME IInv, IInv', Start \/ StartFails
    PROVE  Beside!WriterStart
<1>1. /\ ~up /\ raw' = Migrated(raw) /\ lock = None /\ ~incomplete
      /\ UNCHANGED <<lock, pc, snapshot, incomplete>>
      /\ \A c \in Callers : pc'[c] = "idle"
  BY DEF Start, StartFails, changeVars, IInv, DownIsQuiet
<1>2. ServiceAsWriter = Beside!Down /\ StoredRaw' = raw'
  BY <1>1, WriterFacts DEF StoredRaw
<1>3. ServiceAsWriter.stage = "down"
  BY <1>2, SameStore DEF Change
<1>4. CASE Start
  <2>1. ServiceAsWriter' = Beside!NoChange
    BY <1>1, <1>4, WriterFactsNext DEF Start, Snapshotted
  <2>2. Kept' = IF raw'.frequency = None THEN None ELSE Load(raw)
    BY <1>1, <1>2, <1>4 DEF Start, Kept
  <2> QED
    BY <1>1, <1>3, <2>1, <2>2, SameStore, NothingLoads DEF Beside!WriterStart
<1>5. CASE StartFails
  <2>1. ServiceAsWriter' = ServiceAsWriter /\ Kept' = Kept
    BY <1>1, <1>2, <1>5, WriterFactsNext DEF StartFails, Kept
  <2> QED
    BY <1>1, <1>3, <2>1, SameStore, NothingLoads DEF Beside!WriterStart
<1> QED
  BY <1>4, <1>5

\* To a process that loads its settings, the settings service with all its callers is
\* the one writer of ConfigLoad: whatever interleaving, error or crash, Redis sees one
\* change at a time, stored whole and then committed, put back or reported incomplete.
THEOREM ChangesReachRedisOneByOne == Spec => SettingsWriteOneByOne
<1>1. Init => Beside!Init
  <2> SUFFICES ASSUME Init PROVE Beside!Init
    OBVIOUS
  <2>1. ServiceAsWriter = Beside!Down /\ Kept = None
    BY SameStore DEF Init, ServiceAsWriter, Kept
  <2> QED
    BY <2>1 DEF Init, Beside!Init, Beside!Unread
<1>2. IInv /\ IInv' /\ [Next]_vars => [Beside!Next]_Beside!vars
  <2> SUFFICES ASSUME IInv, IInv', [Next]_vars
               PROVE  Beside!Next \/ UNCHANGED Beside!vars
    OBVIOUS
  <2>1. ASSUME NEW c \in Callers, RequestChange(c) \/ Acquire(c) \/ Continue(c)
        PROVE  Beside!Next \/ UNCHANGED Beside!vars
    BY <2>1, RequestBeside, SnapshotBeside, PersistBeside, ActivateBeside, WriteBackBeside
    DEF Continue, Beside!Next
  <2>2. CASE TimerClaimFailed \/ UNCHANGED vars
    BY <2>2 DEF TimerClaimFailed, changeVars, vars, Beside!vars, Kept, StoredRaw,
       ServiceAsWriter, Candidate
  <2>3. CASE Crash
    BY <2>3, CrashBeside DEF Beside!Next
  <2>4. CASE Start \/ StartFails
    BY <2>4, StartBeside DEF Beside!Next
  <2> QED
    BY <2>1, <2>2, <2>3, <2>4 DEF Next
<1> QED
  BY <1>1, <1>2, Invariance, PTL DEF Spec, SettingsWriteOneByOne, Beside!Spec

=============================================================================
