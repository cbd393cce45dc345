-------------------------- MODULE SettingsService --------------------------
(***************************************************************************)
(* services/settings_service.py with the start of the process (config.py,  *)
(* main.py): a schedule change validates, persists to Redis, activates in  *)
(* memory and replaces the jobs, and compensates what it did when a later  *)
(* step fails.  A change is a coroutine: between two of its steps other    *)
(* coroutines run and the process can be killed.  Redis can answer with an *)
(* error before or after it has executed a transaction.                    *)
(*                                                                         *)
(* The jobs are replaced by the actions of ReplaceSchedule, which          *)
(* SchedulerService implements.                                            *)
(*                                                                         *)
(* The framework hands updates to the handlers one by one by default.  The *)
(* service takes a lock not to depend on it, and neither does the model:   *)
(* several callers may change the schedule at once.                        *)
(***************************************************************************)
EXTENDS ReplaceSchedule, PersistedSettings

CONSTANTS
    Callers,      \* coroutines that change the schedule (command handlers)
    Requests,     \* the changes they ask for
    InitialRaw    \* what Redis may hold before the first start

\* The arguments of apply_schedule_change; None is "keep the previous value".
Request == [frequency : Frequencies \cup {None}, start : Times \cup {None},
            end : Times \cup {None}, zone : Zones \cup {None}]

ASSUME SettingsAssumption ==
    /\ Requests \subseteq Request
    /\ InitialRaw \subseteq Raw
    /\ None \notin Callers

VARIABLES
    up,         \* is the process running?
    memory,     \* config.settings: the effective schedule
    raw,        \* the five keys in Redis
    lock,       \* the holder of _schedule_update_lock
    pc,         \* where each change is
    request,    \* what it asks for
    previous,   \* the effective schedule it found
    snapshot,   \* the raw values it found
    reply,      \* what the last change of each caller was answered
    incomplete  \* history: has a rollback been reported incomplete since the last
                \* change that succeeded, or the last start?

changeVars == <<lock, pc, request, previous, snapshot>>
vars == <<jobs, active, generation, health, outcome, up, memory, raw, lock, pc,
          request, previous, snapshot, reply, incomplete>>

Steps == {"idle", "waiting", "snapshot", "persist", "activate", "compensate", "restore"}
Replies == {"none", "pending", "changed", "rejected", "update_failed", "rollback_failed"}

TypeOK ==
    /\ ServiceTypeOK
    /\ up \in BOOLEAN
    /\ memory \in ScheduleConfig
    /\ raw \in Raw
    /\ lock \in Callers \cup {None}
    /\ pc \in [Callers -> Steps]
    /\ request \in [Callers -> Requests \cup {None}]
    /\ previous \in [Callers -> ScheduleConfig \cup {None}]
    /\ snapshot \in [Callers -> Raw \cup {None}]
    /\ reply \in [Callers -> Replies]
    /\ incomplete \in BOOLEAN

(***************************************************************************)
(* A change.                                                               *)
(***************************************************************************)

KeepOr(value, default) == IF value = None THEN default ELSE value

Merge(s, r) ==
    [frequency |-> KeepOr(r.frequency, s.frequency), start |-> KeepOr(r.start, s.start),
     end |-> KeepOr(r.end, s.end), zone |-> KeepOr(r.zone, s.zone)]

Candidate(c) == Merge(previous[c], request[c])

\* The coroutine leaves the lock and its handler answers.
Finish(c, answer) ==
    /\ lock' = None
    /\ pc' = [pc EXCEPT ![c] = "idle"]
    /\ request' = [request EXCEPT ![c] = None]
    /\ previous' = [previous EXCEPT ![c] = None]
    /\ snapshot' = [snapshot EXCEPT ![c] = None]
    /\ reply' = [reply EXCEPT ![c] = answer]

GoTo(c, step) ==
    /\ pc' = [pc EXCEPT ![c] = step]
    /\ UNCHANGED <<lock, request, previous, snapshot, reply>>

\* A handler calls apply_schedule_change, through one of the functions that name
\* what changes.
RequestChange(c) ==
    /\ up
    /\ pc[c] = "idle"
    /\ \E r \in Requests : request' = [request EXCEPT ![c] = r]
    /\ pc' = [pc EXCEPT ![c] = "waiting"]
    /\ reply' = [reply EXCEPT ![c] = "pending"]
    /\ UNCHANGED <<serviceVars, up, memory, raw, lock, previous, snapshot, incomplete>>

Acquire_Unvalidated(c) ==
    /\ pc[c] = "waiting"
    /\ lock = None
    /\ lock' = c
    /\ pc' = [pc EXCEPT ![c] = "snapshot"]
    /\ previous' = [previous EXCEPT ![c] = memory]
    /\ UNCHANGED <<request, snapshot, reply>>
    /\ UNCHANGED <<serviceVars, up, memory, raw, incomplete>>

Acquire_Unlocked(c) ==
    /\ pc[c] = "waiting"
    /\ IF Merge(memory, request[c]) \in ScheduleConfig
       THEN /\ lock' = c
            /\ pc' = [pc EXCEPT ![c] = "snapshot"]
            /\ previous' = [previous EXCEPT ![c] = memory]
            /\ UNCHANGED <<request, snapshot, reply>>
       ELSE Finish(c, "rejected")
    /\ UNCHANGED <<serviceVars, up, memory, raw, incomplete>>

\* It takes the lock, reads the effective schedule and validates the candidate.
Acquire(c) ==
    /\ pc[c] = "waiting"
    /\ lock = None
    /\ IF Merge(memory, request[c]) \in ScheduleConfig
       THEN /\ lock' = c
            /\ pc' = [pc EXCEPT ![c] = "snapshot"]
            /\ previous' = [previous EXCEPT ![c] = memory]
            /\ UNCHANGED <<request, snapshot, reply>>
       ELSE Finish(c, "rejected")
    /\ UNCHANGED <<serviceVars, up, memory, raw, incomplete>>

Snapshot_KeepingLock(c) ==
    /\ pc[c] = "snapshot"
    /\ \/ /\ snapshot' = [snapshot EXCEPT ![c] = raw]
          /\ pc' = [pc EXCEPT ![c] = "persist"]
          /\ UNCHANGED <<lock, request, previous, reply>>
       \/ /\ pc' = [pc EXCEPT ![c] = "idle"]
          /\ request' = [request EXCEPT ![c] = None]
          /\ previous' = [previous EXCEPT ![c] = None]
          /\ reply' = [reply EXCEPT ![c] = "update_failed"]
          /\ UNCHANGED <<lock, snapshot>>
    /\ UNCHANGED <<serviceVars, up, memory, raw, incomplete>>

Snapshot(c) ==
    /\ pc[c] = "snapshot"
    /\ \/ /\ snapshot' = [snapshot EXCEPT ![c] = raw]
          /\ pc' = [pc EXCEPT ![c] = "persist"]
          /\ UNCHANGED <<lock, request, previous, reply>>
       \/ Finish(c, "update_failed")
    /\ UNCHANGED <<serviceVars, up, memory, raw, incomplete>>

\* The transaction that stores the candidate is executed; the coroutine goes on
\* when the answer arrives.
Persist(c) ==
    /\ pc[c] = "persist"
    /\ raw' = Persisted(Candidate(c))
    /\ GoTo(c, "activate")
    /\ UNCHANGED <<serviceVars, up, memory, incomplete>>

\* An error instead of an answer: the transaction may have been executed.
PersistError(c) ==
    /\ pc[c] = "persist"
    /\ raw' \in {raw, Persisted(Candidate(c))}
    /\ GoTo(c, "compensate")
    /\ UNCHANGED <<serviceVars, up, memory, incomplete>>

Activate_KeepingCandidate(c) ==
    /\ pc[c] = "activate"
    /\ SchedulePriceUpdate(Candidate(c), previous[c])
    /\ memory' = Candidate(c)
    /\ IF outcome' = "scheduled"
       THEN Finish(c, "changed") /\ incomplete' = FALSE
       ELSE GoTo(c, "restore") /\ UNCHANGED incomplete
    /\ UNCHANGED <<up, raw>>

\* The candidate becomes effective and its jobs replace the old ones; when that
\* raises, the previous schedule becomes effective again, in the same step.
Activate(c) ==
    /\ pc[c] = "activate"
    /\ SchedulePriceUpdate(Candidate(c), previous[c])
    /\ IF outcome' = "scheduled"
       THEN /\ memory' = Candidate(c)
            /\ Finish(c, "changed")
            /\ incomplete' = FALSE
       ELSE /\ memory' = previous[c]
            /\ GoTo(c, "restore")
            /\ UNCHANGED incomplete
    /\ UNCHANGED <<up, raw>>

Compensate_WithoutWriting(c) ==
    /\ pc[c] = "compensate"
    /\ Finish(c, "update_failed")
    /\ UNCHANGED <<serviceVars, up, memory, raw, incomplete>>

\* The snapshot is written back after the candidate could not be persisted ...
Compensate(c) ==
    /\ pc[c] = "compensate"
    /\ raw' = snapshot[c]
    /\ Finish(c, "update_failed")
    /\ UNCHANGED <<serviceVars, up, memory, incomplete>>

\* ... or after its jobs could not be registered.
Restore(c) ==
    /\ pc[c] = "restore"
    /\ raw' = snapshot[c]
    /\ IF outcome = "rollback_error"
       THEN /\ health' = "degraded"
            /\ Finish(c, "rollback_failed")
            /\ incomplete' = TRUE
       ELSE /\ Finish(c, "update_failed")
            /\ UNCHANGED <<health, incomplete>>
    /\ UNCHANGED <<jobs, active, generation, outcome, up, memory>>

\* Writing the snapshot back fails, before or after it was executed.
RollbackError(c) ==
    /\ pc[c] \in {"compensate", "restore"}
    /\ raw' \in {raw, snapshot[c]}
    /\ health' = "degraded"
    /\ Finish(c, "rollback_failed")
    /\ incomplete' = TRUE
    /\ UNCHANGED <<jobs, active, generation, outcome, up, memory>>

(***************************************************************************)
(* The process.                                                            *)
(***************************************************************************)

\* What Redis may hold when the process is killed: a transaction that was sent is
\* executed or is not.
InFlight ==
    { Persisted(Candidate(c)) : c \in { d \in Callers : pc[d] = "persist" } } \cup
    { snapshot[c] : c \in { d \in Callers : pc[d] \in {"compensate", "restore"} } }

Crash ==
    /\ up
    /\ up' = FALSE
    /\ raw' \in {raw} \cup InFlight
    /\ memory' = Env
    /\ jobs' = {} /\ active' = None /\ generation' = None
    /\ health' = "active" /\ outcome' = "none"
    /\ lock' = None
    /\ pc' = [c \in Callers |-> "idle"]
    /\ request' = [c \in Callers |-> None]
    /\ previous' = [c \in Callers |-> None]
    /\ snapshot' = [c \in Callers |-> None]
    /\ reply' = [c \in Callers |-> "none"]
    /\ incomplete' = FALSE

\* main(): the settings are loaded, then the jobs are registered.
Start ==
    /\ ~up
    /\ up' = TRUE
    /\ raw' = Migrated(raw)
    /\ memory' = Load(raw)
    /\ Replaced(Load(raw))
    /\ UNCHANGED <<changeVars, reply, incomplete>>

\* An error of Redis or of the registration ends the process.
StartFails ==
    /\ ~up
    /\ raw' = Migrated(raw)
    /\ UNCHANGED <<serviceVars, up, memory, changeVars, reply, incomplete>>

\* A claim of the timer callback fails in Redis (see ScheduledUpdates).
TimerClaimFailed ==
    /\ up
    /\ active # None
    /\ ClaimFailed
    /\ UNCHANGED <<up, memory, raw, changeVars, reply, incomplete>>

Init ==
    /\ ServiceInit
    /\ up = FALSE
    /\ memory = Env
    /\ raw \in InitialRaw
    /\ lock = None
    /\ pc = [c \in Callers |-> "idle"]
    /\ request = [c \in Callers |-> None]
    /\ previous = [c \in Callers |-> None]
    /\ snapshot = [c \in Callers |-> None]
    /\ reply = [c \in Callers |-> "none"]
    /\ incomplete = FALSE

Continue(c) ==
    \/ Snapshot(c)
    \/ Persist(c)
    \/ PersistError(c)
    \/ Activate(c)
    \/ Compensate(c)
    \/ Restore(c)
    \/ RollbackError(c)

Next ==
    \/ \E c \in Callers : RequestChange(c) \/ Acquire(c) \/ Continue(c)
    \/ TimerClaimFailed
    \/ Crash
    \/ Start
    \/ StartFails

Spec == Init /\ [][Next]_vars

\* The event loop resumes every coroutine whose call was answered, Redis answers
\* or fails every call, and asyncio.Lock wakes its waiters in turn.
Fairness ==
    \A c \in Callers : WF_vars(Continue(c)) /\ SF_vars(Acquire(c))

FairSpec == Spec /\ Fairness

(***************************************************************************)
(* Properties.                                                             *)
(***************************************************************************)

\* The jobs that run are those of the effective settings: while the process is up
\* and a schedule is active, it is the one in config.settings, whichever step of a
\* change failed (timer() reads the window from one and the zone from the other).
EffectiveIsActive == up /\ active # None => active = memory

\* A process that runs without an active schedule says so: its state is degraded
\* until a change succeeds or is rolled back to running jobs.
SilenceIsReported == up /\ active = None => health = "degraded"

\* Unless a rollback was reported incomplete, what a restart would load is what the
\* process uses whenever no change is under way: neither a failed change nor two
\* overlapping ones leave Redis and the memory of the process apart.
StoredUnlessIncomplete ==
    up /\ lock = None /\ ~incomplete => Load(raw) = memory

\* An incomplete rollback stays visible: as long as Redis holds another schedule than
\* the one the process uses, the scheduling state reads degraded (docs/specs/007,
\* section 10: "Report a degraded scheduling state").
IncompleteIsDegraded ==
    up /\ lock = None /\ incomplete /\ Load(raw) # memory => health = "degraded"

\* Redis as other processes see it outside of changes: the holder's snapshot.
StoredRaw == IF lock # None /\ snapshot[lock] # None THEN snapshot[lock] ELSE raw

\* Every change is atomic: what its caller asked for takes effect in memory and in
\* Redis, or in neither, or is answered with an incomplete rollback; changes of two
\* callers take effect one after the other, each from the schedule the other left.
Atomically == INSTANCE AtomicSchedule WITH
    effective <- IF up THEN memory ELSE Load(raw),
    stored <- Load(StoredRaw)

ImplementsAtomicSchedule == Atomically!AtomicSpec

\* Every change is answered: no failure leaves a caller waiting for the lock.
EveryChangeIsAnswered ==
    \A c \in Callers : pc[c] = "waiting" ~> pc[c] = "idle"

=============================================================================
