# Stocker in TLA+

Stocker is a Telegram bot that posts the price of one asset to a channel on a
wall-clock schedule. Admins change the schedule at runtime. These modules model the
part of it where order, failure and time matter: the replacement of the scheduled
jobs, the atomic change of the schedule in memory, in Redis and in the job queue, the
timer callback that posts at most one update per local minute, the price that callback
finds in the cache, the loading of the settings beside another process, the
conversations of the commands, and the table of users and their rights. TLC checks the
models on small instances, TLAPS proves the main invariants for every instance.

## The system

One process runs one asyncio event loop (`src/src/main.py`). Redis keeps the dynamic
settings and the claims of sent updates, PostgreSQL the users.

| Component | State | Operations | Interacts with |
|---|---|---|---|
| Schedule rules (`services/schedule_rules.py`) | none | normalise, cron minutes, window, DST-safe trigger | everything below |
| Scheduler service (`services/scheduler_service.py`) | queued jobs, `_active_schedule`, `_active_schedule_generation`, `_schedule_state` | `schedule_price_update`, `reschedule_price_update`, `schedule_for_callback`, `claim_scheduled_update` | job queue (calls that raise), Redis (claims), settings service and timer callback (callers) |
| Settings service (`services/settings_service.py`) | `config.settings`, five Redis keys, `_schedule_update_lock` | `apply_schedule_change` and its wrappers, `update_symbol` | Redis, scheduler service, command handlers |
| Loading of settings (`config.py`, `main.py`) | `config.settings` | `get_dynamic_settings`, legacy migration | Redis, at the start only |
| Timer callback (`bot/handlers.py`, `timer`, `send_price_update`) | local variables of callbacks under way | check, claim, send | scheduler service, Redis, price provider, Telegram |
| Command handlers and conversations (`bot/handlers.py`, `main.py`) | PTB's conversation states | `/set_symbol`, `/set_timer`, `/set_schedule_*`, `/update`, `/config_status` | settings service, users |
| Users and admin rights (`bot/handlers.py`, `models.py`) | table `users` | `/start`, `/grant_admin`, the two decorators | PostgreSQL |
| Price providers (`providers/`) | aiocache entry of 60 s | `get_asset_price` | HTTP, `config.settings.SYMBOL` |
| Logging, command menu, migrations | files, Telegram menu, tables | — | — |

What is hard, and where:

- **One call of many that fails.** The job queue has no transaction. `schedule_price_update`
  removes old jobs one by one, registers up to two new ones, and each call may raise after
  some of the work; the rollback can fail the same way.
- **Awaits.** `apply_schedule_change` awaits Redis three times under a lock and replaces
  the jobs synchronously; the timer callback awaits the claim and the message. Between
  awaits other coroutines run, the clock goes on, and the process can die.
- **Answers that lie.** An error of Redis does not say whether the transaction was
  executed.
- **Time.** Jobs fire on the wall clock of a zone; hours are repeated and skipped; a
  callback may run minutes after it was dispatched; two processes may overlap.

### What makes each component correct

- *Rules*: a minute accepted by the callback's tests is a minute the feature prescribes,
  overnight windows and their inclusive ends included; no minute belongs to both jobs.
- *Scheduler service*: the queue is exactly the active schedule's, or nobody accepts what
  is in it; a schedule is never lost while the state reads `active`.
- *Settings service*: a change takes effect in the process and in Redis or in neither, or
  its caller is told; two changes do not mix; a restart loads what was running.
- *Timer callback*: at most one update per local minute, only prescribed minutes, none
  from replaced jobs, and no prescribed minute is missed when nothing fails.
- *Loading*: what is read key by key is what one read would have given when nobody else
  writes; the migration of the legacy interval overwrites no change.
- *Providers and the symbol*: a price is posted under its own symbol, or under another
  one for a bounded time only; the symbol in use is the one a restart loads.
- *Conversations*: only an admin is asked, a text answers the question it was written
  for, a question nobody answers ends, and `/cancel` ends any.
- *Users*: a contact is registered, a confirmed grant is never lost, and a command runs
  for nobody else.

## The modules

| Module | Models | Kind |
|---|---|---|
| `Schedules` | `schedule_rules.py`, the data of `scheduler_service.py` | operators |
| `SchedulerService` | `schedule_price_update`, step by step | state machine |
| `ReplaceSchedule` | the same in one step: `Replaced`, `Restored` or `Lost` | abstract specification, also the actions used by `SettingsService` |
| `SettingsService` | `apply_schedule_change`, the start of the process, crashes | state machine, composed with `ReplaceSchedule` |
| `AtomicSchedule` | what a change promises its caller | abstract specification |
| `PersistedSettings` | the five keys in Redis: what is written, loaded and migrated | operators |
| `ScheduledUpdates` | triggers, `timer`, claims, messages, several processes | state machine |
| `Deliveries` | what the scheduled updates promise: claimed once and not early, sent once or never | abstract specification |
| `SettingsDriveUpdates` | `SettingsService` as the source of the schedules of `ScheduledUpdates` | composition |
| `ConfigLoad` | `get_dynamic_settings` read by read, beside a process that changes the schedule | state machine |
| `SettingsBesideLoad` | `SettingsService` as the writer beside which `ConfigLoad` loads | composition |
| `PriceUpdates` | the cache of the providers, the messages, `update_symbol` | state machine |
| `Conversations` | `/set_symbol` and `/set_timer` of one user, timeouts, exceptions | state machine |
| `Users` | the sessions of the decorator, `/start` and `/grant_admin` over the table `users` | state machine |
| `AdminRights` | what the table and the decorators promise: registered once, rights only by grants, commands for admins | abstract specification |
| `MC...` | instances for TLC | |
| `..._proofs` | theorems | |

An operator `X_How` before an operator `X` is a faulty variant of it (`Claim_WithoutNX`,
`Remove_IgnoringErrors`): it is used by no specification, and replacing `X` by it makes one
of the properties fail, which shows that the property depends on that line of the code.

The chain is: `SchedulerService` implements `ReplaceSchedule` (property
`ImplementsReplaceSchedule`), `SettingsService` uses `ReplaceSchedule`'s actions as the
outcomes of the call it makes and implements `AtomicSchedule` (`ImplementsAtomicSchedule`).
`ScheduledUpdates` takes the outcomes of both as `Start`, `Reschedule`, `LoseSchedule` and
`Crash` and looks at what callbacks do around them; that these four are all the settings
service does to its process is the property `SettingsDriveUpdates`, an implementation of
`ScheduledUpdates` by `SettingsService` at one instant, between the callbacks.
`ScheduledUpdates` in turn implements `Deliveries` (`ImplementsDeliveries`), which has no
processes, jobs or callbacks: what was claimed stays claimed, also when its message fails.
`SettingsService` takes the loading of the settings as one step; `ConfigLoad` shows when
that is right (`QuietLoadIsAtomic`), and what a load beside another process's changes gives.
That the process it loads beside is the settings service, with all its callers, is
`SettingsWriteOneByOne`: at Redis, everything the service does is a step of `ConfigLoad`'s
writer. `PersistedSettings` is shared by the two. `Users` implements `AdminRights`
(`ImplementsAdminRights`).
`PriceUpdates`, `Conversations` and `Users` share no variable with the others: a
conversation ends in a call of the settings service whose outcome (answered, refused,
raised) is all it sees, and a command sees of the users whether its sender is an admin.

### SchedulerService

`jobs`, `active`, `generation`, `health` are the job queue and the three module variables
(`scheduler_service.py:30-32`), `outcome` is the exception or result of the last call,
`stage` the point the running call has reached. `Begin` is lines 280-290, `Remove` 291-300,
`RegisterCandidate` 302-318, `Cleanup` 240-248, `RegisterRollback` 249-264, `Discard`
257-261. `Removals` and `Registrations` are the ways in which the calls into the job queue
can end: any subset of the jobs may stay when an error is raised. The call is synchronous;
its stages are separate steps only to keep the order of the code in the model, which is
also why the refinement hides a call under way. Identifiers of `uuid4()` are drawn from
the set `Generations`; one that nothing refers to any more counts as never used.

In the refinement mapping a call in progress is seen as not yet made: the abstract `jobs`
and `generation` are those the call found (`call.queued`, `call.replaced`, history fields).

### SettingsService

`memory` is `config.settings`, `raw` the five keys (the legacy interval in seconds
included), `pc`, `request`, `previous`, `snapshot` the coroutine of each caller. `Acquire`
takes the lock, reads the effective schedule and validates; `Snapshot`, `Persist`,
`PersistError`, `Compensate`, `Restore`, `RollbackError` are the Redis calls with both
outcomes, and `Activate` is the synchronous part (lines 128-137): memory, jobs and, on a
failure, memory again. `PersistError` and `RollbackError` choose whether the transaction
was executed before the error. `Crash` may come at any step; a transaction in flight may
still be executed (`InFlight`). `Start` loads and migrates the settings (`Load` and
`Migrated` of `PersistedSettings`) and registers the jobs.

`incomplete` is history: a rollback was reported incomplete and no change has succeeded,
and no start has happened, since.

### ScheduledUpdates

`now` counts instants; `Wall[zone][t]` is the local day, minute and `fold` at an instant,
so that a repeated hour, a skipped one and two zones are data of an instance. `Tick`
computes which triggers fire (`due`); what is not dispatched before the next instant has
missed its one second of grace (`misfire_grace_time`). `Dispatch` honours
`max_instances = 1`. `TimerStart` is `timer` up to the first await (with
`schedule_for_callback` as `Accepts` and `should_run_scheduled_update` as
`InActiveWindow`), `Claim`/`ClaimError` the `SET NX`, `Send`/`SendError` the message.
Processes share `claims` and `sends` and nothing else.

In the refinement of `Deliveries` the occurrences are the keys of Redis (zone, local day
and minute), and `Due` is the set that some schedule prescribes at an instant.

`PromptSpec` is the sub-behaviour in which nothing fails and each instant's callbacks end
before the next instant; it is used for the one property that says something is *done*.

### ConfigLoad

`stage` is the next read of `get_dynamic_settings` (`config.py:121-210`), `read` what the
coroutine has in its local variables, `loaded` the result. Each `get`, and the `SET NX` of
the migration, is an action; an error of Redis ends the process (`LoadFails`), and that of
the migration may come after it was executed. `writer` is another process's
`apply_schedule_change` as far as Redis sees it: snapshot, transaction, commit or the
snapshot written back, each of which can fail. It may die with its transaction executed or
not (`WriterCrash`), and migrates the interval when it starts again (`WriterStart`). The
lock of the settings service is local to its process, so the two are interleaved freely. `seen`, `undone` and `quiet` are
history of what happened since the load began.

### PriceUpdates

`task` is a call of `send_price_update` (`handlers.py:125-153`) in each timer callback and
in the handler of commands: a look into the cache (`Look`), the request (`Ask`, `Answer`,
`NoAnswer`), the message (`Post`). The cached functions take no argument, so there is one
entry; `expires` is when aiocache deletes it, and `Expire` is taken in that instant.
`change` is `update_symbol` with its handler: Redis first (`Store`, `StoreError`), then
memory (`Activate`), then the answer. A price is the symbol and the instant it was asked
for, which is all the properties tell apart; `since` is when the symbol last changed.

### Conversations

`state`, `armed` and `expiring` are, per conversation, whether it waits for a text, whether
it has a timeout job, and whether the job's callback is under way. `Take...` is the
framework's choice of the handler in the order in which `main()` adds them; `Ask`, `Done`,
`Refuse` and `Raise` are the four ways in which the handlers end (a next state, `END`, the
decorator's `None`, an exception). The framework's part is modelled from how `main.py`
configures it: the timeout job is removed before a handler is called and set after it,
unless it ended the conversation or raised. `latest` and `raised` are history.

### Users

`rows` is the table with its two unique constraints, `session` what each process does with
one message: `select`, `insert` with its commit, `refresh`, the command or the `update` of
`/grant_admin`. A statement sees what was committed before it; `DatabaseError` may come
after a commit took effect. `bears` is who has which user name on Telegram, where names
move between accounts. `granted` and `confirmed` are history. In the refinement of `AdminRights` a
commit is the step that registers or grants, whether or not its answer arrives; the rest of
a session is invisible.

## The runs

| Run | Question | States | Bounds |
|---|---|---|---|
| `scheduler` | Is a job replacement all, nothing, or reported, whichever calls fail? | 27,752 | 2 frequencies, 2 times (one needs the opening job, one does not), 3 identifiers |
| `settings` | Is a schedule change atomic for two callers, with failures of Redis and of the job queue, and crashes, and is it the change its caller asked for? Does it do to its process only what `ScheduledUpdates` expects, and to Redis only what `ConfigLoad` does? | 41,167 | 4 requests (frequency, window, zone, rejected), 3 initial contents of Redis (empty, legacy, corrupt), 3 identifiers |
| `settings_incomplete` | Does an incomplete rollback stay visible? It does not (below). | | as `settings` |
| `settings_liveness` | Is every change answered? | 4,737 | 2 requests, 2 identifiers, no symmetry |
| `updates` | At most one update per minute, prescribed ones only, none from stale callbacks, no claim given back, with two processes around the end of DST? | 202,766 | 4 instants up to the repeated hour, 2 plans, 2 processes, 2 identifiers |
| `updates_prompt` | Is a prescribed minute ever missed when nothing fails? | 49,632 | 6 instants, 3 plans in two zones, 2 processes |
| `config_load` | Does a process that starts load a valid schedule and a frequency that was in effect, and does its migration overwrite a change, when the other process changes, undoes, dies and starts? | 339,867 | 2 candidates that differ in every setting, 5 initial contents of Redis |
| `price_updates` | For how long can a price be posted under another symbol's name? Is the confirmed symbol the stored one? | 908,549 | 2 symbols, 2 callbacks beside the handler, 6 instants, an entry lives 2, a request takes up to 1 |
| `new_symbol` | Do the updates after a change use the new symbol? They do not (below). | | as `price_updates` |
| `conversations` | Who is asked, does a question nobody answers end, and does `/cancel` end what no timeout will? | 381 | none: one user in one chat |
| `two_questions` | Does a text answer the question that was asked last? It does not (below). | | as `conversations` |
| `users` | Are contacts registered, grants kept, and commands run for admins only? Is it, sessions apart, a set of accounts? | 150,873 | 2 users, 1 name that moves between them, 2 processes |

Why the bounds are enough. Three identifiers are the most one call distinguishes: the
queued jobs', the candidate's and the rollback schedule's. Two callers are enough for the
lock, whose holder is one (the framework hands over updates one by one unless told
otherwise; the lock is there so that the service need not rely on it, and the model does
not). The instants of the `updates` runs are
chosen so that each rule bites: 00:59 (before any job), 01:00 (a boundary), 01:15 (an
opening that is not a boundary, inside of the overnight window and off its boundaries),
01:00 a second time (`fold` 1), 02:00 (a boundary and an inclusive end), 02:15 (outside
of one window), and the same instants in UTC. `updates` stops at the repeated hour.
`Horizon` is the last instant, the only bound in a guard, here and in `PriceUpdates`.
In `price_updates` an entry lives for longer than a request takes, so that one can be hit
after other requests were made and answered, and the six instants hold a change of the
symbol, the longest time in which the old price can be posted (three instants), and what
comes after. In `config_load` the start of one candidate is the end of the other, so that
two reads can give a window that is neither's or none at all, and the environment's window
overlaps both; one writer makes any number of changes. `users` has the super admin and one
other, a name for one of them at a time, and two sessions at once, which is what every race
of the code is between. `conversations` needs no bound: other users' states are separate.
Symmetry (callers, processes, callbacks, identifiers) is used in runs without liveness only.

`CHECK_DEADLOCK` is on everywhere: none of the systems stops.

**Fairness.** `settings_liveness` assumes weak fairness of the steps of a coroutine
(the event loop runs what is ready; a call to Redis returns or raises) and strong fairness
of taking the lock (`asyncio.Lock` wakes its waiters in order). The code sets no socket
timeout on its Redis client, so a connection that hangs without an error is outside of
this assumption: it would keep the lock for as long as it hangs. `conversations` assumes
weak fairness of a handler that was called, of a timeout job that is due, and of its
callback; nothing is assumed of the user, who may fall silent at any moment.
`CancelEndsConversations` has a premise instead: the user sends `/cancel` again and again
and nothing else, and no handler raises any more.

**What the runs show about the code.** All properties hold but three.

- `IncompleteIsDegraded` is violated: after a change whose compensating write to Redis
  failed (`/config_status` reads `degraded`, Redis holds the refused schedule), a second
  change that fails at the registration and is rolled back calls
  `_publish_active_schedule`, which marks the state `active` (`scheduler_service.py:263`,
  `111-115`) although Redis still holds the schedule that was refused. The next start would
  load it. `docs/specs/007-advanced-time-management-scheduling.md:274` asks for a degraded
  scheduling state after such a failure.
- `SubsequentUpdatesUseSymbol` is violated: the cached functions of the providers take no
  argument (`finnhub.py:12`), so an update after a confirmed `/set_symbol` posts the cached
  price of the old symbol under the name of the new one.
  `docs/specs/002-modify-symbol-command.md:20` says "Subsequent price updates use the new
  symbol." `WrongOnlyBriefly` is what does hold: not later than a request and a time to
  live after the change.
- `TextAnswersLastQuestion` is violated: `/set_symbol` and then `/set_timer` leave two
  questions open; the symbol's handler is asked first (`main.py:75`), so a number written
  for the timer becomes the symbol. `docs/specs/004-interactive-commands.md:18-20` describes
  that the number becomes the interval.

Four properties hold with an exception that is part of their statement. What an exception
lets happen is what the code does, and the hazards of `PROJECT.json` say so in a note.

- A conversation whose handler raised has lost its timeout and waits until the user sends
  something (`raised` in `WaitingIsTimed` and `SilenceEndsConversations`).
  `CancelEndsConversations` bounds this: `/cancel` ends such a conversation as well.
- A contact whose user name is in another row is not registered
  (`ContactsAreRegistered`): names move on Telegram and the column is unique.
- A change of the symbol that is answered with an error may be stored
  (`SymbolIsDurable`), until the next confirmed change or restart.
- A load whose migration gives way to another process's frequency, undone before it is
  read, takes the environment's frequency (`FrequencyWasInEffect`). Every other load
  takes a frequency that was in effect meanwhile, also when changes are undone.

Two more hazards of overlapping processes have no property, as the code attempts nothing
against them: a load may put together the settings of two schedules (`QuietLoadIsAtomic`
shows that this needs another writer), and it may read a change that is undone later.

## The proofs

For every set of frequencies, times, zones, identifiers, callers, requests, processes,
plans, symbols, users and names, every horizon, time to live and latency, and every wall
clock, from the named assumptions of the modules (`SchedulesAssumption`,
`GenerationsAssumption`, `PersistedAssumption`, `SettingsAssumption`, `UpdatesAssumption`,
`LoadAssumption`, `PricesAssumption`, `PriceIsNotNone`, `UsersAssumption`,
`ConversationsAssumption`: typing of the constants and `None` being none of them).

- `SchedulerService_proofs`: `TypeCorrect`, `QueueIsPublished`, `OneGeneration`,
  `NoSilentLoss`, and `Refinement` (the step-by-step replacement implements the one-step
  one). `QueueMatchesPublished` is not inductive: between a removal and a registration
  the queue is neither schedule's. The invariant adds that no generation is current
  during a call, and what is queued at each stage (`QueuedAtStage`): the jobs found,
  nothing, or those of the one registration that failed.
- `SettingsService_proofs`: `TypeCorrect`, `ActiveIsEffective`, `SilenceReported`,
  `StoredIsEffective`, `ChangesAreAtomic`, `UpdatesAreDriven`,
  `ChangesReachRedisOneByOne`. The invariant says which local variables the holder of
  the lock has at each step, that only the holder works, and that the snapshot of the
  holder loads as the effective schedule unless a rollback was incomplete.
  `ChangesAreAtomic` is the refinement of `AtomicSchedule`, in which each caller's change
  is the one it requested (`CandidateIsAsked`), and `UpdatesAreDriven` the
  implementation of `ScheduledUpdates`. The latter needs the invariant in each step: the
  queue is the active schedule's when a replacement begins (`QueueMatchesPublished`), and the identifier of a new
  generation is one no job has. `ChangesReachRedisOneByOne` is the implementation of
  `ConfigLoad`'s writer by the whole service: only the holder of the lock is between its
  snapshot and its commit, and with a free lock the writer is idle (`WriterFacts`,
  `NobodySends`); its snapshot is what it puts back, and memory is what was committed
  last unless a rollback was incomplete. So the writer that `ChangesSurvive` and
  `FrequencyWasStored` are about is no simpler than the service. The composition is
  about the service's steps: the process that loads is idle in it, and its one write,
  the migration, is in `ConfigLoad` only.
- `PersistedSettings_proofs`: `LoadIsValid`, `PersistedRoundTrip` and
  `MigrationKeepsSettings` are the facts about loading: what is loaded is a valid
  schedule whatever Redis holds, a persisted schedule is loaded unchanged, and the
  migration does not change what is loaded.
- `ScheduledUpdates_proofs`: `TypeCorrect`, `SentAtMostOnce`, `ClaimsArePrescribed`,
  `StaleCallbacks`, `NothingMissed`, `UpdatesAreDelivered`, `OneJobPerMinute`.
  `AtMostOnce` needs that a callback about to send owns its occurrence (`SenderOwns`:
  claimed, unsent, nobody else's). `ClaimsArePrescribed` rests on `BoundaryMinutes` and
  `WindowIsCyclic`: the arithmetic of the rules agrees with the prescription for all
  supported frequencies and all minutes. `StaleCallbacks` needs that the queue is the
  active schedule's and that a callback of the current generation is one of a queued
  job. `NothingMissed` is about `PromptSpec`: until a prescribed minute is claimed, a
  job for it is due or its callback is under way (`PendingInv`), no due job is skipped
  for a callback that still runs (`DueInv`), and who has claimed it has sent or is about
  to (`ClaimedInv`); `PrescribedHasJob` says that the recurring job and the opening one
  leave out no minute, and `OneJobPerMinute` that they share none either: the minutes
  prescribed are those in the window at which exactly one job of the schedule fires.
  `UpdatesAreDelivered`, the refinement of `Deliveries`, needs one more invariant: no
  callback that has started acts for an instant that has not come (`NotEarly`).
- `ConfigLoad_proofs`: `LoadedIsValid`, `QuietLoad`, `ChangesSurvive`,
  `FrequencyWasStored`. `QuietLoadIsAtomic` needs, at each read of a quiet load, that
  what was read so far is what one read of the keys would have given, and that the
  migration of the interval, when it was stored, left the meaning of every state seen
  before it. `ChangesSurviveMigration` needs that a stored change leaves a canonical
  frequency, which `SET NX` does not overwrite, and that the snapshot of the next change
  still means the last confirmed one. `FrequencyWasInEffect` needs that a
  frequency which appears after its read has missed it comes with a legacy interval, and
  so does one that an undo writes back (`Legible`), so that no load falls back to the
  environment's in between unless its migration gave way (`GaveWay`). The writer may die
  at any of its steps and start again; what it leaves is a confirmed schedule or one it
  was storing.
- `PriceUpdates_proofs`: `TypeCorrect`, `OldPricesExpire`, `DurableSymbol`.
  `WrongOnlyBriefly` is strengthened to every price under way or in the cache: each that
  is another symbol's was asked for before the last change, a request is not older than
  `Latency`, and an entry ends within `Latency + Ttl` of when its price was asked for.
- `Users_proofs`: `TypeCorrect`, `GrantsKept`, `OnlyAdminsRun`, `ContactsRegistered`,
  `OneAccount`. The argument is that rows only grow: none is deleted, `is_admin` is
  never taken back, and an insert meets no row; with it the invariant relates each step
  of a session to the row it has read or written.
- `Conversations_proofs`: `TypeCorrect`, `AdminsAreAsked`, `QuestionsAreTimed`.
  `OnlyAdminsAreAsked` is not inductive: a late timeout may end a conversation whose
  answer is being handled, and the handler may then ask again without looking at the
  rights. The invariant adds that the sender of an answer under way is an admin
  (`AnswersAreAdmins`), which holds because the conversation waited when the answer was
  taken and rights are never taken back.

Only model-checked: liveness, which is out of the prover's reach (`EveryChangeIsAnswered`,
`SilenceEndsConversations`, `CancelEndsConversations`). Every invariant, action property and refinement of a passing
run is the property of a theorem. The three violated properties are shown by TLC's
counterexamples.

## Not modelled, and why

- A transaction whose answer was an error and that Redis executes *after* the compensating
  one: the pipelines use pooled connections and this needs a stalled connection.
- The expiry of claims after two days, and Redis without its volume: the horizon is hours.
- The internals of APScheduler's trigger and of `zoneinfo`: `Wall` and `Fires` are what
  the code relies on. The executor and the store of APScheduler, PTB and Telegram are
  external.
- `health` in `ScheduledUpdates`: the effect of a failed claim on it is
  `TimerClaimFailed` in `SettingsService`.
- Parsing: arguments of commands, the texts of times and zones, the answers of the
  providers. A valid value, a refused one and a corrupt one are told apart, no more.
- The second price provider has the cache of the first in the same form, and which one is
  used is fixed at the start; `PriceUpdates` is either.
- The expiry of a conversation's timeout in seconds: a job that is armed may run at any
  moment. `timeout` ends whatever question is open when its message was sent, also a newer
  one; no document says otherwise, and it is in the model (`TimedOut`).
- Two starting processes, and a change by each of two processes at once: the deployment
  overlaps an old and a new one, of which one starts.
- Logging, the command menu script and the database migrations keep no state that other
  parts read. `/config_status` only reads; what it reports of the state is `health`.

## Plan

Done: all modules of the tables above and their proofs; of the earlier plan, the
composition of `ConfigLoad` with the whole `SettingsService`, an abstract specification of
the deliveries, and the theorem about the rules alone. Left:

1. `PriceUpdates` composed with `ScheduledUpdates`, so that the time between two updates
   bounds how many of them can post the old symbol's price.
2. A property of the failed read behind a cached error text (`finnhub.py:36`), which today
   is a hazard without one.
