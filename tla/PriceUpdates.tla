---------------------------- MODULE PriceUpdates ----------------------------
(***************************************************************************)
(* The price in a message and the symbol it is posted under: the cache of  *)
(* the providers (providers/finnhub.py and alpha_vantage.py), the message  *)
(* of send_price_update, and the change of the symbol by                   *)
(* settings_service.update_symbol.                                         *)
(*                                                                         *)
(* The cached function takes no argument, so the cache has one entry,      *)
(* whichever symbol was asked for.  An update looks into the cache, asks   *)
(* for the symbol of the moment when it missed, and names the symbol of    *)
(* the moment when its answer is there.  Timer callbacks run concurrently; *)
(* the framework handles one command or text at a time, which is an update *)
(* or a change of the symbol.                                              *)
(*                                                                         *)
(* A price is the symbol and the instant it was asked for.  An answer that *)
(* is an error text is cached and posted like a price and counts as one.   *)
(***************************************************************************)
EXTENDS Integers

CONSTANTS
    Symbols,      \* the symbols users can name
    EnvSymbol,    \* the symbol of the environment and of .env
    Jobs,         \* timer callbacks that may be under way together
    Handler,      \* the command or text being handled
    Ttl,          \* instants an entry of the cache lives
    Latency,      \* the longest time a request to a provider takes
    Horizon,      \* the last instant
    None          \* Python's None

Tasks == Jobs \cup {Handler}
Instants == 0 .. Horizon

ASSUME PricesAssumption ==
    /\ EnvSymbol \in Symbols
    /\ None \notin Symbols
    /\ Handler \notin Jobs
    /\ Ttl \in Nat /\ Latency \in Nat /\ Horizon \in Nat

Price == [symbol : Symbols, asked : Instants]

ASSUME PriceIsNotNone == None \notin Price

VARIABLES
    now,        \* the current instant
    up,         \* is the process running?
    symbol,     \* config.settings.SYMBOL
    since,      \* history: when it was last set
    stored,     \* the symbol in Redis
    cache,      \* the price in the cache of the provider
    expires,    \* the instant at which it is deleted
    task,       \* where each update is
    change,     \* where the change of the symbol is
    answer,     \* history: how the last change was answered
    confirmed   \* history: the symbol confirmed to a user and not changed since

vars == <<now, up, symbol, since, stored, cache, expires, task, change, answer, confirmed>>
cacheVars == <<cache, expires>>
symbolVars == <<symbol, since, stored, change, answer, confirmed>>

Task == [stage : {"idle", "ask", "wait", "message"}, price : Price \cup {None},
         undisturbed : BOOLEAN]
Change == [stage : {"idle", "store", "activate", "confirm"}, symbol : Symbols \cup {None}]

Idle == [stage |-> "idle", price |-> None, undisturbed |-> FALSE]
NoChange == [stage |-> "idle", symbol |-> None]

TypeOK ==
    /\ now \in Instants
    /\ up \in BOOLEAN
    /\ symbol \in Symbols
    /\ since \in Instants
    /\ stored \in Symbols \cup {None}
    /\ cache \in Price \cup {None}
    /\ expires \in Nat
    /\ task \in [Tasks -> Task]
    /\ change \in Change
    /\ change.stage # "idle" => change.symbol \in Symbols
    /\ answer \in {"none", "pending", "confirmed", "failed"}
    /\ confirmed \in Symbols \cup {None}

\* get_dynamic_settings, for the symbol
Loaded == IF stored = None THEN EnvSymbol ELSE stored

Init ==
    /\ now = 0
    /\ up = FALSE
    /\ symbol = EnvSymbol
    /\ since = 0
    /\ stored \in Symbols \cup {None}
    /\ cache = None
    /\ expires = 0
    /\ task = [t \in Tasks |-> Idle]
    /\ change = NoChange
    /\ answer = "none"
    /\ confirmed = None

(***************************************************************************)
(* Updates.                                                                *)
(***************************************************************************)

Becomes(t, state) == task' = [task EXCEPT ![t] = state]

At(stage, price, t) ==
    [stage |-> stage, price |-> price, undisturbed |-> task[t].undisturbed]

\* A timer callback, or /update, looks into the cache.
Look_Sliding(t) ==
    /\ up
    /\ task[t].stage = "idle"
    /\ t = Handler => change.stage = "idle"
    /\ Becomes(t, [stage |-> IF cache = None THEN "ask" ELSE "message", price |-> cache,
                   undisturbed |-> change.stage = "idle"])
    /\ expires' = now + Ttl
    /\ UNCHANGED <<now, up, cache, symbolVars>>

Look(t) ==
    /\ up
    /\ task[t].stage = "idle"
    /\ t = Handler => change.stage = "idle"
    /\ Becomes(t, [stage |-> IF cache = None THEN "ask" ELSE "message", price |-> cache,
                   undisturbed |-> change.stage = "idle"])
    /\ UNCHANGED <<now, up, cacheVars, symbolVars>>

\* It missed, and asks the provider.
Ask(t) ==
    /\ task[t].stage = "ask"
    /\ Becomes(t, At("wait", [symbol |-> symbol, asked |-> now], t))
    /\ UNCHANGED <<now, up, cacheVars, symbolVars>>

\* The answer replaces what the cache holds by now, and its time to live starts.
Answer(t) ==
    /\ task[t].stage = "wait"
    /\ Becomes(t, At("message", task[t].price, t))
    /\ cache' = task[t].price
    /\ expires' = now + Ttl
    /\ UNCHANGED <<now, up, symbolVars>>

\* No answer, or one without a price: None replaces it, which reads as a miss.
NoAnswer(t) ==
    /\ task[t].stage = "wait"
    /\ Becomes(t, At("message", None, t))
    /\ cache' = None
    /\ UNCHANGED <<now, up, expires, symbolVars>>

\* The message is composed, with the symbol of this moment, and sent.
Post(t) ==
    /\ task[t].stage = "message"
    /\ Becomes(t, Idle)
    /\ UNCHANGED <<now, up, cacheVars, symbolVars>>

\* The entry is deleted when its time is over.
Expire ==
    /\ cache # None
    /\ now = expires
    /\ cache' = None
    /\ UNCHANGED <<now, up, expires, task, symbolVars>>

\* Coroutines that can go on do so within an instant; a request takes Latency at most.
Tick ==
    /\ now < Horizon
    /\ cache # None => now < expires
    /\ \A t \in Tasks :
          /\ task[t].stage \in {"idle", "wait"}
          /\ task[t].stage = "wait" => now < task[t].price.asked + Latency
    /\ now' = now + 1
    /\ UNCHANGED <<up, cacheVars, task, symbolVars>>

(***************************************************************************)
(* The change of the symbol.                                               *)
(***************************************************************************)

BeginChange_WithoutSymbol ==
    /\ up
    /\ change.stage = "idle"
    /\ task[Handler].stage = "idle"
    /\ \E s \in Symbols \cup {None} : change' = [stage |-> "store", symbol |-> s]
    /\ answer' = "pending"
    /\ confirmed' = None
    /\ UNCHANGED <<now, up, symbol, since, stored, cacheVars, task>>

\* /set_symbol, or the text that answers its question.
BeginChange ==
    /\ up
    /\ change.stage = "idle"
    /\ task[Handler].stage = "idle"
    /\ \E s \in Symbols : change' = [stage |-> "store", symbol |-> s]
    /\ answer' = "pending"
    /\ confirmed' = None
    /\ UNCHANGED <<now, up, symbol, since, stored, cacheVars, task>>

ChangeFails ==
    /\ change' = NoChange
    /\ answer' = "failed"
    /\ UNCHANGED <<symbol, since, confirmed>>

\* Redis stores it ...
Store ==
    /\ change.stage = "store"
    /\ stored' = change.symbol
    /\ change' = [change EXCEPT !.stage = "activate"]
    /\ UNCHANGED <<now, up, symbol, since, cacheVars, task, answer, confirmed>>

StoreError_Ignored ==
    /\ change.stage = "store"
    /\ stored' \in {stored, change.symbol}
    /\ change' = [change EXCEPT !.stage = "activate"]
    /\ UNCHANGED <<now, up, symbol, since, cacheVars, task, answer, confirmed>>

\* ... or answers with an error, before or after it has stored it.
StoreError ==
    /\ change.stage = "store"
    /\ stored' \in {stored, change.symbol}
    /\ ChangeFails
    /\ UNCHANGED <<now, up, cacheVars, task>>

\* It becomes effective in memory.
Activate ==
    /\ change.stage = "activate"
    /\ symbol' = change.symbol
    /\ since' = now
    /\ change' = [change EXCEPT !.stage = "confirm"]
    /\ task' = [t \in Tasks |-> [task[t] EXCEPT !.undisturbed = FALSE]]
    /\ UNCHANGED <<now, up, stored, cacheVars, answer, confirmed>>

\* The handler answers; when that fails it has changed the symbol nevertheless.
Confirm ==
    /\ change.stage = "confirm"
    /\ change' = NoChange
    /\ answer' = "confirmed"
    /\ confirmed' = change.symbol
    /\ UNCHANGED <<now, up, symbol, since, stored, cacheVars, task>>

ConfirmError ==
    /\ change.stage = "confirm"
    /\ ChangeFails
    /\ UNCHANGED <<now, up, stored, cacheVars, task>>

(***************************************************************************)
(* The process.                                                            *)
(***************************************************************************)

Crash ==
    /\ up
    /\ up' = FALSE
    /\ stored' \in {stored} \cup (IF change.stage = "store" THEN {change.symbol} ELSE {})
    /\ cache' = None
    /\ task' = [t \in Tasks |-> Idle]
    /\ change' = NoChange
    /\ answer' = IF change.stage = "idle" THEN answer ELSE "none"
    /\ UNCHANGED <<now, symbol, since, expires, confirmed>>

Start ==
    /\ ~up
    /\ up' = TRUE
    /\ symbol' = Loaded
    /\ since' = now
    /\ answer' = "none"
    /\ UNCHANGED <<now, stored, cacheVars, task, change, confirmed>>

Update(t) == Look(t) \/ Ask(t) \/ Answer(t) \/ NoAnswer(t) \/ Post(t)

Next ==
    \/ \E t \in Tasks : Update(t)
    \/ Expire \/ Tick
    \/ BeginChange \/ Store \/ StoreError \/ Activate \/ Confirm \/ ConfirmError
    \/ Crash \/ Start

Spec == Init /\ [][Next]_vars

(***************************************************************************)
(* Properties.                                                             *)
(***************************************************************************)

\* A price that is about to be posted under the name of another symbol was asked for
\* before the last change, and no such price is posted once a request and a time to
\* live have passed since then: overlapping requests for the old symbol and entries
\* they leave behind do not prolong each other (the entry of get_asset_price_cached
\* has no symbol in its key).
WrongOnlyBriefly ==
    \A t \in Tasks :
        task[t].stage = "message" /\ task[t].price # None /\ task[t].price.symbol # symbol
            => now <= since + Latency + Ttl

\* The symbol in use is the one that a restart would load, and the one last confirmed
\* to a user, unless a change since the last start was answered with an error and no
\* other followed (update_symbol writes Redis first, and compensates nothing).
SymbolIsDurable ==
    change.stage = "idle" /\ answer # "failed" =>
        /\ up => symbol = Loaded
        /\ confirmed # None => confirmed = Loaded

\* "Subsequent price updates use the new symbol." (docs/specs/002, line 20): an update
\* that began when no change was under way, and during which the symbol did not
\* change, posts a price of that symbol.
SubsequentUpdatesUseSymbol ==
    \A t \in Tasks :
        task[t].stage = "message" /\ task[t].undisturbed /\ task[t].price # None
            => task[t].price.symbol = symbol

=============================================================================
