------------------------- MODULE PriceUpdates_proofs -------------------------
(***************************************************************************)
(* For every number of timer callbacks and symbols, every time to live and *)
(* every bound on a request: a price is posted under a wrong name for a    *)
(* short time after a change only, and the symbol is durable.              *)
(***************************************************************************)
EXTENDS PriceUpdates, TLAPS

\* The price was asked for no more than a given time ago.
Recent(p, bound) == p.asked <= now /\ now <= p.asked + bound

\* If it is another symbol's, it was asked for before the last change.
OldIfWrong(p) == p.symbol # symbol => p.asked <= since

CacheInv ==
    cache # None =>
        /\ Recent(cache, Latency + Ttl)
        /\ OldIfWrong(cache)
        /\ now <= expires /\ expires <= cache.asked + (Latency + Ttl)

TaskInv ==
    \A t \in Tasks :
        /\ task[t].stage \in {"idle", "ask"} => task[t].price = None
        /\ task[t].stage = "wait" => task[t].price # None /\ Recent(task[t].price, Latency)
        /\ task[t].price # None =>
              Recent(task[t].price, Latency + Ttl) /\ OldIfWrong(task[t].price)

ChangeInv ==
    /\ ~up => change = NoChange
    /\ change.stage = "activate" => stored = change.symbol
    /\ change.stage = "confirm" => stored = change.symbol /\ symbol = change.symbol
    /\ confirmed # None => stored = confirmed /\ change.stage = "idle"
    /\ up /\ change.stage = "idle" /\ answer # "failed" => symbol = Loaded

IInv == TypeOK /\ since <= now /\ CacheInv /\ TaskInv /\ ChangeInv

LEMMA Records ==
    /\ Idle \in Task /\ NoChange \in Change
    /\ Idle.stage = "idle" /\ Idle.price = None /\ NoChange.stage = "idle"
    /\ \A t \in Task : /\ t.stage \in {"idle", "ask", "wait", "message"}
                       /\ t.price \in Price \cup {None} /\ t.undisturbed \in BOOLEAN
                       /\ t.price # None => t.price.asked \in Instants
    /\ \A p \in Price : p # None /\ p.asked \in Instants /\ p.symbol \in Symbols
  BY PricesAssumption, PriceIsNotNone DEF Idle, NoChange, Task, Change, Price

LEMMA InvInit == Init => IInv
<1> SUFFICES ASSUME Init PROVE IInv
  OBVIOUS
<1>1. TypeOK
  <2>1. now \in Instants /\ since \in Instants /\ expires \in Nat
    BY PricesAssumption DEF Init, Instants
  <2>2. task \in [Tasks -> Task]
    BY Records DEF Init
  <2>3. change \in Change /\ change.stage = "idle"
    BY Records DEF Init
  <2> QED BY <2>1, <2>2, <2>3, PricesAssumption DEF Init, TypeOK
<1>2. CacheInv /\ TaskInv /\ since <= now
  BY Records DEF Init, CacheInv, TaskInv
<1>3. ChangeInv
  BY DEF Init, ChangeInv, NoChange, Loaded
<1> QED
  BY <1>1, <1>2, <1>3 DEF IInv

(***************************************************************************)
(* Types.                                                                  *)
(***************************************************************************)

LEMMA TaskTyped ==
    ASSUME NEW t \in Tasks, task \in [Tasks -> Task], NEW state \in Task, Becomes(t, state)
    PROVE  task' \in [Tasks -> Task]
  BY DEF Becomes

LEMMA TypeStep ==
    ASSUME TypeOK, [Next]_vars
    PROVE  TypeOK'
<1> USE PricesAssumption DEF TypeOK
<1>1. ASSUME NEW t \in Tasks, Look(t) PROVE TypeOK'
  <2>1. [stage |-> IF cache = None THEN "ask" ELSE "message", price |-> cache,
         undisturbed |-> change.stage = "idle"] \in Task
    BY DEF Task
  <2>2. task' \in [Tasks -> Task]
    BY <1>1, <2>1, TaskTyped DEF Look
  <2> QED BY <1>1, <2>2 DEF Look, cacheVars, symbolVars
<1>2. ASSUME NEW t \in Tasks, Ask(t) PROVE TypeOK'
  <2>1. At("wait", [symbol |-> symbol, asked |-> now], t) \in Task
    BY Records DEF Task, At, Price
  <2>2. task' \in [Tasks -> Task]
    BY <1>2, <2>1, TaskTyped DEF Ask
  <2> QED BY <1>2, <2>2 DEF Ask, cacheVars, symbolVars
<1>3. ASSUME NEW t \in Tasks, Answer(t) PROVE TypeOK'
  <2>1. At("message", task[t].price, t) \in Task /\ task[t].price \in Price \cup {None}
    BY Records DEF Task, At
  <2>2. task' \in [Tasks -> Task]
    BY <1>3, <2>1, TaskTyped DEF Answer
  <2>3. expires' \in Nat
    BY <1>3 DEF Answer, Instants
  <2> QED BY <1>3, <2>1, <2>2, <2>3 DEF Answer, symbolVars
<1>4. ASSUME NEW t \in Tasks, NoAnswer(t) PROVE TypeOK'
  <2>1. At("message", None, t) \in Task
    BY Records DEF Task, At
  <2>2. task' \in [Tasks -> Task]
    BY <1>4, <2>1, TaskTyped DEF NoAnswer
  <2> QED BY <1>4, <2>2 DEF NoAnswer, symbolVars
<1>5. ASSUME NEW t \in Tasks, Post(t) PROVE TypeOK'
  <2>1. task' \in [Tasks -> Task]
    BY <1>5, Records, TaskTyped DEF Post
  <2> QED BY <1>5, <2>1 DEF Post, cacheVars, symbolVars
<1>6. CASE Expire
  BY <1>6 DEF Expire, symbolVars
<1>7. CASE Tick
  BY <1>7 DEF Tick, cacheVars, symbolVars, Instants
<1>8. CASE BeginChange
  BY <1>8 DEF BeginChange, cacheVars, Change
<1>9. CASE Store
  <2>1. change.symbol \in Symbols /\ change' = [stage |-> "activate", symbol |-> change.symbol]
    BY <1>9 DEF Store, Change
  <2> QED BY <1>9, <2>1 DEF Store, cacheVars, Change
<1>10. CASE StoreError
  BY <1>10, Records DEF StoreError, ChangeFails, cacheVars
<1>11. CASE Activate
  <2>1. change.symbol \in Symbols /\ change' = [stage |-> "confirm", symbol |-> change.symbol]
    BY <1>11 DEF Activate, Change
  <2>2. task' \in [Tasks -> Task]
    <3>1. ASSUME NEW t \in Tasks PROVE [task[t] EXCEPT !.undisturbed = FALSE] \in Task
      BY DEF Task
    <3> QED BY <1>11, <3>1 DEF Activate
  <2> QED BY <1>11, <2>1, <2>2 DEF Activate, cacheVars, Change
<1>12. CASE Confirm
  BY <1>12, Records DEF Confirm, cacheVars
<1>13. CASE ConfirmError
  BY <1>13, Records DEF ConfirmError, ChangeFails, cacheVars
<1>14. CASE Crash
  <2>1. stored' \in Symbols \cup {None}
    BY <1>14 DEF Crash
  <2>2. task' \in [Tasks -> Task]
    BY <1>14, Records DEF Crash
  <2> QED BY <1>14, <2>1, <2>2, Records DEF Crash
<1>15. CASE Start
  BY <1>15 DEF Start, cacheVars, Loaded
<1>16. CASE UNCHANGED vars
  BY <1>16 DEF vars
<1> QED
  BY <1>1, <1>2, <1>3, <1>4, <1>5, <1>6, <1>7, <1>8, <1>9, <1>10, <1>11, <1>12, <1>13,
     <1>14, <1>15, <1>16 DEF Next, Update

(***************************************************************************)
(* The age of prices.                                                      *)
(***************************************************************************)

LEMMA AgeStep ==
    ASSUME TypeOK, since <= now, CacheInv, TaskInv, [Next]_vars
    PROVE  (since <= now /\ CacheInv /\ TaskInv)'
<1> USE PricesAssumption DEF TypeOK
<1>0. /\ now \in Nat /\ since \in Nat /\ expires \in Nat /\ Latency \in Nat /\ Ttl \in Nat
      /\ cache # None => cache.asked \in Nat /\ cache \in Price
      /\ \A t \in Tasks : task[t] \in Task /\ (task[t].price # None => task[t].price.asked \in Nat)
  BY Records DEF Instants
<1>1. ASSUME NEW t \in Tasks, Look(t) PROVE (since <= now /\ CacheInv /\ TaskInv)'
  <2>1. UNCHANGED <<now, since, symbol, cache, expires>>
    BY <1>1 DEF Look, cacheVars, symbolVars
  <2>2. ASSUME NEW u \in Tasks
        PROVE  \/ task'[u] = task[u]
               \/ /\ task'[u].price = cache
                  /\ task'[u].stage = IF cache = None THEN "ask" ELSE "message"
    BY <1>1 DEF Look, Becomes
  <2>3. CacheInv'
    BY <2>1 DEF CacheInv, Recent, OldIfWrong
  <2>4. TaskInv'
    BY <2>1, <2>2 DEF TaskInv, CacheInv, Recent, OldIfWrong
  <2> QED BY <2>1, <2>3, <2>4
<1>2. ASSUME NEW t \in Tasks, Ask(t) PROVE (since <= now /\ CacheInv /\ TaskInv)'
  <2>1. UNCHANGED <<now, since, symbol, cache, expires>>
    BY <1>2 DEF Ask, cacheVars, symbolVars
  <2>2. ASSUME NEW u \in Tasks
        PROVE  \/ task'[u] = task[u]
               \/ task'[u].stage = "wait" /\ task'[u].price = [symbol |-> symbol, asked |-> now]
    BY <1>2 DEF Ask, Becomes, At
  <2>3. [symbol |-> symbol, asked |-> now] # None
    BY Records DEF Price
  <2>4. CacheInv'
    BY <2>1 DEF CacheInv, Recent, OldIfWrong
  <2>5. TaskInv'
    BY <1>0, <2>1, <2>2, <2>3 DEF TaskInv, Recent, OldIfWrong
  <2> QED BY <2>1, <2>4, <2>5
<1>3. ASSUME NEW t \in Tasks, Answer(t) PROVE (since <= now /\ CacheInv /\ TaskInv)'
  <2>1. UNCHANGED <<now, since, symbol>> /\ cache' = task[t].price /\ expires' = now + Ttl
    BY <1>3 DEF Answer, symbolVars
  <2>2. ASSUME NEW u \in Tasks
        PROVE  \/ task'[u] = task[u]
               \/ task'[u].stage = "message" /\ task'[u].price = task[t].price
    BY <1>3 DEF Answer, Becomes, At
  <2>3. /\ task[t].price # None /\ Recent(task[t].price, Latency)
        /\ Recent(task[t].price, Latency + Ttl) /\ OldIfWrong(task[t].price)
    BY <1>3 DEF Answer, TaskInv
  <2>4. CacheInv'
    BY <1>0, <2>1, <2>3 DEF CacheInv, Recent, OldIfWrong
  <2>5. TaskInv'
    BY <2>1, <2>2, <2>3 DEF TaskInv, Recent, OldIfWrong
  <2> QED BY <2>1, <2>4, <2>5
<1>4. ASSUME NEW t \in Tasks, NoAnswer(t) PROVE (since <= now /\ CacheInv /\ TaskInv)'
  <2>1. UNCHANGED <<now, since, symbol>> /\ cache' = None
    BY <1>4 DEF NoAnswer, symbolVars
  <2>2. ASSUME NEW u \in Tasks
        PROVE  \/ task'[u] = task[u]
               \/ task'[u].stage = "message" /\ task'[u].price = None
    BY <1>4 DEF NoAnswer, Becomes, At
  <2>3. CacheInv'
    BY <2>1 DEF CacheInv
  <2>4. TaskInv'
    BY <2>1, <2>2 DEF TaskInv, Recent, OldIfWrong
  <2> QED BY <2>1, <2>3, <2>4
<1>5. ASSUME NEW t \in Tasks, Post(t) PROVE (since <= now /\ CacheInv /\ TaskInv)'
  <2>1. UNCHANGED <<now, since, symbol, cache, expires>>
    BY <1>5 DEF Post, cacheVars, symbolVars
  <2>2. ASSUME NEW u \in Tasks PROVE task'[u] = task[u] \/ task'[u] = Idle
    BY <1>5 DEF Post, Becomes
  <2>3. CacheInv'
    BY <2>1 DEF CacheInv, Recent, OldIfWrong
  <2>4. TaskInv'
    BY <2>1, <2>2, Records DEF TaskInv, Recent, OldIfWrong
  <2> QED BY <2>1, <2>3, <2>4
<1>6. CASE Expire
  <2>1. UNCHANGED <<now, since, symbol, task>> /\ cache' = None
    BY <1>6 DEF Expire, symbolVars
  <2> QED BY <2>1 DEF CacheInv, TaskInv, Recent, OldIfWrong
<1>7. CASE Tick
  <2>1. UNCHANGED <<since, symbol, task, cache, expires>> /\ now' = now + 1
    BY <1>7 DEF Tick, cacheVars, symbolVars
  <2>2. CacheInv'
    <3>1. cache # None => now + 1 <= expires /\ expires <= cache.asked + (Latency + Ttl)
      BY <1>0, <1>7 DEF Tick, CacheInv
    <3>2. cache # None => cache.asked <= now + 1 /\ now + 1 <= cache.asked + (Latency + Ttl)
      BY <1>0, <3>1 DEF CacheInv, Recent
    <3> QED BY <2>1, <3>1, <3>2 DEF CacheInv, Recent, OldIfWrong
  <2>3. TaskInv'
    <3>1. ASSUME NEW t \in Tasks, task[t].price # None
          PROVE  /\ task[t].stage = "wait"
                 /\ task[t].price.asked <= now + 1 /\ now + 1 <= task[t].price.asked + Latency
      <4>1. task[t].stage = "wait" /\ now < task[t].price.asked + Latency
        BY <1>7, <3>1 DEF Tick, TaskInv
      <4> QED BY <1>0, <3>1, <4>1 DEF TaskInv, Recent
    <3>2. ASSUME NEW t \in Tasks, task[t].price # None
          PROVE  now + 1 <= task[t].price.asked + (Latency + Ttl)
      BY <1>0, <3>1, <3>2
    <3> QED BY <2>1, <3>1, <3>2 DEF TaskInv, Recent, OldIfWrong
  <2> QED BY <1>0, <2>1, <2>2, <2>3
<1>8. CASE Activate
  <2>1. UNCHANGED <<now, cache, expires>> /\ since' = now
    BY <1>8 DEF Activate, cacheVars
  <2>2. ASSUME NEW u \in Tasks
        PROVE  task'[u].price = task[u].price /\ task'[u].stage = task[u].stage
    BY <1>0, <1>8 DEF Activate, Task
  <2>3. CacheInv'
    BY <2>1 DEF CacheInv, Recent, OldIfWrong
  <2>4. TaskInv'
    BY <2>1, <2>2 DEF TaskInv, Recent, OldIfWrong
  <2> QED BY <1>0, <2>1, <2>3, <2>4
<1>9. CASE Crash
  <2>1. UNCHANGED <<now, since, symbol>> /\ cache' = None /\ task' = [t \in Tasks |-> Idle]
    BY <1>9 DEF Crash
  <2> QED BY <2>1, Records DEF CacheInv, TaskInv
<1>10. CASE Start
  <2>1. UNCHANGED <<now, cache, expires, task>> /\ since' = now
    BY <1>10 DEF Start, cacheVars
  <2> QED BY <1>0, <2>1 DEF CacheInv, TaskInv, Recent, OldIfWrong
<1>11. CASE BeginChange \/ Store \/ StoreError \/ Confirm \/ ConfirmError \/ UNCHANGED vars
  <2>1. UNCHANGED <<now, since, symbol, cache, expires, task>>
    BY <1>11 DEF BeginChange, Store, StoreError, Confirm, ConfirmError, ChangeFails, vars, cacheVars
  <2> QED BY <2>1 DEF CacheInv, TaskInv, Recent, OldIfWrong
<1> QED
  BY <1>1, <1>2, <1>3, <1>4, <1>5, <1>6, <1>7, <1>8, <1>9, <1>10, <1>11 DEF Next, Update

(***************************************************************************)
(* The change.                                                             *)
(***************************************************************************)

LEMMA ChangeStep ==
    ASSUME TypeOK, ChangeInv, [Next]_vars
    PROVE  ChangeInv'
<1> USE DEF ChangeInv, Loaded, NoChange
<1>1. CASE UNCHANGED <<up, symbolVars>>
  BY <1>1 DEF symbolVars
<1>2. CASE BeginChange
  BY <1>2 DEF BeginChange
<1>3. CASE Store
  BY <1>3 DEF Store, TypeOK, Change
<1>4. CASE StoreError
  BY <1>4 DEF StoreError, ChangeFails
<1>5. CASE Activate
  BY <1>5 DEF Activate, TypeOK, Change
<1>6. CASE Confirm
  BY <1>6, PricesAssumption DEF Confirm, TypeOK
<1>7. CASE ConfirmError
  BY <1>7 DEF ConfirmError, ChangeFails
<1>8. CASE Crash
  BY <1>8 DEF Crash
<1>9. CASE Start
  BY <1>9 DEF Start
<1>10. ASSUME NEW t \in Tasks, Update(t) PROVE UNCHANGED <<up, symbolVars>>
  BY <1>10 DEF Update, Look, Ask, Answer, NoAnswer, Post
<1>11. Expire \/ Tick \/ UNCHANGED vars => UNCHANGED <<up, symbolVars>>
  BY DEF Expire, Tick, vars, symbolVars
<1> QED
  BY <1>1, <1>2, <1>3, <1>4, <1>5, <1>6, <1>7, <1>8, <1>9, <1>10, <1>11 DEF Next

LEMMA Invariance == Spec => []IInv
<1>1. IInv /\ [Next]_vars => IInv'
  BY TypeStep, AgeStep, ChangeStep DEF IInv
<1> QED BY InvInit, <1>1, PTL DEF Spec

(***************************************************************************)
(* The theorems.                                                           *)
(***************************************************************************)

\* The clock, the cache, the updates and the change keep their types.
THEOREM TypeCorrect == Spec => []TypeOK
<1>1. IInv => TypeOK
  BY DEF IInv
<1> QED BY Invariance, <1>1, PTL

\* send_price_update names another symbol than the one it asked for no longer than a
\* request and a time to live after the change.
THEOREM OldPricesExpire == Spec => []WrongOnlyBriefly
<1>1. IInv => WrongOnlyBriefly
  <2> SUFFICES ASSUME IInv, NEW t \in Tasks, task[t].stage = "message",
                      task[t].price # None, task[t].price.symbol # symbol
               PROVE  now <= since + Latency + Ttl
    BY DEF WrongOnlyBriefly
  <2>1. task[t].price.asked <= since /\ now <= task[t].price.asked + (Latency + Ttl)
    BY DEF IInv, TaskInv, Recent, OldIfWrong
  <2>2. task[t].price.asked \in Nat /\ since \in Nat /\ now \in Nat
    BY Records DEF IInv, TypeOK, Instants
  <2> QED BY <2>1, <2>2, PricesAssumption
<1> QED BY Invariance, <1>1, PTL

\* update_symbol keeps memory, Redis and what users were told together, unless it
\* answered with an error.
THEOREM DurableSymbol == Spec => []SymbolIsDurable
<1>1. IInv => SymbolIsDurable
  BY DEF IInv, ChangeInv, SymbolIsDurable, Loaded, TypeOK
<1> QED BY Invariance, <1>1, PTL
=============================================================================
