---------------------------- MODULE Users_proofs ----------------------------
(***************************************************************************)
(* Proofs about Users, for every set of users, names and processes.        *)
(***************************************************************************)
EXTENDS Users, TLAPS

(***************************************************************************)
(* The inductive invariant: rows say no more than what was granted, and    *)
(* what each session has found out about its user still holds, because     *)
(* rows are never removed, keep their name and never lose rights.          *)
(***************************************************************************)
AdminsAreGranted == \A u \in Ids : Registered(u) /\ rows[u].is_admin => u \in granted

Found(p) ==
    LET s == session[p] IN
    /\ s.step = "insert" => s.op # "grant"
    /\ s.step = "refresh" => s.op = "command" /\ Registered(s.user)
    /\ s.step = "update" => s.op = "grant" /\ Registered(s.user)
    /\ s.step = "running" =>
          /\ s.op = "command" /\ s.user \in granted
          /\ Registered(s.user) /\ rows[s.user].is_admin
    /\ s.step = "done" /\ s.op # "grant" /\ s.answer # "error" =>
          Registered(s.user) \/ Taken(s.name)

SessionInv == \A p \in Processes : session[p] # None => Found(p)

IInv == TypeOK /\ GrantsAreKept /\ AdminsAreGranted /\ SessionInv

LEMMA InitIInv == Init => IInv
BY UsersAssumption
DEF Init, IInv, TypeOK, GrantsAreKept, AdminsAreGranted, SessionInv, Registered

(***************************************************************************)
(* What a step does to the table.                                          *)
(***************************************************************************)
Grown ==
    /\ granted \subseteq granted'
    /\ \A u \in Ids : Registered(u) =>
          /\ Registered(u)'
          /\ rows'[u].username = rows[u].username
          /\ rows[u].is_admin => rows'[u].is_admin

\* The part of the invariant that is not about sessions.
TableInv == TypeOK /\ GrantsAreKept /\ AdminsAreGranted

LEMMA FoundKept ==
    ASSUME Grown, NEW p \in Processes, session[p] \in Session, Found(p), session'[p] = session[p]
    PROVE  Found(p)'
<1> DEFINE s == session[p]
<1>1. s.user \in Ids
  BY DEF Session
<1>2. Registered(s.user) => Registered(s.user)' /\ (rows[s.user].is_admin => rows'[s.user].is_admin)
  BY <1>1 DEF Grown
<1>3. Taken(s.name) => Taken(s.name)'
  BY DEF Grown, Taken
<1>4. s.user \in granted => s.user \in granted'
  BY DEF Grown
<1> QED
  BY <1>2, <1>3, <1>4 DEF Found, Registered, Taken

LEMMA SameTable ==
    ASSUME UNCHANGED <<rows, granted>>
    PROVE  Grown
BY DEF Grown, Registered

\* A step of one session, once what it found out and wrote is known.
LEMMA SessionStep ==
    ASSUME IInv, NEW p \in Processes, Grown, TypeOK', GrantsAreKept', AdminsAreGranted',
           \A q \in Processes : q # p => session'[q] = session[q],
           session'[p] # None => Found(p)'
    PROVE  IInv'
<1>1. ASSUME NEW q \in Processes, session'[q] # None PROVE Found(q)'
  <2>1. CASE q = p
    BY <1>1, <2>1
  <2>2. CASE q # p
    <3>1. session'[q] = session[q] /\ session[q] \in Session /\ Found(q)
      BY <1>1, <2>2 DEF IInv, TypeOK, SessionInv
    <3> QED
      BY <3>1, FoundKept
  <2> QED
    BY <2>1, <2>2
<1> QED
  BY <1>1 DEF IInv, SessionInv

Steps == {"select", "insert", "refresh", "update", "running", "done"}
Answers == {None, "greeted", "refused", "ran", "conflict", "error",
            "unknown", "already", "granted"}

\* The session after it went on, or was answered.
LEMMA ProceedFacts ==
    ASSUME TypeOK, NEW p \in Processes, session[p] # None, NEW step \in Steps, Proceed(p, step)
    PROVE  /\ session' \in [Processes -> Session \cup {None}]
           /\ session'[p] # None
           /\ session'[p].op = session[p].op /\ session'[p].user = session[p].user
           /\ session'[p].name = session[p].name /\ session'[p].step = step
           /\ session'[p].answer = session[p].answer
           /\ \A q \in Processes : q # p => session'[q] = session[q]
<1> DEFINE r == [session[p] EXCEPT !.step = step]
<1>1. session[p] \in Session
  BY DEF TypeOK
<1>2. /\ r \in Session /\ r.op = session[p].op /\ r.user = session[p].user
      /\ r.name = session[p].name /\ r.step = step /\ r.answer = session[p].answer
  BY <1>1 DEF Session, Steps
<1>3. session' = [session EXCEPT ![p] = r]
  BY DEF Proceed
<1> HIDE DEF r
<1> QED
  BY <1>2, <1>3, UsersAssumption DEF TypeOK

LEMMA ReplyFacts ==
    ASSUME TypeOK, NEW p \in Processes, session[p] # None, NEW answer \in Answers, Reply(p, answer)
    PROVE  /\ session' \in [Processes -> Session \cup {None}]
           /\ session'[p] # None
           /\ session'[p].op = session[p].op /\ session'[p].user = session[p].user
           /\ session'[p].name = session[p].name /\ session'[p].step = "done"
           /\ session'[p].answer = answer
           /\ \A q \in Processes : q # p => session'[q] = session[q]
<1> DEFINE r == [session[p] EXCEPT !.step = "done", !.answer = answer]
<1>1. session[p] \in Session
  BY DEF TypeOK
<1>2. /\ r \in Session /\ r.op = session[p].op /\ r.user = session[p].user
      /\ r.name = session[p].name /\ r.step = "done" /\ r.answer = answer
  BY <1>1 DEF Session, Answers
<1>3. session' = [session EXCEPT ![p] = r]
  BY DEF Reply
<1> HIDE DEF r
<1> QED
  BY <1>2, <1>3, UsersAssumption DEF TypeOK

(***************************************************************************)
(* What the steps do to the table.                                         *)
(***************************************************************************)

\* A step that writes nothing; what it confirms was in the table.
LEMMA NothingWritten ==
    ASSUME TableInv, UNCHANGED <<rows, granted>>,
           session' \in [Processes -> Session \cup {None}],
           bears' \in [Ids -> Names \cup {None}],
           confirmed' \subseteq Ids,
           \A u \in confirmed' \ confirmed : Registered(u) /\ rows[u].is_admin
    PROVE  Grown /\ TypeOK' /\ GrantsAreKept' /\ AdminsAreGranted'
BY SameTable DEF TableInv, TypeOK, GrantsAreKept, AdminsAreGranted, Registered

LEMMA InsertWritten ==
    ASSUME TableInv, NEW p \in Processes, session[p] \in Session,
           Insertable(p), Inserted(p), UNCHANGED <<bears, granted, confirmed>>,
           session' \in [Processes -> Session \cup {None}]
    PROVE  /\ Grown /\ TypeOK' /\ GrantsAreKept' /\ AdminsAreGranted'
           /\ rows'[session[p].user] # None
<1> DEFINE u == session[p].user
           n == session[p].name
<1>1. u \in Ids /\ n \in Names \cup {None} /\ ~Registered(u) /\ ~Taken(n)
  BY DEF Session, Insertable
<1>2. NewRow(p) \in Row /\ NewRow(p).username = n /\ ~NewRow(p).is_admin
  BY <1>1 DEF NewRow, Row
<1>3. NewRow(p) # None
  BY <1>2, UsersAssumption
<1>4. /\ rows' = [rows EXCEPT ![u] = NewRow(p)] /\ rows \in [Ids -> Row \cup {None}]
      /\ rows'[u] = NewRow(p) /\ \A v \in Ids : v # u => rows'[v] = rows[v]
  BY <1>1 DEF Inserted, TableInv, TypeOK
<1>5. rows' \in [Ids -> Row \cup {None}]
  BY <1>1, <1>2, <1>4
<1>6. ASSUME NEW v \in Ids, NEW w \in Ids, Registered(v)', Registered(w)',
             rows'[v].username = rows'[w].username, rows'[v].username # None
      PROVE  v = w
  <2>1. ASSUME NEW x \in Ids, x # u, Registered(x)', rows'[x].username = n, n # None
        PROVE  FALSE
    BY <1>1, <1>4, <2>1 DEF Registered, Taken
  <2>2. CASE v # u /\ w # u
    BY <1>4, <1>6, <2>2 DEF TableInv, TypeOK, Registered
  <2> QED
    BY <1>2, <1>4, <1>6, <2>1, <2>2
<1>7. TypeOK'
  BY <1>5, <1>6 DEF TableInv, TypeOK
<1>8. Grown
  BY <1>1, <1>4 DEF Grown, Registered
<1>9. rows'[session[p].user] # None
  BY <1>3, <1>4 DEF Registered
<1> HIDE DEF u
<1>10. GrantsAreKept'
  <2>1. confirmed' = confirmed /\ confirmed \subseteq Ids
    BY DEF TableInv, TypeOK
  <2>2. \A v \in confirmed : v # u /\ Registered(v) /\ rows[v].is_admin
    BY <1>1 DEF TableInv, GrantsAreKept
  <2> QED
    BY <1>4, <2>1, <2>2 DEF GrantsAreKept, Registered
<1>11. AdminsAreGranted'
  <2>1. granted' = granted
    OBVIOUS
  <2>2. \A v \in Ids : Registered(v)' /\ rows'[v].is_admin => v # u
    BY <1>2, <1>4
  <2> QED
    BY <1>4, <2>1, <2>2 DEF TableInv, AdminsAreGranted, Registered
<1> QED
  BY <1>7, <1>8, <1>9, <1>10, <1>11

LEMMA UpdateWritten ==
    ASSUME TableInv, NEW p \in Processes, session[p] \in Session, Registered(session[p].user),
           Updated(p), UNCHANGED bears,
           confirmed' \in {confirmed, confirmed \cup {session[p].user}},
           session' \in [Processes -> Session \cup {None}]
    PROVE  Grown /\ TypeOK' /\ GrantsAreKept' /\ AdminsAreGranted'
<1> DEFINE u == session[p].user
           r == [rows[u] EXCEPT !.is_admin = TRUE]
<1>1. u \in Ids /\ rows \in [Ids -> Row \cup {None}] /\ rows[u] \in Row
  BY DEF Session, TableInv, TypeOK, Registered
<1>2. r \in Row /\ r.username = rows[u].username /\ r.is_admin
  BY <1>1 DEF Row
<1>3. rows' = [rows EXCEPT ![u] = r] /\ granted' = granted \cup {u}
  BY DEF Updated
<1> HIDE DEF r
<1>4. rows'[u] = r /\ r # None /\ \A v \in Ids : v # u => rows'[v] = rows[v]
  BY <1>1, <1>2, <1>3, UsersAssumption
<1>5. \A v \in Ids : /\ Registered(v)' <=> Registered(v)
                     /\ Registered(v) => rows'[v].username = rows[v].username
  BY <1>1, <1>2, <1>4 DEF Registered
<1>6. TypeOK'
  BY <1>1, <1>2, <1>3, <1>5 DEF TableInv, TypeOK
<1>7. Grown
  BY <1>2, <1>3, <1>4, <1>5 DEF Grown
<1>8. GrantsAreKept' /\ AdminsAreGranted'
  BY <1>1, <1>2, <1>3, <1>4, <1>5 DEF TableInv, TypeOK, GrantsAreKept, AdminsAreGranted
<1> QED
  BY <1>6, <1>7, <1>8

(***************************************************************************)
(* The steps.                                                              *)
(***************************************************************************)

\* A session at one of its steps, and what is known about it.
LEMMA AtFacts ==
    ASSUME IInv, NEW p \in Processes, NEW step, At(p, step)
    PROVE  /\ TypeOK /\ TableInv /\ session[p] \in Session /\ session[p] # None
           /\ session[p].user \in Ids /\ Found(p) /\ session[p].step = step
BY DEF IInv, TableInv, TypeOK, SessionInv, At, Session

\* The check of the rights, on a row that has just been read.
LEMMA AuthorizeFacts ==
    ASSUME IInv, NEW p \in Processes, NEW step, At(p, step), session[p].op = "command",
           Registered(session[p].user), Authorize(p), UNCHANGED <<rows, granted>>
    PROVE  /\ session' \in [Processes -> Session \cup {None}]
           /\ \A q \in Processes : q # p => session'[q] = session[q]
           /\ Found(p)'
<1> DEFINE u == session[p].user
<1>1. /\ TypeOK /\ session[p] # None /\ u \in Ids /\ AdminsAreGranted
  BY AtFacts DEF IInv
<1>2. CASE rows[u].is_admin
  <2>1. Proceed(p, "running")
    BY <1>2 DEF Authorize
  <2> QED
    BY <1>1, <1>2, <2>1, ProceedFacts DEF Found, Registered, AdminsAreGranted, Steps
<1>3. CASE ~rows[u].is_admin
  <2>1. Reply(p, "refused")
    BY <1>3 DEF Authorize
  <2> QED
    BY <1>1, <2>1, ReplyFacts DEF Found, Registered, Answers
<1> QED
  BY <1>2, <1>3

LEMMA BeginIInv ==
    ASSUME IInv, NEW p \in Processes, NEW op \in {"start", "command", "grant"},
           NEW u \in Ids, NEW n \in Names \cup {None}, Begin(p, op, u, n)
    PROVE  IInv'
<1> DEFINE s == [op |-> op, user |-> u, name |-> n, step |-> "select", answer |-> None]
<1>1. s \in Session /\ s.step = "select"
  BY DEF Session
<1>2. session' = [session EXCEPT ![p] = s] /\ UNCHANGED <<rows, bears, granted, confirmed>>
  BY DEF Begin
<1> HIDE DEF s
<1>3. /\ session' \in [Processes -> Session \cup {None}] /\ session'[p] = s
      /\ \A q \in Processes : q # p => session'[q] = session[q]
  BY <1>1, <1>2 DEF IInv, TypeOK
<1>4. Found(p)'
  BY <1>1, <1>3 DEF Found
<1>5. Grown /\ TypeOK' /\ GrantsAreKept' /\ AdminsAreGranted'
  BY <1>2, <1>3, NothingWritten DEF IInv, TableInv, TypeOK
<1> QED
  BY <1>3, <1>4, <1>5, SessionStep

LEMMA SelectIInv ==
    ASSUME IInv, NEW p \in Processes, SelectNothing(p) \/ SelectUser(p)
    PROVE  IInv'
<1> DEFINE u == session[p].user
<1>1. /\ TypeOK /\ TableInv /\ session[p] \in Session /\ session[p] # None /\ u \in Ids
      /\ session[p].op \in {"start", "command", "grant"} /\ At(p, "select")
  BY AtFacts DEF SelectNothing, SelectUser, Session
<1>2. UNCHANGED <<rows, granted, bears>>
  BY DEF SelectNothing, SelectUser
<1>3. /\ session' \in [Processes -> Session \cup {None}]
      /\ \A q \in Processes : q # p => session'[q] = session[q]
      /\ Found(p)'
  <2>1. CASE SelectNothing(p) /\ session[p].op = "grant"
    BY <1>1, <2>1, ReplyFacts DEF SelectNothing, Found, Answers
  <2>2. CASE SelectNothing(p) /\ session[p].op # "grant"
    BY <1>1, <2>2, ProceedFacts DEF SelectNothing, Found, Steps
  <2>3. CASE SelectUser(p) /\ session[p].op = "start"
    <3>1. Reply(p, "greeted") /\ Registered(u)
      BY <2>3 DEF SelectUser
    <3> QED
      BY <1>1, <1>2, <3>1, ReplyFacts DEF Found, Registered, Answers
  <2>4. CASE SelectUser(p) /\ session[p].op = "command"
    <3>1. Authorize(p) /\ Registered(u)
      BY <2>4 DEF SelectUser
    <3> QED
      BY <1>1, <1>2, <2>4, <3>1, AuthorizeFacts
  <2>5. CASE SelectUser(p) /\ session[p].op = "grant"
    <3>1. /\ Registered(u)
          /\ IF rows[u].is_admin THEN Reply(p, "already") ELSE Proceed(p, "update")
      BY <2>5 DEF SelectUser
    <3>2. CASE rows[u].is_admin
      BY <1>1, <2>5, <3>1, <3>2, ReplyFacts DEF Found, Answers
    <3>3. CASE ~rows[u].is_admin
      BY <1>1, <1>2, <2>5, <3>1, <3>3, ProceedFacts DEF Found, Registered, Steps
    <3> QED
      BY <3>2, <3>3
  <2> QED
    BY <1>1, <2>1, <2>2, <2>3, <2>4, <2>5
<1>4. confirmed' \subseteq Ids /\ \A v \in confirmed' \ confirmed : Registered(v) /\ rows[v].is_admin
  BY <1>1 DEF SelectNothing, SelectUser, TypeOK
<1>5. Grown /\ TypeOK' /\ GrantsAreKept' /\ AdminsAreGranted'
  BY <1>1, <1>2, <1>3, <1>4, NothingWritten DEF TypeOK
<1> QED
  BY <1>3, <1>5, SessionStep

LEMMA InsertIInv ==
    ASSUME IInv, NEW p \in Processes, Insert(p)
    PROVE  IInv'
<1>1. /\ TypeOK /\ TableInv /\ session[p] \in Session /\ session[p] # None
      /\ session[p].op \in {"start", "command"}
  BY AtFacts DEF Insert, Found, Session
<1>2. /\ session' \in [Processes -> Session \cup {None}]
      /\ \A q \in Processes : q # p => session'[q] = session[q]
      /\ session'[p].op = session[p].op /\ session'[p].user = session[p].user
      /\ session'[p].step \in {"refresh", "done"}
      /\ session'[p].step = "refresh" => session[p].op = "command"
  <2>1. CASE session[p].op = "start"
    BY <1>1, <2>1, ReplyFacts DEF Insert, InsertAnswer, Answers
  <2>2. CASE session[p].op = "command"
    BY <1>1, <2>2, ProceedFacts DEF Insert, InsertAnswer, Steps
  <2> QED
    BY <1>1, <2>1, <2>2
<1>3. /\ Grown /\ TypeOK' /\ GrantsAreKept' /\ AdminsAreGranted'
      /\ rows'[session[p].user] # None
  BY <1>1, <1>2, InsertWritten DEF Insert
<1>4. Found(p)'
  BY <1>2, <1>3 DEF Found, Registered
<1> QED
  BY <1>2, <1>3, <1>4, SessionStep

LEMMA RefreshIInv ==
    ASSUME IInv, NEW p \in Processes, Refresh(p)
    PROVE  IInv'
<1>1. /\ At(p, "refresh") /\ TypeOK /\ TableInv /\ session[p].op = "command"
      /\ Registered(session[p].user)
  BY AtFacts DEF Refresh, Found
<1>2. UNCHANGED <<rows, bears, granted, confirmed>>
  BY DEF Refresh
<1>3. /\ session' \in [Processes -> Session \cup {None}]
      /\ \A q \in Processes : q # p => session'[q] = session[q]
      /\ Found(p)'
  BY <1>1, <1>2, AuthorizeFacts DEF Refresh
<1>4. Grown /\ TypeOK' /\ GrantsAreKept' /\ AdminsAreGranted'
  BY <1>1, <1>2, <1>3, NothingWritten DEF TypeOK
<1> QED
  BY <1>3, <1>4, SessionStep

LEMMA UpdateIInv ==
    ASSUME IInv, NEW p \in Processes, Update(p)
    PROVE  IInv'
<1>1. /\ TypeOK /\ TableInv /\ session[p] \in Session /\ session[p] # None
      /\ session[p].op = "grant" /\ Registered(session[p].user)
  BY AtFacts DEF Update, Found
<1>2. /\ session' \in [Processes -> Session \cup {None}]
      /\ \A q \in Processes : q # p => session'[q] = session[q]
      /\ session'[p].op = "grant" /\ session'[p].step = "done"
  BY <1>1, ReplyFacts DEF Update, Answers
<1>3. Grown /\ TypeOK' /\ GrantsAreKept' /\ AdminsAreGranted'
  BY <1>1, <1>2, UpdateWritten DEF Update
<1>4. Found(p)'
  BY <1>2 DEF Found
<1> QED
  BY <1>2, <1>3, <1>4, SessionStep

\* A step that only answers.
LEMMA ReplyIInv ==
    ASSUME IInv, NEW p \in Processes, NEW step, At(p, step), NEW answer \in Answers,
           Reply(p, answer), UNCHANGED <<rows, bears, granted, confirmed>>,
           answer = "error" \/ Registered(session[p].user) \/ Taken(session[p].name)
    PROVE  IInv'
<1>1. TypeOK /\ TableInv /\ session[p] # None
  BY AtFacts
<1>2. /\ session' \in [Processes -> Session \cup {None}]
      /\ \A q \in Processes : q # p => session'[q] = session[q]
      /\ session'[p].user = session[p].user /\ session'[p].name = session[p].name
      /\ session'[p].step = "done" /\ session'[p].answer = answer
  BY <1>1, ReplyFacts
<1>3. Found(p)'
  BY <1>2 DEF Found, Registered, Taken
<1>4. Grown /\ TypeOK' /\ GrantsAreKept' /\ AdminsAreGranted'
  BY <1>1, <1>2, NothingWritten DEF TypeOK
<1> QED
  BY <1>2, <1>3, <1>4, SessionStep

LEMMA DatabaseErrorIInv ==
    ASSUME IInv, NEW p \in Processes, DatabaseError(p)
    PROVE  IInv'
<1>1. PICK step : At(p, step)
  BY DEF DatabaseError
<1>2. TypeOK /\ TableInv /\ session[p] \in Session /\ session[p] # None /\ Found(p)
  BY <1>1, AtFacts
<1>3. Reply(p, "error") /\ UNCHANGED <<bears, confirmed>>
  BY DEF DatabaseError
<1>4. /\ session' \in [Processes -> Session \cup {None}]
      /\ \A q \in Processes : q # p => session'[q] = session[q]
      /\ session'[p].step = "done" /\ session'[p].answer = "error"
  BY <1>2, <1>3, ReplyFacts DEF Answers
<1>5. Found(p)'
  BY <1>4 DEF Found
<1>6. CASE UNCHANGED <<rows, granted>>
  BY <1>1, <1>3, <1>6, ReplyIInv DEF Answers
<1>7. CASE At(p, "insert") /\ Insertable(p) /\ Inserted(p) /\ UNCHANGED granted
  BY <1>2, <1>3, <1>4, <1>5, <1>7, InsertWritten, SessionStep
<1>8. CASE At(p, "update") /\ Updated(p)
  <2>1. Registered(session[p].user)
    BY <1>2, <1>8 DEF Found, At
  <2> QED
    BY <1>2, <1>3, <1>4, <1>5, <1>8, <2>1, UpdateWritten, SessionStep
<1> QED
  BY <1>6, <1>7, <1>8 DEF DatabaseError

LEMMA EndIInv ==
    ASSUME IInv, NEW p \in Processes, Finish(p) \/ Crash(p)
    PROVE  IInv'
<1>1. /\ session' = [session EXCEPT ![p] = None]
      /\ UNCHANGED <<rows, bears, granted, confirmed>>
  BY DEF Finish, Crash
<1>2. /\ session' \in [Processes -> Session \cup {None}] /\ session'[p] = None
      /\ \A q \in Processes : q # p => session'[q] = session[q]
  BY <1>1 DEF IInv, TypeOK
<1>3. Grown /\ TypeOK' /\ GrantsAreKept' /\ AdminsAreGranted'
  BY <1>1, <1>2, NothingWritten DEF IInv, TableInv, TypeOK
<1> QED
  BY <1>2, <1>3, SessionStep

LEMMA StepIInv ==
    ASSUME IInv, NEW p \in Processes, Step(p)
    PROVE  IInv'
<1>1. CASE InsertConflict(p)
  <2>1. At(p, "insert") /\ (Registered(session[p].user) \/ Taken(session[p].name))
    BY <1>1 DEF InsertConflict, Insertable
  <2> QED
    BY <1>1, <2>1, ReplyIInv DEF InsertConflict, Answers
<1>2. CASE Return(p)
  <2>1. At(p, "running") /\ Registered(session[p].user)
    BY <1>2, AtFacts DEF Return, Found
  <2> QED
    BY <1>2, <2>1, ReplyIInv DEF Return, Answers
<1> QED
  BY <1>1, <1>2, SelectIInv, InsertIInv, RefreshIInv, UpdateIInv, DatabaseErrorIInv, EndIInv
  DEF Step

LEMMA RenameIInv ==
    ASSUME IInv, NEW u \in Ids, NEW n \in Names \cup {None}, Rename(u, n)
    PROVE  IInv'
<1>1. /\ bears' \in [Ids -> Names \cup {None}]
      /\ UNCHANGED <<rows, session, granted, confirmed>>
  BY DEF Rename, IInv, TypeOK
<1> QED
  BY <1>1 DEF IInv, TypeOK, GrantsAreKept, AdminsAreGranted, SessionInv, Found, Registered, Taken

\* The invariant holds whatever sessions overlap, fail or die, and whoever changes names.
THEOREM Invariance == Spec => []IInv
<1>1. IInv /\ [Next]_vars => IInv'
  <2> SUFFICES ASSUME IInv, [Next]_vars
               PROVE  IInv'
    OBVIOUS
  <2>1. ASSUME NEW u \in Ids, NEW n \in Names \cup {None}, Rename(u, n)
        PROVE  IInv'
    BY <2>1, RenameIInv
  <2>2. ASSUME NEW p \in Processes, NEW u \in Ids, Start(p, u) \/ Command(p, u)
        PROVE  IInv'
    <3>1. bears[u] \in Names \cup {None}
      BY DEF IInv, TypeOK
    <3> QED
      BY <2>2, <3>1, BeginIInv DEF Start, Command
  <2>3. ASSUME NEW p \in Processes, NEW sender \in Ids, NEW target \in Ids,
               GrantAdmin(p, sender, target)
        PROVE  IInv'
    BY <2>3, BeginIInv DEF GrantAdmin
  <2>4. ASSUME NEW p \in Processes, Step(p)
        PROVE  IInv'
    BY <2>4, StepIInv
  <2>5. CASE UNCHANGED vars
    BY <2>5 DEF vars, IInv, TypeOK, GrantsAreKept, AdminsAreGranted, SessionInv, Found,
       Registered, Taken
  <2> QED
    BY <2>1, <2>2, <2>3, <2>4, <2>5 DEF Next
<1> QED
  BY <1>1, InitIInv, PTL DEF Spec

\* Type correctness, and that no two rows have the same name.
THEOREM TypeCorrect == Spec => []TypeOK
<1>1. IInv => TypeOK
  BY DEF IInv
<1> QED
  BY <1>1, Invariance, PTL

\* Confirmed rights are never lost.
THEOREM GrantsKept == Spec => []GrantsAreKept
<1>1. IInv => GrantsAreKept
  BY DEF IInv
<1> QED
  BY <1>1, Invariance, PTL

\* Commands run for those who were granted the rights, and for no one else.
THEOREM OnlyAdminsRun == Spec => []CommandsRunForAdmins
<1>1. IInv => CommandsRunForAdmins
  BY DEF IInv, SessionInv, CommandsRunForAdmins, At, Found
<1> QED
  BY <1>1, Invariance, PTL

\* Whoever was answered is registered, or another row has the name.
THEOREM ContactsRegistered == Spec => []ContactsAreRegistered
<1>1. IInv => ContactsAreRegistered
  BY DEF IInv, SessionInv, ContactsAreRegistered, At, Found
<1> QED
  BY <1>1, Invariance, PTL

(***************************************************************************)
(* The sessions implement one account of users and rights (AdminRights).   *)
(***************************************************************************)
Registrants == { u \in Ids : Registered(u) }
Admins == { u \in Ids : Registered(u) /\ rows[u].is_admin }
Working == [p \in Processes |-> IF At(p, "running") THEN session[p].user ELSE None]

AccountNext == Account!RightsNext \/ UNCHANGED Account!rightsVars

\* The steps of the account, in terms of the sessions and the table.
LEMMA NoStep ==
    ASSUME UNCHANGED <<Registrants, Admins, confirmed, Working>>
    PROVE  AccountNext
BY DEF AccountNext, Account!rightsVars, Registrants, Admins, Working

LEMMA RegisterStep ==
    ASSUME NEW u \in Ids, u \notin Registrants, Registrants' = Registrants \cup {u},
           UNCHANGED <<Admins, confirmed, Working>>
    PROVE  AccountNext
<1>1. Account!Register(u)
  BY DEF Account!Register, Registrants, Admins, Working
<1> QED
  BY <1>1 DEF AccountNext, Account!RightsNext

LEMMA GrantStep ==
    ASSUME NEW u \in Ids, u \in Registrants, Admins' = Admins \cup {u},
           confirmed' \in {confirmed, confirmed \cup {u}}, UNCHANGED <<Registrants, Working>>
    PROVE  AccountNext
<1>1. Account!Grant(u)
  BY DEF Account!Grant, Registrants, Admins, Working
<1> QED
  BY <1>1 DEF AccountNext, Account!RightsNext

LEMMA WorkStep ==
    ASSUME NEW p \in Processes, NEW u \in Ids, Working[p] = None, u \in Admins,
           Working' = [Working EXCEPT ![p] = u], UNCHANGED <<Registrants, Admins, confirmed>>
    PROVE  AccountNext
<1>1. Account!Work(p, u)
  BY DEF Account!Work, Registrants, Admins, Working
<1> QED
  BY <1>1 DEF AccountNext, Account!RightsNext

LEMMA RestStep ==
    ASSUME NEW p \in Processes, Working[p] # None, Working' = [Working EXCEPT ![p] = None],
           UNCHANGED <<Registrants, Admins, confirmed>>
    PROVE  AccountNext
<1>1. Account!Rest(p)
  BY DEF Account!Rest, Registrants, Admins, Working
<1> QED
  BY <1>1 DEF AccountNext, Account!RightsNext

\* A step of one session changes for whom its process works, and no other.
LEMMA WorkingStep ==
    ASSUME NEW p \in Processes, \A q \in Processes : q # p => session'[q] = session[q]
    PROVE  /\ ~At(p, "running") /\ ~At(p, "running")' => UNCHANGED Working
           /\ ~At(p, "running") /\ At(p, "running")' =>
                 Working[p] = None /\ Working' = [Working EXCEPT ![p] = session'[p].user]
           /\ At(p, "running") /\ ~At(p, "running")' =>
                 Working[p] = session[p].user /\ Working' = [Working EXCEPT ![p] = None]
<1>1. \A q \in Processes : q # p => (At(q, "running")' <=> At(q, "running"))
  BY DEF At
<1> QED
  BY <1>1 DEF Working

\* What is written to the table, for the account.
LEMMA SameAccount ==
    ASSUME UNCHANGED rows
    PROVE  UNCHANGED <<Registrants, Admins>>
BY DEF Registrants, Admins, Registered

LEMMA InsertRegisters ==
    ASSUME TypeOK, NEW p \in Processes, session[p] \in Session, Insertable(p), Inserted(p)
    PROVE  /\ session[p].user \in Ids \ Registrants
           /\ Registrants' = Registrants \cup {session[p].user}
           /\ Admins' = Admins
<1> DEFINE u == session[p].user
<1>1. u \in Ids /\ session[p].name \in Names \cup {None} /\ ~Registered(u)
  BY DEF Session, Insertable
<1>2. NewRow(p) \in Row /\ ~NewRow(p).is_admin
  BY <1>1 DEF NewRow, Row
<1>3. rows'[u] = NewRow(p) /\ NewRow(p) # None /\ \A v \in Ids : v # u => rows'[v] = rows[v]
  BY <1>1, <1>2, UsersAssumption DEF Inserted, TypeOK
<1> QED
  BY <1>1, <1>2, <1>3 DEF Registrants, Admins, Registered

LEMMA UpdateGrants ==
    ASSUME TypeOK, NEW p \in Processes, session[p] \in Session, Registered(session[p].user),
           Updated(p)
    PROVE  /\ session[p].user \in Registrants
           /\ Registrants' = Registrants
           /\ Admins' = Admins \cup {session[p].user}
<1> DEFINE u == session[p].user
           r == [rows[u] EXCEPT !.is_admin = TRUE]
<1>1. u \in Ids /\ rows[u] \in Row
  BY DEF Session, TypeOK, Registered
<1>2. r \in Row /\ r.is_admin
  BY <1>1 DEF Row
<1>3. rows'[u] = r /\ r # None /\ \A v \in Ids : v # u => rows'[v] = rows[v]
  BY <1>1, <1>2, UsersAssumption DEF Updated, TypeOK
<1> HIDE DEF r
<1> QED
  BY <1>1, <1>2, <1>3 DEF Registrants, Admins, Registered

\* A session that goes on, or is answered, and writes nothing.
LEMMA ReadingStep ==
    ASSUME IInv, NEW p \in Processes, NEW step \in Steps \ {"running"}, At(p, step),
           UNCHANGED <<rows, confirmed>>,
           \/ \E next \in Steps \ {"running"} : Proceed(p, next)
           \/ \E answer \in Answers : Reply(p, answer)
    PROVE  AccountNext
<1>1. TypeOK /\ session[p] # None /\ ~At(p, "running")
  BY AtFacts DEF At
<1>2. /\ \A q \in Processes : q # p => session'[q] = session[q]
      /\ ~At(p, "running")'
  <2>1. CASE \E next \in Steps \ {"running"} : Proceed(p, next)
    BY <1>1, <2>1, ProceedFacts DEF At
  <2>2. CASE \E answer \in Answers : Reply(p, answer)
    BY <1>1, <2>2, ReplyFacts DEF At
  <2> QED
    BY <2>1, <2>2
<1> QED
  BY <1>1, <1>2, WorkingStep, SameAccount, NoStep

\* The rights are checked on the row as it is, and the command begins.
LEMMA AuthorizeStep ==
    ASSUME IInv, NEW p \in Processes, NEW step \in Steps \ {"running"}, At(p, step),
           Registered(session[p].user), UNCHANGED <<rows, confirmed>>, Authorize(p)
    PROVE  AccountNext
<1> DEFINE u == session[p].user
<1>1. TypeOK /\ session[p] # None /\ u \in Ids /\ ~At(p, "running")
  BY AtFacts DEF At
<1>2. CASE rows[u].is_admin
  <2>1. /\ \A q \in Processes : q # p => session'[q] = session[q]
        /\ At(p, "running")' /\ session'[p].user = u
    BY <1>1, <1>2, ProceedFacts DEF Authorize, At, Steps
  <2>2. u \in Admins
    BY <1>1, <1>2 DEF Admins
  <2> QED
    BY <1>1, <2>1, <2>2, WorkingStep, SameAccount, WorkStep
<1>3. CASE ~rows[u].is_admin
  <2>1. Reply(p, "refused") /\ "refused" \in Answers
    BY <1>3 DEF Authorize, Answers
  <2> QED
    BY <2>1, ReadingStep
<1> QED
  BY <1>2, <1>3

LEMMA SelectAccount ==
    ASSUME IInv, NEW p \in Processes, SelectNothing(p) \/ SelectUser(p)
    PROVE  AccountNext
<1> DEFINE u == session[p].user
<1>1. /\ At(p, "select") /\ "select" \in Steps \ {"running"} /\ UNCHANGED rows
      /\ TypeOK /\ session[p] # None /\ u \in Ids /\ ~At(p, "running")
      /\ session[p].op \in {"start", "command", "grant"}
  BY AtFacts DEF SelectNothing, SelectUser, Steps, Session, At
<1>2. CASE SelectNothing(p)
  <2>1. Reply(p, "unknown") \/ Proceed(p, "insert")
    BY <1>2 DEF SelectNothing
  <2> QED
    BY <1>1, <1>2, <2>1, ReadingStep DEF SelectNothing, Answers, Steps
<1>3. CASE SelectUser(p) /\ session[p].op = "start"
  BY <1>1, <1>3, ReadingStep DEF SelectUser, Answers
<1>4. CASE SelectUser(p) /\ session[p].op = "command"
  BY <1>1, <1>4, AuthorizeStep DEF SelectUser
<1>5. CASE SelectUser(p) /\ session[p].op = "grant" /\ rows[u].is_admin
  <2>1. /\ Reply(p, "already") /\ "already" \in Answers /\ Registered(u)
        /\ confirmed' = confirmed \cup {u}
    BY <1>5 DEF SelectUser, Answers
  <2>2. /\ \A q \in Processes : q # p => session'[q] = session[q]
        /\ ~At(p, "running")'
    BY <1>1, <2>1, ReplyFacts DEF At
  <2>3. u \in Registrants /\ u \in Admins /\ Admins = Admins \cup {u}
    BY <1>1, <1>5, <2>1 DEF Registrants, Admins
  <2> QED
    BY <1>1, <2>1, <2>2, <2>3, WorkingStep, SameAccount, GrantStep
<1>6. CASE SelectUser(p) /\ session[p].op = "grant" /\ ~rows[u].is_admin
  BY <1>1, <1>6, ReadingStep DEF SelectUser, Steps
<1> QED
  BY <1>1, <1>2, <1>3, <1>4, <1>5, <1>6

\* A write to the table, whatever becomes of its session.
LEMMA WrittenAccount ==
    ASSUME IInv, NEW p \in Processes, NEW step \in {"insert", "update"}, At(p, step),
           \/ \E next \in Steps \ {"running"} : Proceed(p, next)
           \/ \E answer \in Answers : Reply(p, answer),
           \/ Insertable(p) /\ Inserted(p) /\ UNCHANGED confirmed
           \/ /\ step = "update" /\ Updated(p)
              /\ confirmed' \in {confirmed, confirmed \cup {session[p].user}}
    PROVE  AccountNext
<1> DEFINE u == session[p].user
<1>1. /\ TypeOK /\ session[p] \in Session /\ session[p] # None /\ u \in Ids
      /\ ~At(p, "running") /\ (step = "update" => Registered(u))
  BY AtFacts DEF At, Found
<1>2. /\ \A q \in Processes : q # p => session'[q] = session[q]
      /\ ~At(p, "running")'
  <2>1. CASE \E next \in Steps \ {"running"} : Proceed(p, next)
    BY <1>1, <2>1, ProceedFacts DEF At
  <2>2. CASE \E answer \in Answers : Reply(p, answer)
    BY <1>1, <2>2, ReplyFacts DEF At
  <2> QED
    BY <2>1, <2>2
<1>3. UNCHANGED Working
  BY <1>1, <1>2, WorkingStep
<1>4. CASE Insertable(p) /\ Inserted(p) /\ UNCHANGED confirmed
  BY <1>1, <1>3, <1>4, InsertRegisters, RegisterStep
<1>5. CASE /\ step = "update" /\ Updated(p)
           /\ confirmed' \in {confirmed, confirmed \cup {session[p].user}}
  BY <1>1, <1>3, <1>5, UpdateGrants, GrantStep
<1> QED
  BY <1>4, <1>5

\* A command ends, and so does what is left of a session.
LEMMA EndAccount ==
    ASSUME IInv, NEW p \in Processes, Return(p) \/ Finish(p) \/ Crash(p)
    PROVE  AccountNext
<1>1. TypeOK /\ session[p] # None /\ session[p].user \in Ids /\ UNCHANGED <<rows, confirmed>>
  BY DEF IInv, TypeOK, Return, Finish, Crash, At, Session
<1>2. /\ \A q \in Processes : q # p => session'[q] = session[q]
      /\ ~At(p, "running")'
  <2>1. CASE Return(p)
    BY <1>1, <2>1, ReplyFacts DEF Return, At, Answers
  <2>2. CASE Finish(p) \/ Crash(p)
    BY <1>1, <2>2 DEF Finish, Crash, At, TypeOK
  <2> QED
    BY <2>1, <2>2
<1>3. CASE At(p, "running")
  BY <1>1, <1>2, <1>3, UsersAssumption, WorkingStep, SameAccount, RestStep
<1>4. CASE ~At(p, "running")
  BY <1>1, <1>2, <1>4, WorkingStep, SameAccount, NoStep
<1> QED
  BY <1>3, <1>4

LEMMA StepAccount ==
    ASSUME IInv, NEW p \in Processes, Step(p)
    PROVE  AccountNext
<1>1. CASE Insert(p)
  <2>1. Reply(p, "greeted") \/ Proceed(p, "refresh")
    BY <1>1 DEF Insert, InsertAnswer
  <2> QED
    BY <1>1, <2>1, WrittenAccount DEF Insert, Answers, Steps
<1>2. CASE InsertConflict(p)
  BY <1>2, ReadingStep DEF InsertConflict, Answers, Steps
<1>3. CASE Refresh(p)
  <2>1. Registered(session[p].user)
    BY <1>3, AtFacts DEF Refresh, Found
  <2> QED
    BY <1>3, <2>1, AuthorizeStep DEF Refresh, Steps
<1>4. CASE Update(p)
  BY <1>4, WrittenAccount DEF Update, Answers
<1>5. CASE DatabaseError(p)
  <2>1. Reply(p, "error") /\ "error" \in Answers /\ UNCHANGED confirmed
    BY <1>5 DEF DatabaseError, Answers
  <2>2. CASE UNCHANGED rows
    <3>1. PICK step \in Steps \ {"running"} : At(p, step)
      BY <1>5 DEF DatabaseError, Steps
    <3> QED
      BY <2>1, <2>2, <3>1, ReadingStep
  <2>3. CASE At(p, "insert") /\ Insertable(p) /\ Inserted(p)
    BY <2>1, <2>3, WrittenAccount
  <2>4. CASE At(p, "update") /\ Updated(p)
    BY <2>1, <2>4, WrittenAccount
  <2> QED
    BY <1>5, <2>2, <2>3, <2>4 DEF DatabaseError
<1> QED
  BY <1>1, <1>2, <1>3, <1>4, <1>5, SelectAccount, EndAccount DEF Step

LEMMA BeginAccount ==
    ASSUME IInv, NEW p \in Processes, NEW op, NEW u, NEW n, Begin(p, op, u, n)
    PROVE  AccountNext
<1>1. /\ session[p] = None /\ session'[p].step = "select"
      /\ \A q \in Processes : q # p => session'[q] = session[q]
      /\ UNCHANGED <<rows, confirmed>>
  BY DEF Begin, IInv, TypeOK
<1> QED
  BY <1>1, WorkingStep, SameAccount, NoStep DEF At

\* Registrations, grants and commands of overlapping, failing and dying sessions are
\* those of one account.
THEOREM OneAccount == Spec => ImplementsAdminRights
<1>1. Init => Account!RightsInit
  BY DEF Init, Account!RightsInit, Registered, At
<1>2. IInv /\ [Next]_vars => [Account!RightsNext]_(Account!rightsVars)
  <2> SUFFICES ASSUME IInv, [Next]_vars
               PROVE  AccountNext
    BY DEF AccountNext
  <2>1. ASSUME NEW u \in Ids, NEW n \in Names \cup {None}, Rename(u, n)
        PROVE  AccountNext
    BY <2>1, SameAccount, NoStep DEF Rename, Working, At
  <2>2. ASSUME NEW p \in Processes, NEW u \in Ids, Start(p, u) \/ Command(p, u)
        PROVE  AccountNext
    BY <2>2, BeginAccount DEF Start, Command
  <2>3. ASSUME NEW p \in Processes, NEW sender \in Ids, NEW target \in Ids,
               GrantAdmin(p, sender, target)
        PROVE  AccountNext
    BY <2>3, BeginAccount DEF GrantAdmin
  <2>4. ASSUME NEW p \in Processes, Step(p)
        PROVE  AccountNext
    BY <2>4, StepAccount
  <2>5. CASE UNCHANGED vars
    BY <2>5, SameAccount, NoStep DEF vars, Working, At
  <2> QED
    BY <2>1, <2>2, <2>3, <2>4, <2>5 DEF Next
<1> QED
  BY <1>1, <1>2, Invariance, PTL DEF Spec, ImplementsAdminRights, Account!RightsSpec

=============================================================================
