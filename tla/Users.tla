-------------------------------- MODULE Users --------------------------------
(***************************************************************************)
(* The users of the bot and their rights: the table users, which /start    *)
(* and the decorator authorized_users_only fill with those who write to    *)
(* the bot, and /grant_admin (bot/handlers.py, models.py).                 *)
(*                                                                         *)
(* A process handles one message at a time, an old and a new process may   *)
(* overlap.  Each statement of a session is a step; the transactions are   *)
(* those of PostgreSQL, which read what was committed before the           *)
(* statement, and an insert that meets a unique constraint is refused.     *)
(* Telegram's user names change hands, its ids do not.                     *)
(***************************************************************************)
EXTENDS Naturals

CONSTANTS
    Ids,            \* telegram ids
    SuperAdmin,     \* SUPER_ADMIN_TELEGRAM_ID
    Names,          \* user names
    Processes,
    None            \* no name, no row, no session

VARIABLES
    rows,       \* the table users: per telegram id its row
    bears,      \* per telegram id the user name it has on Telegram
    session,    \* per process the message that is being handled
    granted,    \* history: the ids whose rights were stored by /grant_admin
    confirmed   \* history: the ids whose rights were confirmed to the super admin

vars == <<rows, bears, session, granted, confirmed>>

Row == [username : Names \cup {None}, is_admin : BOOLEAN]

\* user is the sender, or the one /grant_admin names; name is the sender's in the message.
Session == [op : {"start", "command", "grant"}, user : Ids, name : Names \cup {None},
            step : {"select", "insert", "refresh", "update", "running", "done"},
            answer : {None, "greeted", "refused", "ran", "conflict", "error",
                      "unknown", "already", "granted"}]

ASSUME UsersAssumption == None \notin Ids \cup Names \cup Row \cup Session

Registered(u) == rows[u] # None

\* The unique constraint on users.username; NULLs do not conflict.
Taken(n) == n # None /\ \E u \in Ids : Registered(u) /\ rows[u].username = n

TypeOK ==
    /\ rows \in [Ids -> Row \cup {None}]
    /\ bears \in [Ids -> Names \cup {None}]
    /\ session \in [Processes -> Session \cup {None}]
    /\ granted \subseteq Ids
    /\ confirmed \subseteq Ids
    /\ \A u, v \in Ids :
          Registered(u) /\ Registered(v) /\ rows[u].username = rows[v].username
              => u = v \/ rows[u].username = None

Init ==
    /\ rows = [u \in Ids |-> None]
    /\ bears = [u \in Ids |-> None]
    /\ session = [p \in Processes |-> None]
    /\ granted = {}
    /\ confirmed = {}

At(p, step) == session[p] # None /\ session[p].step = step
Proceed(p, step) == session' = [session EXCEPT ![p] = [@ EXCEPT !.step = step]]
Reply(p, answer) ==
    session' = [session EXCEPT ![p] = [@ EXCEPT !.step = "done", !.answer = answer]]

(***************************************************************************)
(* A message arrives.                                                      *)
(***************************************************************************)

\* On Telegram no two users have a name at the same time.
Rename(u, n) ==
    /\ n = None \/ \A v \in Ids : bears[v] # n
    /\ bears' = [bears EXCEPT ![u] = n]
    /\ UNCHANGED <<rows, session, granted, confirmed>>

Begin(p, op, u, n) ==
    /\ session[p] = None
    /\ session' = [session EXCEPT ![p] =
          [op |-> op, user |-> u, name |-> n, step |-> "select", answer |-> None]]
    /\ UNCHANGED <<rows, bears, granted, confirmed>>

Start(p, u) == Begin(p, "start", u, bears[u])
Command(p, u) == Begin(p, "command", u, bears[u])

\* super_admin_only answers all others that the command is restricted.
GrantAdmin(p, sender, target) == sender = SuperAdmin /\ Begin(p, "grant", target, None)

(***************************************************************************)
(* The statements of the session.                                          *)
(***************************************************************************)

Authorize(p) ==
    IF rows[session[p].user].is_admin THEN Proceed(p, "running") ELSE Reply(p, "refused")

SelectNothing(p) ==
    /\ At(p, "select")
    /\ ~Registered(session[p].user)
    /\ IF session[p].op = "grant" THEN Reply(p, "unknown") ELSE Proceed(p, "insert")
    /\ UNCHANGED <<rows, bears, granted, confirmed>>

SelectUser(p) ==
    /\ At(p, "select")
    /\ Registered(session[p].user)
    /\ CASE session[p].op = "start" -> Reply(p, "greeted")
         [] session[p].op = "command" -> Authorize(p)
         [] session[p].op = "grant" ->
                IF rows[session[p].user].is_admin
                THEN Reply(p, "already") ELSE Proceed(p, "update")
    /\ confirmed' = IF session[p].op = "grant" /\ rows[session[p].user].is_admin
                    THEN confirmed \cup {session[p].user} ELSE confirmed
    /\ UNCHANGED <<rows, bears, granted>>

NewRow(p) == [username |-> session[p].name, is_admin |-> FALSE]

Inserted(p) == rows' = [rows EXCEPT ![session[p].user] = NewRow(p)]
Insertable(p) == ~Registered(session[p].user) /\ ~Taken(session[p].name)

\* /start is done after the commit, a command's session reads the new row once more.
InsertAnswer(p) ==
    IF session[p].op = "start" THEN Reply(p, "greeted") ELSE Proceed(p, "refresh")

Insert_Uncommitted(p) ==
    /\ At(p, "insert")
    /\ Insertable(p)
    /\ IF session[p].op = "start" THEN Reply(p, "greeted") ELSE Reply(p, "refused")
    /\ UNCHANGED <<rows, bears, granted, confirmed>>

Insert_Upsert(p) ==
    /\ At(p, "insert")
    /\ \/ ~Taken(session[p].name)
       \/ Registered(session[p].user) /\ rows[session[p].user].username = session[p].name
    /\ Inserted(p)
    /\ InsertAnswer(p)
    /\ UNCHANGED <<bears, granted, confirmed>>

Insert_SameName(p) ==
    /\ At(p, "insert")
    /\ ~Registered(session[p].user)
    /\ Inserted(p)
    /\ InsertAnswer(p)
    /\ UNCHANGED <<bears, granted, confirmed>>

Insert(p) ==
    /\ At(p, "insert")
    /\ Insertable(p)
    /\ Inserted(p)
    /\ InsertAnswer(p)
    /\ UNCHANGED <<bears, granted, confirmed>>

\* Another session was faster, or the name is in another row: the IntegrityError is
\* answered, by a greeting in /start and as a database error in the decorator.
InsertConflict(p) ==
    /\ At(p, "insert")
    /\ ~Insertable(p)
    /\ Reply(p, "conflict")
    /\ UNCHANGED <<rows, bears, granted, confirmed>>

Refresh_Trusting(p) ==
    /\ At(p, "refresh")
    /\ Proceed(p, "running")
    /\ UNCHANGED <<rows, bears, granted, confirmed>>

\* The re-check after the insert sees a grant that was stored in between.
Refresh(p) ==
    /\ At(p, "refresh")
    /\ Authorize(p)
    /\ UNCHANGED <<rows, bears, granted, confirmed>>

\* Of the row that was read only is_admin is written.
Updated(p) ==
    /\ rows' = [rows EXCEPT ![session[p].user] = [@ EXCEPT !.is_admin = TRUE]]
    /\ granted' = granted \cup {session[p].user}

Update(p) ==
    /\ At(p, "update")
    /\ Updated(p)
    /\ confirmed' = confirmed \cup {session[p].user}
    /\ Reply(p, "granted")
    /\ UNCHANGED bears

\* The command has run, or raised; both end the session.
Return(p) ==
    /\ At(p, "running")
    /\ \E answer \in {"ran", "error"} : Reply(p, answer)
    /\ UNCHANGED <<rows, bears, granted, confirmed>>

\* The database fails: a commit may have taken effect, or not.  The session is rolled
\* back and the error answered.
DatabaseError(p) ==
    /\ \E step \in {"select", "insert", "refresh", "update"} : At(p, step)
    /\ \/ UNCHANGED <<rows, granted>>
       \/ At(p, "insert") /\ Insertable(p) /\ Inserted(p) /\ UNCHANGED granted
       \/ At(p, "update") /\ Updated(p)
    /\ Reply(p, "error")
    /\ UNCHANGED <<bears, confirmed>>

Finish(p) ==
    /\ At(p, "done")
    /\ session' = [session EXCEPT ![p] = None]
    /\ UNCHANGED <<rows, bears, granted, confirmed>>

Crash(p) ==
    /\ session[p] # None
    /\ session' = [session EXCEPT ![p] = None]
    /\ UNCHANGED <<rows, bears, granted, confirmed>>

Step(p) ==
    \/ SelectNothing(p) \/ SelectUser(p)
    \/ Insert(p) \/ InsertConflict(p) \/ Refresh(p) \/ Update(p)
    \/ Return(p) \/ DatabaseError(p) \/ Finish(p) \/ Crash(p)

Next ==
    \/ \E u \in Ids, n \in Names \cup {None} : Rename(u, n)
    \/ \E p \in Processes :
          \/ \E u \in Ids : Start(p, u) \/ Command(p, u)
          \/ \E sender, target \in Ids : GrantAdmin(p, sender, target)
          \/ Step(p)

Spec == Init /\ [][Next]_vars

(***************************************************************************)
(* Properties.                                                             *)
(***************************************************************************)

\* Rights that /grant_admin confirmed stay, whatever sessions that had read an older
\* table do later: a first contact that is still to be inserted, a second grant.
GrantsAreKept == \A u \in confirmed : Registered(u) /\ rows[u].is_admin

\* "Admin" commands (README.md, commands) run for users whom the super admin granted
\* the rights and whose row says so while they run: neither a first contact that races
\* with a grant nor a failed commit opens another way.
CommandsRunForAdmins ==
    \A p \in Processes :
        At(p, "running") => /\ session[p].user \in granted
                            /\ Registered(session[p].user)
                            /\ rows[session[p].user].is_admin

\* "Registers the user if needed" (README.md, /start; GUIDE.md, any command): when the
\* database did not fail, the sender of a message that was answered is registered,
\* also after a lost race between two first contacts - unless another user's row has
\* the name.
ContactsAreRegistered ==
    \A p \in Processes :
        At(p, "done") /\ session[p].op # "grant" /\ session[p].answer # "error"
            => Registered(session[p].user) \/ Taken(session[p].name)

\* The sessions are one account of users and rights: whatever each of them had read
\* before another one wrote, registering takes no rights away and gives none, rights
\* are stored once and for all, and a command begins for an admin of that moment.
Account == INSTANCE AdminRights WITH
    registered <- { u \in Ids : Registered(u) },
    admins <- { u \in Ids : Registered(u) /\ rows[u].is_admin },
    working <- [p \in Processes |-> IF At(p, "running") THEN session[p].user ELSE None]

ImplementsAdminRights == Account!RightsSpec

=============================================================================
