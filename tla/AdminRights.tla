----------------------------- MODULE AdminRights -----------------------------
(***************************************************************************)
(* What the users' table and the two decorators of bot/handlers.py promise *)
(* together: an account of who is registered and who is an admin, in which *)
(* a user is registered once and gets no rights by it, /grant_admin makes  *)
(* an admin of a registered user, nothing of the account is ever undone,   *)
(* and a command runs for whom the account names an admin at that moment.  *)
(***************************************************************************)
CONSTANTS Ids, Processes, None

VARIABLES
    registered,  \* the users
    admins,      \* those with rights
    confirmed,   \* those whose rights were confirmed to the super admin
    working      \* per process the user for whom it runs a command

rightsVars == <<registered, admins, confirmed, working>>

RightsInit ==
    /\ registered = {} /\ admins = {} /\ confirmed = {}
    /\ working = [p \in Processes |-> None]

Register(u) ==
    /\ u \notin registered
    /\ registered' = registered \cup {u}
    /\ UNCHANGED <<admins, confirmed, working>>

\* The confirmation may be lost, and comes after the rights.
Grant(u) ==
    /\ u \in registered
    /\ admins' = admins \cup {u}
    /\ confirmed' \in {confirmed, confirmed \cup {u}}
    /\ UNCHANGED <<registered, working>>

Work(p, u) ==
    /\ working[p] = None
    /\ u \in admins
    /\ working' = [working EXCEPT ![p] = u]
    /\ UNCHANGED <<registered, admins, confirmed>>

Rest(p) ==
    /\ working[p] # None
    /\ working' = [working EXCEPT ![p] = None]
    /\ UNCHANGED <<registered, admins, confirmed>>

RightsNext ==
    \/ \E u \in Ids : Register(u) \/ Grant(u)
    \/ \E p \in Processes : Rest(p) \/ \E u \in Ids : Work(p, u)

RightsSpec == RightsInit /\ [][RightsNext]_rightsVars

=============================================================================
