---------------------------- MODULE Conversations ----------------------------
(***************************************************************************)
(* The two conversations of one user in one chat: /set_symbol and          *)
(* /set_timer without an argument ask a question, and the next text is the *)
(* answer (main.py, bot/handlers.py).                                      *)
(*                                                                         *)
(* The handlers are the program's; that they are called one at a time, in  *)
(* which order, and what becomes of the state and of the timeout job that  *)
(* each conversation has is the framework's, modelled from how main.py     *)
(* sets it up.  The framework takes the timeout job away before it calls a *)
(* handler and sets a new one after it, unless the handler ended the       *)
(* conversation or raised.  The job's own callback runs beside the         *)
(* handlers: it ends the conversation after its message was sent.          *)
(***************************************************************************)
EXTENDS Integers

CONSTANT None

Convs == {"symbol", "timer"}
Other(c) == IF c = "symbol" THEN "timer" ELSE "symbol"

VARIABLES
    authorized,  \* is the user an admin?
    state,       \* per conversation: does it wait for a text?
    armed,       \* per conversation: has it a timeout job?
    expiring,    \* per conversation: is the callback of a timeout under way?
    running,     \* the message being handled
    latest,      \* history: the last question the user was asked and that is open
    raised       \* history: did it lose its timeout to an exception since it was asked?

vars == <<authorized, state, armed, expiring, running, latest, raised>>

\* question is the one that was open when the message was taken.
Message == [conv : Convs, kind : {"command", "text", "cancel"}, question : Convs \cup {None}]

ASSUME ConversationsAssumption == None \notin Convs \cup Message

TypeOK ==
    /\ authorized \in BOOLEAN
    /\ state \in [Convs -> {"none", "waiting"}]
    /\ armed \in [Convs -> BOOLEAN]
    /\ expiring \in [Convs -> BOOLEAN]
    /\ running \in Message \cup {None}
    /\ latest \in Convs \cup {None}
    /\ latest # None <=> \E c \in Convs : state[c] = "waiting"
    /\ raised \in [Convs -> BOOLEAN]

Init ==
    /\ authorized \in BOOLEAN
    /\ state = [c \in Convs |-> "none"]
    /\ armed = [c \in Convs |-> FALSE]
    /\ expiring = [c \in Convs |-> FALSE]
    /\ running = None
    /\ latest = None
    /\ raised = [c \in Convs |-> FALSE]

Waiting(c) == state[c] = "waiting"

(***************************************************************************)
(* The framework: which handler takes a message.                           *)
(***************************************************************************)

\* The timeout job of the conversation is taken away before its handler is called.
Take(c, kind) ==
    /\ running = None
    /\ running' = [conv |-> c, kind |-> kind, question |-> latest]
    /\ armed' = [armed EXCEPT ![c] = FALSE]
    /\ UNCHANGED <<authorized, state, expiring, latest, raised>>

\* A command starts a conversation that does not wait, and is ignored by one that does.
TakeCommand(c) == ~Waiting(c) /\ Take(c, "command")

\* The handlers are asked in the order in which main() adds them: of two
\* conversations that wait, the symbol's gets the text, or /cancel.
First(c) == Waiting(c) /\ (c = "timer" => ~Waiting("symbol"))

TakeCancel_SymbolOnly(c) == c = "symbol" /\ First(c) /\ Take(c, "cancel")

TakeText(c) == First(c) /\ Take(c, "text")
TakeCancel(c) == First(c) /\ Take(c, "cancel")

Asked(c) ==
    /\ state' = [state EXCEPT ![c] = "waiting"]
    /\ latest' = c
    /\ raised' = [raised EXCEPT ![c] = FALSE]

Ended_KeepingState(c) ==
    /\ latest' = IF Waiting(Other(c)) THEN Other(c) ELSE None
    /\ raised' = [raised EXCEPT ![c] = FALSE]
    /\ UNCHANGED state

Ended(c) ==
    /\ state' = [state EXCEPT ![c] = "none"]
    /\ latest' = IF Waiting(Other(c)) THEN Other(c) ELSE None
    /\ raised' = [raised EXCEPT ![c] = FALSE]

(***************************************************************************)
(* The handlers.                                                           *)
(***************************************************************************)

Handling(c, kinds) == running # None /\ running.conv = c /\ running.kind \in kinds

Mistaken(c) == IF c = "timer" THEN {"text"} ELSE {}

Ask_Anyone(c) ==
    /\ Handling(c, {"command"} \cup Mistaken(c))
    /\ Asked(c)
    /\ armed' = [armed EXCEPT ![c] = TRUE]
    /\ running' = None
    /\ UNCHANGED <<authorized, expiring>>

Ask_Untimed(c) ==
    /\ Handling(c, (IF authorized THEN {"command"} ELSE {}) \cup Mistaken(c))
    /\ Asked(c)
    /\ running' = None
    /\ UNCHANGED <<authorized, armed, expiring>>

\* set_symbol and set_timer ask when the argument is missing; set_timer and
\* receive_timer ask again when the frequency is invalid.
Ask(c) ==
    /\ Handling(c, (IF authorized THEN {"command"} ELSE {}) \cup Mistaken(c))
    /\ Asked(c)
    /\ armed' = [armed EXCEPT ![c] = TRUE]
    /\ running' = None
    /\ UNCHANGED <<authorized, expiring>>

\* The setting was changed, or its change failed and that was answered; or cancel().
Done(c) ==
    /\ Handling(c, (IF authorized THEN {"command"} ELSE {}) \cup {"text", "cancel"})
    /\ Ended(c)
    /\ running' = None
    /\ UNCHANGED <<authorized, armed, expiring>>

\* authorized_users_only answers that the user is no admin, or that the database (or
\* whatever the handler raised) failed.  None as the new state leaves the state
\* alone, but it is not END, and the framework sets a timeout job.
Refuse(c) ==
    /\ Handling(c, {"command"})
    /\ armed' = [armed EXCEPT ![c] = TRUE]
    /\ running' = None
    /\ UNCHANGED <<authorized, state, expiring, latest, raised>>

\* receive_symbol and receive_timer are not decorated: an error of Redis in the first,
\* one of Telegram in any handler, leaves the conversation as it is.
Raise(c) ==
    /\ Handling(c, {"command", "text", "cancel"})
    /\ raised' = [raised EXCEPT ![c] = Waiting(c)]
    /\ running' = None
    /\ UNCHANGED <<authorized, state, armed, expiring, latest>>

(***************************************************************************)
(* The timeout.                                                            *)
(***************************************************************************)

\* After 60 seconds the job runs timeout(), which sends a message ...
Expire(c) ==
    /\ armed[c] /\ ~expiring[c]
    /\ armed' = [armed EXCEPT ![c] = FALSE]
    /\ expiring' = [expiring EXCEPT ![c] = TRUE]
    /\ UNCHANGED <<authorized, state, running, latest, raised>>

\* ... and the conversation of that moment is ended, be it another one by now.
TimedOut(c) ==
    /\ expiring[c]
    /\ expiring' = [expiring EXCEPT ![c] = FALSE]
    /\ IF Waiting(c) THEN Ended(c) ELSE UNCHANGED <<state, latest, raised>>
    /\ UNCHANGED <<authorized, armed, running>>

\* The message fails, and nothing ends.
TimeoutRaises(c) ==
    /\ expiring[c]
    /\ expiring' = [expiring EXCEPT ![c] = FALSE]
    /\ raised' = [raised EXCEPT ![c] = Waiting(c) /\ ~armed[c]]
    /\ UNCHANGED <<authorized, state, armed, running, latest>>

(***************************************************************************)
(* The rest.                                                               *)
(***************************************************************************)

\* /grant_admin by the super admin
GrantAdmin ==
    /\ running = None
    /\ authorized' = TRUE
    /\ UNCHANGED <<state, armed, expiring, running, latest, raised>>

Restart_Persistent ==
    /\ armed' = [c \in Convs |-> FALSE]
    /\ expiring' = [c \in Convs |-> FALSE]
    /\ running' = None
    /\ UNCHANGED <<authorized, state, latest, raised>>

\* Conversations are kept in memory only.
Restart ==
    /\ state' = [c \in Convs |-> "none"]
    /\ armed' = [c \in Convs |-> FALSE]
    /\ expiring' = [c \in Convs |-> FALSE]
    /\ running' = None
    /\ latest' = None
    /\ raised' = [c \in Convs |-> FALSE]
    /\ UNCHANGED authorized

Handle(c) == Ask(c) \/ Done(c) \/ Refuse(c) \/ Raise(c)
TimeOut(c) == TimedOut(c) \/ TimeoutRaises(c)

Next ==
    \/ \E c \in Convs :
          \/ TakeCommand(c) \/ TakeText(c) \/ TakeCancel(c)
          \/ Handle(c) \/ Expire(c) \/ TimeOut(c)
    \/ GrantAdmin
    \/ Restart

\* The event loop resumes handlers and timeouts, and their calls return or raise; the
\* job queue runs its jobs.
Fairness ==
    \A c \in Convs : WF_vars(Handle(c)) /\ WF_vars(Expire(c)) /\ WF_vars(TimeOut(c))

Spec == Init /\ [][Next]_vars /\ Fairness

(***************************************************************************)
(* Properties.                                                             *)
(***************************************************************************)

\* The handlers that take the answers check no rights: a conversation waits only for
\* a user who is an admin, whatever became of earlier questions and timeouts.
OnlyAdminsAreAsked == \A c \in Convs : Waiting(c) => authorized

\* A conversation that waits has a timeout ahead of it, unless a handler or a timeout
\* of it raised since its question: the interleavings of the two conversations and of
\* late timeouts with new questions leave none without.
WaitingIsTimed ==
    \A c \in Convs :
        Waiting(c) /\ ~raised[c] /\ ~Handling(c, {"command", "text", "cancel"})
            => armed[c] \/ expiring[c]

\* "If the user does not reply to the prompt within 60 seconds, the conversation state
\* should expire" (docs/specs/004, error scenarios): when the user falls silent no
\* conversation waits for good, unless something raised.
SilenceEndsConversations ==
    \A c \in Convs :
        <>[](running = None) => []<>(~Waiting(c) \/ raised[c])

\* "If the user sends /cancel during the prompt, the conversation should be terminated"
\* (docs/specs/004, error scenarios): a user who sends nothing but /cancel gets rid of
\* every question that is open, also of two at once and of those whose timeout was lost
\* to an exception, when no handler raises any more.
OnlyCancels == [][\A c \in Convs : ~TakeCommand(c) /\ ~TakeText(c) /\ ~Raise(c)]_vars

CancelEndsConversations ==
    <>OnlyCancels /\ WF_vars(\E c \in Convs : TakeCancel(c))
        => <>[](\A c \in Convs : ~Waiting(c))

\* A text is the answer to the last question that is open (docs/specs/004: after
\* /set_timer "The user replies with a valid number" and "The bot updates its
\* configuration to use the new timer interval").
TextAnswersLastQuestion ==
    running # None /\ running.kind = "text" => running.conv = running.question

=============================================================================
