------------------------ MODULE Conversations_proofs ------------------------
(***************************************************************************)
(* Proofs about Conversations: its constant stands for no value, and the   *)
(* user's messages, the late timeouts, the exceptions and the restarts may *)
(* come in any order and number.                                           *)
(***************************************************************************)
EXTENDS Conversations, TLAPS

(***************************************************************************)
(* The inductive invariant.  An answer is taken from an admin only, but    *)
(* its conversation may be ended by a late timeout while it is handled,    *)
(* and the handler may then ask again: that the user was an admin when the *)
(* text was taken has to be remembered.                                    *)
(***************************************************************************)
AnswersAreAdmins == running # None /\ running.kind \in {"text", "cancel"} => authorized

IInv ==
    /\ TypeOK
    /\ AnswersAreAdmins
    /\ OnlyAdminsAreAsked
    /\ WaitingIsTimed

LEMMA Kinds ==
    /\ None \notin Convs /\ None \notin Message
    /\ \A c \in Convs : Other(c) \in Convs /\ Other(c) # c /\ Convs = {c, Other(c)}
    /\ \A m \in Message : m.conv \in Convs /\ m.kind \in {"command", "text", "cancel"}
BY ConversationsAssumption DEF Convs, Message, Other

LEMMA InitIInv == Init => IInv
BY Kinds DEF Init, IInv, TypeOK, AnswersAreAdmins, OnlyAdminsAreAsked, WaitingIsTimed,
             Waiting, Handling

\* What a handler leaves behind it: nobody handles a message any more, and the
\* conversation waits for an admin, with a timeout or after an exception, or not at all.
LEMMA AskStep ==
    ASSUME IInv, NEW c \in Convs, Ask(c)
    PROVE  IInv'
<1>1. TypeOK'
  BY Kinds DEF IInv, TypeOK, Ask, Asked
<1>2. authorized /\ authorized' = authorized /\ running' = None
  BY Kinds DEF IInv, TypeOK, AnswersAreAdmins, Ask, Handling, Mistaken
<1>3. WaitingIsTimed'
  BY <1>2, Kinds DEF IInv, TypeOK, WaitingIsTimed, Waiting, Ask, Asked, Handling
<1> QED
  BY <1>1, <1>2, <1>3 DEF IInv, AnswersAreAdmins, OnlyAdminsAreAsked

\* The end of a conversation leaves the other's question, if there is one, as the last.
LEMMA EndedStep ==
    ASSUME IInv, NEW c \in Convs, Ended(c)
    PROVE  /\ state' \in [Convs -> {"none", "waiting"}]
           /\ latest' \in Convs \cup {None}
           /\ latest' # None <=> \E d \in Convs : state'[d] = "waiting"
           /\ raised' \in [Convs -> BOOLEAN]
           /\ ~Waiting(c)'
           /\ \A d \in Convs \ {c} : state'[d] = state[d] /\ raised'[d] = raised[d]
BY Kinds DEF IInv, TypeOK, Ended, Waiting

LEMMA DoneStep ==
    ASSUME IInv, NEW c \in Convs, Done(c)
    PROVE  IInv'
<1>1. Ended(c) /\ running' = None /\ UNCHANGED <<authorized, armed, expiring>>
  BY DEF Done
<1>2. running \in Message /\ running.conv = c
  BY DEF Done, Handling, IInv, TypeOK
<1>3. TypeOK'
  BY <1>1, EndedStep DEF IInv, TypeOK
<1>4. OnlyAdminsAreAsked'
  BY <1>1, EndedStep DEF IInv, OnlyAdminsAreAsked, Waiting
<1>5. WaitingIsTimed'
  BY <1>1, <1>2, EndedStep DEF IInv, WaitingIsTimed, Waiting, Handling
<1> QED
  BY <1>1, <1>3, <1>4, <1>5 DEF IInv, AnswersAreAdmins

LEMMA RefuseStep ==
    ASSUME IInv, NEW c \in Convs, Refuse(c)
    PROVE  IInv'
<1>1. TypeOK'
  BY DEF IInv, TypeOK, Refuse
<1>2. WaitingIsTimed'
  BY Kinds DEF IInv, TypeOK, WaitingIsTimed, Waiting, Refuse, Handling
<1> QED
  BY <1>1, <1>2 DEF IInv, AnswersAreAdmins, OnlyAdminsAreAsked, Waiting, Refuse

LEMMA RaiseStep ==
    ASSUME IInv, NEW c \in Convs, Raise(c)
    PROVE  IInv'
<1>1. TypeOK'
  BY DEF IInv, TypeOK, Raise, Waiting
<1>2. Waiting(c) => raised'[c]
  <2>1. raised'[c] = Waiting(c)
    BY DEF IInv, TypeOK, Raise
  <2> QED
    BY <2>1
<1>3. /\ running.conv = c /\ running' = None
      /\ UNCHANGED <<state, armed, expiring>>
      /\ \A d \in Convs \ {c} : raised'[d] = raised[d]
  BY DEF IInv, TypeOK, Raise, Handling
<1>4. WaitingIsTimed'
  BY <1>2, <1>3 DEF IInv, WaitingIsTimed, Waiting, Handling
<1> QED
  BY <1>1, <1>4 DEF IInv, AnswersAreAdmins, OnlyAdminsAreAsked, Waiting, Raise

\* A message is taken while none is handled; a text or /cancel from an admin only.
LEMMA TakeStep ==
    ASSUME IInv, NEW c \in Convs, TakeCommand(c) \/ TakeText(c) \/ TakeCancel(c)
    PROVE  IInv'
<1>1. PICK kind \in {"command", "text", "cancel"} :
          /\ Take(c, kind)
          /\ kind # "command" => Waiting(c)
  BY DEF TakeCommand, TakeText, TakeCancel, First
<1>2. /\ running = None
      /\ running' = [conv |-> c, kind |-> kind, question |-> latest]
      /\ armed' = [armed EXCEPT ![c] = FALSE]
      /\ UNCHANGED <<authorized, state, expiring, latest, raised>>
  BY <1>1 DEF Take
<1>3. running' \in Message /\ running'.conv = c /\ running'.kind = kind
  BY <1>2 DEF IInv, TypeOK, Message
<1>4. TypeOK'
  BY <1>2, <1>3 DEF IInv, TypeOK
<1>5. AnswersAreAdmins'
  BY <1>1, <1>2, <1>3 DEF IInv, OnlyAdminsAreAsked, AnswersAreAdmins
<1>6. WaitingIsTimed'
  BY <1>2, <1>3, Kinds DEF IInv, TypeOK, WaitingIsTimed, Waiting, Handling
<1> QED
  BY <1>2, <1>4, <1>5, <1>6 DEF IInv, OnlyAdminsAreAsked, Waiting

LEMMA ExpireStep ==
    ASSUME IInv, NEW c \in Convs, Expire(c)
    PROVE  IInv'
<1>1. TypeOK'
  BY DEF IInv, TypeOK, Expire
<1>2. WaitingIsTimed'
  BY DEF IInv, TypeOK, WaitingIsTimed, Waiting, Handling, Expire
<1> QED
  BY <1>1, <1>2 DEF IInv, AnswersAreAdmins, OnlyAdminsAreAsked, Waiting, Expire

\* A late timeout ends whatever waits, or raises and leaves it without a timeout.
LEMMA TimeOutStep ==
    ASSUME IInv, NEW c \in Convs, TimeOut(c)
    PROVE  IInv'
<1>1. CASE TimedOut(c) /\ Waiting(c)
  <2>1. Ended(c) /\ expiring' = [expiring EXCEPT ![c] = FALSE]
        /\ UNCHANGED <<authorized, armed, running>>
    BY <1>1 DEF TimedOut
  <2>2. TypeOK'
    BY <2>1, EndedStep DEF IInv, TypeOK
  <2>3. OnlyAdminsAreAsked'
    BY <2>1, EndedStep DEF IInv, OnlyAdminsAreAsked, Waiting
  <2>4. WaitingIsTimed'
    BY <2>1, EndedStep DEF IInv, TypeOK, WaitingIsTimed, Waiting, Handling
  <2> QED
    BY <2>1, <2>2, <2>3, <2>4 DEF IInv, AnswersAreAdmins
<1>2. CASE TimedOut(c) /\ ~Waiting(c)
  <2>1. expiring' = [expiring EXCEPT ![c] = FALSE]
        /\ UNCHANGED <<authorized, state, armed, running, latest, raised>>
    BY <1>2 DEF TimedOut
  <2>2. TypeOK'
    BY <2>1 DEF IInv, TypeOK
  <2>3. WaitingIsTimed'
    BY <1>2, <2>1 DEF IInv, TypeOK, WaitingIsTimed, Waiting, Handling
  <2> QED
    BY <2>1, <2>2, <2>3 DEF IInv, AnswersAreAdmins, OnlyAdminsAreAsked, Waiting
<1>3. CASE TimeoutRaises(c)
  <2>1. TypeOK'
    BY <1>3 DEF IInv, TypeOK, TimeoutRaises, Waiting
  <2>2. WaitingIsTimed'
    BY <1>3 DEF IInv, TypeOK, WaitingIsTimed, Waiting, Handling, TimeoutRaises
  <2> QED
    BY <1>3, <2>1, <2>2 DEF IInv, AnswersAreAdmins, OnlyAdminsAreAsked, Waiting, TimeoutRaises
<1> QED
  BY <1>1, <1>2, <1>3 DEF TimeOut

LEMMA OtherStep ==
    ASSUME IInv, GrantAdmin \/ Restart \/ UNCHANGED vars
    PROVE  IInv'
<1>1. CASE GrantAdmin
  BY <1>1 DEF GrantAdmin, IInv, TypeOK, AnswersAreAdmins, OnlyAdminsAreAsked, WaitingIsTimed,
              Waiting, Handling
<1>2. CASE Restart
  BY <1>2, Kinds DEF Restart, IInv, TypeOK, AnswersAreAdmins, OnlyAdminsAreAsked,
                     WaitingIsTimed, Waiting, Handling
<1>3. CASE UNCHANGED vars
  BY <1>3 DEF vars, IInv, TypeOK, AnswersAreAdmins, OnlyAdminsAreAsked, WaitingIsTimed,
              Waiting, Handling
<1> QED
  BY <1>1, <1>2, <1>3

LEMMA NextIInv == IInv /\ [Next]_vars => IInv'
<1> SUFFICES ASSUME IInv, [Next]_vars
             PROVE  IInv'
  OBVIOUS
<1>1. ASSUME NEW c \in Convs, Handle(c)
      PROVE  IInv'
  BY <1>1, AskStep, DoneStep, RefuseStep, RaiseStep DEF Handle
<1>2. ASSUME NEW c \in Convs,
             TakeCommand(c) \/ TakeText(c) \/ TakeCancel(c) \/ Expire(c) \/ TimeOut(c)
      PROVE  IInv'
  BY <1>2, TakeStep, ExpireStep, TimeOutStep
<1>3. CASE GrantAdmin \/ Restart \/ UNCHANGED vars
  BY <1>3, OtherStep
<1> QED
  BY <1>1, <1>2, <1>3 DEF Next

THEOREM Invariance == Spec => []IInv
<1> QED
  BY InitIInv, NextIInv, PTL DEF Spec

\* Every variable has its type, and there is a last question exactly when one is open.
THEOREM TypeCorrect == Spec => []TypeOK
<1>1. IInv => TypeOK
  BY DEF IInv
<1> QED
  BY <1>1, Invariance, PTL

\* Only admins are ever asked, whatever late timeouts do to the questions.
THEOREM AdminsAreAsked == Spec => []OnlyAdminsAreAsked
<1>1. IInv => OnlyAdminsAreAsked
  BY DEF IInv
<1> QED
  BY <1>1, Invariance, PTL

\* No interleaving of the two conversations leaves a question without a timeout.
THEOREM QuestionsAreTimed == Spec => []WaitingIsTimed
<1>1. IInv => WaitingIsTimed
  BY DEF IInv
<1> QED
  BY <1>1, Invariance, PTL

=============================================================================
