----------------------------- MODULE Deliveries -----------------------------
(***************************************************************************)
(* What the scheduled updates promise (docs/specs/007, sections 4 and 9):  *)
(* the update of a local day and minute is claimed once, not before the    *)
(* minute has come and only if a schedule prescribes it, and who claims it *)
(* delivers it once or never.  A claim is never given back: an update that *)
(* fails after its claim is lost, not repeated.                            *)
(***************************************************************************)
EXTENDS Integers

CONSTANTS
    Occurrences,   \* the local days and minutes of the zones
    Horizon,       \* the last instant
    Due            \* Due[t]: the occurrences that some schedule prescribes at t

VARIABLES
    now,      \* the current instant
    claims,   \* the occurrences that somebody has claimed
    sends     \* the messages sent for each occurrence

deliveryVars == <<now, claims, sends>>

DeliveryInit ==
    /\ now = 0
    /\ claims = {}
    /\ sends = [k \in Occurrences |-> 0]

Pass ==
    /\ now < Horizon
    /\ now' = now + 1
    /\ UNCHANGED <<claims, sends>>

Claim(k) ==
    /\ k \notin claims
    /\ \E t \in 0 .. now : k \in Due[t]
    /\ claims' = claims \cup {k}
    /\ UNCHANGED <<now, sends>>

Deliver(k) ==
    /\ k \in claims
    /\ sends[k] = 0
    /\ sends' = [sends EXCEPT ![k] = 1]
    /\ UNCHANGED <<now, claims>>

DeliveryNext == Pass \/ \E k \in Occurrences : Claim(k) \/ Deliver(k)

DeliverySpec == DeliveryInit /\ [][DeliveryNext]_deliveryVars

=============================================================================
