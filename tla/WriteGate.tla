----------------------------- MODULE WriteGate -----------------------------
(***************************************************************************)
(* What the write policy promises strfry, with no process, pipe or clock in *)
(* it: events are taken one at a time, each is answered once, and a gated   *)
(* event is admitted only when the directory check blessed it while it was  *)
(* the event being asked about.  GateBridge implements this.                *)
(***************************************************************************)
CONSTANTS
    Events,     \* the events strfry hands over
    Family,     \* those the prefix gate (decide) accepts
    Gated,      \* those the directory check must also accept
    None        \* no event

VARIABLES
    cur,        \* the event being judged, or None
    blessed,    \* whether the directory check has accepted it, this time
    verdict     \* the last answer given to strfry

vars == <<cur, blessed, verdict>>

Unanswered == [event |-> None, action |-> "none"]

Init == cur = None /\ blessed = FALSE /\ verdict = Unanswered

Take(e) == /\ cur = None
           /\ cur' = e
           /\ UNCHANGED <<blessed, verdict>>

Bless == /\ cur \in Family \cap Gated
         /\ blessed' = TRUE
         /\ UNCHANGED <<cur, verdict>>

Reply(action) == /\ verdict' = [event |-> cur, action |-> action]
                 /\ cur' = None
                 /\ blessed' = FALSE

Admit == /\ cur \in Family
         /\ cur \in Gated => blessed
         /\ Reply("accept")

Refuse == /\ cur # None
          /\ Reply("reject")

Next == (\E e \in Events : Take(e)) \/ Bless \/ Admit \/ Refuse

Spec == Init /\ [][Next]_vars
=============================================================================
