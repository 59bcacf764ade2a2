----------------------------- MODULE RelayRead -----------------------------
(***************************************************************************)
(* What a read of a relay promises while the relay keeps changing: it ends  *)
(* without an answer, or with every event that was there all along and none *)
(* that never was ("counts only once every one of them answered in full",   *)
(* policy/dir-gate/rules.mjs; "the archive is not rewritten from part of    *)
(* the set", sync/fetch.mjs).  No pages, seconds or limits here.            *)
(***************************************************************************)
EXTENDS Naturals

CONSTANTS
    Ids,        \* events
    NoAnswer    \* no set of events

VARIABLES
    stored,     \* the events the relay holds that the read asks for
    reading,    \* a read is under way
    through,    \* those held ever since it began
    seen,       \* those held at some moment since it began
    answer      \* what the last read answered

Init == /\ stored \in SUBSET Ids /\ reading = FALSE
        /\ through = {} /\ seen = {} /\ answer = NoAnswer

Begin == /\ ~reading /\ reading' = TRUE
         /\ stored' \in SUBSET Ids      \* another read asks for other events
         /\ through' = stored' /\ seen' = stored' /\ answer' = NoAnswer

Change == /\ stored' \in SUBSET Ids
          /\ IF reading THEN through' = through \cap stored' /\ seen' = seen \cup stored'
                        ELSE UNCHANGED <<through, seen>>
          /\ UNCHANGED <<reading, answer>>

Answer == /\ reading /\ reading' = FALSE
          /\ \/ answer' = NoAnswer
             \/ answer' \in SUBSET seen /\ through \subseteq answer'
          /\ UNCHANGED <<stored, through, seen>>

Next == Begin \/ Change \/ Answer

Spec == Init /\ [][Next]_<<stored, reading, through, seen, answer>>
=============================================================================
