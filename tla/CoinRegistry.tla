---------------------------- MODULE CoinRegistry ----------------------------
(***************************************************************************)
(* What the directory claim gate promises to a reader of the relay: of the  *)
(* live claims no two are on one coin, a listing is let in while its coin   *)
(* is free, and a claim goes by its own tombstone or by another record      *)
(* under its name.  A claim has a name for each key of its address; one     *)
(* with a single name goes whenever another record takes that name, one     *)
(* with several may be left listed, and ended, under another of them.       *)
(* No store, index or check here.  DirectoryClaims implements this as long  *)
(* as no check is late and every record is in step with the store.          *)
(***************************************************************************)
CONSTANTS
    Claims,     \* claims
    CoinOf,     \* the coin that backs a claim
    NamesOf,    \* the names a claim may be listed under: a key and a handle
    None        \* no record

VARIABLES
    listed,     \* the claims some record lists
    live,       \* those of them that none ends: what a reader takes as live
    admitted    \* the record let in and not yet stored, or None

Init == listed = {} /\ live = {} /\ admitted = None

Free(c) == \A other \in live : CoinOf[other] = CoinOf[c] => other = c

Admit(kind, c) == /\ admitted = None
                  /\ kind = "listing" => Free(c)
                  /\ kind = "tombstone" => c \in listed
                  /\ admitted' = [kind |-> kind, claim |-> c]
                  /\ UNCHANGED <<listed, live>>

\* A record under a name puts out one claim at most of those that have it, and
\* whoever is listed and has no other name.
Replaces(name, gone) == /\ gone \subseteq {c \in listed : name \in NamesOf[c]}
                        /\ \A c, d \in gone : c = d
                        /\ {c \in listed : NamesOf[c] = {name}} \subseteq gone

\* A claim ended under another of its names stays ended.
List(c, name) ==
    /\ admitted = [kind |-> "listing", claim |-> c] /\ admitted' = None
    /\ \E gone \in SUBSET listed :
          /\ Replaces(name, gone)
          /\ listed' = (listed \ gone) \cup {c}
          /\ \/ live' = (live \ gone) \cup {c}
             \/ c \notin live /\ NamesOf[c] # {name} /\ live' = live \ gone

End(c, name) ==
    /\ admitted = [kind |-> "tombstone", claim |-> c] /\ admitted' = None
    /\ \E gone \in SUBSET listed :
          /\ Replaces(name, gone)
          /\ listed' = listed \ gone
          /\ live' = live \ (gone \cup {c})

\* A newer record is stored already.
Drop == admitted' = None /\ UNCHANGED <<listed, live>>

Next == \/ \E c \in Claims : \/ \E kind \in {"listing", "tombstone"} : Admit(kind, c)
                             \/ \E name \in NamesOf[c] : List(c, name) \/ End(c, name)
        \/ Drop

Spec == Init /\ [][Next]_<<listed, live, admitted>>
=============================================================================
