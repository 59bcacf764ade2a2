---------------------------- MODULE StoreRewrite ----------------------------
(***************************************************************************)
(* boot/oc-relay-boot.sh: once per volume the event store is exported,      *)
(* imported into a new file and swapped for it, so that no visitor address  *)
(* stored before the front survives.  Any command may fail and the machine  *)
(* may stop between any two of them; the next boot starts from the top.     *)
(***************************************************************************)
EXTENDS Naturals

CONSTANTS
    Ids,        \* event ids
    MaxStops    \* bound: how often the machine stops

ASSUME StopsAssumption == MaxStops \in Nat

VARIABLES
    pc,         \* the command to run next, or relay
    db,         \* ids in the live store
    addressed,  \* of those, the ones stored with a visitor's address
    done,       \* the marker $DONE exists
    old,        \* next/old.jsonl: ids exported from the live store
    newdb,      \* next/data.mdb: ids imported into the new store
    new,        \* next/new.jsonl: ids exported from the new store
    stops       \* how often the machine stopped

vars == <<pc, db, addressed, done, old, newdb, new, stops>>
live == <<db, addressed, done>>
files == <<old, newdb, new>>

\* A volume from before the front: any store, any of its events addressed.
Init == /\ pc = "test" /\ db \in SUBSET Ids /\ addressed \in SUBSET db /\ done = FALSE
        /\ old = {} /\ newdb = {} /\ new = {} /\ stops = 0

\* The rewrite's commands in order; each but the last few ends it when it fails.
Rewrite == {"prepare", "exportOld", "import", "exportNew", "compare", "move"}

Goto(label) == pc' = label /\ UNCHANGED stops

-----------------------------------------------------------------------------
Test == /\ pc = "test"
        /\ Goto(IF done THEN "exec" ELSE "prepare")
        /\ UNCHANGED <<live, files>>

\* rm -rf next, mkdir, a config naming the new store.
Prepare == /\ pc = "prepare"
           /\ old' = {} /\ newdb' = {} /\ new' = {}
           /\ Goto("exportOld")
           /\ UNCHANGED live

ExportOld == /\ pc = "exportOld"
             /\ old' = db
             /\ Goto("import")
             /\ UNCHANGED <<live, newdb, new>>

\* strfry import may leave events out and still succeed.
Import == /\ pc = "import"
          /\ \E kept \in SUBSET old : newdb' = kept
          /\ Goto("exportNew")
          /\ UNCHANGED <<live, old, new>>

ExportNew == /\ pc = "exportNew"
             /\ new' = newdb
             /\ Goto("compare")
             /\ UNCHANGED <<live, old, newdb>>

\* Seeded fault: the new store is kept whatever it holds.
CompareNothing == /\ pc = "compare"
                  /\ Goto("move")
                  /\ UNCHANGED <<live, files>>

\* cmp of the sorted ids: an import that lost events is not kept.
Compare == /\ pc = "compare"
           /\ Goto(IF old = new THEN "move" ELSE "clean")
           /\ UNCHANGED <<live, files>>

\* Seeded fault: the volume is marked before the store is swapped.
MoveMarkedFirst == /\ pc = "move"
                   /\ IF done THEN db' = newdb /\ addressed' = {} /\ UNCHANGED done
                              ELSE done' = TRUE /\ UNCHANGED <<db, addressed>>
                   /\ Goto(IF done THEN "touch" ELSE "move")
                   /\ UNCHANGED files

\* mv replaces the live store in one rename; an imported event has no address.
Move == /\ pc = "move"
        /\ db' = newdb /\ addressed' = {}
        /\ Goto("touch")
        /\ UNCHANGED <<done, files>>

\* A failed command of rewrite returns 1: the relay starts on the old store.
Fails == /\ pc \in Rewrite
         /\ Goto("clean")
         /\ UNCHANGED <<live, files>>

\* touch "$DONE": its failure is not looked at; the next boot rewrites again.
Touch == /\ pc = "touch"
         /\ done' \in {TRUE, done}
         /\ Goto("clean")
         /\ UNCHANGED <<db, addressed, files>>

Clean == /\ pc = "clean"
         /\ old' = {} /\ newdb' = {} /\ new' = {}
         /\ Goto("exec")
         /\ UNCHANGED live

\* Seeded fault: without a rewritten store the relay is not started.
ExecWhenDone == /\ pc = "exec" /\ done
                /\ Goto("relay")
                /\ UNCHANGED <<live, files>>

Exec == /\ pc = "exec"
        /\ Goto("relay")
        /\ UNCHANGED <<live, files>>

\* Behind the front the relay stores events under a pseudonym, never an
\* address, and replaces or deletes others.
Serve == /\ pc = "relay"
         /\ \E more, fewer \in SUBSET Ids :
                db' = (db \cup more) \ fewer
         /\ addressed' = addressed \cap db'
         /\ UNCHANGED <<pc, done, files, stops>>

\* The machine stops anywhere; the volume is all that is left.
PowerOff == /\ stops < MaxStops
            /\ stops' = stops + 1
            /\ pc' = "test"
            /\ UNCHANGED <<live, files>>

BootStep == \/ Test \/ Prepare \/ ExportOld \/ Import \/ ExportNew \/ Compare
            \/ Move \/ Fails \/ Touch \/ Clean \/ Exec

Next == BootStep \/ Serve \/ PowerOff

Spec == Init /\ [][Next]_vars

\* The shell runs its next command: booting goes on unless the machine stops.
FairSpec == Spec /\ WF_vars(BootStep)

-----------------------------------------------------------------------------
(* Every variable has its type, and only stored events have an address.      *)
TypeOK == /\ pc \in Rewrite \cup {"test", "touch", "clean", "exec", "relay"}
          /\ db \subseteq Ids /\ addressed \subseteq db
          /\ done \in BOOLEAN
          /\ old \subseteq Ids /\ newdb \subseteq Ids /\ new \subseteq Ids
          /\ stops \in 0..MaxStops

(* "The rewrite is kept only when the new store holds exactly the old one's  *)
(* event ids": no command of the boot script, and no stop at any of them,    *)
(* adds or loses an event of the live store (rewrite).                       *)
BootKeepsEvents == [][pc # "relay" => db' = db]_vars

(* A volume marked done holds no address from before the front, wherever     *)
(* earlier boots failed or stopped: the marker is never ahead of the swap.   *)
DoneMeansCleared == done => addressed = {}

(* "Otherwise the relay starts on the old store": whatever fails, it starts. *)
RelayStarts == []<>(pc = "relay")
=============================================================================
