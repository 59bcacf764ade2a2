------------------------- MODULE StoreRewriteProofs -------------------------
(***************************************************************************)
(* What the store rewrite keeps and clears, for any store, any addresses in *)
(* it and any number of failures and stops.                                 *)
(***************************************************************************)
EXTENDS StoreRewrite, TLAPS

(* What each command may rely on: the export is the live store, the new      *)
(* store's export is the new store, and only an equal one is moved into      *)
(* place; once it is there, no address is left.                              *)
Progress ==
    /\ pc \in {"import", "exportNew", "compare", "move"} => old = db
    /\ pc \in {"compare", "move"} => new = newdb
    /\ pc = "move" => old = new
    /\ pc = "touch" => addressed = {}

IInv == TypeOK /\ Progress /\ DoneMeansCleared

LEMMA InitInv == Init => IInv
<1> SUFFICES ASSUME Init PROVE IInv
  OBVIOUS
<1>1. /\ db \subseteq Ids /\ addressed \subseteq db /\ done \in BOOLEAN
      /\ pc = "test" /\ old = {} /\ newdb = {} /\ new = {}
  BY DEF Init
<1>2. stops \in 0..MaxStops  BY StopsAssumption DEF Init
<1>3. TypeOK  BY <1>1, <1>2 DEF TypeOK, Rewrite
<1>4. Progress  BY <1>1 DEF Progress
<1>5. DoneMeansCleared  BY DEF Init, DoneMeansCleared
<1> QED BY <1>3, <1>4, <1>5 DEF IInv

(* Every step keeps the invariant: one case per command.                     *)
LEMMA NextInv == IInv /\ [Next]_vars => IInv'
<1> SUFFICES ASSUME IInv, [Next]_vars PROVE IInv'
  OBVIOUS
<1> USE DEF IInv, TypeOK, Progress, DoneMeansCleared, Rewrite, Goto, live, files
<1>1. CASE Test  BY <1>1 DEF Test
<1>2. CASE Prepare  BY <1>2 DEF Prepare
<1>3. CASE ExportOld  BY <1>3 DEF ExportOld
<1>4. CASE Import  BY <1>4 DEF Import
<1>5. CASE ExportNew  BY <1>5 DEF ExportNew
<1>6. CASE Compare  BY <1>6 DEF Compare
<1>7. CASE Move  BY <1>7 DEF Move
<1>8. CASE Fails  BY <1>8 DEF Fails
<1>9. CASE Touch  BY <1>9 DEF Touch
<1>10. CASE Clean  BY <1>10 DEF Clean
<1>11. CASE Exec  BY <1>11 DEF Exec
<1>12. CASE Serve
  <2>1. PICK more \in SUBSET Ids, fewer \in SUBSET Ids : db' = (db \cup more) \ fewer
    BY <1>12 DEF Serve
  <2>2. addressed' = addressed \cap db' /\ UNCHANGED <<pc, done, files, stops>> /\ pc = "relay"
    BY <1>12 DEF Serve
  <2> QED BY <2>1, <2>2
<1>13. CASE PowerOff  BY <1>13, StopsAssumption DEF PowerOff
<1>14. CASE UNCHANGED vars  BY <1>14 DEF vars
<1> QED
  BY <1>1, <1>2, <1>3, <1>4, <1>5, <1>6, <1>7, <1>8, <1>9, <1>10, <1>11, <1>12,
     <1>13, <1>14 DEF Next, BootStep

(* A volume marked done holds no address from before the front: the marker   *)
(* is touched only after the swap, and the relay stores none (rewrite).      *)
THEOREM Cleared == Spec => [](TypeOK /\ DoneMeansCleared)
<1>1. IInv => TypeOK /\ DoneMeansCleared  BY DEF IInv
<1> QED BY InitInv, NextInv, <1>1, PTL DEF Spec

(* Only mv touches the live store before the relay runs, and what it moves   *)
(* in place is a store of the same ids (cmp).                                *)
LEMMA StepKeepsEvents == IInv /\ [Next]_vars => [pc # "relay" => db' = db]_vars
<1> SUFFICES ASSUME IInv, [Next]_vars, pc # "relay" PROVE db' = db
  OBVIOUS
<1>1. CASE Move  BY <1>1 DEF Move, IInv, Progress
<1>2. CASE Test \/ Prepare \/ ExportOld \/ Import \/ ExportNew \/ Compare \/ Fails
           \/ Touch \/ Clean \/ Exec \/ PowerOff \/ UNCHANGED vars
  BY <1>2 DEF Test, Prepare, ExportOld, Import, ExportNew, Compare, Fails, Touch,
              Clean, Exec, PowerOff, vars, live
<1> QED BY <1>1, <1>2 DEF Next, BootStep, Serve

(* "The rewrite is kept only when the new store holds exactly the old one's  *)
(* event ids": booting neither adds nor loses an event of the live store.    *)
THEOREM EventsKept == Spec => BootKeepsEvents
<1> QED BY InitInv, NextInv, StepKeepsEvents, PTL DEF Spec, BootKeepsEvents
=============================================================================
