------------------------------ MODULE Sidecar ------------------------------
(***************************************************************************)
(* The directory sidecar (policy/dir-gate/gate.mjs): for each line of the   *)
(* plugin one check of the gate (DirectoryClaims), counted (Tally) and      *)
(* answered in one uninterrupted turn.  An overdue check is counted as the  *)
(* refusal its deadline gave, and not again when it ends.  Whoever ends the *)
(* sidecar ends the checks, the coin index and the counts in memory.        *)
(***************************************************************************)
EXTENDS DirectoryClaims, Tally

ASSUME SidecarAssumption == "accept" \in Reasons

sidecarVars == <<vars, tallyVars>>

SidecarInit == Init /\ TallyInit

\* The check the plugin waits on ends.
Answers == runs["now"] # Idle /\ runs'["now"] = Idle

Told == IF accepted' # accepted THEN {"accept"} ELSE Reasons \ {"accept"}

Check == /\ Next /\ restarts' = restarts
         /\ IF Answers THEN \E reason \in Told : Count(reason) ELSE UNCHANGED tallyVars

\* The deadline answers for the check, which goes on.
DeadlineAnswers == Overdue /\ \E reason \in Reasons \ {"accept"} : Count(reason)

\* What the gate refuses before it awaits anything is counted all the same.
RefuseAtOnce == /\ runs["now"] = Idle /\ accepted = None /\ checks < MaxChecks
                /\ checks' = checks + 1
                /\ \E reason \in Reasons \ {"accept"} : Count(reason)
                /\ UNCHANGED <<stored, coinIndex, runs, accepted, restarts>>

Ended == Restart /\ Reopen

EndedHalfway == /\ runs["now"] # Idle /\ Restart
                /\ \E reason \in Reasons : ReopenHalfway(reason)

NewDay == Midnight /\ UNCHANGED vars

SidecarNext == Check \/ DeadlineAnswers \/ RefuseAtOnce \/ Ended \/ EndedHalfway \/ NewDay

SidecarSpec == SidecarInit /\ [][SidecarNext]_sidecarVars

-----------------------------------------------------------------------------
\* The days the file has not dropped.
InFile(d) == Cardinality({e \in DOMAIN file : e > d}) < KeepDays

(* The counts "outlive a restarted sidecar and a deploy" (tally.mjs:2): for  *)
(* every day still kept the file counts each answer given, but for as many   *)
(* as saves have failed, and nothing that was not answered, but for one      *)
(* answer each time the sidecar was ended while it counted.                  *)
AnswersCounted ==
    \A d \in 0..today : InFile(d) =>
        /\ answered[d] <= Total(file, d) + unsaved
        /\ Total(file, d) <= answered[d] + restarts

(* Every variable has its type; neither checks nor counts pile up.           *)
SidecarTypeOK == TypeOK /\ TallyTypeOK
=============================================================================
