------------------------------- MODULE Tally -------------------------------
(***************************************************************************)
(* The sidecar's counts of its answers, by day and reason                   *)
(* (policy/dir-gate/tally.mjs): kept in memory, and after each count        *)
(* written to a file beside the counts file and renamed over it.  Either    *)
(* may fail, and the sidecar may end at any point; the next one starts from *)
(* the file.                                                                *)
(***************************************************************************)
EXTENDS Naturals, FiniteSets, Functions

CONSTANTS
    Reasons,    \* the gate's fixed strings
    Other,      \* "other"
    MaxReasons, \* MAX_REASONS
    KeepDays,   \* KEEP_DAYS
    LastDay     \* bound: the days are 0..LastDay

ASSUME TallyAssumption == /\ Other \notin Reasons
                          /\ MaxReasons \in Nat /\ KeepDays \in Nat \ {0} /\ LastDay \in Nat

VARIABLES
    today,      \* the UTC day
    days,       \* day -> reason -> count, in memory
    file,       \* likewise in the counts file; empty when there is none
    answered,   \* history: day -> answers written that day
    unsaved     \* history: saves that failed

tallyVars == <<today, days, file, answered, unsaved>>

Nobody == [x \in {} |-> 0]

TallyInit == /\ today = 0 /\ days = Nobody /\ file = Nobody
             /\ answered = [d \in 0..LastDay |-> 0] /\ unsaved = 0

-----------------------------------------------------------------------------
\* Seeded fault: no day is dropped.
KeptAll(counts) == counts

\* The last KeepDays days.
Kept(counts) ==
    Restrict(counts, {d \in DOMAIN counts : Cardinality({e \in DOMAIN counts : e > d}) < KeepDays})

Get(f, x, default) == IF x \in DOMAIN f THEN f[x] ELSE default
Put(f, x, v) == [y \in DOMAIN f \cup {x} |-> IF y = x THEN v ELSE f[y]]

\* A reason past the limit of names is counted as another.
NameOf(reason, counts) ==
    IF reason \in DOMAIN counts \/ Cardinality(DOMAIN counts) < MaxReasons THEN reason ELSE Other

Counted(reason) ==
    LET counts == Get(days, today, Nobody)
        name == NameOf(reason, counts)
    IN  Kept(Put(days, today, Put(counts, name, Get(counts, name, 0) + 1)))

\* count, and then the answer goes out, whether or not the counts were saved.
Count(reason) ==
    /\ days' = Counted(reason)
    /\ \/ file' = days' /\ UNCHANGED unsaved
       \/ UNCHANGED file /\ unsaved' = unsaved + 1
    /\ answered' = [answered EXCEPT ![today] = @ + 1]
    /\ UNCHANGED today

\* Seeded fault: the sidecar starts with no counts.
ReopenEmpty == days' = Nobody /\ UNCHANGED <<today, file, answered, unsaved>>

\* The next sidecar reads the file.
Reopen == days' = file /\ UNCHANGED <<today, file, answered, unsaved>>

\* Seeded fault: the answer goes out before it is counted.
ReopenHalfwayAnswered(reason) ==
    /\ days' = file /\ answered' = [answered EXCEPT ![today] = @ + 1]
    /\ UNCHANGED <<today, file, unsaved>>

\* The sidecar ends while it counts: with the rename done or not, and no answer.
ReopenHalfway(reason) ==
    /\ file' \in {file, Counted(reason)} /\ days' = file'
    /\ UNCHANGED <<today, answered, unsaved>>

Midnight == today < LastDay /\ today' = today + 1 /\ UNCHANGED <<days, file, answered, unsaved>>

-----------------------------------------------------------------------------
\* What f adds up to: a count of n stands for n answers.
AnswersIn(f) == UNION {{r} \X (1..f[r]) : r \in DOMAIN f}

Total(counts, d) == Cardinality(AnswersIn(Get(counts, d, Nobody)))

OnDay(counts) ==
    /\ DOMAIN counts \subseteq 0..today
    /\ \A d \in DOMAIN counts :
           /\ DOMAIN counts[d] \subseteq Reasons \cup {Other}
           /\ Cardinality(DOMAIN counts[d]) <= MaxReasons + 1
           /\ \A r \in DOMAIN counts[d] : counts[d][r] \in Nat \ {0}

(* Every variable has its type; neither the days nor a day's names of        *)
(* reasons pile up, in memory or in the file.                                *)
TallyTypeOK ==
    /\ today \in 0..LastDay /\ answered \in [0..LastDay -> Nat] /\ unsaved \in Nat
    /\ OnDay(days) /\ Cardinality(DOMAIN days) <= KeepDays
    /\ OnDay(file) /\ Cardinality(DOMAIN file) <= KeepDays
=============================================================================
