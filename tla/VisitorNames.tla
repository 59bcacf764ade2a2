---------------------------- MODULE VisitorNames ----------------------------
(***************************************************************************)
(* The handling of requests by the front (front/main.go): Names, which      *)
(* gives every visitor a pseudonym under the day's salt, and the note of a  *)
(* request without a usable address.  Each request has a goroutine of its   *)
(* own; they share the salt behind a mutex and two atomics.  A pseudonym is *)
(* a function of salt and address, so the salt stands for it.  Time is in   *)
(* whole units.                                                             *)
(***************************************************************************)
EXTENDS Integers, Sequences

CONSTANTS
    Requests,   \* goroutines
    DayLength,  \* length of a UTC day
    LogEvery,   \* the least time between two log lines
    MaxTime,    \* bound: the clock's last reading
    None        \* no day, no salt, nobody

ASSUME NamesAssumption == /\ DayLength \in Nat \ {0} /\ LogEvery \in Nat \ {0}
                          /\ MaxTime \in Nat
                          /\ None \notin Nat \cup Requests

VARIABLES
    clock,
    day, salt,  \* Names: the day last drawn for, and its salt
    mu,         \* who holds the mutex, or None
    req,        \* what each goroutine is doing
    loggedAt,   \* when a request without an address was last logged
    draws,      \* salts drawn so far; numbers them
    given,      \* history: per day, the salts this process gave out for it
    logged      \* history: the times this process logged, in order

namesVars == <<clock, day, salt, mu, req, loggedAt, draws, given, logged>>
names == <<day, salt>>
shared == <<clock, mu, loggedAt, logged>>

Days == 0..(MaxTime \div DayLength)
Today == clock \div DayLength

\* A goroutine: where it is, and the day key() read; or the salt it was given;
\* or the time noteUnknown read and the log time it found.
Naming(at, d) == [at |-> at, day |-> d, salt |-> None, now |-> 0, last |-> 0]
Noting(at, n, l) == [at |-> at, day |-> None, salt |-> None, now |-> n, last |-> l]
Open(s) == [at |-> "open", day |-> None, salt |-> s, now |-> 0, last |-> 0]
Quiet == Naming("none", None)

NamesInit == /\ clock = 0
             /\ day = None /\ salt = None /\ mu = None
             /\ req = [r \in Requests |-> Quiet]
             /\ given = [d \in Days |-> {}]
             /\ loggedAt = 0 - LogEvery /\ logged = <<>> /\ draws = 0

-----------------------------------------------------------------------------
(* key: the whole of it holds the mutex.                                    *)

\* The first salt, drawn by Run before anything is served.
FirstKey == /\ day' = Today /\ salt' = draws + 1 /\ draws' = draws + 1
            /\ given' = [given EXCEPT ![Today] = @ \cup {draws + 1}]
            /\ UNCHANGED <<shared, req>>

\* A request with a readable address comes in.
Arrive(r) == /\ req[r].at = "none"
             /\ req' = [req EXCEPT ![r] = Naming("lock", None)]
             /\ UNCHANGED <<shared, names, draws, given>>

\* What the goroutine reads once it is in: the day, and whether it is the salt's.
ReadDay(r) ==
    req' = [req EXCEPT ![r] = Naming(IF Today = day THEN "keep" ELSE "draw", Today)]

\* Seeded fault: key does not wait for the mutex.
LockOpen(r) == /\ req[r].at = "lock"
               /\ mu' = r
               /\ ReadDay(r)
               /\ UNCHANGED <<clock, loggedAt, logged, names, draws, given>>

Lock(r) == /\ req[r].at = "lock" /\ mu = None
           /\ mu' = r
           /\ ReadDay(r)
           /\ UNCHANGED <<clock, loggedAt, logged, names, draws, given>>

\* The proxy hands the request on under its source, made with salt s or shared
\* by all; a WebSocket stays open under that source as long as both ends like.
Name(r, s) == req' = [req EXCEPT ![r] = Open(s)]

\* key returns s: the goroutine holds it from here on, whatever the day becomes.
Give(r, s) == /\ Name(r, s)
              /\ given' = [given EXCEPT ![req[r].day] = @ \cup {s}]
              /\ mu' = None
              /\ UNCHANGED <<clock, loggedAt, logged>>

Keep(r) == /\ req[r].at = "keep"
           /\ Give(r, salt)
           /\ UNCHANGED <<names, draws>>

Draw(r) == /\ req[r].at = "draw"
           /\ draws' = draws + 1
           /\ day' = req[r].day /\ salt' = draws + 1
           /\ Give(r, draws + 1)

\* Seeded fault: the day is set before the salt is there.
DrawFailsHalfway(r) == /\ req[r].at = "draw"
                       /\ mu' = None /\ req' = [req EXCEPT ![r] = Quiet]
                       /\ day' = req[r].day
                       /\ UNCHANGED <<clock, loggedAt, logged, salt, draws, given>>

\* No randomness: the request is refused, and the old day and salt stay.
DrawFails(r) == /\ req[r].at = "draw"
                /\ mu' = None /\ req' = [req EXCEPT ![r] = Quiet]
                /\ UNCHANGED <<clock, loggedAt, logged, names, draws, given>>

-----------------------------------------------------------------------------
(* noteUnknown: no lock, two loads and a compare-and-swap.                  *)

\* A request without a usable address: the time is read.
ArriveUnknown(r) == /\ req[r].at = "none"
                    /\ req' = [req EXCEPT ![r] = Noting("load", clock, 0)]
                    /\ UNCHANGED <<shared, names, draws, given>>

Load(r) == /\ req[r].at = "load"
           /\ IF req[r].now - loggedAt >= LogEvery
                THEN req' = [req EXCEPT ![r] = Noting("swap", req[r].now, loggedAt)]
                ELSE Name(r, None)
           /\ UNCHANGED <<shared, names, draws, given>>

Log(r) == /\ loggedAt' = req[r].now
          /\ logged' = Append(logged, req[r].now)

\* Seeded fault: the time of the last line is stored, not swapped.
SwapAnyway(r) == /\ req[r].at = "swap"
                 /\ Log(r)
                 /\ Name(r, None)
                 /\ UNCHANGED <<clock, mu, names, draws, given>>

\* Only the goroutine that moves the time on from what it read logs.
Swap(r) == /\ req[r].at = "swap"
           /\ IF loggedAt = req[r].last THEN Log(r) ELSE UNCHANGED <<loggedAt, logged>>
           /\ Name(r, None)
           /\ UNCHANGED <<clock, mu, names, draws, given>>

-----------------------------------------------------------------------------
Close(r) == /\ req[r].at = "open"
            /\ req' = [req EXCEPT ![r] = Quiet]
            /\ UNCHANGED <<shared, names, draws, given>>

Tick == /\ clock < MaxTime
        /\ clock' = clock + 1
        /\ UNCHANGED <<mu, loggedAt, logged, names, req, draws, given>>

Accepts(r) == Arrive(r) \/ ArriveUnknown(r)
Handles(r) == \/ Lock(r) \/ Keep(r) \/ Draw(r) \/ DrawFails(r)
              \/ Load(r) \/ Swap(r) \/ Close(r)

-----------------------------------------------------------------------------
(* "Within a day one visitor's connections share a pseudonym": however       *)
(* requests meet at midnight, one process gives out one salt for a day (key). *)
OneSaltADay == \A d \in Days : \A s, t \in given[d] : s = t

(* "Across days nobody can link them": no salt given out for one day is      *)
(* given out for another, a day on which no salt could be drawn included.    *)
SaltNotKept == \A c, d \in Days : c # d => given[c] \cap given[d] = {}

(* "Says so at most once a minute": whichever goroutines race for the line,  *)
(* the times logged are a minute apart (noteUnknown).                        *)
LogLinesApart ==
    \A i, j \in 1..Len(logged) : i < j => logged[j] - logged[i] >= LogEvery
=============================================================================
