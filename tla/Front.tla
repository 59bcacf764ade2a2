------------------------------- MODULE Front --------------------------------
(***************************************************************************)
(* The front as one process (front/main.go): requests are handled while Run *)
(* has the listener up, and those accepted go on until the process ends.    *)
(***************************************************************************)
EXTENDS VisitorNames, Supervisor

vars == <<namesVars, runVars>>

Init == NamesInit /\ RunInit

\* New connections come in until the listener is closed.
Listening == run \in {"started", "watch"} /\ ~served

\* Run calls key before it starts strfry.
Begin == Salted /\ FirstKey

Runs == RunStep /\ UNCHANGED namesVars
Reaps == Reap /\ UNCHANGED namesVars
KillEnds == KillTakes /\ UNCHANGED namesVars
Others == Around /\ UNCHANGED namesVars

Serve(r) == /\ \/ Listening /\ Accepts(r)
               \/ Alive /\ Handles(r)
            /\ UNCHANGED runVars

\* Nobody reads the clock of a process that has ended.
Time == Alive /\ Tick /\ UNCHANGED runVars

\* The process is gone, its memory with it; the machine stops.
Stopped == ~Alive /\ UNCHANGED vars

Next == \/ Begin \/ Runs \/ Reaps \/ KillEnds \/ Others \/ Time \/ Stopped
        \/ \E r \in Requests : Serve(r)

Spec == Init /\ [][Next]_vars

\* The process runs, its timers go off and the system ends what is killed;
\* nothing is assumed of strfry, the visitors or the randomness.
FairSpec == /\ Spec
            /\ WF_vars(Runs) /\ WF_vars(Reaps) /\ WF_vars(KillEnds)

Goroutine == [at : {"none", "lock", "keep", "draw", "load", "swap", "open"},
              day : Days \cup {None}, salt : Nat \cup {None}, now : 0..MaxTime,
              last : (0 - LogEvery)..MaxTime]

(* Every variable has its type; the mutex is held exactly by the goroutine   *)
(* inside key, and strfry runs unwatched for no longer than it takes to die. *)
TypeOK == /\ clock \in 0..MaxTime
          /\ day \in Days \cup {None} /\ salt \in Nat \cup {None}
          /\ \A r \in Requests : req[r] \in Goroutine
          /\ \A r \in Requests : req[r].at \in {"keep", "draw"} <=> mu = r
          /\ run \in {"begin", "spawn", "started", "watch"} \cup Stopping \cup Ended
          /\ child \in {"none", "up", "exited", "reaped"}
          /\ code \in 0..2
          /\ child = "up" /\ ~Alive => asked
=============================================================================
