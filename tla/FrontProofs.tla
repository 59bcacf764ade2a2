---------------------------- MODULE FrontProofs -----------------------------
(***************************************************************************)
(* What the front's names and its log line keep to, for any number of       *)
(* requests, any length of a day and any time between two lines.            *)
(***************************************************************************)
EXTENDS Front, TLAPS

Places == {"none", "lock", "keep", "draw", "load", "swap", "open"}
Goroutines == [at : Places,
               day : Days \cup {None}, salt : Nat \cup {None}, now : Int, last : Int]

Types == /\ clock \in 0..MaxTime
         /\ day \in Days \cup {None} /\ salt \in Nat \cup {None}
         /\ draws \in Nat /\ loggedAt \in Int
         /\ given \in [Days -> SUBSET (1..draws)]
         /\ req \in [Requests -> Goroutines]

\* Run draws the first salt before it takes a request.
Before == run = "begin" => /\ day = None /\ mu = None
                           /\ given = [d \in Days |-> {}]
                           /\ req = [r \in Requests |-> Quiet]

\* The goroutine inside key, and no other, has compared its day with the salt's;
\* both days are behind the clock.
Inside ==
    /\ day # None => day <= Today /\ salt \in 1..draws
    /\ \A r \in Requests : req[r].at \in {"keep", "draw"} =>
          /\ mu = r
          /\ req[r].day \in Days /\ req[r].day <= Today
          /\ day # None => day <= req[r].day
    /\ \A r \in Requests : req[r].at = "keep" => req[r].day = day
    /\ \A r \in Requests : req[r].at = "draw" => req[r].day # day

\* Salts were given out for the salt's own day and those before it, and the
\* salt in memory for its own only.
GivenInOrder ==
    /\ \A d \in Days : given[d] # {} => day # None /\ d <= day
    /\ day # None => given[day] \subseteq {salt}
    /\ \A d \in Days : d # day => salt \notin given[d]

NamesInv == Types /\ Before /\ Inside /\ GivenInOrder /\ OneSaltADay /\ SaltNotKept

\* The last line logged is where loggedAt says, and a goroutine about to swap
\* found its time far enough from what it read.
LogInv ==
    /\ logged \in Seq(Int)
    /\ \A i \in 1..Len(logged) : logged[i] <= loggedAt
    /\ \A r \in Requests : req[r].at = "swap" => req[r].now - req[r].last >= LogEvery
    /\ LogLinesApart

-----------------------------------------------------------------------------
(* A later time is in no earlier day (Today).                                *)
LEMMA DivMonotone == ASSUME NEW a \in Nat, NEW b \in Nat, NEW n \in Nat \ {0}, a <= b
                     PROVE  a \div n \in Nat /\ a \div n <= b \div n
<1>1. a \div n \in Nat /\ b \div n \in Nat  OBVIOUS
<1>2. a = n * (a \div n) + (a % n) /\ a % n < n /\ a % n \in Nat  OBVIOUS
<1>3. b = n * (b \div n) + (b % n) /\ b % n < n /\ b % n \in Nat  OBVIOUS
<1>4. SUFFICES ASSUME a \div n > b \div n PROVE FALSE  BY <1>1
<1> DEFINE p == a \div n  q == b \div n
<1>5. n * p >= n * (q + 1)  BY <1>1, <1>4
<1>6. n * (q + 1) = n * q + n  BY <1>1
<1> QED BY <1>1, <1>2, <1>3, <1>5, <1>6

(* Every reading of the clock is in one of the days.                         *)
LEMMA TodayIsADay == ASSUME clock \in 0..MaxTime PROVE Today \in Days /\ Days \subseteq Nat
<1>1. Today \in Nat /\ Today <= MaxTime \div DayLength
  BY DivMonotone, NamesAssumption DEF Today
<1>2. MaxTime \div DayLength \in Nat  BY DivMonotone, NamesAssumption
<1> QED BY <1>1, <1>2 DEF Days

LEMMA NoneIsNoDay == None \notin Days /\ None \notin Requests
<1>1. MaxTime \div DayLength \in Nat  BY DivMonotone, NamesAssumption
<1> QED BY <1>1, NamesAssumption DEF Days

(* What a step leaves a goroutine at is typed, and at the place it names.    *)
LEMMA DoingTyped ==
    /\ \A a \in Places : \A d \in Days \cup {None} :
          Naming(a, d) \in Goroutines /\ Naming(a, d).at = a /\ Naming(a, d).day = d
    /\ \A a \in Places : \A n, l \in Int :
          Noting(a, n, l) \in Goroutines /\ Noting(a, n, l).at = a
    /\ \A s \in Nat \cup {None} : Open(s) \in Goroutines /\ Open(s).at = "open"
    /\ Quiet \in Goroutines /\ Quiet.at = "none"
<1>1. ASSUME NEW a \in Places, NEW d \in Days \cup {None}
      PROVE  Naming(a, d) \in Goroutines /\ Naming(a, d).at = a /\ Naming(a, d).day = d
  BY DEF Naming, Goroutines
<1>2. ASSUME NEW a \in Places, NEW n \in Int, NEW l \in Int
      PROVE  Noting(a, n, l) \in Goroutines /\ Noting(a, n, l).at = a
  BY DEF Noting, Goroutines
<1>3. ASSUME NEW s \in Nat \cup {None}
      PROVE  Open(s) \in Goroutines /\ Open(s).at = "open"
  BY DEF Open, Goroutines, Places
<1>4. Quiet \in Goroutines /\ Quiet.at = "none"
  BY <1>1 DEF Quiet, Places
<1> QED BY <1>1, <1>2, <1>3, <1>4

LEMMA InitInv == Init => NamesInv
<1> SUFFICES ASSUME Init PROVE NamesInv
  OBVIOUS
<1> USE DEF Init, NamesInit, RunInit
<1>0. Quiet \in Goroutines /\ Quiet.at = "none"  BY DoingTyped
<1>1. Types  BY <1>0, NamesAssumption DEF Types
<1>2. Before  BY DEF Before
<1>3. Inside  BY <1>0 DEF Inside
<1>4. GivenInOrder  BY DEF GivenInOrder
<1>5. OneSaltADay /\ SaltNotKept  BY DEF OneSaltADay, SaltNotKept
<1> QED BY <1>1, <1>2, <1>3, <1>4, <1>5 DEF NamesInv

(* A salt given out for a day: the one in memory for its own day, or a new   *)
(* one for a day after it, leaves the salts one to a day (Give, FirstKey).   *)
LEMMA GiveInv ==
    ASSUME NamesInv, NEW d \in Days, NEW s,
           given' = [given EXCEPT ![d] = @ \cup {s}],
           day' = d, salt' = s, draws' \in Nat, draws <= draws', s \in 1..draws',
           \/ d = day /\ s = salt
           \/ (day # None => day < d) /\ s = draws + 1
    PROVE  /\ given' \in [Days -> SUBSET (1..draws')]
           /\ GivenInOrder' /\ OneSaltADay' /\ SaltNotKept'
<1> USE DEF NamesInv, Types
<1>0. Days \subseteq Nat /\ None \notin Days  BY TodayIsADay, NoneIsNoDay
<1>1. given' \in [Days -> SUBSET (1..draws')]  OBVIOUS
<1>2. given'[d] = {s}
  <2>1. CASE d = day /\ s = salt  BY <2>1, <1>0 DEF GivenInOrder
  <2>2. CASE (day # None => day < d) /\ s = draws + 1
    <3>1. given[d] = {}  BY <2>2, <1>0 DEF GivenInOrder
    <3> QED BY <3>1
  <2> QED BY <2>1, <2>2
<1>3. \A c \in Days : c # d => given'[c] = given[c] /\ s \notin given[c]
  <2> SUFFICES ASSUME NEW c \in Days, c # d PROVE given'[c] = given[c] /\ s \notin given[c]
    OBVIOUS
  <2>1. given'[c] = given[c]  OBVIOUS
  <2>2. CASE d = day /\ s = salt  BY <2>1, <2>2 DEF GivenInOrder
  <2>3. CASE s = draws + 1
    <3>1. given[c] \subseteq 1..draws  OBVIOUS
    <3> QED BY <2>1, <2>3, <3>1
  <2> QED BY <2>2, <2>3
<1>4. \A c \in Days : given'[c] # {} => c <= d
  <2> SUFFICES ASSUME NEW c \in Days, given'[c] # {}, c # d PROVE c <= d
    BY <1>0
  <2>1. given[c] # {}  BY <1>3
  <2> QED BY <2>1, <1>0 DEF GivenInOrder
<1>5. GivenInOrder'  BY <1>0, <1>2, <1>3, <1>4 DEF GivenInOrder
<1>6. OneSaltADay'  BY <1>2, <1>3 DEF OneSaltADay
<1>7. SaltNotKept'  BY <1>2, <1>3 DEF SaltNotKept
<1> QED BY <1>1, <1>5, <1>6, <1>7

(* A step that changes neither the salt, its holder nor what was given out,  *)
(* and leaves every goroutine it changes outside key.                        *)
LEMMA OutsideInv ==
    ASSUME NamesInv, UNCHANGED <<day, salt, mu, draws, given>>,
           clock' \in clock..MaxTime, loggedAt' \in Int, req' \in [Requests -> Goroutines],
           \A r \in Requests : req'[r].at \in {"keep", "draw"} => req'[r] = req[r],
           run' = "begin" => run = "begin" /\ req' = req
    PROVE  NamesInv'
<1> USE DEF NamesInv
<1>0. /\ clock \in Nat /\ clock' \in Nat /\ clock <= clock' /\ clock' \in 0..MaxTime
      /\ Days \subseteq Nat
  BY NamesAssumption, TodayIsADay DEF Types
<1>1. Types'  BY <1>0 DEF Types
<1>2. Before'  BY DEF Before
<1>3. Today \in Nat /\ Today' \in Nat /\ Today <= Today'
  <2>1. clock \div DayLength \in Nat /\ clock \div DayLength <= clock' \div DayLength
    BY <1>0, DivMonotone, NamesAssumption
  <2>2. clock' <= clock'  BY <1>0
  <2>3. clock' \div DayLength \in Nat  BY <1>0, <2>2, DivMonotone, NamesAssumption
  <2> QED BY <2>1, <2>3 DEF Today
<1>4. Inside'
  <2>1. day' # None => day' <= Today' /\ salt' \in 1..draws'
    BY <1>0, <1>3 DEF Inside, Types
  <2>2. ASSUME NEW r \in Requests, req'[r].at \in {"keep", "draw"}
        PROVE  /\ mu' = r /\ req'[r].day \in Days /\ req'[r].day <= Today'
               /\ day' # None => day' <= req'[r].day
    <3>1. req'[r] = req[r] /\ req[r].at \in {"keep", "draw"}  BY <2>2
    <3>2. /\ mu = r /\ req[r].day \in Days /\ req[r].day <= Today
          /\ day # None => day <= req[r].day
      BY <3>1 DEF Inside
    <3>3. req[r].day \in Nat  BY <1>0, <3>2
    <3>4. req[r].day <= Today'  BY <1>3, <3>2, <3>3
    <3> QED BY <3>1, <3>2, <3>4
  <2>3. ASSUME NEW r \in Requests
        PROVE  /\ req'[r].at = "keep" => req'[r].day = day'
               /\ req'[r].at = "draw" => req'[r].day # day'
    BY DEF Inside
  <2> QED BY <2>1, <2>2, <2>3 DEF Inside
<1>5. GivenInOrder' /\ OneSaltADay' /\ SaltNotKept'
  BY DEF GivenInOrder, OneSaltADay, SaltNotKept
<1> QED BY <1>1, <1>2, <1>4, <1>5

(* One step of a goroutine: key under its mutex, the rest outside it.        *)
LEMMA HandlesInv == ASSUME NamesInv, NEW r \in Requests, run # "begin", Handles(r),
                           run' = run
                    PROVE  NamesInv'
<1> USE DEF NamesInv, shared, names
<1>0. /\ Days \subseteq Nat /\ Today \in Days /\ clock \in Nat /\ Today \in Nat
      /\ None \notin Days /\ None \notin Requests /\ clock \in clock..MaxTime
  BY TodayIsADay, NoneIsNoDay DEF Types
<1>1. ASSUME Lock(r) PROVE NamesInv'
  <2> USE <1>1 DEF Lock, ReadDay
  <2> DEFINE a == IF Today = day THEN "keep" ELSE "draw"
             g == Naming(a, Today)
  <2>9. g \in Goroutines /\ g.at = a /\ g.day = Today
    BY <1>0, DoingTyped DEF Places
  <2>10. req' = [req EXCEPT ![r] = g] /\ req \in [Requests -> Goroutines]  BY DEF Types
  <2> HIDE DEF g
  <2>0. Types'  BY <1>0, <2>9, <2>10 DEF Types
  <2>1. Before' /\ GivenInOrder' /\ OneSaltADay' /\ SaltNotKept'
    BY DEF Before, GivenInOrder, OneSaltADay, SaltNotKept
  <2>2. Today' = Today /\ \A q \in Requests \ {r} : req'[q] = req[q]
    BY <2>10 DEF Today
  <2>3. req'[r].day = Today /\ req'[r].at = a  BY <2>9, <2>10
  <2>4. \A q \in Requests : req[q].at \notin {"keep", "draw"}
    BY <1>0 DEF Inside
  <2>5. day' = day /\ salt' = salt /\ draws' = draws /\ mu' = r  OBVIOUS
  <2>6. \A q \in Requests : req'[q].at \in {"keep", "draw"} => q = r  BY <2>2, <2>4
  <2>7. day # None => day <= Today /\ salt \in 1..draws  BY DEF Inside
  <2>8. Inside'
    <3>1. day' # None => day' <= Today' /\ salt' \in 1..draws'  BY <2>2, <2>5, <2>7
    <3>2. req'[r].day \in Days /\ req'[r].day <= Today' /\ (day' # None => day' <= req'[r].day)
      BY <1>0, <2>2, <2>3, <2>5, <2>7
    <3>3. /\ req'[r].at = "keep" => req'[r].day = day'
          /\ req'[r].at = "draw" => req'[r].day # day'
      BY <2>3, <2>5
    <3>4. \A q \in Requests : req'[q].at \in {"keep", "draw"} =>
             /\ mu' = q /\ req'[q].day \in Days /\ req'[q].day <= Today'
             /\ day' # None => day' <= req'[q].day
      BY <2>5, <2>6, <3>2
    <3>5. /\ \A q \in Requests : req'[q].at = "keep" => req'[q].day = day'
          /\ \A q \in Requests : req'[q].at = "draw" => req'[q].day # day'
      BY <2>6, <3>3
    <3> QED BY <3>1, <3>4, <3>5 DEF Inside
  <2> QED BY <2>0, <2>1, <2>8
<1>2. ASSUME req[r].at \in {"keep", "draw"}, NEW d \in Days, NEW s, d = req[r].day,
             given' = [given EXCEPT ![d] = @ \cup {s}],
             day' = d, salt' = s, draws' \in Nat, draws <= draws', s \in 1..draws',
             \/ d = day /\ s = salt
             \/ (day # None => day < d) /\ s = draws + 1,
             Give(r, s)
      PROVE  NamesInv'
  <2> USE <1>2 DEF Give, Name
  <2>1. given' \in [Days -> SUBSET (1..draws')] /\ GivenInOrder' /\ OneSaltADay' /\ SaltNotKept'
    BY GiveInv
  <2>2. Types'
    <3>1. s \in Nat  OBVIOUS
    <3>2. Open(s) \in Goroutines  BY <3>1, DoingTyped
    <3> QED BY <2>1, <3>1, <3>2 DEF Types
  <2>3. Before'  BY DEF Before
  <2>4. /\ \A q \in Requests \ {r} : req'[q] = req[q] /\ req[q].at \notin {"keep", "draw"}
        /\ req'[r].at = "open"
    BY DoingTyped DEF Types, Inside
  <2>5. d <= Today /\ Today' = Today  BY DEF Inside, Today
  <2>6. Inside'  BY <1>0, <2>4, <2>5 DEF Inside
  <2> QED BY <2>1, <2>2, <2>3, <2>6
<1>3. ASSUME Keep(r) PROVE NamesInv'
  <2> USE <1>3 DEF Keep, Types
  <2>1. req[r].at = "keep" /\ req[r].day \in Days /\ req[r].day = day
    BY DEF Inside
  <2>2. salt \in 1..draws  BY <1>0, <2>1 DEF Inside
  <2>3. given' = [given EXCEPT ![req[r].day] = @ \cup {salt}]  BY DEF Give
  <2>4. draws' = draws /\ draws <= draws' /\ day' = req[r].day /\ salt' = salt  BY <2>1
  <2> QED BY <1>2, <2>1, <2>2, <2>3, <2>4
<1>4. ASSUME Draw(r) PROVE NamesInv'
  <2> USE <1>4 DEF Draw, Types
  <2>1. req[r].at = "draw" /\ req[r].day \in Days /\ req[r].day # day
        /\ (day # None => day <= req[r].day)
    BY DEF Inside
  <2>2. day # None => day < req[r].day
    <3>1. day # None => day \in Nat  BY <1>0
    <3>2. req[r].day \in Nat  BY <1>0, <2>1
    <3> HIDE <1>4 DEF Draw, Types, NamesInv
    <3> QED BY <2>1, <3>1, <3>2
  <2>3. given' = [given EXCEPT ![req[r].day] = @ \cup {draws + 1}]  BY DEF Give
  <2>4. draws' \in Nat /\ draws <= draws' /\ draws + 1 \in 1..draws'  OBVIOUS
  <2> QED BY <1>2, <2>1, <2>2, <2>3, <2>4
<1>5. ASSUME DrawFails(r) PROVE NamesInv'
  <2> USE <1>5 DEF DrawFails
  <2>5. Quiet \in Goroutines /\ Quiet.at = "none"  BY DoingTyped
  <2>0. Types'  BY <2>5 DEF Types
  <2>1. Before' /\ GivenInOrder' /\ OneSaltADay' /\ SaltNotKept'
    BY DEF Before, GivenInOrder, OneSaltADay, SaltNotKept
  <2>2. Today' = Today  BY DEF Today
  <2>3. /\ \A q \in Requests \ {r} : req'[q] = req[q] /\ req[q].at \notin {"keep", "draw"}
        /\ req'[r].at = "none"
    BY <2>5 DEF Types, Inside
  <2>4. Inside'  BY <2>2, <2>3 DEF Inside
  <2> QED BY <2>0, <2>1, <2>4
<1>6. ASSUME NEW g \in Goroutines, g.at \notin {"keep", "draw"}, req' = [req EXCEPT ![r] = g],
             UNCHANGED <<day, salt, mu, draws, given, clock>>, loggedAt' \in Int
      PROVE  NamesInv'
  <2>1. req' \in [Requests -> Goroutines]  BY <1>6 DEF Types
  <2>2. \A q \in Requests : req'[q].at \in {"keep", "draw"} => req'[q] = req[q]
    BY <1>6 DEF Types
  <2> QED BY <1>0, <1>6, <2>1, <2>2, OutsideInv
<1>7. req[r] \in Goroutines /\ loggedAt \in Int /\ req[r].now \in Int
  BY DEF Types, Goroutines
<1>8. ASSUME Name(r, None), UNCHANGED <<day, salt, mu, draws, given, clock>>, loggedAt' \in Int
      PROVE  NamesInv'
  <2> DEFINE g == Open(None)
  <2>1. g \in Goroutines /\ g.at = "open"  BY DoingTyped
  <2>2. req' = [req EXCEPT ![r] = g]  BY <1>8 DEF Name
  <2> HIDE DEF g
  <2> QED BY <1>6, <1>8, <2>1, <2>2
<1>9. ASSUME Load(r) PROVE NamesInv'
  <2> DEFINE g == Noting("swap", req[r].now, loggedAt)
  <2>1. g \in Goroutines /\ g.at = "swap"  BY <1>7, DoingTyped DEF Places
  <2>2. CASE req' = [req EXCEPT ![r] = g]
    <3> HIDE DEF g
    <3> QED BY <1>6, <1>7, <1>9, <2>1, <2>2 DEF Load
  <2>3. CASE Name(r, None)  BY <1>7, <1>8, <1>9, <2>3 DEF Load
  <2> QED BY <1>9, <2>2, <2>3 DEF Load
<1>10. ASSUME Swap(r) PROVE NamesInv'
  <2>1. loggedAt' \in Int  BY <1>7, <1>10 DEF Swap, Log
  <2> QED BY <1>8, <1>10, <2>1 DEF Swap
<1>11. ASSUME Close(r) PROVE NamesInv'
  <2>1. Quiet \in Goroutines /\ Quiet.at = "none"  BY DoingTyped
  <2> QED BY <1>6, <1>7, <1>11, <2>1 DEF Close
<1> QED BY <1>1, <1>3, <1>4, <1>5, <1>9, <1>10, <1>11 DEF Handles

(* Every step keeps the names in order.                                      *)
LEMMA NextInv == ASSUME NamesInv, [Next]_vars PROVE NamesInv'
<1>0. /\ clock \in Nat /\ clock \in clock..MaxTime /\ loggedAt \in Int
      /\ req \in [Requests -> Goroutines]
  BY NamesAssumption DEF NamesInv, Types
<1>1. ASSUME Begin PROVE NamesInv'
  <2> USE <1>1 DEF Begin, Salted, FirstKey, NamesInv, shared
  <2>0. Today \in Days /\ Days \subseteq Nat /\ Today \in Nat  BY TodayIsADay DEF Types
  <2>1. day = None /\ mu = None /\ req = [r \in Requests |-> Quiet]  BY DEF Before
  <2>5. /\ given' = [given EXCEPT ![Today] = @ \cup {draws + 1}]
        /\ day' = Today /\ salt' = draws + 1
        /\ draws' \in Nat /\ draws <= draws' /\ draws + 1 \in 1..draws'
    BY DEF Types
  <2>6. NamesInv  OBVIOUS
  <2>2. /\ given' \in [Days -> SUBSET (1..draws')]
        /\ GivenInOrder' /\ OneSaltADay' /\ SaltNotKept'
    <3> HIDE <1>1 DEF Begin, Salted, FirstKey, NamesInv
    <3> QED BY <2>0, <2>1, <2>5, <2>6, GiveInv
  <2>3. Types' /\ Before'  BY <2>0, <2>2 DEF Types, Before
  <2>4. Inside'  BY <2>0, <2>1, <2>5, DoingTyped DEF Inside, Today
  <2> QED BY <2>2, <2>3, <2>4
<1>2. ASSUME Runs \/ Reaps \/ KillEnds \/ Others PROVE NamesInv'
  <2>1. UNCHANGED namesVars /\ (run' = "begin" => run = "begin")
    BY <1>2 DEF Runs, Reaps, KillEnds, Others, RunStep, Around, Reap, KillTakes, NoCommand,
       Saltless, SpawnFails, Spawn, Notify, StrfryExited, ListenerStopped, Signalled, Shutdown,
       Ask, Await, AwaitTimeout, AwaitKilled, Exit, ListenFails, Signal, Die, Return
  <2> QED BY <1>0, <2>1, OutsideInv DEF namesVars
<1>3. ASSUME Time PROVE NamesInv'
  <2>1. clock' \in clock..MaxTime
    BY <1>0, <1>3, NamesAssumption DEF Time, Tick
  <2> QED BY <1>0, <1>3, <2>1, OutsideInv DEF Time, Tick, runVars, names
<1>4. ASSUME NEW r \in Requests, Serve(r) PROVE NamesInv'
  <2>1. run' = run  BY <1>4 DEF Serve, runVars
  <2>2. CASE run # "begin" /\ Handles(r)  BY <2>1, <2>2, HandlesInv
  <2>3. CASE run # "begin" /\ Accepts(r)
    <3>1. PICK g \in Goroutines : /\ g.at \notin {"keep", "draw"}
                                 /\ req' = [req EXCEPT ![r] = g]
      <4>1. /\ Naming("lock", None) \in Goroutines /\ Naming("lock", None).at = "lock"
            /\ Noting("load", clock, 0) \in Goroutines /\ Noting("load", clock, 0).at = "load"
        BY <1>0, DoingTyped DEF Places
      <4> QED BY <2>3, <4>1 DEF Accepts, Arrive, ArriveUnknown
    <3>2. UNCHANGED <<day, salt, mu, draws, given, clock, loggedAt>>
      BY <2>3 DEF Accepts, Arrive, ArriveUnknown, shared, names
    <3>3. /\ req' \in [Requests -> Goroutines]
          /\ \A q \in Requests : req'[q].at \in {"keep", "draw"} => req'[q] = req[q]
      BY <1>0, <3>1
    <3> QED BY <1>0, <2>1, <2>3, <3>2, <3>3, OutsideInv
  <2>4. CASE run = "begin"
    <3>1. req[r].at = "none"  BY <2>4, DoingTyped DEF NamesInv, Before
    <3> QED BY <1>4, <2>4, <3>1 DEF Serve, Listening, Handles, Lock, Keep, Draw, DrawFails,
                Load, Swap, Close
  <2> QED BY <1>4, <2>2, <2>3, <2>4 DEF Serve
<1>5. CASE Stopped \/ UNCHANGED vars
  BY <1>0, <1>5, OutsideInv DEF Stopped, vars, namesVars, runVars
<1> QED BY <1>1, <1>2, <1>3, <1>4, <1>5 DEF Next

(* However requests meet at midnight, a day has one salt and a salt one day  *)
(* (key): one visitor's connections of a day share a pseudonym, and those of *)
(* two days share none.                                                      *)
THEOREM OneSaltEachDay == Spec => [](OneSaltADay /\ SaltNotKept)
<1>1. Init => NamesInv  BY InitInv
<1>2. NamesInv /\ [Next]_vars => NamesInv'  BY NextInv
<1>3. NamesInv => OneSaltADay /\ SaltNotKept  BY DEF NamesInv
<1> QED BY <1>1, <1>2, <1>3, PTL DEF Spec

-----------------------------------------------------------------------------
LEMMA LogInit == Init => LogInv
<1> SUFFICES ASSUME Init PROVE LogInv
  OBVIOUS
<1>1. logged = <<>> /\ logged \in Seq(Int) /\ Len(logged) = 0
  BY DEF Init, NamesInit
<1>2. \A r \in Requests : req[r].at # "swap"
  BY DoingTyped DEF Init, NamesInit
<1> QED BY <1>1, <1>2 DEF LogInv, LogLinesApart

(* A step that logs nothing and sends no goroutine to the swap.              *)
LEMMA NothingLogged ==
    ASSUME LogInv, UNCHANGED <<logged, loggedAt>>,
           \A r \in Requests : req'[r].at = "swap" => req'[r] = req[r]
    PROVE  LogInv'
BY DEF LogInv, LogLinesApart

(* One step of a goroutine keeps the lines apart: what it logs is far enough *)
(* from the time it found, and that is still the last one's (Load, Swap).    *)
LEMMA LogHandles == ASSUME NamesInv, LogInv, NEW r \in Requests, Handles(r)
                    PROVE  LogInv'
<1>0. /\ req \in [Requests -> Goroutines] /\ loggedAt \in Int
      /\ req[r].now \in Int /\ req[r].last \in Int /\ LogEvery \in Nat \ {0}
  BY NamesAssumption DEF NamesInv, Types, Goroutines
<1>1. ASSUME NEW g, g.at # "swap", req' = [req EXCEPT ![r] = g],
             UNCHANGED <<logged, loggedAt>>
      PROVE  LogInv'
  BY <1>0, <1>1, NothingLogged
<1>2. ASSUME Lock(r) PROVE LogInv'
  <2> DEFINE g == Naming(IF Today = day THEN "keep" ELSE "draw", Today)
  <2>1. g.at # "swap"  BY DEF Naming
  <2>2. req' = [req EXCEPT ![r] = g]  BY <1>2 DEF Lock, ReadDay
  <2> HIDE DEF g
  <2> QED BY <1>1, <1>2, <2>1, <2>2 DEF Lock
<1>3. ASSUME NEW s, Name(r, s), UNCHANGED <<logged, loggedAt>> PROVE LogInv'
  <2>1. Open(s).at # "swap"  BY DEF Open
  <2> QED BY <1>1, <1>3, <2>1 DEF Name
<1>4. CASE Keep(r)  BY <1>3, <1>4 DEF Keep, Give
<1>5. CASE Draw(r)  BY <1>3, <1>5 DEF Draw, Give
<1>6. CASE DrawFails(r)  BY <1>1, <1>6, DoingTyped DEF DrawFails
<1>7. CASE Close(r)  BY <1>1, <1>7, DoingTyped DEF Close, shared
<1>8. ASSUME Load(r) PROVE LogInv'
  <2>1. UNCHANGED <<logged, loggedAt>>  BY <1>8 DEF Load, shared
  <2>2. CASE Name(r, None)  BY <1>3, <2>1, <2>2
  <2>3. CASE /\ req[r].now - loggedAt >= LogEvery
             /\ req' = [req EXCEPT ![r] = Noting("swap", req[r].now, loggedAt)]
    <3> DEFINE g == Noting("swap", req[r].now, loggedAt)
    <3>1. g.now = req[r].now /\ g.last = loggedAt  BY DEF Noting
    <3>2. req' = [req EXCEPT ![r] = g]  BY <2>3
    <3> HIDE DEF g
    <3>3. \A q \in Requests \ {r} : req'[q] = req[q]  BY <1>0, <3>2
    <3>4. req'[r].now - req'[r].last >= LogEvery  BY <1>0, <2>3, <3>1, <3>2
    <3>5. \A q \in Requests : req'[q].at = "swap" => req'[q].now - req'[q].last >= LogEvery
      BY <3>3, <3>4 DEF LogInv
    <3> QED BY <2>1, <3>5 DEF LogInv, LogLinesApart
  <2> QED BY <1>8, <2>2, <2>3 DEF Load
<1>9. ASSUME Swap(r) PROVE LogInv'
  <2>1. Name(r, None) /\ req[r].at = "swap"  BY <1>9 DEF Swap
  <2>2. CASE UNCHANGED <<logged, loggedAt>>  BY <1>3, <2>1, <2>2
  <2>3. CASE loggedAt = req[r].last /\ Log(r)
    <3> DEFINE t == req[r].now
    <3>1. t - loggedAt >= LogEvery /\ t >= loggedAt  BY <1>0, <2>1, <2>3 DEF LogInv
    <3>2. loggedAt' = t /\ logged' = Append(logged, t)  BY <2>3 DEF Log
    <3>3. /\ logged' \in Seq(Int) /\ Len(logged') = Len(logged) + 1 /\ Len(logged) \in Nat
          /\ logged'[Len(logged) + 1] = t
          /\ \A i \in 1..Len(logged) : logged'[i] = logged[i] /\ logged[i] \in Int
      BY <1>0, <3>2 DEF LogInv
    <3>4. \A i \in 1..Len(logged) : logged[i] <= loggedAt  BY DEF LogInv
    <3>5. \A i \in 1..Len(logged) : t - logged[i] >= LogEvery /\ logged[i] <= t
      BY <1>0, <3>1, <3>3, <3>4
    <3>6. \A i \in 1..Len(logged') : logged'[i] <= loggedAt'
      BY <1>0, <3>2, <3>3, <3>5
    <3>7. LogLinesApart'
      <4> SUFFICES ASSUME NEW i \in 1..Len(logged'), NEW j \in 1..Len(logged'), i < j
                   PROVE  logged'[j] - logged'[i] >= LogEvery
        BY DEF LogLinesApart
      <4>1. i \in 1..Len(logged)  BY <3>3
      <4>2. CASE j = Len(logged) + 1  BY <3>3, <3>5, <4>1, <4>2
      <4>3. CASE j \in 1..Len(logged)
        BY <3>3, <4>1, <4>3 DEF LogInv, LogLinesApart
      <4> QED BY <3>3, <4>2, <4>3
    <3>8. \A q \in Requests : req'[q].at = "swap" => req'[q] = req[q]
      <4>1. Open(None).at # "swap"  BY DEF Open
      <4> QED BY <1>0, <2>1, <4>1 DEF Name
    <3> QED BY <3>3, <3>6, <3>7, <3>8 DEF LogInv
  <2> QED BY <1>9, <2>2, <2>3 DEF Swap
<1> QED BY <1>2, <1>4, <1>5, <1>6, <1>7, <1>8, <1>9 DEF Handles

LEMMA LogNext == ASSUME NamesInv, LogInv, [Next]_vars PROVE LogInv'
<1>0. req \in [Requests -> Goroutines]  BY DEF NamesInv, Types
<1>1. CASE Begin
  BY <1>1, NothingLogged DEF Begin, FirstKey, shared
<1>2. CASE Runs \/ Reaps \/ KillEnds \/ Others \/ Stopped \/ UNCHANGED vars
  BY <1>2, NothingLogged DEF Runs, Reaps, KillEnds, Others, Stopped, vars, namesVars
<1>3. CASE Time  BY <1>3, NothingLogged DEF Time, Tick
<1>4. ASSUME NEW r \in Requests, Serve(r) PROVE LogInv'
  <2>1. CASE Handles(r)  BY <2>1, LogHandles
  <2>2. CASE Accepts(r)
    <3>1. Naming("lock", None).at # "swap" /\ Noting("load", clock, 0).at # "swap"
      BY DEF Naming, Noting
    <3> QED BY <1>0, <2>2, <3>1, NothingLogged DEF Accepts, Arrive, ArriveUnknown, shared
  <2> QED BY <1>4, <2>1, <2>2 DEF Serve
<1> QED BY <1>1, <1>2, <1>3, <1>4 DEF Next

(* Whichever goroutines race for the line, the front says that requests have *)
(* no usable address at most once in the time between two lines (noteUnknown).*)
THEOREM LinesApart == Spec => []LogLinesApart
<1>1. Init => NamesInv /\ LogInv  BY InitInv, LogInit
<1>2. NamesInv /\ LogInv /\ [Next]_vars => NamesInv' /\ LogInv'  BY NextInv, LogNext
<1>3. LogInv => LogLinesApart  BY DEF LogInv
<1> QED BY <1>1, <1>2, <1>3, PTL DEF Spec

-----------------------------------------------------------------------------
\* strfry is there from Spawn on; a signal in the channel was sent; what Run is
\* about to return is 0 only if one was.
RunInv == /\ run \in {"begin", "spawn"} => child = "none"
          /\ sig => signalled
          /\ run \in Stopping /\ code = 0 => signalled
          /\ GoneOnReturn /\ SuccessOnlyWhenTold

LEMMA RunInvStep ==
    ASSUME RunInv, Salted \/ RunStep \/ Around \/ Reap \/ KillTakes \/ UNCHANGED runVars
    PROVE  RunInv'
<1> USE DEF RunInv, GoneOnReturn, SuccessOnlyWhenTold, Stopping, watched, Ended, Alive
<1>1. ASSUME NoCommand \/ Saltless \/ SpawnFails \/ StrfryExited \/ Await \/ AwaitKilled
      PROVE  RunInv'
  BY <1>1 DEF NoCommand, Saltless, SpawnFails, StrfryExited, Await, AwaitKilled, Return
<1>2. ASSUME Salted \/ Spawn \/ Notify PROVE RunInv'
  BY <1>2 DEF Salted, Spawn, Notify
<1>3. ASSUME ListenerStopped \/ Signalled \/ Shutdown \/ Ask \/ AwaitTimeout PROVE RunInv'
  BY <1>3 DEF ListenerStopped, Signalled, Shutdown, Ask, AwaitTimeout
<1>4. ASSUME Around \/ Reap \/ KillTakes PROVE RunInv'
  BY <1>4 DEF Around, Exit, ListenFails, Signal, Die, Reap, KillTakes
<1>5. CASE UNCHANGED runVars  BY <1>5 DEF runVars
<1> QED BY <1>1, <1>2, <1>3, <1>4, <1>5 DEF RunStep

(* Whatever ends first and whatever races with it, strfry is gone when Run   *)
(* returns, and Run reports success only if it was told to stop (Run, stop). *)
THEOREM Supervised == Spec => [](GoneOnReturn /\ SuccessOnlyWhenTold)
<1>1. Init => RunInv
  BY DEF Init, RunInit, RunInv, GoneOnReturn, SuccessOnlyWhenTold, Stopping
<1>2. RunInv /\ [Next]_vars => RunInv'
  <2> SUFFICES ASSUME RunInv, [Next]_vars PROVE RunInv'
    OBVIOUS
  <2>1. Begin \/ Runs => Salted \/ RunStep  BY DEF Begin, Runs
  <2>2. Reaps \/ KillEnds \/ Others => Reap \/ KillTakes \/ Around
    BY DEF Reaps, KillEnds, Others
  <2>3. Time \/ Stopped \/ (\E r \in Requests : Serve(r)) \/ UNCHANGED vars => UNCHANGED runVars
    BY DEF Time, Stopped, Serve, vars
  <2> QED BY <2>1, <2>2, <2>3, RunInvStep DEF Next
<1>3. RunInv => GoneOnReturn /\ SuccessOnlyWhenTold  BY DEF RunInv
<1> QED BY <1>1, <1>2, <1>3, PTL DEF Spec

-----------------------------------------------------------------------------
\* The clock bounds every time a goroutine holds, and whoever has the mutex is
\* inside key.
TimesInv == /\ loggedAt \in (0 - LogEvery)..MaxTime
            /\ req \in [Requests -> Goroutine]
            /\ \A r \in Requests : mu = r => req[r].at \in {"keep", "draw"}

LEMMA TimesInit == Init => TimesInv
<1> SUFFICES ASSUME Init PROVE TimesInv
  OBVIOUS
<1>1. /\ loggedAt = 0 - LogEvery /\ mu = None /\ req = [r \in Requests |-> Quiet]
  BY DEF Init, NamesInit
<1>2. Quiet \in Goroutine  BY NamesAssumption DEF Quiet, Naming, Goroutine
<1>3. loggedAt \in (0 - LogEvery)..MaxTime  BY <1>1, NamesAssumption
<1> QED BY <1>1, <1>2, <1>3, NoneIsNoDay DEF TimesInv

LEMMA GoroutineTyped ==
    /\ \A a \in Places, d \in Days \cup {None} : Naming(a, d) \in Goroutine /\ Naming(a, d).at = a
    /\ \A a \in Places, n \in 0..MaxTime, l \in (0 - LogEvery)..MaxTime :
           Noting(a, n, l) \in Goroutine /\ Noting(a, n, l).at = a
    /\ \A s \in Nat \cup {None} : Open(s) \in Goroutine /\ Open(s).at = "open"
    /\ Quiet \in Goroutine /\ Quiet.at = "none"
<1>1. 0 \in 0..MaxTime /\ 0 \in (0 - LogEvery)..MaxTime  BY NamesAssumption
<1>2. ASSUME NEW a \in Places, NEW d \in Days \cup {None}
      PROVE  Naming(a, d) \in Goroutine /\ Naming(a, d).at = a
  BY <1>1 DEF Naming, Goroutine, Places
<1>3. ASSUME NEW a \in Places, NEW n \in 0..MaxTime, NEW l \in (0 - LogEvery)..MaxTime
      PROVE  Noting(a, n, l) \in Goroutine /\ Noting(a, n, l).at = a
  BY DEF Noting, Goroutine, Places
<1>4. ASSUME NEW s \in Nat \cup {None} PROVE Open(s) \in Goroutine /\ Open(s).at = "open"
  BY <1>1 DEF Open, Goroutine
<1>5. Quiet \in Goroutine /\ Quiet.at = "none"  BY <1>2 DEF Quiet, Places
<1> QED BY <1>2, <1>3, <1>4, <1>5

(* A goroutine moves on: into key, out of it, or outside it.                 *)
LEMMA OneGoroutine ==
    ASSUME TimesInv, NEW r \in Requests, NEW g \in Goroutine, req' = [req EXCEPT ![r] = g],
           loggedAt' \in (0 - LogEvery)..MaxTime,
           \/ mu' = r /\ g.at \in {"keep", "draw"}
           \/ mu' = None
           \/ mu' = mu /\ req[r].at \notin {"keep", "draw"}
    PROVE  TimesInv'
<1>1. req' \in [Requests -> Goroutine] /\ req'[r] = g
      /\ \A q \in Requests \ {r} : req'[q] = req[q]
  BY DEF TimesInv
<1>2. ASSUME NEW q \in Requests, mu' = q PROVE req'[q].at \in {"keep", "draw"}
  BY <1>1, <1>2, NoneIsNoDay DEF TimesInv
<1> QED BY <1>1, <1>2 DEF TimesInv

LEMMA TimesHandles ==
    ASSUME NamesInv, TimesInv, NEW r \in Requests, Handles(r) \/ Accepts(r)
    PROVE  TimesInv'
<1>0. /\ loggedAt \in (0 - LogEvery)..MaxTime /\ req[r] \in Goroutine
      /\ Today \in Days /\ clock \in 0..MaxTime /\ salt \in Nat \cup {None} /\ draws \in Nat
      /\ 0 \in (0 - LogEvery)..MaxTime /\ None \in Days \cup {None}
      /\ {"none", "lock", "keep", "draw", "load", "swap", "open"} = Places
  BY TodayIsADay, NamesAssumption DEF TimesInv, NamesInv, Types, Places
<1>1. ASSUME Lock(r) PROVE TimesInv'
  <2> DEFINE a == IF Today = day THEN "keep" ELSE "draw"
             g == Naming(a, Today)
  <2>1. a \in Places /\ a \in {"keep", "draw"}  BY <1>0
  <2>2. g \in Goroutine /\ g.at = a  BY <1>0, <2>1, GoroutineTyped
  <2>3. req' = [req EXCEPT ![r] = g] /\ mu' = r /\ loggedAt' = loggedAt
    BY <1>1 DEF Lock, ReadDay
  <2> HIDE DEF g, a
  <2> QED BY <1>0, <2>1, <2>2, <2>3, OneGoroutine
<1>2. ASSUME NEW s \in Nat \cup {None}, Name(r, s), loggedAt' \in (0 - LogEvery)..MaxTime,
             mu' = None \/ (mu' = mu /\ req[r].at \notin {"keep", "draw"})
      PROVE  TimesInv'
  BY <1>2, GoroutineTyped, OneGoroutine DEF Name
<1>3. ASSUME Keep(r) PROVE TimesInv'  BY <1>0, <1>2, <1>3 DEF Keep, Give
<1>4. ASSUME Draw(r) PROVE TimesInv'
  <2>1. draws + 1 \in Nat  BY <1>0
  <2> QED BY <1>0, <1>2, <1>4, <2>1 DEF Draw, Give
<1>5. ASSUME DrawFails(r) \/ Close(r) PROVE TimesInv'
  BY <1>0, <1>5, GoroutineTyped, OneGoroutine DEF DrawFails, Close, shared
<1>6. ASSUME Load(r) PROVE TimesInv'
  <2>1. /\ req[r].at = "load" /\ loggedAt' = loggedAt /\ mu' = mu  BY <1>6 DEF Load, shared
  <2>2. CASE Name(r, None)  BY <1>0, <1>2, <2>1, <2>2
  <2>3. CASE req' = [req EXCEPT ![r] = Noting("swap", req[r].now, loggedAt)]
    <3> DEFINE g == Noting("swap", req[r].now, loggedAt)
    <3>1. req[r].now \in 0..MaxTime  BY <1>0 DEF Goroutine
    <3>2. g \in Goroutine  BY <1>0, <3>1, GoroutineTyped
    <3> HIDE DEF g
    <3> QED BY <1>0, <2>1, <2>3, <3>2, OneGoroutine DEF g
  <2> QED BY <1>6, <2>2, <2>3 DEF Load
<1>7. ASSUME Swap(r) PROVE TimesInv'
  <2>1. req[r].at = "swap" /\ mu' = mu /\ Name(r, None)  BY <1>7 DEF Swap
  <2>2. req[r].now \in (0 - LogEvery)..MaxTime  BY <1>0, NamesAssumption DEF Goroutine
  <2>3. loggedAt' \in (0 - LogEvery)..MaxTime  BY <1>0, <1>7, <2>2 DEF Swap, Log
  <2> QED BY <1>2, <2>1, <2>3
<1>8. ASSUME Arrive(r) PROVE TimesInv'
  <2>1. Naming("lock", None) \in Goroutine  BY <1>0, GoroutineTyped
  <2> QED BY <1>0, <1>8, <2>1, OneGoroutine DEF Arrive, shared
<1>9. ASSUME ArriveUnknown(r) PROVE TimesInv'
  <2>1. Noting("load", clock, 0) \in Goroutine  BY <1>0, GoroutineTyped
  <2> QED BY <1>0, <1>9, <2>1, OneGoroutine DEF ArriveUnknown, shared
<1> QED BY <1>1, <1>3, <1>4, <1>5, <1>6, <1>7, <1>8, <1>9 DEF Handles, Accepts

LEMMA TimesNext == ASSUME NamesInv, TimesInv, [Next]_vars PROVE TimesInv'
<1>1. ASSUME UNCHANGED <<mu, req, loggedAt>> PROVE TimesInv'  BY <1>1 DEF TimesInv
<1>2. ASSUME NEW r \in Requests, Serve(r) PROVE TimesInv'  BY <1>2, TimesHandles DEF Serve
<1>3. CASE Begin \/ Time  BY <1>1, <1>3 DEF Begin, FirstKey, Time, Tick, shared
<1>4. CASE Runs \/ Reaps \/ KillEnds \/ Others \/ Stopped \/ UNCHANGED vars
  BY <1>1, <1>4 DEF Runs, Reaps, KillEnds, Others, Stopped, vars, namesVars
<1> QED BY <1>2, <1>3, <1>4 DEF Next

\* Run is past asking strfry to go, or it died with strfry up and the system asked.
AskedInv == /\ run \in {"begin", "spawn", "started", "watch"} \cup Stopping \cup Ended
            /\ child \in {"none", "up", "exited", "reaped"}
            /\ code \in 0..2
            /\ run = "dead" /\ child = "up" => asked

LEMMA AskedStep ==
    ASSUME RunInv, AskedInv, Salted \/ RunStep \/ Around \/ Reap \/ KillTakes \/ UNCHANGED runVars
    PROVE  AskedInv'
<1> USE DEF AskedInv, Stopping, watched, Ended, Alive
<1>1. ASSUME NoCommand \/ Saltless \/ SpawnFails \/ StrfryExited \/ Await \/ AwaitKilled
      PROVE  AskedInv'
  BY <1>1 DEF NoCommand, Saltless, SpawnFails, StrfryExited, Await, AwaitKilled, Return
<1>2. ASSUME Salted \/ Spawn \/ Notify PROVE AskedInv'
  BY <1>2 DEF Salted, Spawn, Notify
<1>3. ASSUME ListenerStopped \/ Signalled \/ Shutdown \/ Ask \/ AwaitTimeout PROVE AskedInv'
  BY <1>3 DEF ListenerStopped, Signalled, Shutdown, Ask, AwaitTimeout
<1>4. ASSUME Exit \/ ListenFails \/ Signal \/ Reap \/ KillTakes PROVE AskedInv'
  BY <1>4 DEF Exit, ListenFails, Signal, Reap, KillTakes
<1>5. ASSUME Die PROVE AskedInv'  BY <1>5 DEF Die
<1>6. CASE UNCHANGED runVars  BY <1>6 DEF runVars
<1> QED BY <1>1, <1>2, <1>3, <1>4, <1>5, <1>6 DEF RunStep, Around

(* Every variable has its type; the mutex is held exactly by the goroutine   *)
(* inside key, and strfry runs unwatched for no longer than it takes to die. *)
THEOREM FrontTyped == Spec => []TypeOK
<1>1. Init => NamesInv /\ TimesInv /\ RunInv /\ AskedInv
  <2>1. Init => RunInv /\ AskedInv
    BY DEF Init, RunInit, RunInv, AskedInv, GoneOnReturn, SuccessOnlyWhenTold, Stopping, Ended
  <2> QED BY <2>1, InitInv, TimesInit
<1>2. ASSUME NamesInv, TimesInv, RunInv, AskedInv, [Next]_vars
      PROVE  NamesInv' /\ TimesInv' /\ RunInv' /\ AskedInv'
  <2>1. Salted \/ RunStep \/ Around \/ Reap \/ KillTakes \/ UNCHANGED runVars
    BY <1>2 DEF Next, Begin, Runs, Reaps, KillEnds, Others, Time, Stopped, Serve, vars
  <2> QED BY <1>2, <2>1, NextInv, TimesNext, RunInvStep, AskedStep
<1>3. ASSUME NamesInv, TimesInv, RunInv, AskedInv PROVE TypeOK
  <2>1. clock \in 0..MaxTime /\ day \in Days \cup {None} /\ salt \in Nat \cup {None}
    BY <1>3 DEF NamesInv, Types
  <2>2. ASSUME NEW r \in Requests
        PROVE  req[r] \in Goroutine /\ (req[r].at \in {"keep", "draw"} <=> mu = r)
    BY <1>3 DEF NamesInv, Inside, TimesInv
  <2>3. child = "up" /\ ~Alive => asked
    BY <1>3 DEF RunInv, AskedInv, GoneOnReturn, Alive, Ended
  <2> QED BY <1>3, <2>1, <2>2, <2>3 DEF TypeOK, AskedInv
<1> QED BY <1>1, <1>2, <1>3, PTL DEF Spec
=============================================================================
