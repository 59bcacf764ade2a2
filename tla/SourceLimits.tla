---------------------------- MODULE SourceLimits ----------------------------
(***************************************************************************)
(* The write limits of policy/oc-dtag-filter.py: per source a token bucket, *)
(* day caps and a brake on refusals, in a table that forgets the source it  *)
(* has not seen for longest, and the counts file of limits hit per day.     *)
(* The main loop checks an event, judges it (time passes) and then reports  *)
(* a refusal on the merits.  The clock is the system's and may be set back; *)
(* the counts file may be out of reach for writing for a while.  Times are  *)
(* whole units; a token is worth Refill of them, so the bucket holds        *)
(* Burst * Refill.                                                          *)
(***************************************************************************)
EXTENDS Integers, Sequences, FiniteSets, SequencesExt

CONSTANTS
    Sources,        \* visitors' daily pseudonyms
    Sizes,          \* sizes of an event's JSON
    Burst, Refill,  \* BURST, REFILL_S
    DayEvents, DayBytes,    \* DAY_EVENTS, DAY_BYTES
    BrakeRefusals, BrakeFor,    \* BRAKE_REFUSALS, BRAKE_S
    MaxSources,     \* MAX_SOURCES
    FlushEvery,     \* FLUSH_S
    DayLength,      \* length of a UTC day
    MaxTime,        \* bound: the clock's last reading
    MaxEvents,      \* bound: events checked
    MaxRestarts,    \* bound: restarts of the plugin
    MaxBacks,       \* bound: how often the clock is set back
    MaxOutages,     \* bound: times at which the counts file cannot be written
    None            \* no source, no day

ASSUME LimitsAssumption ==
    /\ Sizes \subseteq Nat
    /\ \A n \in {Burst, Refill, DayEvents, DayBytes, BrakeRefusals, BrakeFor,
                 MaxSources, FlushEvery, DayLength} : n \in Nat \ {0}
    /\ MaxTime \in Nat /\ MaxEvents \in Nat /\ MaxRestarts \in Nat
    /\ MaxBacks \in Nat /\ MaxOutages \in Nat
    /\ IsFiniteSet(Sources)
    /\ None \notin Sources \cup Nat

VARIABLES
    now,        \* the clock
    limits,     \* the SourceLimits object, and the counts file it writes
    judging,    \* the source of the event checked and not yet judged, or None
    log,        \* history: a source's events let through and refusals charged,
                \* in order, since the limits last had reason to forget it, each
                \* with the bytes let through by then
    others,     \* history: the sources seen since a source was last seen
    told,       \* history: per day, the sources told they are limited, how often,
                \* and those first told by a plugin that could not write it down
    writable,   \* the counts file can be written
    checks, restarts, backs, outages    \* how many so far

bounds == <<checks, restarts, backs, outages>>
vars == <<now, limits, judging, log, others, told, writable, bounds>>

Days == 0..(MaxTime \div DayLength)
Day(t) == t \div DayLength

NotCounted == [n |-> 0, sources |-> 0]
\* The object of a new plugin, beside the file, and the days of which a write failed.
New(l) == [day |-> None, order |-> <<>>, table |-> <<>>, limited |-> {}, n |-> 0,
           base |-> 0, dirty |-> FALSE, flushedAt |-> 0 - FlushEvery,
           file |-> l.file, failed |-> l.failed]

\* Every source, itself too: not seen since there are limits, or today.
Unseen == Sources

Init == /\ now = 0
        /\ limits = New([file |-> [d \in Days |-> NotCounted], failed |-> {}])
        /\ judging = None
        /\ log = [s \in Sources |-> <<>>]
        /\ others = [s \in Sources |-> Unseen]
        /\ told = [d \in Days |-> [sources |-> {}, n |-> 0, missed |-> {}]]
        /\ writable = TRUE
        /\ checks = 0 /\ restarts = 0 /\ backs = 0 /\ outages = 0

Least(a, b) == IF a <= b THEN a ELSE b
Known(l) == ToSet(l.order)

-----------------------------------------------------------------------------
(* The methods, as functions of the object.                                 *)

\* _flush: the day's totals replace what the file said of that day; when they
\* cannot, they are taken as written all the same.
Flush(l) ==
    LET totals == [n |-> l.n, sources |-> l.base + Cardinality(l.limited)]
    IN  [l EXCEPT !.dirty = FALSE, !.flushedAt = now,
                  !.file[l.day] = IF writable THEN totals ELSE @,
                  !.failed = IF writable THEN @ ELSE @ \cup {l.day}]

\* Seeded fault: the day that ends loses the counts not yet written.
RollUnflushed(l) ==
    IF Day(now) = l.day THEN l
    ELSE [l EXCEPT !.day = Day(now), !.order = <<>>, !.table = <<>>, !.limited = {},
                   !.n = l.file[Day(now)].n, !.base = l.file[Day(now)].sources,
                   !.dirty = FALSE]

\* _roll: a new day forgets every source and takes up the file's totals.
Roll(l) ==
    IF Day(now) = l.day THEN l
    ELSE LET w == IF l.dirty THEN Flush(l) ELSE l
         IN  [w EXCEPT !.day = Day(now), !.order = <<>>, !.table = <<>>, !.limited = {},
                       !.n = w.file[Day(now)].n, !.base = w.file[Day(now)].sources]

Due(l) == l.dirty /\ now - l.flushedAt >= FlushEvery
WriteWaiting(l) == IF Due(l) THEN Flush(l) ELSE l

Fresh == [tokens |-> Burst * Refill, at |-> now, events |-> 0, bytes |-> 0,
          refused |-> <<>>, brakedUntil |-> 0]

\* Seeded fault: a source seen again keeps its old place in the queue.
SourceUnmoved(l, s) ==
    IF s \in Known(l) THEN l
    ELSE LET kept == IF Len(l.order) >= MaxSources THEN Tail(l.order) ELSE l.order
         IN  [l EXCEPT !.order = Append(kept, s),
                       !.table = [q \in ToSet(kept) \cup {s} |->
                                     IF q = s THEN Fresh ELSE l.table[q]]]

\* Seeded fault: a source seen again is queued twice.
SourceTwice(l, s) ==
    IF s \in Known(l)
      THEN [l EXCEPT !.order = Append(l.order, s)]
      ELSE LET kept == IF Len(l.order) >= MaxSources THEN Tail(l.order) ELSE l.order
           IN  [l EXCEPT !.order = Append(kept, s),
                         !.table = [q \in ToSet(kept) \cup {s} |->
                                       IF q = s THEN Fresh ELSE l.table[q]]]

\* _source: the source goes to the end; past MAX_SOURCES the first is dropped.
MovedToEnd(order, s) ==
    LET n == Len(order)
        place == CHOOSE i \in 1..n : order[i] = s
    IN  [i \in 1..n |-> IF i = n THEN s ELSE IF i < place THEN order[i] ELSE order[i + 1]]

Source(l, s) ==
    IF s \in Known(l)
      THEN [l EXCEPT !.order = MovedToEnd(@, s)]
      ELSE LET kept == IF Len(l.order) >= MaxSources THEN Tail(l.order) ELSE l.order
           IN  [l EXCEPT !.order = Append(kept, s),
                         !.table = [q \in ToSet(kept) \cup {s} |->
                                       IF q = s THEN Fresh ELSE l.table[q]]]

\* Seeded fault: a source's first limit of the day waits its turn to be written.
LimitUnflushed(l, s) ==
    LET first == s \notin l.limited /\ Cardinality(l.limited) < MaxSources
        l1 == [l EXCEPT !.n = @ + 1, !.dirty = TRUE,
                        !.limited = IF first THEN @ \cup {s} ELSE @]
    IN  WriteWaiting(l1)

\* _limit: counted, and written at once when it is the source's first today.
Limit(l, s) ==
    LET first == s \notin l.limited /\ Cardinality(l.limited) < MaxSources
        l1 == [l EXCEPT !.n = @ + 1, !.dirty = TRUE,
                        !.limited = IF first THEN @ \cup {s} ELSE @]
    IN  IF first THEN Flush(l1) ELSE WriteWaiting(l1)

-----------------------------------------------------------------------------
(* check.                                                                   *)

\* The object once check has found the source, before any limit is looked at.
Looked(s) == Source(WriteWaiting(Roll(limits)), s)
Braked(s) == Looked(s).table[s].brakedUntil > now

\* Seeded fault: time the clock goes over twice drips twice.
FilledTwice(s) ==
    LET was == Looked(s).table[s]
        passed == IF now > was.at THEN now - was.at ELSE 0
    IN  [was EXCEPT !.tokens = Least(Burst * Refill, @ + passed), !.at = now]

\* A clock set back takes tokens, and gives them back as it catches up.
Filled(s) ==
    LET was == Looked(s).table[s]
    IN  [was EXCEPT !.tokens = Least(Burst * Refill, @ + (now - was.at)), !.at = now]

\* Seeded fault: the last byte of the day's allowance is given twice.
OverUnlessUnder(s, size) == \/ Filled(s).tokens < Refill
                            \/ Filled(s).events >= DayEvents
                            \/ Filled(s).bytes > DayBytes

Over(s, size) == \/ Filled(s).tokens < Refill
                 \/ Filled(s).events >= DayEvents
                 \/ Filled(s).bytes + size > DayBytes

\* A source the limits no longer have reason to know starts its history anew.
LogOf(s) == IF s \in Known(Roll(limits)) THEN log[s] ELSE <<>>

Saw(s, l) ==
    LET rolled == IF l.day = limits.day THEN others ELSE [q \in Sources |-> Unseen]
    IN  others' = [q \in Sources |-> IF q = s THEN {} ELSE rolled[q] \cup {s}]

BytesOf(entries) == IF entries = <<>> THEN 0 ELSE entries[Len(entries)].bytes

Logged(s, what, size) ==
    LET entry == [what |-> what, at |-> now, bytes |-> BytesOf(LogOf(s)) + size]
    IN  log' = [q \in Sources |-> IF q = s THEN Append(LogOf(q), entry) ELSE LogOf(q)]

\* s is told; a first limit is to be written down at once.
Tell(s) == told' = [told EXCEPT ![Day(now)].sources = @ \cup {s}, ![Day(now)].n = @ + 1,
                                ![Day(now)].missed =
                                    IF writable \/ s \in Roll(limits).limited THEN @ ELSE @ \cup {s}]

\* check: only what strfry got from a client counts; anything else leaves the
\* limits as they are, and is left out.
Begin == /\ judging = None /\ checks < MaxEvents
         /\ checks' = checks + 1
         /\ UNCHANGED <<now, writable, restarts, backs, outages>>

\* A limit is named; the event is refused and never judged.
CheckOver(s, size) ==
    /\ Begin
    /\ \/ Braked(s) /\ limits' = Limit(Looked(s), s)
       \/ /\ ~Braked(s) /\ Over(s, size)
          /\ limits' = Limit([Looked(s) EXCEPT !.table[s] = Filled(s)], s)
    /\ log' = [q \in Sources |-> LogOf(q)]
    /\ Saw(s, limits') /\ Tell(s)
    /\ UNCHANGED judging

\* No limit: the event is counted and goes to be judged.
CheckPass(s, size) ==
    /\ Begin
    /\ ~Braked(s) /\ ~Over(s, size)
    /\ limits' = [Looked(s) EXCEPT !.table[s] =
                    [Filled(s) EXCEPT !.tokens = @ - Refill, !.events = @ + 1, !.bytes = @ + size]]
    /\ judging' = s
    /\ Logged(s, "pass", size)
    /\ Saw(s, limits')
    /\ UNCHANGED told

\* The event was accepted, or refused by a busy bridge.
JudgedQuiet == /\ judging # None
               /\ judging' = None
               /\ UNCHANGED <<now, limits, log, others, told, writable, bounds>>

\* Seeded fault: refusals of any age count towards the brake.
RecentAny(q) == q

\* refused's queue once its front is less than an hour old.
Recent(q) == SubSeq(q, Min({i \in DOMAIN q : q[i] > now - BrakeFor}), Len(q))

\* Seeded fault: the brake takes one refusal more than it should.
BrakesLate(q) == Len(q) > BrakeRefusals

Brakes(q) == Len(q) >= BrakeRefusals

\* refused: on the merits; the source may have been forgotten since, and the
\* day may have changed.
JudgedRefused ==
    /\ judging # None
    /\ judging' = None
    /\ LET s == judging
           l == Source(Roll(limits), s)
           q == Recent(Append(l.table[s].refused, now))
       IN  /\ limits' = [l EXCEPT !.table[s] =
                          IF Brakes(q)
                            THEN [@ EXCEPT !.refused = <<>>, !.brakedUntil = now + BrakeFor]
                            ELSE [@ EXCEPT !.refused = q]]
           /\ Logged(s, "refused", 0)
           /\ Saw(s, l)
    /\ UNCHANGED <<now, told, writable, bounds>>

-----------------------------------------------------------------------------
\* A second without a line from strfry: write_waiting.
Quiet == /\ judging = None /\ Due(limits)
         /\ limits' = Flush(limits)
         /\ UNCHANGED <<now, judging, log, others, told, writable, bounds>>

Tick == /\ now < MaxTime
        /\ now' = now + 1
        /\ UNCHANGED <<limits, judging, log, others, told, writable, bounds>>

\* The system sets its clock back; further back is this again.
SetBack == /\ backs < MaxBacks /\ now > 0
           /\ now' = now - 1
           /\ backs' = backs + 1
           /\ UNCHANGED <<limits, judging, log, others, told, writable, checks, restarts, outages>>

\* The file's directory is full or gone, and later writable again.
Outage == /\ \/ writable /\ outages < MaxOutages /\ outages' = outages + 1
             \/ ~writable /\ UNCHANGED outages
          /\ writable' = ~writable
          /\ UNCHANGED <<now, limits, judging, log, others, told, checks, restarts, backs>>

Forget == /\ restarts < MaxRestarts
          /\ restarts' = restarts + 1
          /\ judging' = None
          /\ log' = [s \in Sources |-> <<>>]
          /\ others' = [s \in Sources |-> Unseen]
          /\ UNCHANGED <<now, told, writable, checks, backs, outages>>

\* strfry stops the plugin between events: what waits is written.
Stop == /\ judging = None /\ Forget
        /\ limits' = New(IF limits.dirty THEN Flush(limits) ELSE limits)

\* The plugin dies: only the file is left.
Crash == Forget /\ limits' = New(limits)

\* Nothing to check, nothing due: the plugin waits for strfry.
Wait == judging = None /\ ~Due(limits) /\ UNCHANGED vars

Next == \/ \E s \in Sources, size \in Sizes : CheckOver(s, size) \/ CheckPass(s, size)
        \/ JudgedQuiet \/ JudgedRefused \/ Quiet \/ Tick \/ SetBack \/ Outage \/ Stop \/ Crash \/ Wait

Spec == Init /\ [][Next]_vars

-----------------------------------------------------------------------------
Entry == [tokens : Int, at : Nat, events : Nat, bytes : Nat, refused : Seq(Nat),
          brakedUntil : Nat]

(* Every variable has its type, the table holds exactly the sources in the   *)
(* queue, each once, and never more than MAX_SOURCES.                        *)
TypeOK == /\ now \in 0..MaxTime
          /\ judging \in Sources \cup {None}
          /\ limits.day \in Days \cup {None}
          /\ IsInjective(limits.order) /\ Len(limits.order) <= MaxSources
          /\ DOMAIN limits.table = Known(limits)
          /\ \A s \in Known(limits) : limits.table[s] \in Entry
          /\ limits.limited \subseteq Sources /\ limits.dirty \in BOOLEAN
          /\ limits.file \in [Days -> [n : Nat, sources : Nat]]
          /\ limits.failed \subseteq Days /\ writable \in BOOLEAN
          /\ \A d \in Days : told[d].missed \subseteq told[d].sources

\* The entries of a kind among entries i to j of a source's log.
Entries(s, what, i, j) == {m \in i..j : log[s][m].what = what}
Passed(s, i) == log[s][i].what = "pass"
Refused(s, i) == log[s][i].what = "refused"

(* "30 events at once and one more every 2 seconds": between any two of a    *)
(* source's admitted events, no more than a full bucket and what dripped in  *)
(* meanwhile, however checks, limits and pauses alternate; a clock set back  *)
(* in between gives nothing away (check).                                    *)
BurstBound ==
    \A s \in Sources : \A i, j \in 1..Len(log[s]) :
        i <= j /\ Passed(s, i) /\ Passed(s, j) =>
            Refill * (Cardinality(Entries(s, "pass", i, j)) - Burst) <= log[s][j].at - log[s][i].at

(* "1,000 events and 4 MiB a UTC day", for a source not forgotten meanwhile. *)
DayCaps ==
    \A s \in Sources :
        /\ Cardinality(Entries(s, "pass", 1, Len(log[s]))) <= DayEvents
        /\ BytesOf(log[s]) <= DayBytes

\* Entries i to j of a source's log are enough refusals, close enough together.
Enough(s, i, j) ==
    /\ i <= j /\ Refused(s, i) /\ Refused(s, j)
    /\ log[s][i].at > log[s][j].at - BrakeFor
    /\ Cardinality(Entries(s, "refused", i, j)) = BrakeRefusals

InOrder(s, i, p) == \A m, n \in i..p : m <= n => log[s][m].at <= log[s][n].at

(* "60 refused events in an hour refuse the sender for an hour": nothing of  *)
(* the source is let through in the hour after, unless its clock readings    *)
(* are out of order (refused, check).                                        *)
BrakeHolds ==
    \A s \in Sources : \A i, j, p \in 1..Len(log[s]) :
        j < p /\ Passed(s, p) /\ Enough(s, i, j) /\ InOrder(s, i, p)
            => log[s][p].at >= log[s][j].at + BrakeFor

(* And only then: a braked source had that many refusals within an hour, the *)
(* last of them an hour before the brake lifts.                              *)
BrakeEarned ==
    \A s \in Known(limits) :
        limits.table[s].brakedUntil > 0 =>
            \E i, j \in 1..Len(log[s]) :
                Enough(s, i, j) /\ limits.table[s].brakedUntil = log[s][j].at + BrakeFor

(* "Past this, the least recently seen source is forgotten", and no other: a *)
(* source stays known until MAX_SOURCES others have been seen since, so its  *)
(* brake and its counts cannot be flushed out by fewer (_source).            *)
RememberedWhileRecent ==
    \A s \in Sources :
        s \notin others[s] /\ Cardinality(others[s]) < MaxSources => s \in Known(limits)

(* "Counted twice, never not at all": in the file, for every day, at least   *)
(* as many limited sources as were told so, up to MAX_SOURCES, whenever the  *)
(* plugin is restarted or killed and the clock set back, but for those first *)
(* told while the file could not be written (_roll, _limit, _flush).         *)
LimitedSourcesCounted ==
    \A d \in Days :
        limits.file[d].sources + Cardinality(told[d].missed)
            >= Least(Cardinality(told[d].sources), MaxSources)

(* The file never claims more limits than were hit, and what memory and file *)
(* disagree on is marked to be written; a day that is over has all of its    *)
(* limits in the file; unless a plugin stopped or a write of that day failed *)
(* (_roll, _flush, write_waiting).                                           *)
CountsAgree ==
    /\ \A d \in Days : limits.file[d].n <= told[d].n
    /\ restarts = 0 =>
          \A d \in Days \ ({limits.day} \cup limits.failed) : limits.file[d].n = told[d].n
    /\ limits.day \notin {None} \cup limits.failed /\ ~limits.dirty =>
          /\ limits.file[limits.day].n = limits.n
          /\ limits.file[limits.day].sources = limits.base + Cardinality(limits.limited)
=============================================================================
