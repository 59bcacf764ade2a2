----------------------------- MODULE RelayPages -----------------------------
(***************************************************************************)
(* Reading a relay page by page: query of policy/dir-gate/gate.mjs, which   *)
(* the directory gate reads slots and listings with, and sync/fetch.mjs,    *)
(* which the archive is made from.  A page is the newest Limit events of a  *)
(* kind up to a second, `until`, and the next page starts at the oldest     *)
(* second of the last one.  Events come and go between two pages, dated any *)
(* way (strfry admits events years old); any page may fail.                 *)
(***************************************************************************)
EXTENDS Naturals, FiniteSets

CONSTANTS
    Ids,        \* events
    At,         \* event -> created_at, a second
    Kinds,      \* what a REQ asks for: a kind
    KindOf,     \* event -> its kind
    LastSecond, \* no event is newer
    Limit,      \* events in a page; the relay answers no fewer when it has them
    Pages,      \* pages query reads at most
    NoAnswer    \* no set of events

ASSUME PagesAssumption ==
    /\ IsFiniteSet(Ids) /\ LastSecond \in Nat
    /\ At \in [Ids -> 0..LastSecond]
    /\ KindOf \in [Ids -> Kinds]
    /\ Limit \in Nat \ {0} /\ Pages \in Nat \ {0}

VARIABLES
    stored,     \* what the relay holds
    reader,     \* whose read this is: "query" or "fetch"
    phase,      \* idle, ready (to ask for a page), waiting (for it), answered,
                \* crowded (a full page added nothing), failed
    asked,      \* the kinds of the read
    todo,       \* those not yet begun
    kind,       \* the one being read
    until,      \* its next page's newest second
    page,       \* its pages read
    all,        \* the events read
    through,    \* history: the events asked for that were held ever since the read began
    seen        \* history: those held at some moment since

vars == <<stored, reader, phase, asked, todo, kind, until, page, all, through, seen>>
read == <<reader, phase, asked, todo, kind, until, page, all>>

Reading == phase \in {"ready", "waiting"}
Asked(events) == {e \in events : KindOf[e] \in asked}

Init == /\ stored \in SUBSET Ids
        /\ reader = "query" /\ phase = "idle"
        /\ kind \in Kinds /\ asked = {kind} /\ todo = {}
        /\ until = LastSecond /\ page = 0
        /\ all = {} /\ through = {} /\ seen = {}

-----------------------------------------------------------------------------
(* The relay.                                                               *)

Matching == {e \in stored : KindOf[e] = kind /\ At[e] <= until}

\* Newest first, `until` and `limit` kept; of one second in any order.
PageOf(p) ==
    /\ p \subseteq Matching
    /\ IF Cardinality(Matching) <= Limit THEN p = Matching ELSE Cardinality(p) = Limit
    /\ \A e \in p, f \in Matching \ p : At[f] <= At[e]

\* An event comes, another goes, or one replaces another.
Change ==
    /\ \E new, old \in {{}} \cup {{e} : e \in Ids} : stored' = (stored \ old) \cup new
    /\ IF Reading
         THEN through' = through \cap stored' /\ seen' = seen \cup Asked(stored')
         ELSE UNCHANGED <<through, seen>>
    /\ UNCHANGED read

-----------------------------------------------------------------------------
(* The reader.                                                              *)

\* query reads one filter, of one kind; fetch.mjs all the kinds in turn.
Begin(r, kinds) ==
    /\ ~Reading /\ phase' = "ready"
    /\ r = "query" => \E k \in Kinds : kinds = {k}
    /\ reader' = r /\ asked' = kinds
    /\ kind' \in kinds /\ todo' = kinds \ {kind'}
    /\ until' = LastSecond /\ page' = 0 /\ all' = {}
    /\ through' = {e \in stored : KindOf[e] \in kinds} /\ seen' = through'
    /\ UNCHANGED stored

Full(p) == Cardinality(p) >= Limit

\* Seeded fault: a full page that adds nothing is taken as the end.
EndOrStuck(p) == ~Full(p) \/ p \subseteq all

End(p) == ~Full(p)

\* Seeded fault: a page that adds nothing is asked for again.
AddsAlways(p) == TRUE

Adds(p) == ~(p \subseteq all)

\* query reads no further page.
LastPage == reader = "query" /\ page + 1 = Pages

\* Seeded fault: the next page starts below the oldest second read.
NextUntilBelow(p, t) == \E e \in p : (\A f \in p : At[e] <= At[f]) /\ t = IF At[e] = 0 THEN 0 ELSE At[e] - 1

\* Seeded fault: the next page starts at the newest second read.
NextUntilNewest(p, t) == \E e \in p : (\A f \in p : At[e] >= At[f]) /\ t = At[e]

\* The next page starts at the oldest second again, so the rest of it is read.
NextUntil(p, t) == \E e \in p : (\A f \in p : At[e] <= At[f]) /\ t = At[e]

\* The REQ; its page's timer is set before it is sent.
Ask == /\ phase = "ready" /\ phase' = "waiting"
       /\ UNCHANGED <<reader, asked, todo, kind, until, page, all, stored, through, seen>>

Reads(p) == phase = "waiting" /\ PageOf(p) /\ all' = all \cup p
World == <<stored, reader, asked, through, seen>>

\* A short page is the end, of this kind or of the read.
ShortPage(p) ==
    /\ Reads(p) /\ End(p)
    /\ \/ /\ todo = {} /\ phase' = "answered"
          /\ UNCHANGED <<todo, kind, until, page>>
       \/ /\ kind' \in todo /\ todo' = todo \ {kind'}
          /\ until' = LastSecond /\ page' = 0
          /\ phase' = "ready"
    /\ UNCHANGED World

FullPage(p) ==
    /\ Reads(p) /\ Full(p) /\ Adds(p) /\ ~LastPage
    /\ \E t \in 0..LastSecond : NextUntil(p, t) /\ until' = t
    /\ page' = IF reader = "query" THEN page + 1 ELSE page
    /\ phase' = "ready"
    /\ UNCHANGED <<todo, kind, World>>

\* A full page that adds nothing: more events in one second than a page holds.
Crowded(p) ==
    /\ Reads(p) /\ Full(p) /\ ~Adds(p)
    /\ phase' = "crowded"
    /\ UNCHANGED <<todo, kind, until, page, World>>

OutOfPages(p) ==
    /\ Reads(p) /\ Full(p) /\ Adds(p) /\ LastPage
    /\ phase' = "failed"
    /\ UNCHANGED <<todo, kind, until, page, World>>

\* The page's timer, an error or the relay's CLOSED.
NoPage ==
    /\ phase = "waiting" /\ phase' = "failed"
    /\ UNCHANGED <<reader, asked, todo, kind, until, page, all, stored, through, seen>>

Read == NoPage \/ \E p \in SUBSET stored : ShortPage(p) \/ FullPage(p) \/ Crowded(p) \/ OutOfPages(p)

Next == \/ Change \/ Ask \/ Read
        \/ \E r \in {"query", "fetch"}, kinds \in SUBSET Kinds \ {{}} : Begin(r, kinds)

Spec == Init /\ [][Next]_vars

\* The reader asks on, and every page it asked for comes or times out.
FairSpec == Spec /\ WF_vars(Ask) /\ WF_vars(Read)

-----------------------------------------------------------------------------
(* Every variable has its type; a query has pages left while it reads.      *)
TypeOK == /\ stored \in SUBSET Ids /\ reader \in {"query", "fetch"}
          /\ phase \in {"idle", "ready", "waiting", "answered", "crowded", "failed"}
          /\ asked \in SUBSET Kinds /\ todo \in SUBSET asked /\ kind \in asked \ todo
          /\ until \in 0..LastSecond /\ page \in 0..(Pages - 1)
          /\ all \in SUBSET seen
          /\ through \in SUBSET seen /\ seen \in SUBSET {e \in Ids : KindOf[e] \in asked}

(* Between two pages no event is skipped, whatever comes and goes meanwhile: *)
(* all that stayed, of the kinds done and of this kind's seconds after the   *)
(* next page's first, has been read (query's and fetch.mjs's `until`).       *)
NothingSkipped ==
    Reading \/ phase = "answered" =>
        \A e \in through :
            \/ e \in all
            \/ Reading /\ KindOf[e] \in todo
            \/ Reading /\ KindOf[e] = kind /\ At[e] <= until

(* A read is given up as stuck only where it cannot be paged: some second    *)
(* holds a page or more of the kind (gate.mjs:78, fetch.mjs:47).             *)
StuckOnlyWhereCrowded ==
    [][phase = "waiting" /\ phase' = "crowded" =>
           \E t \in 0..LastSecond :
               Cardinality({e \in stored : KindOf[e] = kind /\ At[e] = t}) >= Limit]_vars

(* Every read ends: with a bound on pages, or because every page adds events *)
(* (query; fetch.mjs, which has no such bound).                              *)
ReadEnds == Reading ~> ~Reading

(* Reading by pages implements the read that the gate and the archive need:  *)
(* an answer is whole, or there is none.                                     *)
Promise == INSTANCE RelayRead WITH
               stored  <- Asked(stored),
               reading <- Reading,
               answer  <- IF phase = "answered" THEN all ELSE NoAnswer
ImplementsRelayRead == Promise!Spec
=============================================================================
