-------------------------- MODULE RelayPagesProofs --------------------------
(***************************************************************************)
(* A read by pages is whole or there is none, for every set of events, page *)
(* size, number of pages and order in which events come and go: RelayPages  *)
(* implements RelayRead.                                                    *)
(***************************************************************************)
EXTENDS RelayPages, FiniteSetTheorems, TLAPS

\* What the history says of the relay while a read goes on.
Observed == Reading => through \subseteq Asked(stored) /\ Asked(stored) \subseteq seen

\* Nothing of a kind still to be read, or below the next page, has been read.
ReadAbove == Reading => \A e \in all : KindOf[e] \notin todo /\ (KindOf[e] = kind => At[e] >= until)

\* The inductive invariant.
PagesInv == TypeOK /\ NothingSkipped /\ Observed /\ ReadAbove

Phases == {"idle", "ready", "waiting", "answered", "crowded", "failed"}

-----------------------------------------------------------------------------
LEMMA InitInv == Init => PagesInv
<1> SUFFICES ASSUME Init PROVE PagesInv
  OBVIOUS
<1>1. ~Reading /\ phase # "answered"  BY DEF Init, Reading
<1>2. TypeOK  BY PagesAssumption DEF Init, TypeOK
<1> QED BY <1>1, <1>2 DEF PagesInv, NothingSkipped, Observed, ReadAbove

(* A page holds events of the kind up to its second, and either all of them  *)
(* or, if it is full, the newest.                                            *)
LEMMA PageFacts == ASSUME PagesInv, NEW p, Reads(p)
                   PROVE  /\ phase = "waiting" /\ Reading /\ all' = all \cup p
                          /\ p \subseteq Matching /\ Matching \subseteq Asked(stored)
                          /\ p \subseteq seen
                          /\ End(p) => p = Matching
                          /\ \A e \in p, f \in Matching \ p : At[f] <= At[e]
<1>1. phase = "waiting" /\ Reading /\ all' = all \cup p /\ PageOf(p)  BY DEF Reads, Reading
<1>2. kind \in asked  BY DEF PagesInv, TypeOK
<1>3. Matching \subseteq Asked(stored)  BY <1>2 DEF Matching, Asked
<1>4. Asked(stored) \subseteq seen  BY <1>1 DEF PagesInv, Observed
<1>5. p \subseteq Matching /\ \A e \in p, f \in Matching \ p : At[f] <= At[e]
  BY <1>1 DEF PageOf
<1>6. End(p) => p = Matching
  <2>1. CASE Cardinality(Matching) <= Limit  BY <1>1, <2>1 DEF PageOf
  <2>2. CASE ~(Cardinality(Matching) <= Limit)
    BY <1>1, <2>2, PagesAssumption DEF PageOf, End, Full
  <2> QED BY <2>1, <2>2
<1> QED BY <1>1, <1>3, <1>4, <1>5, <1>6

(* What the relay does between two pages.                                    *)
LEMMA ChangeInv == ASSUME PagesInv, Change PROVE PagesInv'
<1>1. PICK new, old \in {{}} \cup {{e} : e \in Ids} : stored' = (stored \ old) \cup new
  BY DEF Change
<1>2. stored' \in SUBSET Ids  BY <1>1 DEF PagesInv, TypeOK
<1>3. /\ reader' = reader /\ phase' = phase /\ asked' = asked /\ todo' = todo /\ kind' = kind
      /\ until' = until /\ page' = page /\ all' = all
  BY DEF Change, read
<1>4. /\ Reading' = Reading
      /\ Reading => through' = through \cap stored' /\ seen' = seen \cup Asked(stored')
      /\ ~Reading => through' = through /\ seen' = seen
  BY <1>3 DEF Change, Reading
<1>5. Asked(stored') = Asked(stored)' /\ Asked(stored') \subseteq {e \in Ids : KindOf[e] \in asked}
  BY <1>2, <1>3 DEF Asked
<1>6. through' \subseteq through /\ seen \subseteq seen'
      /\ seen' \subseteq {e \in Ids : KindOf[e] \in asked}
  BY <1>4, <1>5 DEF PagesInv, TypeOK
<1>7. TypeOK'  BY <1>2, <1>3, <1>6 DEF PagesInv, TypeOK
<1>8. NothingSkipped'  BY <1>3, <1>4, <1>6 DEF PagesInv, NothingSkipped
<1>9. Observed'
  BY <1>3, <1>4, <1>5 DEF PagesInv, Observed, Asked
<1>10. ReadAbove'  BY <1>3, <1>4 DEF PagesInv, ReadAbove
<1> QED BY <1>7, <1>8, <1>9, <1>10 DEF PagesInv

LEMMA BeginInv == ASSUME PagesInv, NEW r \in {"query", "fetch"}, NEW kinds \in SUBSET Kinds,
                         Begin(r, kinds)
                  PROVE  PagesInv'
<1>1. /\ phase' = "ready" /\ reader' = r /\ asked' = kinds /\ kind' \in kinds
      /\ todo' = kinds \ {kind'} /\ until' = LastSecond /\ page' = 0 /\ all' = {}
      /\ through' = {e \in stored : KindOf[e] \in kinds} /\ seen' = through' /\ stored' = stored
  BY DEF Begin
<1>2. stored \in SUBSET Ids  BY DEF PagesInv, TypeOK
<1>3. TypeOK'  BY <1>1, <1>2, PagesAssumption DEF TypeOK
<1>4. NothingSkipped'
  <2>1. \A e \in through' : KindOf[e] \in kinds /\ At[e] \in 0..LastSecond
    BY <1>1, <1>2, PagesAssumption
  <2> QED BY <1>1, <2>1 DEF NothingSkipped, Reading
<1>5. Observed'  BY <1>1 DEF Observed, Asked
<1>6. ReadAbove'  BY <1>1 DEF ReadAbove
<1> QED BY <1>3, <1>4, <1>5, <1>6 DEF PagesInv

(* The end of a kind, or of the read: the page held the rest of the kind.    *)
LEMMA ShortPageInv == ASSUME PagesInv, NEW p, ShortPage(p) PROVE PagesInv'
<1>1. /\ Reads(p) /\ End(p) /\ UNCHANGED World
      /\ \/ todo = {} /\ phase' = "answered" /\ UNCHANGED <<todo, kind, until, page>>
         \/ /\ kind' \in todo /\ todo' = todo \ {kind'}
            /\ until' = LastSecond /\ page' = 0 /\ phase' = "ready"
  BY DEF ShortPage
<1>2. /\ Reading /\ all' = all \cup p /\ p = Matching /\ p \subseteq seen
      /\ p \subseteq Asked(stored)
  BY <1>1, PageFacts
<1>3. /\ stored' = stored /\ reader' = reader /\ asked' = asked /\ through' = through
      /\ seen' = seen
  BY <1>1 DEF World
<1>4. TypeOK'
  <2>1. all' \in SUBSET seen'  BY <1>2, <1>3 DEF PagesInv, TypeOK
  <2>2. phase' \in Phases  BY <1>1 DEF Phases
  <2>3. /\ todo' \in SUBSET asked' /\ kind' \in asked' \ todo'
        /\ until' \in 0..LastSecond /\ page' \in 0..(Pages - 1)
    BY <1>1, <1>3, PagesAssumption DEF PagesInv, TypeOK
  <2> QED BY <1>3, <2>1, <2>2, <2>3 DEF PagesInv, TypeOK, Phases
\* All of the kinds done, and of this one, that stayed.
<1>5. \A e \in through : e \in all' \/ KindOf[e] \in todo
  <2> SUFFICES ASSUME NEW e \in through, e \notin all, KindOf[e] \notin todo PROVE e \in p
    BY <1>2
  <2>1. KindOf[e] = kind /\ At[e] <= until  BY <1>2 DEF PagesInv, NothingSkipped
  <2>2. e \in stored  BY <1>2 DEF PagesInv, Observed, Asked
  <2> QED BY <1>2, <2>1, <2>2 DEF Matching
<1>6. NothingSkipped'
  <2>1. CASE todo = {} /\ phase' = "answered"
    BY <1>3, <1>5, <2>1 DEF NothingSkipped, Reading
  <2>2. CASE kind' \in todo /\ todo' = todo \ {kind'} /\ until' = LastSecond /\ phase' = "ready"
    <3>1. \A e \in through : At[e] <= LastSecond  BY PagesAssumption DEF PagesInv, TypeOK
    <3> QED BY <1>3, <1>5, <2>2, <3>1 DEF NothingSkipped, Reading
  <2> QED BY <1>1, <2>1, <2>2
<1>7. Observed'  BY <1>2, <1>3 DEF PagesInv, Observed, Asked
<1>8. ReadAbove'
  <2>1. \A e \in all' : KindOf[e] \notin todo
    BY <1>2 DEF PagesInv, ReadAbove, Matching, TypeOK
  <2> QED BY <1>1, <2>1 DEF ReadAbove, Reading
<1> QED BY <1>4, <1>6, <1>7, <1>8 DEF PagesInv

(* A full page: all it left out is of its oldest second or older, where the  *)
(* next page starts.                                                         *)
LEMMA FullPageInv == ASSUME PagesInv, NEW p, FullPage(p) PROVE PagesInv'
<1>1. /\ Reads(p) /\ ~LastPage /\ phase' = "ready" /\ UNCHANGED <<todo, kind, World>>
      /\ page' = IF reader = "query" THEN page + 1 ELSE page
      /\ \E t \in 0..LastSecond : NextUntil(p, t) /\ until' = t
  BY DEF FullPage
<1>2. /\ Reading /\ all' = all \cup p /\ p \subseteq Matching /\ p \subseteq seen
      /\ p \subseteq Asked(stored)
      /\ \A e \in p, f \in Matching \ p : At[f] <= At[e]
  BY <1>1, PageFacts
<1>3. /\ stored' = stored /\ reader' = reader /\ asked' = asked /\ through' = through
      /\ seen' = seen /\ todo' = todo /\ kind' = kind
  BY <1>1 DEF World
<1>4. PICK oldest \in p : (\A f \in p : At[oldest] <= At[f]) /\ until' = At[oldest]
  BY <1>1 DEF NextUntil
<1>5. \A e \in Ids : At[e] \in 0..LastSecond  BY PagesAssumption
<1>6. p \subseteq Ids /\ oldest \in Ids /\ all \subseteq Ids /\ through \subseteq Ids
  BY <1>2 DEF PagesInv, TypeOK
<1>7. until \in 0..LastSecond /\ until' \in 0..LastSecond /\ until' <= until
  BY <1>2, <1>4, <1>5, <1>6 DEF PagesInv, TypeOK, Matching
<1>8. TypeOK'
  <2>1. all' \in SUBSET seen'  BY <1>2, <1>3 DEF PagesInv, TypeOK
  <2>2. page' \in 0..(Pages - 1)
    BY <1>1, PagesAssumption DEF PagesInv, TypeOK, LastPage
  <2> QED BY <1>1, <1>3, <1>7, <2>1, <2>2 DEF PagesInv, TypeOK
<1>9. NothingSkipped'
  <2> SUFFICES ASSUME NEW e \in through, e \notin all', KindOf[e] \notin todo
               PROVE  KindOf[e] = kind /\ At[e] <= until'
    BY <1>1, <1>3 DEF NothingSkipped, Reading
  <2>1. KindOf[e] = kind /\ At[e] <= until  BY <1>2 DEF PagesInv, NothingSkipped
  <2>2. e \in Matching \ p  BY <1>2, <2>1 DEF PagesInv, Observed, Asked, Matching
  <2> QED BY <1>2, <1>4, <2>1, <2>2
<1>10. Observed'  BY <1>2, <1>3 DEF PagesInv, Observed, Asked
<1>11. ReadAbove'
  <2> SUFFICES ASSUME NEW e \in all' PROVE KindOf[e] \notin todo /\ (KindOf[e] = kind => At[e] >= until')
    BY <1>3 DEF ReadAbove
  <2>1. CASE e \in all
    BY <1>2, <1>5, <1>6, <1>7, <2>1 DEF PagesInv, ReadAbove
  <2>2. CASE e \in p
    BY <1>2, <1>4, <1>5, <1>6, <2>2 DEF Matching, PagesInv, TypeOK
  <2> QED BY <1>2, <2>1, <2>2
<1> QED BY <1>8, <1>9, <1>10, <1>11 DEF PagesInv

(* A read given up holds nothing more to what it read.                       *)
LEMMA GivenUpInv == ASSUME PagesInv, phase' \in {"crowded", "failed"},
                           UNCHANGED <<todo, kind, until, page, World>>, all' \in SUBSET seen
                    PROVE  PagesInv'
<1>1. ~Reading' /\ phase' # "answered"  BY DEF Reading
<1>2. TypeOK'  BY DEF PagesInv, TypeOK, World
<1> QED BY <1>1, <1>2 DEF PagesInv, NothingSkipped, Observed, ReadAbove

LEMMA NextInv == ASSUME PagesInv, [Next]_vars PROVE PagesInv'
<1>1. CASE Change  BY <1>1, ChangeInv
<1>2. CASE Ask
  <2>1. /\ phase' = "waiting" /\ Reading /\ Reading'
        /\ UNCHANGED <<reader, asked, todo, kind, until, page, all, stored, through, seen>>
    BY <1>2 DEF Ask, Reading
  <2> QED BY <2>1 DEF PagesInv, TypeOK, NothingSkipped, Observed, ReadAbove, Asked
<1>3. ASSUME NEW p, ShortPage(p) PROVE PagesInv'  BY <1>3, ShortPageInv
<1>4. ASSUME NEW p, FullPage(p) PROVE PagesInv'  BY <1>4, FullPageInv
<1>5. ASSUME NEW p, Crowded(p) \/ OutOfPages(p) PROVE PagesInv'
  <2>1. /\ Reads(p) /\ phase' \in {"crowded", "failed"}
        /\ UNCHANGED <<todo, kind, until, page, World>>
    BY <1>5 DEF Crowded, OutOfPages
  <2>2. all' \in SUBSET seen  BY <2>1, PageFacts DEF PagesInv, TypeOK
  <2> QED BY <2>1, <2>2, GivenUpInv
<1>6. CASE NoPage
  <2>1. all' \in SUBSET seen  BY <1>6 DEF NoPage, PagesInv, TypeOK
  <2> QED BY <1>6, <2>1, GivenUpInv DEF NoPage, World
<1>7. ASSUME NEW r \in {"query", "fetch"}, NEW kinds \in SUBSET Kinds, Begin(r, kinds)
      PROVE  PagesInv'
  BY <1>7, BeginInv
<1>8. CASE UNCHANGED vars
  BY <1>8 DEF vars, PagesInv, TypeOK, NothingSkipped, Observed, ReadAbove, Asked, Reading
<1> QED BY <1>1, <1>2, <1>3, <1>4, <1>5, <1>6, <1>7, <1>8 DEF Next, Read

(* Every variable has its type; a query has pages left while it reads.       *)
THEOREM Typed == Spec => []TypeOK
<1>1. PagesInv => TypeOK  BY DEF PagesInv
<1> QED BY InitInv, NextInv, <1>1, PTL DEF Spec

(* Between two pages no event is skipped, whatever comes and goes meanwhile  *)
(* (query's and fetch.mjs's `until`).                                        *)
THEOREM NoneSkipped == Spec => []NothingSkipped
<1>1. PagesInv => NothingSkipped  BY DEF PagesInv
<1> QED BY InitInv, NextInv, <1>1, PTL DEF Spec

-----------------------------------------------------------------------------
(* A full page of events read before lies in the one second it starts at.    *)
LEMMA CrowdedStep ==
    ASSUME PagesInv, [Next]_vars, phase = "waiting", phase' = "crowded"
    PROVE  \E t \in 0..LastSecond :
               Cardinality({e \in stored : KindOf[e] = kind /\ At[e] = t}) >= Limit
<1>1. PICK p \in SUBSET stored : Crowded(p)
  BY DEF Next, Change, read, Ask, Read, NoPage, ShortPage, FullPage, OutOfPages, Begin, vars
<1>2. Reads(p) /\ Cardinality(p) >= Limit /\ p \subseteq all  BY <1>1 DEF Crowded, Full, Adds
<1>3. Reading /\ p \subseteq Matching  BY <1>2, PageFacts
<1> DEFINE here == {e \in stored : KindOf[e] = kind /\ At[e] = until}
<1>4. p \in SUBSET here
  <2> SUFFICES ASSUME NEW e \in p PROVE At[e] = until
    BY <1>3 DEF Matching
  <2>1. At[e] <= until /\ KindOf[e] = kind /\ e \in all /\ e \in Ids
    BY <1>2, <1>3 DEF Matching, PagesInv, TypeOK
  <2>2. At[e] >= until  BY <1>3, <2>1 DEF PagesInv, ReadAbove
  <2>3. At[e] \in Nat /\ until \in Nat  BY <2>1, PagesAssumption DEF PagesInv, TypeOK
  <2> QED BY <2>1, <2>2, <2>3
<1>5. IsFiniteSet(here)
  <2>1. here \in SUBSET Ids  BY DEF PagesInv, TypeOK
  <2> QED BY <2>1, PagesAssumption, FS_Subset
<1>6. IsFiniteSet(p) /\ Cardinality(p) <= Cardinality(here)  BY <1>4, <1>5, FS_Subset
<1>7. Cardinality(p) \in Nat /\ Cardinality(here) \in Nat  BY <1>5, <1>6, FS_CardinalityType
<1>8. Cardinality(here) >= Limit  BY <1>2, <1>6, <1>7, PagesAssumption
<1>9. until \in 0..LastSecond  BY DEF PagesInv, TypeOK
<1> QED BY <1>8, <1>9

(* A read is given up as stuck only where some second holds a page or more   *)
(* (gate.mjs:78, fetch.mjs:47).                                              *)
THEOREM StuckWhereCrowded == Spec => StuckOnlyWhereCrowded
<1>1. PagesInv /\ [Next]_vars =>
          [phase = "waiting" /\ phase' = "crowded" =>
              \E t \in 0..LastSecond :
                  Cardinality({e \in stored : KindOf[e] = kind /\ At[e] = t}) >= Limit]_vars
  BY CrowdedStep
<1> QED BY <1>1, InitInv, NextInv, PTL DEF Spec, StuckOnlyWhereCrowded

-----------------------------------------------------------------------------
(* The refinement: a page that does not end the read changes nothing the     *)
(* promise speaks of.                                                        *)
Told == IF phase = "answered" THEN all ELSE NoAnswer

LEMMA PromiseInit == Init => Promise!Init
BY DEF Init, Promise!Init, Reading, Asked

LEMMA PromiseStep ==
    ASSUME PagesInv, [Next]_vars
    PROVE  [Promise!Next]_<<Asked(stored), Reading, through, seen, Told>>
<1>0. PagesInv'  BY NextInv
<1>1. CASE Change
  <2>1. /\ phase' = phase /\ all' = all /\ asked' = asked /\ Reading' = Reading
        /\ Asked(stored') = Asked(stored)'
        /\ Reading => through' = through \cap stored' /\ seen' = seen \cup Asked(stored')
        /\ ~Reading => through' = through /\ seen' = seen
    BY <1>1 DEF Change, read, Reading, Asked
  <2>2. Asked(stored)' \in SUBSET Ids  BY <1>0 DEF PagesInv, TypeOK, Asked
  <2>3. Reading => through' = through \cap Asked(stored)'
    BY <2>1 DEF PagesInv, TypeOK, Asked
  <2>4. Promise!Change  BY <2>1, <2>2, <2>3 DEF Promise!Change
  <2> QED BY <2>4 DEF Promise!Next
<1>2. CASE Ask
  <2>1. /\ phase' = "waiting" /\ Reading /\ Reading' /\ phase # "answered"
        /\ UNCHANGED <<asked, stored, through, seen, all>>
    BY <1>2 DEF Ask, Reading
  <2> QED BY <2>1 DEF Told, Asked
<1>3. ASSUME NEW p, ShortPage(p) PROVE [Promise!Next]_<<Asked(stored), Reading, through, seen, Told>>
  <2>1. Reading /\ phase = "waiting" /\ UNCHANGED <<asked, stored, through, seen>>
    BY <1>3, PageFacts DEF ShortPage, World
  <2>2. Asked(stored)' = Asked(stored)  BY <2>1 DEF Asked
  <2>3. CASE phase' = "answered"
    <3>1. ~Reading' /\ all' \in SUBSET seen /\ through \subseteq all'
      BY <1>0, <2>1, <2>3 DEF PagesInv, TypeOK, NothingSkipped, Reading
    <3>2. Promise!Answer  BY <2>1, <2>2, <2>3, <3>1 DEF Promise!Answer
    <3> QED BY <3>2 DEF Promise!Next
  <2>4. CASE phase' = "ready"  BY <2>1, <2>2, <2>4 DEF Told, Reading
  <2> QED BY <1>3, <2>3, <2>4 DEF ShortPage
<1>4. ASSUME NEW p, FullPage(p) PROVE [Promise!Next]_<<Asked(stored), Reading, through, seen, Told>>
  <2>1. /\ Reading /\ phase = "waiting" /\ UNCHANGED <<asked, stored, through, seen>>
        /\ phase' = "ready"
    BY <1>4, PageFacts DEF FullPage, World
  <2> QED BY <2>1 DEF Told, Reading, Asked
<1>5. ASSUME phase = "waiting", phase' \in {"crowded", "failed"},
             UNCHANGED <<asked, stored, through, seen>>
      PROVE  [Promise!Next]_<<Asked(stored), Reading, through, seen, Told>>
  <2>1. Reading /\ ~Reading'  BY <1>5 DEF Reading
  <2>2. Asked(stored)' = Asked(stored)  BY <1>5 DEF Asked
  <2>3. Promise!Answer  BY <1>5, <2>1, <2>2 DEF Promise!Answer
  <2> QED BY <2>3 DEF Promise!Next
<1>6. ASSUME NEW p, Crowded(p) \/ OutOfPages(p) \/ NoPage
      PROVE  [Promise!Next]_<<Asked(stored), Reading, through, seen, Told>>
  BY <1>5, <1>6 DEF Crowded, OutOfPages, NoPage, Reads, World
<1>7. ASSUME NEW r \in {"query", "fetch"}, NEW kinds \in SUBSET Kinds, Begin(r, kinds)
      PROVE  [Promise!Next]_<<Asked(stored), Reading, through, seen, Told>>
  <2>1. /\ ~Reading /\ phase' = "ready" /\ Reading' /\ asked' = kinds /\ stored' = stored
        /\ through' = {e \in stored : KindOf[e] \in kinds} /\ seen' = through'
    BY <1>7 DEF Begin, Reading
  <2>2. Asked(stored)' = through' /\ through' \in SUBSET Ids
    BY <2>1 DEF Asked, PagesInv, TypeOK
  <2>3. Promise!Begin  BY <2>1, <2>2 DEF Promise!Begin
  <2> QED BY <2>3 DEF Promise!Next
<1>8. CASE UNCHANGED vars
  BY <1>8 DEF vars, Asked, Reading, Told
<1> QED BY <1>1, <1>2, <1>3, <1>4, <1>6, <1>7, <1>8 DEF Next, Read

(* A read by pages is one read: it answers with all that was there all along *)
(* and nothing that never was, or not at all (query of gate.mjs, fetch.mjs). *)
THEOREM PagesImplementRead == Spec => ImplementsRelayRead
<1>1. PagesInv /\ [Next]_vars => [Promise!Next]_<<Asked(stored), Reading, through, seen, Told>>
  BY PromiseStep
<1> QED BY PromiseInit, <1>1, InitInv, NextInv, PTL DEF Spec, ImplementsRelayRead, Promise!Spec, Told
=============================================================================
