------------------------- MODULE SourceLimitsProofs -------------------------
(***************************************************************************)
(* The write limits, for any sources, limits, lengths of a day, restarts,   *)
(* clocks set back and failing writes.                                      *)
(*                                                                          *)
(* First the counts file: the queue and the table of the sources play no    *)
(* part in it, the invariant (CountInv) is about the object's counts        *)
(* (Remembered), the file (Written) and what was told.                      *)
(*                                                                          *)
(* Then the sources: the invariant (SourceInv) holds the queue against what *)
(* has been seen since (Seen), and each source's entry against its log      *)
(* (EntryHolds): the bucket against what was let through since any event    *)
(* (Filling), the day's counts (Counting), the refusals in its queue        *)
(* (Queued) and the entry that last put its brake on (BrakedBy).  The logs  *)
(* themselves show the limits kept (LogHolds).                              *)
(***************************************************************************)
EXTENDS SourceLimits, FiniteSetTheorems, SequenceTheorems, WellFoundedInduction, TLAPS

Fields == {"day", "order", "table", "limited", "n", "base", "dirty", "flushedAt", "file", "failed"}

Object(l) ==
    /\ DOMAIN l = Fields
    /\ l.day \in Days \cup {None} /\ l.limited \in SUBSET Sources
    /\ l.n \in Nat /\ l.base \in Nat /\ l.dirty \in BOOLEAN
    /\ l.file \in [Days -> [n : Nat, sources : Nat]] /\ l.failed \in SUBSET Days

Told == [sources : SUBSET Sources, n : Nat, missed : SUBSET Sources]
History(t) == t \in [Days -> Told] /\ \A d \in Days : t[d].missed \subseteq t[d].sources

\* The file against what was told (d a day, r the restarts so far).
SourcesIn(l, t, d) ==
    l.file[d].sources + Cardinality(t[d].missed) >= Least(Cardinality(t[d].sources), MaxSources)
LimitsIn(l, t, r, d) ==
    /\ l.file[d].n <= t[d].n
    /\ r = 0 /\ d # l.day /\ d \notin l.failed => l.file[d].n = t[d].n
Written(l, t, r) == \A d \in Days : SourcesIn(l, t, d) /\ LimitsIn(l, t, r, d)

\* The object against the file and what was told: of the sources it counts, the
\* file counts all but some it could not be told of.
Counted(l, t, C) == /\ C \in SUBSET l.limited
                    /\ l.file[l.day].sources = l.base + Cardinality(C)
                    /\ l.limited \ C \subseteq t[l.day].missed
Remembered(l, t, r) ==
    /\ l.day = None => ~l.dirty
    /\ l.day # None =>
          /\ l.limited \subseteq t[l.day].sources
          /\ \E C \in SUBSET Sources : Counted(l, t, C)
          /\ l.n <= t[l.day].n
          /\ r = 0 /\ l.day \notin l.failed => l.n = t[l.day].n
          /\ ~l.dirty /\ l.day \notin l.failed =>
                /\ l.file[l.day].n = l.n
                /\ l.file[l.day].sources = l.base + Cardinality(l.limited)

Counts(l, t, r) == Object(l) /\ History(t) /\ Written(l, t, r) /\ Remembered(l, t, r)

CountInv == /\ now \in 0..MaxTime /\ writable \in BOOLEAN /\ restarts \in Nat
            /\ Counts(limits, told, restarts)

-----------------------------------------------------------------------------
LEMMA DivMonotone == ASSUME NEW a \in Nat, NEW b \in Nat, NEW n \in Nat \ {0}, a <= b
                     PROVE  a \div n \in Nat /\ a \div n <= b \div n
<1>1. a \div n \in Nat /\ b \div n \in Nat  OBVIOUS
<1>2. a = n * (a \div n) + (a % n) /\ a % n < n /\ a % n \in Nat  OBVIOUS
<1>3. b = n * (b \div n) + (b % n) /\ b % n < n /\ b % n \in Nat  OBVIOUS
<1>4. SUFFICES ASSUME a \div n > b \div n PROVE FALSE  BY <1>1
<1> DEFINE p == a \div n  q == b \div n
<1>5. p >= q + 1  BY <1>1, <1>4
<1>6. n * p >= n * (q + 1)  BY <1>1, <1>5
<1> QED  BY <1>1, <1>2, <1>3, <1>6

LEMMA Lengths == DayLength \in Nat \ {0} /\ MaxSources \in Nat \ {0} /\ MaxTime \in Nat
BY LimitsAssumption

\* The clock's day is one of the days, and no day is None.
LEMMA DayIsADay == ASSUME now \in 0..MaxTime PROVE Day(now) \in Days /\ None \notin Days
<1>1. now \in Nat /\ now <= MaxTime  BY Lengths
<1>2. now \div DayLength \in Nat /\ now \div DayLength <= MaxTime \div DayLength
  BY <1>1, DivMonotone, Lengths
<1>3. MaxTime \div DayLength \in Nat  BY DivMonotone, Lengths
<1> QED  BY <1>2, <1>3, LimitsAssumption DEF Day, Days

LEMMA SourcesFinite == ASSUME NEW S \in SUBSET Sources
                       PROVE  IsFiniteSet(S) /\ Cardinality(S) \in Nat
BY LimitsAssumption, FS_Subset, FS_CardinalityType

-----------------------------------------------------------------------------
(* The methods that touch no count.                                         *)

\* m has the counts of l; the queue, the table and the time of the last write may differ.
Same(l, m) == /\ DOMAIN m = DOMAIN l
              /\ m.day = l.day /\ m.limited = l.limited /\ m.n = l.n /\ m.base = l.base
              /\ m.dirty = l.dirty /\ m.file = l.file /\ m.failed = l.failed

LEMMA SameCounts == ASSUME NEW l, NEW m, NEW t, NEW r, Counts(l, t, r), Same(l, m)
                    PROVE  Counts(m, t, r)
<1>1. Object(m)  BY DEF Counts, Object, Same
<1>2. Written(m, t, r)  BY DEF Counts, Written, SourcesIn, LimitsIn, Same
<1>3. Remembered(m, t, r)  BY DEF Counts, Remembered, Counted, Same
<1> QED  BY <1>1, <1>2, <1>3 DEF Counts

LEMMA SourceSame == ASSUME NEW l, NEW s, Object(l) PROVE Same(l, Source(l, s))
BY DEF Object, Same, Source, Fields

LEMMA TableSame == ASSUME NEW l, NEW s, NEW x, Object(l) PROVE Same(l, [l EXCEPT !.table[s] = x])
BY DEF Object, Same, Fields

-----------------------------------------------------------------------------
(* The methods that do.                                                     *)

LEMMA FlushCounts ==
  ASSUME NEW l, NEW t, NEW r, Counts(l, t, r), l.day # None, writable \in BOOLEAN
  PROVE  /\ Counts(Flush(l), t, r) /\ ~Flush(l).dirty
         /\ Flush(l).day = l.day /\ Flush(l).limited = l.limited
<1> DEFINE m == Flush(l)
           totals == [n |-> l.n, sources |-> l.base + Cardinality(l.limited)]
<1>1. l.day \in Days /\ l.limited \in SUBSET Sources /\ l.n \in Nat /\ l.base \in Nat
  BY DEF Counts, Object
<1>2. Cardinality(l.limited) \in Nat /\ IsFiniteSet(l.limited)  BY <1>1, SourcesFinite
<1>3. /\ DOMAIN m = Fields /\ ~m.dirty /\ m.dirty \in BOOLEAN
      /\ m.day = l.day /\ m.limited = l.limited /\ m.n = l.n /\ m.base = l.base
      /\ m.file = [l.file EXCEPT ![l.day] = IF writable THEN totals ELSE @]
      /\ m.failed = IF writable THEN l.failed ELSE l.failed \cup {l.day}
  BY DEF Counts, Object, Fields, Flush
<1> HIDE DEF m
<1>4. CASE ~writable
  <2>1. m.file = l.file  BY <1>1, <1>3, <1>4 DEF Counts, Object
  <2>2. Object(m)  BY <1>1, <1>3, <1>4, <2>1 DEF Counts, Object
  <2>3. Written(m, t, r)  BY <1>3, <1>4, <2>1 DEF Counts, Written, SourcesIn, LimitsIn
  <2>4. Remembered(m, t, r)  BY <1>3, <1>4, <2>1 DEF Counts, Remembered, Counted
  <2> QED  BY <1>3, <2>2, <2>3, <2>4 DEF Counts, m
<1>5. CASE writable
  <2>1. /\ m.file \in [Days -> [n : Nat, sources : Nat]] /\ m.file[l.day] = totals
        /\ \A d \in Days \ {l.day} : m.file[d] = l.file[d]
    BY <1>1, <1>2, <1>3, <1>5 DEF Counts, Object
  <2>2. Object(m)  BY <1>1, <1>3, <1>5, <2>1 DEF Counts, Object
  <2>3. PICK C \in SUBSET Sources : Counted(l, t, C)  BY <1>1 DEF Counts, Remembered
  <2>4. Cardinality(C) \in Nat /\ Cardinality(C) <= Cardinality(l.limited)
    BY <1>2, <2>3, FS_Subset, SourcesFinite DEF Counted
  <2>5. l.file[l.day].sources <= totals.sources
    BY <1>1, <1>2, <2>3, <2>4 DEF Counted
  <2>6. t[l.day].missed \in SUBSET Sources /\ t[l.day].sources \in SUBSET Sources
    BY <1>1 DEF Counts, History, Told
  <2>7. SourcesIn(m, t, l.day)
    <3>1. Cardinality(t[l.day].missed) \in Nat /\ Cardinality(t[l.day].sources) \in Nat
      BY <2>6, SourcesFinite
    <3>2. SourcesIn(l, t, l.day)  BY <1>1 DEF Counts, Written
    <3>3. l.file[l.day].sources \in Nat  BY <1>1 DEF Counts, Object
    <3>4. Least(Cardinality(t[l.day].sources), MaxSources) \in Nat
      BY <3>1, LimitsAssumption DEF Least
    <3> QED  BY <1>1, <1>2, <2>1, <2>5, <3>1, <3>2, <3>3, <3>4 DEF SourcesIn
  <2>8. \A d \in Days \ {l.day} : SourcesIn(m, t, d)
    BY <2>1 DEF Counts, Written, SourcesIn
  <2>9. \A d \in Days : LimitsIn(m, t, r, d)
    BY <1>1, <1>3, <1>5, <2>1 DEF Counts, Written, LimitsIn, Remembered
  <2>10. Written(m, t, r)  BY <2>7, <2>8, <2>9 DEF Written
  <2>11. Counted(m, t, l.limited)  BY <1>3, <2>1 DEF Counted
  <2>12. Remembered(m, t, r)
    BY <1>1, <1>3, <1>5, <2>1, <2>11 DEF Counts, Remembered
  <2> QED  BY <1>3, <2>2, <2>10, <2>12 DEF Counts, m
<1> QED  BY <1>4, <1>5

LEMMA RollCounts ==
  ASSUME NEW l, NEW t, NEW r, Counts(l, t, r), now \in 0..MaxTime, writable \in BOOLEAN
  PROVE  Counts(Roll(l), t, r) /\ Roll(l).day = Day(now)
<1>1. CASE Day(now) = l.day  BY <1>1 DEF Roll
<1>2. CASE Day(now) # l.day
  <2> DEFINE w == IF l.dirty THEN Flush(l) ELSE l
             m == Roll(l)
  <2>1. Day(now) \in Days /\ None \notin Days  BY DayIsADay
  <2>2. Counts(w, t, r) /\ ~w.dirty /\ w.day = l.day
    BY FlushCounts DEF Counts, Remembered, Object
  <2>3. /\ DOMAIN m = Fields
        /\ m.day = Day(now) /\ m.limited = {} /\ m.dirty = w.dirty
        /\ m.n = w.file[Day(now)].n /\ m.base = w.file[Day(now)].sources
        /\ m.file = w.file /\ m.failed = w.failed
    <3>1. m = [w EXCEPT !.day = Day(now), !.order = <<>>, !.table = <<>>, !.limited = {},
                        !.n = w.file[Day(now)].n, !.base = w.file[Day(now)].sources]
      BY <1>2 DEF Roll
    <3>2. DOMAIN w = Fields  BY <2>2 DEF Counts, Object
    <3> HIDE DEF m, w
    <3> QED  BY <3>1, <3>2 DEF Fields
  <2> HIDE DEF m, w
  <2>4. w.file[Day(now)] \in [n : Nat, sources : Nat]  BY <2>1, <2>2 DEF Counts, Object
  <2>5. Object(m)  BY <2>1, <2>2, <2>3, <2>4 DEF Counts, Object
  <2>6. Written(m, t, r)
    <3>1. \A d \in Days : SourcesIn(m, t, d)
      BY <2>2, <2>3 DEF Counts, Written, SourcesIn
    <3>2. ASSUME NEW d \in Days PROVE LimitsIn(m, t, r, d)
      <4>1. CASE d = w.day
        BY <2>1, <2>2, <2>3, <4>1 DEF Counts, Written, LimitsIn, Remembered
      <4>2. CASE d # w.day
        BY <2>2, <2>3, <4>2 DEF Counts, Written, LimitsIn
      <4> QED  BY <4>1, <4>2
    <3> QED  BY <3>1, <3>2 DEF Written
  <2>7. Remembered(m, t, r)
    <3>1. Cardinality({}) = 0  BY FS_EmptySet
    <3>2. m.file[m.day] = w.file[Day(now)]  BY <2>3
    <3>3. Counted(m, t, {})  BY <2>3, <2>4, <3>1, <3>2 DEF Counted
    <3>4. LimitsIn(w, t, r, Day(now))  BY <2>1, <2>2 DEF Counts, Written
    <3>5. m.n <= t[m.day].n /\ (r = 0 /\ m.day \notin m.failed => m.n = t[m.day].n)
      BY <1>2, <2>2, <2>3, <3>4 DEF LimitsIn
    <3>6. m.file[m.day].n = m.n /\ m.file[m.day].sources = m.base + Cardinality(m.limited)
      BY <2>3, <2>4, <3>1, <3>2
    <3>7. ~m.dirty  BY <2>2, <2>3
    <3> QED  BY <2>3, <3>3, <3>5, <3>6, <3>7 DEF Remembered
  <2>8. Counts(m, t, r)  BY <2>2, <2>5, <2>6, <2>7 DEF Counts
  <2> QED  BY <2>3, <2>8 DEF m
<1> QED  BY <1>1, <1>2

LEMMA WaitingCounts ==
  ASSUME NEW l, NEW t, NEW r, Counts(l, t, r), l.day # None, writable \in BOOLEAN
  PROVE  /\ Counts(WriteWaiting(l), t, r)
         /\ WriteWaiting(l).day = l.day /\ WriteWaiting(l).limited = l.limited
BY FlushCounts DEF WriteWaiting

\* What was told once s is told it is over a limit (Tell).
Telling(t, s, limited) ==
    [t EXCEPT ![Day(now)].sources = @ \cup {s}, ![Day(now)].n = @ + 1,
              ![Day(now)].missed = IF writable \/ s \in limited THEN @ ELSE @ \cup {s}]

LEMMA LimitCounts ==
  ASSUME NEW l, NEW t, NEW r, NEW s \in Sources, Counts(l, t, r), l.day = Day(now),
         now \in 0..MaxTime, writable \in BOOLEAN
  PROVE  Counts(Limit(l, s), Telling(t, s, l.limited), r)
<1> DEFINE D == Day(now)
           u == Telling(t, s, l.limited)
           first == s \notin l.limited /\ Cardinality(l.limited) < MaxSources
           m == [l EXCEPT !.n = @ + 1, !.dirty = TRUE,
                          !.limited = IF first THEN @ \cup {s} ELSE @]
<1>1. D \in Days /\ D # None  BY DayIsADay
<1>2. /\ l.limited \in SUBSET Sources /\ l.n \in Nat /\ l.base \in Nat /\ DOMAIN l = Fields
      /\ l.file[D] \in [n : Nat, sources : Nat]
      /\ t[D] \in Told /\ t[D].missed \subseteq t[D].sources
  BY <1>1 DEF Counts, Object, History
<1>3. /\ u \in [Days -> Told] /\ \A d \in Days \ {D} : u[d] = t[d]
      /\ u[D].sources = t[D].sources \cup {s} /\ u[D].n = t[D].n + 1
      /\ u[D].missed = IF writable \/ s \in l.limited THEN t[D].missed ELSE t[D].missed \cup {s}
  <2>1. u[D] = [sources |-> t[D].sources \cup {s}, n |-> t[D].n + 1,
                missed |-> IF writable \/ s \in l.limited THEN t[D].missed
                                                          ELSE t[D].missed \cup {s}]
    BY <1>1, <1>2 DEF Counts, History, Told, Telling
  <2>2. DOMAIN u = Days /\ \A d \in Days \ {D} : u[d] = t[d]
    BY <1>1 DEF Counts, History, Telling
  <2>3. u[D] \in Told  BY <1>2, <2>1 DEF Told
  <2>4. u = [d \in Days |-> u[d]]  BY <1>1 DEF Counts, History, Telling
  <2>5. \A d \in Days : u[d] \in Told  BY <2>2, <2>3 DEF Counts, History
  <2> HIDE DEF u
  <2> QED  BY <2>1, <2>2, <2>4, <2>5
<1>4. /\ DOMAIN m = Fields /\ m.day = D /\ m.dirty /\ m.n = l.n + 1 /\ m.base = l.base
      /\ m.limited = (IF first THEN l.limited \cup {s} ELSE l.limited)
      /\ m.file = l.file /\ m.failed = l.failed /\ m.dirty \in BOOLEAN
  BY <1>2 DEF Fields
<1>5. Limit(l, s) = IF first THEN Flush(m) ELSE WriteWaiting(m)  BY DEF Limit
<1> HIDE DEF u, m, first, D
<1>6. History(u)
  <2>1. u[D].missed \subseteq u[D].sources  BY <1>2, <1>3
  <2> QED  BY <1>3, <2>1 DEF History, Counts
<1>7. Object(m)  BY <1>1, <1>2, <1>4 DEF Counts, Object
<1>8. \A d \in Days : LimitsIn(m, u, r, d)
  BY <1>1, <1>2, <1>3, <1>4 DEF Counts, Written, LimitsIn, D, Told
<1>9. \A d \in Days \ {D} : SourcesIn(m, u, d)
  BY <1>3, <1>4 DEF Counts, Written, SourcesIn
<1>10. PICK C \in SUBSET Sources : Counted(l, t, C)  BY <1>1 DEF Counts, Remembered, D
<1>11. /\ C \in SUBSET l.limited /\ l.file[D].sources = l.base + Cardinality(C)
       /\ l.limited \ C \subseteq t[D].missed
  BY <1>10 DEF Counted, D
<1>12. /\ Cardinality(C) \in Nat /\ IsFiniteSet(C)
       /\ Cardinality(l.limited) \in Nat /\ IsFiniteSet(l.limited)
       /\ Cardinality(t[D].missed) \in Nat /\ IsFiniteSet(t[D].missed)
       /\ Cardinality(t[D].sources) \in Nat /\ IsFiniteSet(t[D].sources)
       /\ Cardinality(C) <= Cardinality(l.limited)
  BY <1>2, <1>10, <1>11, SourcesFinite, FS_Subset DEF Told
<1>13. l.limited \subseteq t[D].sources /\ l.n <= t[D].n
       /\ (r = 0 /\ D \notin l.failed => l.n = t[D].n)
  BY <1>1 DEF Counts, Remembered, D
<1>14. l.file[D].sources + Cardinality(t[D].missed)
         >= Least(Cardinality(t[D].sources), MaxSources)
  BY <1>1 DEF Counts, Written, SourcesIn
<1>15. /\ Cardinality(u[D].sources) = IF s \in t[D].sources THEN Cardinality(t[D].sources)
                                                            ELSE Cardinality(t[D].sources) + 1
       /\ Cardinality(u[D].missed) = IF u[D].missed = t[D].missed THEN Cardinality(t[D].missed)
                                                                  ELSE Cardinality(t[D].missed) + 1
  <2>1. s \in t[D].missed => t[D].missed \cup {s} = t[D].missed  OBVIOUS
  <2>2. s \notin t[D].missed => t[D].missed \cup {s} # t[D].missed  OBVIOUS
  <2>3. Cardinality(t[D].missed \cup {s}) = IF s \in t[D].missed THEN Cardinality(t[D].missed)
                                                                 ELSE Cardinality(t[D].missed) + 1
    BY <1>12, FS_AddElement
  <2>4. Cardinality(t[D].sources \cup {s}) = IF s \in t[D].sources THEN Cardinality(t[D].sources)
                                                                   ELSE Cardinality(t[D].sources) + 1
    BY <1>12, FS_AddElement
  <2> QED  BY <1>3, <2>1, <2>2, <2>3, <2>4
<1>16. l.file[D].sources \in Nat /\ MaxSources \in Nat  BY <1>2, Lengths
<1>17. CASE first /\ writable
  <2> DEFINE w == Flush(m)
             totals == [n |-> m.n, sources |-> m.base + Cardinality(m.limited)]
  <2>1. /\ m.limited = l.limited \cup {s} /\ u[D].missed = t[D].missed
        /\ Cardinality(m.limited) = Cardinality(l.limited) + 1
    <3>1. s \notin l.limited /\ writable  BY <1>17 DEF first
    <3>2. m.limited = l.limited \cup {s}  BY <1>4, <1>17
    <3>3. Cardinality(l.limited \cup {s}) = Cardinality(l.limited) + 1
      BY <1>12, <3>1, FS_AddElement
    <3> QED  BY <1>3, <3>1, <3>2, <3>3
  <2>2. /\ DOMAIN w = Fields /\ ~w.dirty /\ w.dirty \in BOOLEAN
        /\ w.day = D /\ w.limited = m.limited /\ w.n = m.n /\ w.base = m.base
        /\ w.file = [m.file EXCEPT ![D] = totals] /\ w.failed = m.failed
    BY <1>4, <1>17 DEF Flush, Fields
  <2>3. totals \in [n : Nat, sources : Nat]  BY <1>2, <1>4, <1>12, <2>1
  <2>4. /\ w.file \in [Days -> [n : Nat, sources : Nat]] /\ w.file[D] = totals
        /\ \A d \in Days \ {D} : w.file[d] = m.file[d]
    BY <1>1, <1>4, <1>7, <2>2, <2>3 DEF Object
  <2>5. w.file[D].n = l.n + 1 /\ w.file[D].sources = l.base + Cardinality(l.limited) + 1
    BY <1>2, <1>4, <1>12, <2>1, <2>4
  <2> HIDE DEF w, totals
  <2>6. Object(w)  BY <1>7, <2>2, <2>4 DEF Object
  <2>7. SourcesIn(w, u, D)
    BY <1>2, <1>11, <1>12, <1>14, <1>15, <1>16, <2>1, <2>5 DEF SourcesIn, Least
  <2>8. \A d \in Days \ {D} : SourcesIn(w, u, d)  BY <1>9, <2>4 DEF SourcesIn
  <2>9. \A d \in Days : LimitsIn(w, u, r, d)
    BY <1>1, <1>2, <1>3, <1>4, <1>8, <1>13, <2>2, <2>4, <2>5 DEF LimitsIn, Told
  <2>10. Counted(w, u, w.limited)
    BY <1>2, <1>4, <1>12, <2>1, <2>2, <2>5 DEF Counted
  <2>11. w.limited \in SUBSET Sources  BY <2>6 DEF Object
  <2>12. Remembered(w, u, r)
    BY <1>1, <1>2, <1>3, <1>4, <1>12, <1>13, <2>1, <2>2, <2>5, <2>10, <2>11 DEF Remembered, Told
  <2> QED  BY <1>5, <1>6, <1>17, <2>6, <2>7, <2>8, <2>9, <2>12 DEF Counts, Written, w, u
<1>18. CASE ~(first /\ writable)
  <2>1. SourcesIn(m, u, D)
    <3>1. CASE s \in l.limited
      BY <1>3, <1>4, <1>13, <1>14, <1>15, <3>1 DEF SourcesIn
    <3>2. CASE s \notin l.limited /\ ~writable
      <4>1. u[D].missed = t[D].missed \cup {s}  BY <1>3, <3>2
      <4>2. s \notin t[D].sources => u[D].missed # t[D].missed  BY <1>2, <4>1
      <4> QED  BY <1>4, <1>12, <1>14, <1>15, <1>16, <4>2 DEF SourcesIn, Least
    <3>3. CASE s \notin l.limited /\ Cardinality(l.limited) >= MaxSources
      <4>1. Cardinality(l.limited \ C) = Cardinality(l.limited) - Cardinality(C)
        <5>1. l.limited \cap C = C  BY <1>11
        <5> QED  BY <1>12, <5>1, FS_Difference
      <4>2. Cardinality(l.limited \ C) <= Cardinality(t[D].missed)
        BY <1>11, <1>12, FS_Subset
      <4>3. l.file[D].sources + Cardinality(t[D].missed) >= MaxSources
        BY <1>2, <1>11, <1>12, <1>16, <3>3, <4>1, <4>2
      <4> QED  BY <1>4, <1>12, <1>15, <1>16, <4>3 DEF SourcesIn, Least
    <3> QED  BY <1>12, <1>16, <1>18, <3>1, <3>2, <3>3 DEF first
  <2>2. Written(m, u, r)  BY <1>8, <1>9, <2>1 DEF Written
  <2>3. Counted(m, u, C)  BY <1>3, <1>4, <1>11, <1>18 DEF Counted
  <2>4. Remembered(m, u, r)
    BY <1>1, <1>2, <1>3, <1>4, <1>13, <2>3 DEF Remembered, Told
  <2>5. Counts(m, u, r)  BY <1>6, <1>7, <2>2, <2>4 DEF Counts
  <2>6. m.day # None  BY <1>1, <1>4
  <2> QED  BY <1>5, <2>5, <2>6, FlushCounts, WaitingCounts DEF u
<1> QED  BY <1>17, <1>18

-----------------------------------------------------------------------------
(* A plugin's life.                                                         *)

LEMMA InitCounts == Init => CountInv
<1> SUFFICES ASSUME Init PROVE CountInv  OBVIOUS
<1> DEFINE zero == [n |-> 0, sources |-> 0]
<1>1. /\ limits.file = [d \in Days |-> zero] /\ limits.day = None
      /\ ~limits.dirty /\ limits.dirty \in BOOLEAN
      /\ limits.limited = {} /\ limits.n = 0 /\ limits.base = 0 /\ limits.failed = {}
      /\ DOMAIN limits = Fields
  BY DEF Init, New, NotCounted, Fields
<1>2. told = [d \in Days |-> [sources |-> {}, n |-> 0, missed |-> {}]]  BY DEF Init
<1>3. Object(limits)
  <2>1. zero \in [n : Nat, sources : Nat]  OBVIOUS
  <2> HIDE DEF zero
  <2> QED  BY <1>1, <2>1 DEF Object
<1>4. History(told)  BY <1>2 DEF History, Told
<1>5. Written(limits, told, restarts)
  <2>1. Cardinality({}) = 0 /\ Least(0, MaxSources) = 0  BY Lengths, FS_EmptySet DEF Least
  <2>2. \A d \in Days : limits.file[d].n = 0 /\ limits.file[d].sources = 0  BY <1>1
  <2>3. \A d \in Days : told[d].sources = {} /\ told[d].n = 0 /\ told[d].missed = {}  BY <1>2
  <2>4. ASSUME NEW d \in Days PROVE SourcesIn(limits, told, d)
    <3>1. /\ limits.file[d].sources = 0 /\ Cardinality(told[d].missed) = 0
          /\ Least(Cardinality(told[d].sources), MaxSources) = 0
      BY <2>1, <2>2, <2>3
    <3> QED  BY <3>1 DEF SourcesIn
  <2>5. \A d \in Days : LimitsIn(limits, told, restarts, d)  BY <2>2, <2>3 DEF LimitsIn
  <2> QED  BY <2>4, <2>5 DEF Written
<1>6. Remembered(limits, told, restarts)  BY <1>1 DEF Remembered
<1> QED  BY <1>3, <1>4, <1>5, <1>6, Lengths DEF Init, CountInv, Counts

\* A new plugin has the file, and no counts of its own.
LEMMA NewCounts == ASSUME NEW l, NEW t, NEW r \in Nat, Counts(l, t, r)
                   PROVE  Counts(New(l), t, r + 1)
<1> DEFINE m == New(l)
<1>1. /\ m.file = l.file /\ m.failed = l.failed /\ m.day = None /\ ~m.dirty /\ m.dirty \in BOOLEAN
      /\ m.limited = {} /\ m.n = 0 /\ m.base = 0 /\ DOMAIN m = Fields
  BY DEF New, Fields
<1> HIDE DEF m
<1>2. Object(m)  BY <1>1 DEF Counts, Object
<1>3. Written(m, t, r + 1)  BY <1>1 DEF Counts, Written, SourcesIn, LimitsIn
<1>4. Remembered(m, t, r + 1)  BY <1>1 DEF Remembered
<1> QED  BY <1>2, <1>3, <1>4 DEF Counts, m

\* What check has done when it looks at a source.
LEMMA LookedCounts ==
  ASSUME CountInv, NEW s
  PROVE  /\ Counts(Looked(s), told, restarts)
         /\ Looked(s).day = Day(now) /\ Looked(s).limited = Roll(limits).limited
<1> DEFINE l == Roll(limits)  w == WriteWaiting(l)
<1>1. Counts(l, told, restarts) /\ l.day = Day(now)  BY RollCounts DEF CountInv
<1>2. l.day # None  BY <1>1, DayIsADay DEF CountInv
<1>3. Counts(w, told, restarts) /\ w.day = l.day /\ w.limited = l.limited
  BY <1>1, <1>2, WaitingCounts DEF CountInv
<1>4. Same(w, Source(w, s))  BY <1>3, SourceSame DEF Counts
<1>5. Counts(Source(w, s), told, restarts)  BY <1>3, <1>4, SameCounts
<1> QED  BY <1>1, <1>3, <1>4, <1>5 DEF Looked, Same

LEMMA OverCounts ==
  ASSUME CountInv, NEW s \in Sources, NEW size \in Sizes, CheckOver(s, size)
  PROVE  CountInv'
<1>1. /\ now' = now /\ writable' = writable /\ restarts' = restarts
      /\ told' = Telling(told, s, Looked(s).limited)
  BY LookedCounts DEF CheckOver, Begin, Tell, Telling
<1>2. PICK l : /\ l = Looked(s) \/ l = [Looked(s) EXCEPT !.table[s] = Filled(s)]
               /\ limits' = Limit(l, s)
  BY DEF CheckOver
<1>3. Same(Looked(s), l)
  <2>1. Object(Looked(s))  BY LookedCounts DEF Counts
  <2>2. CASE l = Looked(s)  BY <2>2 DEF Same
  <2>3. CASE l = [Looked(s) EXCEPT !.table[s] = Filled(s)]  BY <2>1, <2>3, TableSame
  <2> QED  BY <1>2, <2>2, <2>3
<1>4. Counts(l, told, restarts) /\ l.day = Day(now) /\ l.limited = Looked(s).limited
  BY <1>3, LookedCounts, SameCounts DEF Same
<1>5. Counts(limits', told', restarts)
  BY <1>1, <1>2, <1>4, LimitCounts DEF CountInv
<1> QED  BY <1>1, <1>5 DEF CountInv

LEMMA CountStep == CountInv /\ [Next]_vars => CountInv'
<1> SUFFICES ASSUME CountInv, [Next]_vars PROVE CountInv'  OBVIOUS
<1>1. ASSUME NEW s \in Sources, NEW size \in Sizes, CheckOver(s, size) PROVE CountInv'
  BY <1>1, OverCounts
<1>2. ASSUME NEW s \in Sources, NEW size \in Sizes, CheckPass(s, size) PROVE CountInv'
  <2>1. /\ now' = now /\ writable' = writable /\ restarts' = restarts /\ told' = told
        /\ limits' = [Looked(s) EXCEPT !.table[s] =
                        [Filled(s) EXCEPT !.tokens = @ - Refill, !.events = @ + 1, !.bytes = @ + size]]
    BY <1>2 DEF CheckPass, Begin
  <2>2. Same(Looked(s), limits')  BY <2>1, LookedCounts, TableSame DEF Counts
  <2> QED  BY <2>1, <2>2, LookedCounts, SameCounts DEF CountInv
<1>3. CASE JudgedRefused
  <2> DEFINE l == Source(Roll(limits), judging)
  <2>1. PICK x : limits' = [l EXCEPT !.table[judging] = x]  BY <1>3 DEF JudgedRefused
  <2>2. Counts(Roll(limits), told, restarts)  BY RollCounts DEF CountInv
  <2>3. Counts(l, told, restarts)  BY <2>2, SourceSame, SameCounts DEF Counts
  <2>4. Counts(limits', told, restarts)  BY <2>1, <2>3, TableSame, SameCounts DEF Counts
  <2> QED  BY <1>3, <2>4 DEF JudgedRefused, CountInv, bounds
<1>4. CASE Quiet
  BY <1>4, FlushCounts DEF Quiet, Due, CountInv, Counts, Remembered, bounds
<1>5. CASE Tick
  BY <1>5, Lengths DEF Tick, CountInv, bounds
<1>6. CASE SetBack
  BY <1>6, Lengths DEF SetBack, CountInv
<1>7. CASE Outage
  BY <1>7 DEF Outage, CountInv
<1>8. CASE Stop
  <2>1. CASE limits.dirty
    <3>1. Counts(Flush(limits), told, restarts)
      BY <2>1, FlushCounts DEF CountInv, Counts, Remembered
    <3> QED  BY <1>8, <2>1, <3>1, NewCounts DEF Stop, Forget, CountInv
  <2>2. CASE ~limits.dirty
    BY <1>8, <2>2, NewCounts DEF Stop, Forget, CountInv
  <2> QED  BY <2>1, <2>2
<1>9. CASE Crash
  BY <1>9, NewCounts DEF Crash, Forget, CountInv
<1>10. CASE JudgedQuiet \/ Wait \/ UNCHANGED vars
  BY <1>10 DEF JudgedQuiet, Wait, vars, bounds, CountInv
<1> QED  BY <1>1, <1>2, <1>3, <1>4, <1>5, <1>6, <1>7, <1>8, <1>9, <1>10 DEF Next

LEMMA CountInvariant == Spec => []CountInv
BY InitCounts, CountStep, PTL DEF Spec

(* Of every day the file counts at least as many limited sources as were     *)
(* told, up to MAX_SOURCES, but for those first told during an outage        *)
(* (_roll, _limit, _flush).                                                  *)
THEOREM SourcesCounted == Spec => []LimitedSourcesCounted
<1>1. CountInv => LimitedSourcesCounted
  BY DEF CountInv, Counts, Written, SourcesIn, LimitedSourcesCounted
<1> QED  BY <1>1, CountInvariant, PTL

(* The file never claims more limits than were hit, and a day that is over   *)
(* has all of its own there, unless a plugin stopped or a write failed       *)
(* (_roll, _flush, write_waiting).                                           *)
THEOREM CountsKept == Spec => []CountsAgree
<1>1. CountInv => CountsAgree
  BY DEF CountInv, Counts, Object, Written, LimitsIn, Remembered, CountsAgree
<1> QED  BY <1>1, CountInvariant, PTL

-----------------------------------------------------------------------------
(* The queue and the table of the sources.                                  *)

Queue(l) == /\ l.order \in Seq(Sources) /\ IsInjective(l.order) /\ Len(l.order) <= MaxSources
            /\ l.table \in [Known(l) -> Entry]

\* Of the sources known, those seen since are behind it; of any other source
\* that has been seen, too many have been seen since (o as others).
Seen(order, o) ==
    /\ \A i, j \in 1..Len(order) : i < j => order[j] \in o[order[i]]
    /\ \A s \in Sources : s \notin ToSet(order) => s \in o[s] \/ Cardinality(o[s]) >= MaxSources

Seeing(s, o) == [q \in Sources |-> IF q = s THEN {} ELSE o[q] \cup {s}]

LEMMA FreshEntry == ASSUME now \in Nat PROVE Fresh \in Entry
BY LimitsAssumption DEF Fresh, Entry

LEMMA InQueue == ASSUME NEW order \in Seq(Sources), NEW s
                 PROVE  s \in ToSet(order) <=> \E i \in 1..Len(order) : order[i] = s
BY DEF ToSet

(* A known source moves to the end.                                          *)
LEMMA Moved ==
  ASSUME NEW order \in Seq(Sources), IsInjective(order), NEW s \in ToSet(order),
         NEW moved, moved = MovedToEnd(order, s)
  PROVE  \E p \in 1..Len(order) :
            /\ order[p] = s /\ moved \in Seq(Sources) /\ Len(moved) = Len(order)
            /\ \A i \in 1..Len(order) :
                  moved[i] = IF i = Len(order) THEN s ELSE IF i < p THEN order[i] ELSE order[i + 1]
            /\ IsInjective(moved) /\ ToSet(moved) = ToSet(order)
<1> DEFINE n == Len(order)
           p == CHOOSE i \in 1..n : order[i] = s
<1>1. p \in 1..n /\ order[p] = s  BY InQueue
<1>2. moved = [i \in 1..n |-> IF i = n THEN s ELSE IF i < p THEN order[i] ELSE order[i + 1]]
  BY DEF MovedToEnd
<1>3. n \in Nat /\ DOMAIN order = 1..n /\ \A i \in 1..n : order[i] \in Sources  OBVIOUS
<1> HIDE DEF p, n
<1>4. moved \in [1..n -> Sources]
  <2>1. s \in Sources  BY <1>1, <1>3
  <2> QED BY <1>1, <1>2, <1>3, <2>1
<1>5. moved \in Seq(Sources) /\ Len(moved) = n /\ DOMAIN moved = 1..n  BY <1>3, <1>4
<1>6. \A i, j \in 1..n : order[i] = order[j] => i = j  BY <1>3 DEF IsInjective
<1>7. \A i, j \in 1..n : moved[i] = moved[j] => i = j
  BY <1>1, <1>2, <1>3, <1>6
<1>8. IsInjective(moved)  BY <1>5, <1>7 DEF IsInjective
<1>9. ToSet(moved) = ToSet(order)
  <2>0. \A i \in 1..n : moved[i] = IF i = n THEN s ELSE IF i < p THEN order[i] ELSE order[i + 1]
    BY <1>2
  <2>1. ASSUME NEW i \in 1..n PROVE \E k \in 1..n : moved[i] = order[k]
    <3>1. CASE i = n  BY <1>1, <2>0, <3>1
    <3>2. CASE i # n /\ i < p  BY <2>0, <3>2
    <3>3. CASE i # n /\ ~(i < p)
      <4>1. i + 1 \in 1..n /\ moved[i] = order[i + 1]  BY <1>3, <2>0, <3>3
      <4> QED BY <4>1
    <3> QED BY <3>1, <3>2, <3>3
  <2>2. ASSUME NEW i \in 1..n PROVE \E k \in 1..n : order[i] = moved[k]
    <3>1. CASE i = p
      <4>1. n \in 1..n /\ moved[n] = s  BY <1>1, <1>3, <2>0
      <4> QED BY <1>1, <3>1, <4>1
    <3>2. CASE i < p
      <4>1. moved[i] = order[i]  BY <1>1, <1>3, <2>0, <3>2
      <4> QED BY <4>1
    <3>3. CASE i > p
      <4>1. i - 1 \in 1..n /\ moved[i - 1] = order[i]  BY <1>1, <1>3, <2>0, <3>3
      <4> QED BY <4>1
    <3> QED BY <1>1, <3>1, <3>2, <3>3
  <2>3. \A x : x \in ToSet(order) <=> \E i \in 1..n : order[i] = x  BY InQueue DEF n
  <2>4. \A x : x \in ToSet(moved) <=> \E i \in 1..n : moved[i] = x  BY <1>5, InQueue
  <2>5. \A x : x \in ToSet(moved) <=> x \in ToSet(order)  BY <2>1, <2>2, <2>3, <2>4
  <2> QED BY <2>5
<1> QED BY <1>1, <1>2, <1>5, <1>8, <1>9 DEF n

(* A new one comes after those kept.                                         *)
LEMMA Joined ==
  ASSUME NEW kept \in Seq(Sources), IsInjective(kept), NEW s \in Sources, s \notin ToSet(kept)
  PROVE  LET joined == Append(kept, s)
         IN  /\ joined \in Seq(Sources) /\ Len(joined) = Len(kept) + 1 /\ IsInjective(joined)
             /\ ToSet(joined) = ToSet(kept) \cup {s}
             /\ joined[Len(kept) + 1] = s /\ \A i \in 1..Len(kept) : joined[i] = kept[i]
<1> DEFINE n == Len(kept)  joined == Append(kept, s)
<1>1. /\ n \in Nat /\ joined \in Seq(Sources) /\ Len(joined) = n + 1 /\ joined[n + 1] = s
      /\ \A i \in 1..n : joined[i] = kept[i]
      /\ DOMAIN kept = 1..n /\ DOMAIN joined = 1..(n + 1)
  OBVIOUS
<1> HIDE DEF joined, n
<1>2. \A i \in 1..n : kept[i] # s  BY <1>1 DEF ToSet
<1>3. IsInjective(joined)  BY <1>1, <1>2 DEF IsInjective
<1>4. ToSet(joined) = ToSet(kept) \cup {s}
  <2>1. \A i \in 1..(n + 1) : joined[i] \in ToSet(kept) \cup {s}  BY <1>1 DEF ToSet
  <2>2. \A i \in 1..n : kept[i] \in ToSet(joined)  BY <1>1 DEF ToSet
  <2>3. s \in ToSet(joined)  BY <1>1 DEF ToSet
  <2> QED BY <1>1, <2>1, <2>2, <2>3 DEF ToSet
<1> QED BY <1>1, <1>3, <1>4 DEF joined, n

(* The first of a queue goes.                                                *)
LEMMA Dropped ==
  ASSUME NEW order \in Seq(Sources), IsInjective(order), order # <<>>
  PROVE  /\ Tail(order) \in Seq(Sources) /\ Len(Tail(order)) = Len(order) - 1
         /\ \A i \in 1..(Len(order) - 1) : Tail(order)[i] = order[i + 1]
         /\ IsInjective(Tail(order)) /\ ToSet(Tail(order)) = ToSet(order) \ {order[1]}
<1> DEFINE n == Len(order)  tail == Tail(order)
<1>1. /\ n \in Nat \ {0} /\ tail \in Seq(Sources) /\ Len(tail) = n - 1
      /\ \A i \in 1..(n - 1) : tail[i] = order[i + 1]
      /\ DOMAIN order = 1..n /\ DOMAIN tail = 1..(n - 1)
  OBVIOUS
<1> HIDE DEF tail, n
<1>2. \A i, j \in 1..n : order[i] = order[j] => i = j  BY <1>1 DEF IsInjective
<1>3. IsInjective(tail)
  <2>1. ASSUME NEW i \in 1..(n - 1), NEW j \in 1..(n - 1), tail[i] = tail[j] PROVE i = j
    <3>1. i + 1 \in 1..n /\ j + 1 \in 1..n /\ order[i + 1] = order[j + 1]  BY <1>1, <2>1
    <3> QED BY <1>2, <3>1
  <2> QED BY <1>1, <2>1 DEF IsInjective
<1>4. ToSet(tail) = ToSet(order) \ {order[1]}
  <2>1. ASSUME NEW i \in 1..(n - 1) PROVE tail[i] \in ToSet(order) \ {order[1]}
    <3>1. i + 1 \in 1..n /\ tail[i] = order[i + 1] /\ i + 1 # 1 /\ 1 \in 1..n  BY <1>1
    <3> QED BY <1>1, <1>2, <3>1 DEF ToSet
  <2>2. ASSUME NEW i \in 1..n, order[i] # order[1] PROVE order[i] \in ToSet(tail)
    <3>1. i - 1 \in 1..(n - 1)  BY <1>1, <2>2
    <3>2. tail[i - 1] = order[(i - 1) + 1] /\ (i - 1) + 1 = i  BY <1>1, <3>1
    <3> QED BY <1>1, <3>1, <3>2 DEF ToSet
  <2>3. \A x \in ToSet(tail) : x \in ToSet(order) \ {order[1]}  BY <1>1, <2>1 DEF ToSet
  <2>4. \A x \in ToSet(order) : \E i \in 1..n : x = order[i]  BY <1>1 DEF ToSet
  <2> QED BY <2>2, <2>3, <2>4
<1> QED BY <1>1, <1>3, <1>4 DEF tail, n

(* _source finds or makes the source's entry and leaves the others', but for *)
(* the one it may drop.                                                      *)
LEMMA SourceQueue ==
  ASSUME NEW l, DOMAIN l = Fields, Queue(l), NEW s \in Sources, now \in Nat
  PROVE  LET m == Source(l, s)
         IN  /\ DOMAIN m = Fields /\ Queue(m) /\ s \in Known(m)
             /\ m.table[s] = IF s \in Known(l) THEN l.table[s] ELSE Fresh
             /\ \A q \in Known(m) : q # s => q \in Known(l) /\ m.table[q] = l.table[q]
<1> DEFINE m == Source(l, s)
<1>1. /\ l.order \in Seq(Sources) /\ IsInjective(l.order) /\ Len(l.order) <= MaxSources
      /\ l.table \in [Known(l) -> Entry] /\ MaxSources \in Nat \ {0} /\ Fresh \in Entry
  BY Lengths, FreshEntry DEF Queue
<1>2. CASE s \in Known(l)
  <2>1. m = [l EXCEPT !.order = MovedToEnd(l.order, s)]  BY <1>2 DEF Source
  <2>2. /\ DOMAIN m = Fields /\ m.order = MovedToEnd(l.order, s) /\ m.table = l.table
    BY <2>1 DEF Fields
  <2> HIDE DEF m
  <2>3. /\ m.order \in Seq(Sources) /\ Len(m.order) = Len(l.order) /\ IsInjective(m.order)
        /\ ToSet(m.order) = ToSet(l.order)
    BY <1>1, <1>2, <2>2, Moved DEF Known
  <2>4. Known(m) = Known(l)  BY <2>3 DEF Known
  <2> QED BY <1>1, <1>2, <2>2, <2>3, <2>4 DEF Queue, m
<1>3. CASE s \notin Known(l)
  <2> DEFINE kept == IF Len(l.order) >= MaxSources THEN Tail(l.order) ELSE l.order
             table == [q \in ToSet(kept) \cup {s} |-> IF q = s THEN Fresh ELSE l.table[q]]
  <2>1. m = [l EXCEPT !.order = Append(kept, s), !.table = table]  BY <1>3 DEF Source
  <2>2. /\ kept \in Seq(Sources) /\ IsInjective(kept) /\ ToSet(kept) \subseteq Known(l)
        /\ Len(kept) + 1 <= MaxSources
    <3>1. CASE Len(l.order) >= MaxSources
      <4>1. kept = Tail(l.order) /\ l.order # <<>>  BY <1>1, <3>1
      <4>2. Len(l.order) = MaxSources  BY <1>1, <3>1
      <4> HIDE DEF kept
      <4> QED BY <1>1, <4>1, <4>2, Dropped DEF Known
    <3>2. CASE ~(Len(l.order) >= MaxSources)
      <4>1. kept = l.order  BY <3>2
      <4> HIDE DEF kept
      <4> QED BY <1>1, <3>2, <4>1 DEF Known
    <3> QED BY <3>1, <3>2
  <2> HIDE DEF kept
  <2>3. s \notin ToSet(kept)  BY <1>3, <2>2
  <2>4. /\ Append(kept, s) \in Seq(Sources) /\ Len(Append(kept, s)) = Len(kept) + 1
        /\ IsInjective(Append(kept, s)) /\ ToSet(Append(kept, s)) = ToSet(kept) \cup {s}
    BY <2>2, <2>3, Joined
  <2>5. DOMAIN m = Fields /\ m.order = Append(kept, s) /\ m.table = table
    BY <2>1 DEF Fields
  <2>6. Known(m) = ToSet(kept) \cup {s}  BY <2>4, <2>5 DEF Known
  <2>7. \A q \in ToSet(kept) \cup {s} : table[q] = IF q = s THEN Fresh ELSE l.table[q]
    OBVIOUS
  <2>8. table \in [ToSet(kept) \cup {s} -> Entry]  BY <1>1, <2>2
  <2> HIDE DEF table, m
  <2>9. Queue(m)  BY <2>2, <2>4, <2>5, <2>6, <2>8 DEF Queue
  <2>10. m.table[s] = Fresh  BY <2>5, <2>7
  <2>11. \A q \in Known(m) : q # s => q \in Known(l) /\ m.table[q] = l.table[q]
    BY <2>2, <2>5, <2>6, <2>7
  <2> QED BY <1>3, <2>5, <2>6, <2>9, <2>10, <2>11 DEF m
<1> QED BY <1>2, <1>3

(* A full queue's first has seen MAX_SOURCES others when a new one comes.    *)
LEMMA SeenEnough ==
  ASSUME NEW order \in Seq(Sources), IsInjective(order), Len(order) = MaxSources,
         NEW o \in [Sources -> SUBSET Sources], Seen(order, o),
         NEW s \in Sources, s \notin ToSet(order)
  PROVE  order[1] \in Sources /\ Cardinality(o[order[1]] \cup {s}) >= MaxSources
<1> DEFINE T == o[order[1]] \cup {s}
           f == [i \in 1..MaxSources |-> IF i = 1 THEN s ELSE order[i]]
<1>1. MaxSources \in Nat \ {0} /\ DOMAIN order = 1..MaxSources  BY Lengths
<1>2. order[1] \in Sources /\ T \in SUBSET Sources /\ IsFiniteSet(T) /\ Cardinality(T) \in Nat
  <2>1. order[1] \in Sources  BY <1>1
  <2>2. T \in SUBSET Sources  BY <2>1
  <2> QED BY <2>1, <2>2, SourcesFinite
<1>3. \A i \in 2..MaxSources : order[i] \in o[order[1]] /\ order[i] # s
  BY <1>1 DEF Seen, ToSet
<1>4. f \in [1..MaxSources -> T]  BY <1>1, <1>3
<1>5. \A i, j \in 1..MaxSources : order[i] = order[j] => i = j  BY <1>1 DEF IsInjective
<1>6. \A i, j \in 1..MaxSources : f[i] = f[j] => i = j  BY <1>1, <1>3, <1>5
<1> HIDE DEF f, T
<1>7. f \in Injection(1..MaxSources, T)
  BY <1>4, <1>6 DEF Injection, IsInjective
<1>8. Cardinality(1..MaxSources) <= Cardinality(T)  BY <1>2, <1>7, FS_Injection
<1>9. Cardinality(1..MaxSources) = MaxSources  BY <1>1, FS_Interval
<1> QED BY <1>1, <1>2, <1>8, <1>9 DEF T

LEMMA SourceSeen ==
  ASSUME NEW l, DOMAIN l = Fields, Queue(l), NEW s \in Sources,
         NEW o \in [Sources -> SUBSET Sources], Seen(l.order, o)
  PROVE  Seen(Source(l, s).order, Seeing(s, o)) /\ Seeing(s, o) \in [Sources -> SUBSET Sources]
<1> DEFINE m == Source(l, s)
           o2 == Seeing(s, o)
<1>1. /\ l.order \in Seq(Sources) /\ IsInjective(l.order) /\ Len(l.order) <= MaxSources
      /\ MaxSources \in Nat \ {0}
  BY Lengths DEF Queue
<1>2. o2 \in [Sources -> SUBSET Sources] /\ \A q \in Sources : q # s => o2[q] = o[q] \cup {s}
  BY DEF Seeing
<1> HIDE DEF o2
<1>3. ASSUME NEW q \in Sources, q # s, q \in o[q] \/ Cardinality(o[q]) >= MaxSources
      PROVE  q \in o2[q] \/ Cardinality(o2[q]) >= MaxSources
  <2>1. o2[q] = o[q] \cup {s} /\ o[q] \in SUBSET o2[q] /\ o2[q] \in SUBSET Sources  BY <1>2, <1>3
  <2>2. Cardinality(o[q]) <= Cardinality(o2[q]) /\ Cardinality(o[q]) \in Nat /\ Cardinality(o2[q]) \in Nat
    BY <2>1, SourcesFinite, FS_Subset
  <2> QED BY <1>1, <1>3, <2>1, <2>2
<1>4. CASE s \in Known(l)
  <2>1. m.order = MovedToEnd(l.order, s)
    <3>1. m = [l EXCEPT !.order = MovedToEnd(l.order, s)]  BY <1>4 DEF Source
    <3> QED BY <3>1 DEF Fields
  <2> HIDE DEF m
  <2>2. PICK p \in 1..Len(l.order) :
           /\ l.order[p] = s /\ m.order \in Seq(Sources) /\ Len(m.order) = Len(l.order)
           /\ \A i \in 1..Len(l.order) :
                 m.order[i] = IF i = Len(l.order) THEN s ELSE IF i < p THEN l.order[i] ELSE l.order[i + 1]
           /\ IsInjective(m.order) /\ ToSet(m.order) = ToSet(l.order)
    <3>1. l.order \in Seq(Sources) /\ IsInjective(l.order) /\ s \in ToSet(l.order)
      BY <1>1, <1>4 DEF Known
    <3> QED BY <2>1, <3>1, Moved
  <2> DEFINE n == Len(l.order)
  <2>3. n \in Nat /\ DOMAIN l.order = 1..n /\ DOMAIN m.order = 1..n /\ \A i \in 1..n : l.order[i] \in Sources
    BY <1>1, <2>2
  <2>4. ASSUME NEW i \in 1..n, NEW j \in 1..n, i < j PROVE m.order[j] \in o2[m.order[i]]
    <3>1. \A x, y \in 1..n : l.order[x] = l.order[y] => x = y  BY <1>1, <2>3 DEF IsInjective
    <3> DEFINE a == IF i < p THEN i ELSE i + 1
    <3>2. a \in 1..n /\ a # p /\ m.order[i] = l.order[a]  BY <2>2, <2>3, <2>4
    <3>3. m.order[i] # s /\ m.order[i] \in Sources  BY <2>2, <2>3, <3>1, <3>2
    <3>4. o2[m.order[i]] = o[l.order[a]] \cup {s}  BY <1>2, <3>2, <3>3
    <3>5. CASE j = n  BY <2>2, <2>3, <3>4, <3>5
    <3>6. CASE j # n
      <4> DEFINE b == IF j < p THEN j ELSE j + 1
      <4>1. b \in 1..n /\ m.order[j] = l.order[b] /\ a < b  BY <2>2, <2>3, <2>4, <3>6
      <4> HIDE DEF a, b
      <4>2. l.order[b] \in o[l.order[a]]  BY <3>2, <4>1 DEF Seen
      <4> QED BY <3>4, <4>1, <4>2
    <3> QED BY <3>5, <3>6
  <2>5. ASSUME NEW q \in Sources, q \notin ToSet(m.order)
        PROVE  q \in o2[q] \/ Cardinality(o2[q]) >= MaxSources
    BY <1>3, <1>4, <2>2, <2>5 DEF Seen, Known
  <2> QED BY <1>2, <2>2, <2>4, <2>5 DEF Seen, m, o2
<1>5. CASE s \notin Known(l)
  <2> DEFINE kept == IF Len(l.order) >= MaxSources THEN Tail(l.order) ELSE l.order
             k == Len(kept)
             d == IF Len(l.order) >= MaxSources THEN 1 ELSE 0
  <2>1. m.order = Append(kept, s)
    <3>1. m = [l EXCEPT !.order = Append(kept, s),
                        !.table = [q \in ToSet(kept) \cup {s} |-> IF q = s THEN Fresh ELSE l.table[q]]]
      BY <1>5 DEF Source
    <3> QED BY <3>1 DEF Fields
  <2>2. /\ kept \in Seq(Sources) /\ IsInjective(kept) /\ k = Len(l.order) - d
        /\ \A i \in 1..k : kept[i] = l.order[i + d]
        /\ ToSet(kept) \subseteq Known(l)
        /\ \A q \in Known(l) : q \notin ToSet(kept) => Len(l.order) = MaxSources /\ q = l.order[1]
    <3>1. CASE Len(l.order) >= MaxSources
      <4>1. kept = Tail(l.order) /\ l.order # <<>> /\ d = 1  BY <1>1, <3>1
      <4>2. Len(l.order) = MaxSources  BY <1>1, <3>1
      <4> HIDE DEF kept, d
      <4> QED BY <1>1, <4>1, <4>2, Dropped DEF Known
    <3>2. CASE ~(Len(l.order) >= MaxSources)
      <4>1. kept = l.order /\ d = 0  BY <3>2
      <4> HIDE DEF kept, d
      <4> QED BY <1>1, <3>2, <4>1 DEF Known
    <3> QED BY <3>1, <3>2
  <2>3. d \in {0, 1}  OBVIOUS
  <2> HIDE DEF kept, d, m
  <2>4. k \in Nat /\ Len(l.order) \in Nat /\ s \notin ToSet(kept)  BY <1>1, <1>5, <2>2
  <2>5. /\ m.order \in Seq(Sources) /\ Len(m.order) = k + 1
        /\ ToSet(m.order) = ToSet(kept) \cup {s}
        /\ m.order[k + 1] = s /\ \A i \in 1..k : m.order[i] = kept[i]
    BY <2>1, <2>2, <2>4, Joined
  <2>6. ASSUME NEW i \in 1..(k + 1), NEW j \in 1..(k + 1), i < j PROVE m.order[j] \in o2[m.order[i]]
    <3>1. i \in 1..k /\ i + d \in 1..Len(l.order) /\ m.order[i] = l.order[i + d]
      BY <2>2, <2>3, <2>4, <2>5, <2>6
    <3>2. m.order[i] \in Sources /\ m.order[i] # s
      BY <1>1, <1>5, <3>1 DEF Known, ToSet
    <3>3. o2[m.order[i]] = o[l.order[i + d]] \cup {s}  BY <1>2, <3>1, <3>2
    <3>4. CASE j = k + 1  BY <2>5, <3>3, <3>4
    <3>5. CASE j # k + 1
      <4>0. j \in 1..k /\ m.order[j] = kept[j] /\ kept[j] = l.order[j + d]
        BY <2>2, <2>4, <2>5, <3>5
      <4>1. j + d \in 1..Len(l.order) /\ m.order[j] = l.order[j + d] /\ i + d < j + d
        BY <2>2, <2>3, <2>4, <2>6, <4>0
      <4>2. l.order[j + d] \in o[l.order[i + d]]  BY <3>1, <4>1 DEF Seen
      <4> QED BY <3>3, <4>1, <4>2
    <3> QED BY <3>4, <3>5
  <2>7. ASSUME NEW q \in Sources, q \notin ToSet(m.order)
        PROVE  q \in o2[q] \/ Cardinality(o2[q]) >= MaxSources
    <3>1. q # s /\ q \notin ToSet(kept)  BY <2>5, <2>7
    <3>2. CASE q \in Known(l)
      <4>1. Len(l.order) = MaxSources /\ q = l.order[1]  BY <2>2, <3>1, <3>2
      <4>2. Cardinality(o[q] \cup {s}) >= MaxSources
        BY <1>1, <1>5, <4>1, SeenEnough DEF Known
      <4> QED BY <1>2, <3>1, <4>2
    <3>3. CASE q \notin Known(l)
      BY <1>3, <3>1, <3>3 DEF Seen, Known
    <3> QED BY <3>2, <3>3
  <2> QED BY <1>2, <2>5, <2>6, <2>7 DEF Seen, m, o2
<1> QED BY <1>4, <1>5

-----------------------------------------------------------------------------
(* A source's log, and its entry against it.                                *)

LogEntry == [what : {"pass", "refused"}, at : Nat, bytes : Nat]
Kind(lg, what, i, j) == {m \in i..j : lg[m].what = what}
Num(lg, what, i, j) == Cardinality(Kind(lg, what, i, j))
InOrderIn(lg, i, p) == \A m, n \in i..p : m <= n => lg[m].at <= lg[n].at
EnoughIn(lg, i, j) ==
    /\ i <= j /\ lg[i].what = "refused" /\ lg[j].what = "refused"
    /\ lg[i].at > lg[j].at - BrakeFor
    /\ Num(lg, "refused", i, j) = BrakeRefusals

\* What a bucket holds, and what k events cost.
Full == Burst * Refill
Bought(k) == Refill * k

\* What a log shows for good.
BurstIn(lg) ==
    \A i, j \in 1..Len(lg) : i <= j /\ lg[i].what = "pass" /\ lg[j].what = "pass" =>
        Bought(Num(lg, "pass", i, j)) <= Full + (lg[j].at - lg[i].at)
DayIn(lg) == Num(lg, "pass", 1, Len(lg)) <= DayEvents /\ BytesOf(lg) <= DayBytes
BrakeIn(lg) ==
    \A i, j, p \in 1..Len(lg) :
        j < p /\ lg[p].what = "pass" /\ EnoughIn(lg, i, j) /\ InOrderIn(lg, i, p) =>
            lg[p].at >= lg[j].at + BrakeFor
LogHolds(lg) == lg \in Seq(LogEntry) /\ BurstIn(lg) /\ DayIn(lg) /\ BrakeIn(lg)

\* An entry's bucket and counts: what was let through since any event was paid for.
Filling(e, lg) ==
    /\ e.tokens <= Full
    /\ \A i \in 1..Len(lg) : lg[i].what = "pass" =>
           e.tokens + Bought(Num(lg, "pass", i, Len(lg))) <= Full + (e.at - lg[i].at)
Counting(e, lg) == e.events = Num(lg, "pass", 1, Len(lg)) /\ e.bytes = BytesOf(lg)

\* Its queue of refusals q and its brake b, last put on by entry c, if by any:
\* the queue holds the refusals since that were an hour apart at most, and
\* after a brake comes an event let through when it has lifted.
Queued(q, lg, c) ==
    /\ Len(q) < BrakeRefusals
    /\ \A k \in 1..Len(q) : \E m \in 1..Len(lg) :
           /\ lg[m].what = "refused" /\ q[k] = lg[m].at
           /\ Num(lg, "refused", m, Len(lg)) = Len(q) - k + 1
    /\ \A m \in (c + 1)..Len(lg) :
           /\ lg[m].what = "refused" /\ InOrderIn(lg, m, Len(lg))
           /\ lg[m].at > lg[Len(lg)].at - BrakeFor
           => Num(lg, "refused", m, Len(lg)) <= Len(q)
BrakedBy(b, lg, c) ==
    /\ c = 0 => b = 0
    /\ c > 0 => /\ b = lg[c].at + BrakeFor /\ lg[c].what = "refused"
                /\ \E i \in 1..c : EnoughIn(lg, i, c)
                /\ c < Len(lg) => lg[c + 1].what = "pass" /\ lg[c + 1].at >= b
    /\ \A i, j \in 1..Len(lg) : EnoughIn(lg, i, j) /\ InOrderIn(lg, i, j) => j <= c
Braking(q, b, lg) == \E c \in 0..Len(lg) : Queued(q, lg, c) /\ BrakedBy(b, lg, c)

EntryHolds(e, lg) == /\ e \in Entry /\ Filling(e, lg) /\ Counting(e, lg)
                     /\ Braking(e.refused, e.brakedUntil, lg)

\* lg2 is the log with one entry more, made now.
Grown(lg, what, bytes, lg2) == lg2 = Append(lg, [what |-> what, at |-> now, bytes |-> bytes])

LEMMA LimitTypes ==
  /\ Burst \in Nat \ {0} /\ Refill \in Nat \ {0} /\ DayEvents \in Nat \ {0} /\ DayBytes \in Nat \ {0}
  /\ BrakeRefusals \in Nat \ {0} /\ BrakeFor \in Nat \ {0} /\ Sizes \subseteq Nat
  /\ Full \in Nat
<1>1. Burst \in Nat \ {0} /\ Refill \in Nat \ {0}  BY LimitsAssumption
<1>2. Full \in Nat  BY <1>1 DEF Full
<1> QED BY <1>1, <1>2, LimitsAssumption

LEMMA Products == /\ Bought(0) = 0
                  /\ \A k \in Nat : /\ Bought(k) \in Nat /\ Bought(k + 1) = Bought(k) + Refill
                                    /\ Refill * (k - Burst) = Bought(k) - Full
<1>1. Refill \in Nat /\ Burst \in Nat  BY LimitTypes
<1>2. ASSUME NEW r \in Nat, NEW b \in Nat, NEW k \in Nat
      PROVE  r * 0 = 0 /\ r * k \in Nat /\ r * (k + 1) = r * k + r /\ r * (k - b) = r * k - b * r
  OBVIOUS
<1> QED BY <1>1, <1>2 DEF Bought, Full

LEMMA NumType == ASSUME NEW lg, NEW what, NEW i \in Int, NEW j \in Int
                 PROVE  /\ IsFiniteSet(Kind(lg, what, i, j)) /\ Num(lg, what, i, j) \in Nat
                        /\ i > j => Num(lg, what, i, j) = 0
<1>1. IsFiniteSet(i..j)  BY FS_Interval
<1>2. IsFiniteSet(Kind(lg, what, i, j))  BY <1>1, FS_Subset DEF Kind
<1>3. i > j => Kind(lg, what, i, j) = {}  BY DEF Kind
<1> QED BY <1>2, <1>3, FS_CardinalityType, FS_EmptySet DEF Num

(* The first of those counted counts for one.                                *)
LEMMA NumFirst ==
  ASSUME NEW lg, NEW what, NEW m \in Int, NEW k \in Int, NEW n \in Int,
         m < k, m <= n, lg[m].what = what
  PROVE  Num(lg, what, m, n) >= Num(lg, what, k, n) + 1
<1> DEFINE A == Kind(lg, what, k, n)  B == Kind(lg, what, m, n)
<1>1. m \notin A /\ A \cup {m} \subseteq B  BY DEF Kind
<1>2. IsFiniteSet(A) /\ IsFiniteSet(B)  BY NumType
<1>3. Cardinality(A \cup {m}) = Cardinality(A) + 1  BY <1>1, <1>2, FS_AddElement
<1>4. Cardinality(A \cup {m}) <= Cardinality(B)  BY <1>1, <1>2, FS_Subset
<1> QED BY <1>3, <1>4, NumType DEF Num

LEMMA LogTypes == ASSUME NEW lg \in Seq(LogEntry)
                  PROVE  /\ Len(lg) \in Nat
                         /\ \A i \in 1..Len(lg) : lg[i] \in LogEntry /\ lg[i].at \in Nat
<1>1. \A x \in LogEntry : x.at \in Nat  BY DEF LogEntry
<1> QED BY <1>1

(* An entry more.                                                            *)
LEMMA Longer ==
  ASSUME NEW lg \in Seq(LogEntry), NEW what \in {"pass", "refused"}, NEW bytes \in Nat, now \in Nat,
         NEW lg2, Grown(lg, what, bytes, lg2)
  PROVE  /\ Len(lg) \in Nat /\ lg2 \in Seq(LogEntry) /\ Len(lg2) = Len(lg) + 1
         /\ lg2[Len(lg) + 1].what = what /\ lg2[Len(lg) + 1].at = now /\ BytesOf(lg2) = bytes
         /\ \A i \in 1..Len(lg) : lg2[i] = lg[i]
         /\ \A i \in 1..(Len(lg) + 1) : lg2[i].at \in Nat
<1> DEFINE x == [what |-> what, at |-> now, bytes |-> bytes]
<1>1. x \in LogEntry /\ x.what = what /\ x.at = now /\ x.bytes = bytes  BY DEF LogEntry
<1>2. lg2 = Append(lg, x)  BY DEF Grown
<1> HIDE DEF x
<1>3. /\ Len(lg) \in Nat /\ lg2 \in Seq(LogEntry) /\ Len(lg2) = Len(lg) + 1
      /\ lg2[Len(lg) + 1] = x /\ \A i \in 1..Len(lg) : lg2[i] = lg[i]
      /\ lg2 # <<>>
  BY <1>1, <1>2
<1>4. BytesOf(lg2) = bytes  BY <1>1, <1>3 DEF BytesOf
<1>5. \A i \in 1..(Len(lg) + 1) : lg2[i].at \in Nat  BY <1>3, LogTypes
<1> QED BY <1>1, <1>3, <1>4, <1>5

\* The counts of a log of n entries and of the same with one of a kind more.
Recount(lg, lg2, n, kind) ==
    \A what \in {"pass", "refused"}, i \in 1..(n + 1) :
        /\ \A j \in 0..n : Num(lg2, what, i, j) = Num(lg, what, i, j)
        /\ Num(lg, what, i, n) \in Nat
        /\ kind = what => Num(lg2, what, i, n + 1) = Num(lg, what, i, n) + 1
        /\ kind # what => Num(lg2, what, i, n + 1) = Num(lg, what, i, n)

LEMMA Recounted ==
  ASSUME NEW lg, NEW lg2, NEW n \in Nat, NEW kind, lg2[n + 1].what = kind,
         \A m \in 1..n : lg2[m] = lg[m]
  PROVE  Recount(lg, lg2, n, kind)
<1> SUFFICES ASSUME NEW what, NEW i \in 1..(n + 1)
             PROVE  /\ \A j \in 0..n : Num(lg2, what, i, j) = Num(lg, what, i, j)
                    /\ Num(lg, what, i, n) \in Nat
                    /\ kind = what => Num(lg2, what, i, n + 1) = Num(lg, what, i, n) + 1
                    /\ kind # what => Num(lg2, what, i, n + 1) = Num(lg, what, i, n)
  BY DEF Recount
<1> DEFINE A == Kind(lg, what, i, n)  B == Kind(lg2, what, i, n + 1)
<1>1. ASSUME NEW j \in 0..n PROVE Num(lg2, what, i, j) = Num(lg, what, i, j)
  <2>1. Kind(lg2, what, i, j) = Kind(lg, what, i, j)  BY DEF Kind
  <2> QED BY <2>1 DEF Num
<1>2. n + 1 \notin A  BY DEF Kind
<1>3. /\ B \subseteq A \cup {n + 1} /\ A \subseteq B
      /\ n + 1 \in B <=> kind = what
  <2>1. B \subseteq A \cup {n + 1}  BY DEF Kind
  <2>2. A \subseteq B  BY DEF Kind
  <2>3. n + 1 \in B <=> kind = what  BY DEF Kind
  <2> QED BY <2>1, <2>2, <2>3
<1>4. IsFiniteSet(A) /\ Num(lg, what, i, n) \in Nat /\ Num(lg, what, i, n) = Cardinality(A)
      /\ Num(lg2, what, i, n + 1) = Cardinality(B)
  BY NumType DEF Num
<1> HIDE DEF A, B
<1>5. kind = what => B = A \cup {n + 1}  BY <1>3, Zenon
<1>6. kind # what => B = A  BY <1>3, Zenon
<1>7. Cardinality(A \cup {n + 1}) = Cardinality(A) + 1  BY <1>2, <1>4, FS_AddElement
<1> QED BY <1>1, <1>4, <1>5, <1>6, <1>7

\* A log of n entries and the same with one of a kind more.
Grows(lg, lg2, n, kind) ==
    /\ n \in Nat /\ Len(lg) = n /\ Len(lg2) = n + 1
    /\ lg2[n + 1].what = kind /\ lg2[n + 1].at = now
    /\ \A i \in 1..n : lg2[i] = lg[i]
    /\ \A i \in 1..(n + 1) : lg2[i].at \in Nat
    /\ Recount(lg, lg2, n, kind)

LEMMA Growing ==
  ASSUME NEW lg \in Seq(LogEntry), NEW kind \in {"pass", "refused"}, NEW bytes \in Nat, now \in Nat,
         NEW lg2, Grown(lg, kind, bytes, lg2)
  PROVE  /\ \E n \in Nat : Grows(lg, lg2, n, kind)
         /\ lg2 \in Seq(LogEntry) /\ BytesOf(lg2) = bytes
<1>1. /\ Len(lg) \in Nat /\ lg2 \in Seq(LogEntry) /\ Len(lg2) = Len(lg) + 1
      /\ lg2[Len(lg) + 1].what = kind /\ lg2[Len(lg) + 1].at = now /\ BytesOf(lg2) = bytes
      /\ \A i \in 1..Len(lg) : lg2[i] = lg[i]
      /\ \A i \in 1..(Len(lg) + 1) : lg2[i].at \in Nat
  BY Longer
<1>2. Recount(lg, lg2, Len(lg), kind)  BY <1>1, Recounted
<1>3. Grows(lg, lg2, Len(lg), kind)  BY <1>1, <1>2 DEF Grows
<1> QED BY <1>1, <1>3

LEMMA NothingLogged == ASSUME now \in Nat PROVE EntryHolds(Fresh, <<>>) /\ LogHolds(<<>>)
<1>1. Len(<<>>) = 0 /\ <<>> \in Seq(LogEntry) /\ BytesOf(<<>>) = 0  BY DEF BytesOf
<1>2. Num(<<>>, "pass", 1, 0) = 0  BY NumType
<1>3. LogHolds(<<>>)
  BY <1>1, <1>2, LimitTypes DEF LogHolds, BurstIn, DayIn, BrakeIn
<1>4. Filling(Fresh, <<>>) /\ Counting(Fresh, <<>>)
  <2>1. Fresh.tokens = Full /\ Fresh.events = 0 /\ Fresh.bytes = 0  BY DEF Fresh, Full
  <2> QED BY <1>1, <1>2, <2>1, LimitTypes DEF Filling, Counting
<1>5. Queued(<<>>, <<>>, 0) /\ BrakedBy(0, <<>>, 0)
  BY <1>1, LimitTypes DEF Queued, BrakedBy
<1>6. Fresh.refused = <<>> /\ Fresh.brakedUntil = 0 /\ 0 \in 0..0  BY DEF Fresh
<1> QED BY <1>1, <1>3, <1>4, <1>5, <1>6, FreshEntry DEF EntryHolds, Braking

(* Time drips tokens in; a clock set back takes them.                        *)
Dripped(e, f) == f = [e EXCEPT !.tokens = Least(Full, @ + (now - e.at)), !.at = now]

LEMMA FillHolds ==
  ASSUME NEW lg, NEW e, EntryHolds(e, lg), LogHolds(lg), now \in Nat, NEW f, Dripped(e, f)
  PROVE  /\ EntryHolds(f, lg) /\ f.at = now
         /\ f.refused = e.refused /\ f.brakedUntil = e.brakedUntil
<1>1. e \in Entry /\ e.tokens \in Int /\ e.at \in Nat /\ Full \in Nat
  BY LimitTypes DEF EntryHolds, Entry
<1>2. Least(Full, e.tokens + (now - e.at)) \in Int
  BY <1>1 DEF Least
<1>3. /\ f \in Entry /\ f.tokens = Least(Full, e.tokens + (now - e.at)) /\ f.at = now
      /\ f.events = e.events /\ f.bytes = e.bytes
      /\ f.refused = e.refused /\ f.brakedUntil = e.brakedUntil
  BY <1>1, <1>2 DEF Entry, Dripped
<1>4. /\ f.tokens <= Full /\ f.tokens - e.tokens <= now - e.at /\ f.tokens \in Int
  BY <1>1, <1>2, <1>3 DEF Least
<1>5. /\ e.tokens \in Int /\ e.at \in Nat /\ Full \in Nat /\ f.at = now
  BY <1>1, <1>3
<1> DEFINE n == Len(lg)
<1>6. n \in Nat /\ \A i \in 1..n : lg[i].at \in Nat  BY LogTypes DEF LogHolds
<1>7. \A i \in 1..n : lg[i].what = "pass" =>
          e.tokens + Bought(Num(lg, "pass", i, n)) <= Full + (e.at - lg[i].at)
  BY DEF EntryHolds, Filling
<1> HIDE DEF n
<1>8. ASSUME NEW i \in 1..n, lg[i].what = "pass"
      PROVE  f.tokens + Bought(Num(lg, "pass", i, n)) <= Full + (f.at - lg[i].at)
  <2> DEFINE cost == Bought(Num(lg, "pass", i, n))
             at == lg[i].at
  <2>1. at \in Nat  BY <1>6
  <2>2. Num(lg, "pass", i, n) \in Nat  BY <1>6, NumType
  <2>3. cost \in Nat  BY <2>2, Products
  <2>4. e.tokens + cost <= Full + (e.at - at)  BY <1>7, <1>8
  <2> HIDE DEF cost, at
  <2>5. f.tokens + cost <= Full + (f.at - at)
    BY <1>4, <1>5, <2>1, <2>3, <2>4
  <2> QED BY <2>5 DEF cost, at
<1>9. Filling(f, lg)  BY <1>4, <1>8 DEF Filling, n
<1> QED BY <1>3, <1>9 DEF EntryHolds, Counting

LEMMA PassFills ==
  ASSUME NEW lg, NEW e, EntryHolds(e, lg), LogHolds(lg), e.at = now, now \in Nat,
         e.tokens >= Refill, NEW lg2, NEW n \in Nat, Grows(lg, lg2, n, "pass"),
         NEW f, f.tokens = e.tokens - Refill, f.at = now
  PROVE  Filling(f, lg2) /\ BurstIn(lg2)
<1>1. e.tokens \in Int /\ Full \in Nat /\ Refill \in Nat /\ e.tokens <= Full
  BY LimitTypes DEF EntryHolds, Entry, Filling
<1>2. "pass" \in {"pass", "refused"}  OBVIOUS
<1>3. /\ Len(lg) = n /\ Len(lg2) = n + 1 /\ lg2[n + 1].what = "pass" /\ lg2[n + 1].at = now
      /\ \A i \in 1..n : lg2[i] = lg[i]
      /\ \A i \in 1..(n + 1) : lg2[i].at \in Nat
  BY DEF Grows
<1>4. \A i \in 1..(n + 1) : /\ \A j \in 0..n : Num(lg2, "pass", i, j) = Num(lg, "pass", i, j)
                            /\ Num(lg, "pass", i, n) \in Nat
                            /\ Num(lg2, "pass", i, n + 1) = Num(lg, "pass", i, n) + 1
  BY <1>2 DEF Grows, Recount
<1>5. Num(lg, "pass", n + 1, n) = 0  BY NumType
<1>6. \A i \in 1..n : lg[i].what = "pass" =>
          e.tokens + Bought(Num(lg, "pass", i, n)) <= Full + (now - lg[i].at)
  BY <1>3 DEF EntryHolds, Filling
<1>7. ASSUME NEW i \in 1..(n + 1), lg2[i].what = "pass"
      PROVE  f.tokens + Bought(Num(lg2, "pass", i, n + 1)) <= Full + (now - lg2[i].at)
  <2> DEFINE k == Num(lg, "pass", i, n)
  <2>1. k \in Nat /\ Num(lg2, "pass", i, n + 1) = k + 1 /\ lg2[i].at \in Nat  BY <1>3, <1>4
  <2>2. Bought(k + 1) = Bought(k) + Refill /\ Bought(k) \in Nat  BY <2>1, Products
  <2>3. e.tokens + Bought(k) <= Full + (now - lg2[i].at)
    <3>1. CASE i \in 1..n  BY <1>3, <1>6, <1>7, <3>1
    <3>2. CASE i = n + 1
      <4>1. Bought(k) = 0 /\ lg2[i].at = now  BY Products, <1>3, <1>5, <3>2
      <4> HIDE DEF k
      <4> QED BY <1>1, <4>1
    <3> QED BY <1>3, <3>1, <3>2
  <2>4. f.tokens + Bought(k + 1) <= Full + (now - lg2[i].at)
    <3> HIDE DEF k
    <3> QED BY <1>1, <2>1, <2>2, <2>3
  <2> QED BY <2>1, <2>4
<1>8. Filling(f, lg2)
  <2>1. f.tokens <= Full  BY <1>1
  <2> QED BY <1>3, <1>7, <2>1 DEF Filling
<1>9. ASSUME NEW i \in 1..(n + 1), NEW j \in 1..(n + 1), i <= j, lg2[i].what = "pass", lg2[j].what = "pass"
       PROVE  Bought(Num(lg2, "pass", i, j)) <= Full + (lg2[j].at - lg2[i].at)
  <2>1. CASE j = n + 1
    <3> DEFINE cost == Bought(Num(lg2, "pass", i, n + 1))
               at == lg2[i].at
    <3>1. Num(lg2, "pass", i, n + 1) \in Nat /\ at \in Nat /\ lg2[j].at = now
      BY <1>3, <1>4, <2>1
    <3>2. f.tokens + cost <= Full + (now - at)  BY <1>7, <1>9
    <3>3. cost \in Nat  BY <3>1, Products
    <3> HIDE DEF cost, at
    <3>4. cost <= Full + (now - at)  BY <1>1, <3>1, <3>2, <3>3
    <3> QED BY <2>1, <3>1, <3>4 DEF cost, at
  <2>2. CASE j \in 1..n
    <3>1. i \in 1..n /\ lg2[i] = lg[i] /\ lg2[j] = lg[j]  BY <1>3, <1>9, <2>2
    <3>2. Num(lg2, "pass", i, j) = Num(lg, "pass", i, j)  BY <1>3, <1>4, <2>2
    <3> QED BY <1>3, <1>9, <2>2, <3>1, <3>2 DEF LogHolds, BurstIn
  <2> QED BY <1>3, <2>1, <2>2
<1> QED BY <1>3, <1>8, <1>9 DEF BurstIn

(* Refusals leave the bucket and what it paid for as they were.              *)
LEMMA RefusalFills ==
  ASSUME NEW lg, NEW e, EntryHolds(e, lg), LogHolds(lg), now \in Nat,
         NEW lg2, NEW n \in Nat, Grows(lg, lg2, n, "refused"),
         NEW f, f.tokens = e.tokens, f.at = e.at
  PROVE  Filling(f, lg2) /\ BurstIn(lg2)
<1>1. "pass" \in {"pass", "refused"} /\ "pass" # "refused"  OBVIOUS
<1>2. /\ Len(lg) = n /\ Len(lg2) = n + 1 /\ lg2[n + 1].what = "refused"
      /\ \A i \in 1..n : lg2[i] = lg[i]
  BY DEF Grows
<1>3. \A i \in 1..(n + 1) : /\ \A j \in 0..n : Num(lg2, "pass", i, j) = Num(lg, "pass", i, j)
                            /\ Num(lg2, "pass", i, n + 1) = Num(lg, "pass", i, n)
  BY <1>1 DEF Grows, Recount
<1>4. \A i \in 1..(n + 1) : lg2[i].what = "pass" => i \in 1..n  BY <1>1, <1>2
<1>5. Filling(f, lg2)
  <2>1. f.tokens <= Full  BY DEF EntryHolds, Filling
  <2>2. ASSUME NEW i \in 1..(n + 1), lg2[i].what = "pass"
        PROVE  f.tokens + Bought(Num(lg2, "pass", i, n + 1)) <= Full + (f.at - lg2[i].at)
    <3>1. i \in 1..n /\ lg2[i] = lg[i]  BY <1>2, <1>4, <2>2
    <3>2. e.tokens + Bought(Num(lg, "pass", i, n)) <= Full + (e.at - lg[i].at)
      BY <1>2, <2>2, <3>1 DEF EntryHolds, Filling
    <3>3. Num(lg2, "pass", i, n + 1) = Num(lg, "pass", i, n)  BY <1>3
    <3> QED BY <3>1, <3>2, <3>3
  <2> QED BY <1>2, <2>1, <2>2 DEF Filling
<1>6. BurstIn(lg2)
  <2>1. ASSUME NEW i \in 1..(n + 1), NEW j \in 1..(n + 1), i <= j,
               lg2[i].what = "pass", lg2[j].what = "pass"
        PROVE  Bought(Num(lg2, "pass", i, j)) <= Full + (lg2[j].at - lg2[i].at)
    <3>1. i \in 1..n /\ lg2[i] = lg[i] /\ j \in 1..n /\ lg2[j] = lg[j]  BY <1>2, <1>4, <2>1
    <3>2. Num(lg2, "pass", i, j) = Num(lg, "pass", i, j)  BY <1>2, <1>3, <3>1
    <3> QED BY <1>2, <2>1, <3>1, <3>2 DEF LogHolds, BurstIn
  <2> QED BY <1>2, <2>1 DEF BurstIn
<1> QED BY <1>5, <1>6

(* What the entries before it were, they still are.                          *)
LEMMA Before ==
  ASSUME NEW lg, NEW lg2, NEW n \in Nat, NEW kind \in {"pass", "refused"}, Grows(lg, lg2, n, kind),
         now \in Nat
  PROVE  /\ \A i, p \in 1..n : InOrderIn(lg2, i, p) <=> InOrderIn(lg, i, p)
         /\ \A i, j \in 1..n : EnoughIn(lg2, i, j) <=> EnoughIn(lg, i, j)
         /\ \A i \in 1..(n + 1) : InOrderIn(lg2, i, n + 1) =>
                \A p \in i..n : InOrderIn(lg, i, p) /\ lg[p].at <= now
<1>1. /\ \A i \in 1..n : lg2[i] = lg[i] /\ lg2[i].at \in Nat
      /\ lg2[n + 1].at = now
  BY DEF Grows
<1>2. ASSUME NEW i \in 1..n, NEW p \in 1..n
      PROVE  InOrderIn(lg2, i, p) <=> InOrderIn(lg, i, p)
  <2>1. \A m \in i..p : m \in 1..n /\ lg2[m] = lg[m]  BY <1>1
  <2> QED BY <2>1 DEF InOrderIn
<1>3. ASSUME NEW i \in 1..n, NEW j \in 1..n
      PROVE  EnoughIn(lg2, i, j) <=> EnoughIn(lg, i, j)
  <2>1. lg2[i] = lg[i] /\ lg2[j] = lg[j]  BY <1>1
  <2>2. "refused" \in {"pass", "refused"} /\ i \in 1..(n + 1) /\ j \in 0..n  OBVIOUS
  <2>3. Num(lg2, "refused", i, j) = Num(lg, "refused", i, j)  BY <2>2 DEF Grows, Recount
  <2> QED BY <2>1, <2>3 DEF EnoughIn
<1>4. ASSUME NEW i \in 1..(n + 1), InOrderIn(lg2, i, n + 1), NEW p \in i..n
      PROVE  InOrderIn(lg, i, p) /\ lg[p].at <= now
  <2>1. \A x, y \in i..(n + 1) : x <= y => lg2[x].at <= lg2[y].at  BY <1>4 DEF InOrderIn
  <2>2. p \in 1..n /\ p \in i..(n + 1) /\ n + 1 \in i..(n + 1) /\ p <= n + 1  OBVIOUS
  <2>3. lg[p].at <= now  BY <1>1, <2>1, <2>2
  <2>4. ASSUME NEW x \in i..p, NEW y \in i..p, x <= y PROVE lg[x].at <= lg[y].at
    <3>1. x \in 1..n /\ y \in 1..n /\ x \in i..(n + 1) /\ y \in i..(n + 1)  OBVIOUS
    <3> QED BY <1>1, <2>1, <2>4, <3>1
  <2> QED BY <2>3, <2>4 DEF InOrderIn
<1> QED BY <1>2, <1>3, <1>4

(* Only an event let through can break the brake's promise.                  *)
LEMMA BrakeKept ==
  ASSUME NEW lg, NEW lg2, NEW n \in Nat, NEW kind \in {"pass", "refused"}, Grows(lg, lg2, n, kind),
         now \in Nat, BrakeIn(lg),
         \A i, j \in 1..n : kind = "pass" /\ EnoughIn(lg, i, j) /\ InOrderIn(lg2, i, n + 1) =>
                                now >= lg[j].at + BrakeFor
  PROVE  BrakeIn(lg2)
<1>1. /\ \A i \in 1..n : lg2[i] = lg[i]
      /\ lg2[n + 1].at = now /\ lg2[n + 1].what = kind /\ Len(lg) = n /\ Len(lg2) = n + 1
  BY DEF Grows
<1>2. ASSUME NEW i \in 1..(n + 1), NEW j \in 1..(n + 1), NEW p \in 1..(n + 1),
             j < p, lg2[p].what = "pass", EnoughIn(lg2, i, j), InOrderIn(lg2, i, p)
      PROVE  lg2[p].at >= lg2[j].at + BrakeFor
  <2>1. i <= j  BY <1>2 DEF EnoughIn
  <2>2. i \in 1..n /\ j \in 1..n  BY <1>2, <2>1
  <2>3. EnoughIn(lg, i, j) /\ lg2[j] = lg[j]  BY <1>1, <1>2, <2>2, Before
  <2>4. CASE p = n + 1  BY <1>1, <1>2, <2>2, <2>3, <2>4
  <2>5. CASE p # n + 1
    <3>1. p \in 1..n  BY <2>5
    <3>2. InOrderIn(lg, i, p) /\ lg2[p] = lg[p]  BY <1>1, <1>2, <2>2, <3>1, Before
    <3> QED BY <1>1, <1>2, <2>2, <2>3, <3>1, <3>2 DEF BrakeIn
  <2> QED BY <2>4, <2>5
<1> QED BY <1>1, <1>2 DEF BrakeIn

(* An event is let through: the queue and the brake still answer to the log, *)
(* and the brake has kept its promise.                                       *)
LEMMA PassBrakes ==
  ASSUME NEW lg, NEW lg2, NEW n \in Nat, Grows(lg, lg2, n, "pass"), now \in Nat, BrakeIn(lg),
         NEW q \in Seq(Nat), NEW b \in Nat, Braking(q, b, lg), b <= now
  PROVE  Braking(q, b, lg2) /\ BrakeIn(lg2)
<1>1. /\ \A i \in 1..n : lg2[i] = lg[i] /\ lg[i].at \in Nat
      /\ lg2[n + 1].at = now /\ lg2[n + 1].what = "pass" /\ Len(lg) = n /\ Len(lg2) = n + 1
  BY DEF Grows
<1>2. PICK c \in 0..n : Queued(q, lg, c) /\ BrakedBy(b, lg, c)  BY <1>1 DEF Braking
<1>3. "refused" \in {"pass", "refused"} /\ "pass" \in {"pass", "refused"} /\ "pass" # "refused"  OBVIOUS
<1>4. \A m \in 1..(n + 1) : Num(lg2, "refused", m, n + 1) = Num(lg, "refused", m, n)
  BY <1>3 DEF Grows, Recount
<1>5. BrakeFor \in Nat  BY LimitTypes
<1>6. Queued(q, lg2, c)
  <2>1. Len(q) < BrakeRefusals  BY <1>2 DEF Queued
  <2>2. ASSUME NEW k \in 1..Len(q)
        PROVE  \E m \in 1..(n + 1) : /\ lg2[m].what = "refused" /\ q[k] = lg2[m].at
                                     /\ Num(lg2, "refused", m, n + 1) = Len(q) - k + 1
    <3>1. PICK m \in 1..n : /\ lg[m].what = "refused" /\ q[k] = lg[m].at
                            /\ Num(lg, "refused", m, n) = Len(q) - k + 1
      BY <1>1, <1>2 DEF Queued
    <3>2. m \in 1..(n + 1)  OBVIOUS
    <3> QED BY <1>1, <1>4, <3>1, <3>2
  <2>3. ASSUME NEW m \in (c + 1)..(n + 1), lg2[m].what = "refused", InOrderIn(lg2, m, n + 1),
               lg2[m].at > lg2[n + 1].at - BrakeFor
        PROVE  Num(lg2, "refused", m, n + 1) <= Len(q)
    <3>1. m \in (c + 1)..n /\ m \in 1..n /\ n \in m..n  BY <1>1, <1>3, <2>3
    <3>2. InOrderIn(lg, m, n) /\ lg[n].at <= now  BY <1>3, <2>3, <3>1, Before
    <3>3. lg[m].at > lg[n].at - BrakeFor /\ lg[m].what = "refused"
      <4>1. lg2[m] = lg[m] /\ lg2[n + 1].at = now /\ lg[m].at \in Nat /\ lg[n].at \in Nat
        BY <1>1, <3>1
      <4>2. lg[m].at > now - BrakeFor /\ lg[m].what = "refused"  BY <2>3, <4>1
      <4> QED BY <1>5, <3>2, <4>1, <4>2
    <3>4. Num(lg, "refused", m, n) <= Len(q)  BY <1>1, <1>2, <3>1, <3>2, <3>3 DEF Queued
    <3> QED BY <1>4, <3>4
  <2> QED BY <1>1, <2>1, <2>2, <2>3 DEF Queued
<1>7. BrakedBy(b, lg2, c)
  <2>1. c = 0 => b = 0  BY <1>2 DEF BrakedBy
  <2>2. ASSUME c > 0
        PROVE  /\ b = lg2[c].at + BrakeFor /\ lg2[c].what = "refused"
               /\ \E i \in 1..c : EnoughIn(lg2, i, c)
               /\ c < n + 1 => lg2[c + 1].what = "pass" /\ lg2[c + 1].at >= b
    <3>1. c \in 1..n /\ lg2[c] = lg[c]  BY <1>1, <2>2
    <3>2. b = lg[c].at + BrakeFor /\ lg[c].what = "refused"  BY <1>2, <2>2 DEF BrakedBy
    <3>3. PICK i \in 1..c : EnoughIn(lg, i, c)  BY <1>2, <2>2 DEF BrakedBy
    <3>4. EnoughIn(lg2, i, c)  BY <1>3, <3>1, <3>3, Before
    <3>5. ASSUME c < n + 1 PROVE lg2[c + 1].what = "pass" /\ lg2[c + 1].at >= b
      <4>1. CASE c < n
        <5>1. lg[c + 1].what = "pass" /\ lg[c + 1].at >= b
          BY <1>1, <1>2, <2>2, <4>1 DEF BrakedBy
        <5>2. lg2[c + 1] = lg[c + 1]  BY <1>1, <4>1
        <5> QED BY <5>1, <5>2
      <4>2. CASE c = n  BY <1>1, <4>2
      <4>3. c < n \/ c = n  BY <3>5
      <4> QED BY <4>1, <4>2, <4>3
    <3>6. b = lg2[c].at + BrakeFor /\ lg2[c].what = "refused"  BY <3>1, <3>2
    <3> QED BY <3>4, <3>5, <3>6
  <2>3. ASSUME NEW i \in 1..(n + 1), NEW j \in 1..(n + 1), EnoughIn(lg2, i, j), InOrderIn(lg2, i, j)
        PROVE  j <= c
    <3>1. i <= j /\ lg2[j].what = "refused"  BY <2>3 DEF EnoughIn
    <3>2. i \in 1..n /\ j \in 1..n  BY <1>1, <1>3, <3>1
    <3>3. EnoughIn(lg, i, j) /\ InOrderIn(lg, i, j)  BY <1>3, <2>3, <3>2, Before
    <3> QED BY <1>1, <1>2, <3>2, <3>3 DEF BrakedBy
  <2> QED BY <1>1, <2>1, <2>2, <2>3 DEF BrakedBy
<1>8. Braking(q, b, lg2)
  <2>1. c \in 0..(n + 1)  OBVIOUS
  <2> QED BY <1>1, <1>6, <1>7, <2>1 DEF Braking
<1>9. ASSUME NEW i \in 1..n, NEW j \in 1..n, EnoughIn(lg, i, j), InOrderIn(lg2, i, n + 1)
      PROVE  now >= lg[j].at + BrakeFor
  <2>1. i <= j  BY <1>9 DEF EnoughIn
  <2>2. i \in 1..(n + 1) /\ j \in i..n  BY <2>1
  <2>3. InOrderIn(lg, i, j)  BY <1>3, <1>9, <2>2, Before
  <2>4. j <= c  BY <1>1, <1>2, <1>9, <2>3 DEF BrakedBy
  <2>5. c > 0 /\ c \in i..n  BY <2>1, <2>4
  <2>6. b = lg[c].at + BrakeFor  BY <1>2, <2>5 DEF BrakedBy
  <2>7. InOrderIn(lg, i, c)  BY <1>3, <1>9, <2>2, <2>5, Before
  <2>8. lg[j].at <= lg[c].at  BY <2>1, <2>4, <2>7 DEF InOrderIn
  <2>9. lg[j].at \in Nat /\ lg[c].at \in Nat  BY <1>1, <2>5
  <2> DEFINE x == lg[j].at  y == lg[c].at
  <2>10. b = y + BrakeFor /\ x <= y /\ x \in Nat /\ y \in Nat  BY <2>6, <2>8, <2>9
  <2> HIDE DEF x, y
  <2>11. now >= x + BrakeFor  BY <1>5, <2>10
  <2> QED BY <2>11 DEF x
<1>10. BrakeIn(lg2)  BY <1>3, <1>9, BrakeKept
<1> QED BY <1>8, <1>10

LEMMA LeastExists == ASSUME NEW S \in SUBSET Nat, S # {}
                     PROVE  Min(S) \in S /\ \A y \in S : Min(S) <= y
<1>1. \E x \in S : \A y \in S : ~ (<<y, x>> \in OpToRel(<, Nat))
  BY NatLessThanWellFounded, WFMin
<1>2. PICK x \in S : \A y \in S : ~ (<<y, x>> \in OpToRel(<, Nat))  BY <1>1
<1> DEFINE less == {ss \in Nat \X Nat : ss[1] < ss[2]}
<1>3. OpToRel(<, Nat) = less  BY DEF OpToRel
<1>4. \A y \in S : ~ (<<y, x>> \in less)  BY <1>2, <1>3
<1>5. ASSUME NEW y \in S PROVE x <= y
  <2>1. x \in Nat /\ y \in Nat  OBVIOUS
  <2>2. <<y, x>> \in less <=> y < x  BY <2>1
  <2> QED BY <1>4, <2>1, <2>2
<1> QED BY <1>2, <1>5 DEF Min

\* r is the queue q with the time now at its end, from entry d on: the first less than
\* an hour old.
Shifted(q, r, d) ==
    /\ d \in 1..(Len(q) + 1) /\ r \in Seq(Nat) /\ Len(r) = Len(q) + 2 - d
    /\ r[Len(r)] = now
    /\ \A k \in 1..(Len(r) - 1) : k + d - 1 \in 1..Len(q) /\ r[k] = q[k + d - 1]
    /\ d <= Len(q) => q[d] > now - BrakeFor
    /\ \A k \in 1..Len(q) : q[k] > now - BrakeFor => d <= k

LEMMA RecentShifts ==
  ASSUME NEW q \in Seq(Nat), now \in Nat, NEW r, r = Recent(Append(q, now))
  PROVE  \E d \in 1..(Len(q) + 1) : Shifted(q, r, d)
<1> DEFINE a == Append(q, now)
           n == Len(q)
           S == {i \in DOMAIN a : a[i] > now - BrakeFor}
           d == Min(S)
<1>1. /\ n \in Nat /\ a \in Seq(Nat) /\ Len(a) = n + 1 /\ DOMAIN a = 1..(n + 1)
      /\ a[n + 1] = now /\ \A i \in 1..n : a[i] = q[i] /\ q[i] \in Nat
  OBVIOUS
<1>2. r = SubSeq(a, d, Len(a))  BY DEF Recent
<1> HIDE DEF a, n
<1>3. n + 1 \in S
  <2>1. now > now - BrakeFor  BY LimitTypes
  <2> QED BY <1>1, <2>1
<1>4. S \in SUBSET Nat  BY <1>1
<1>5. d \in S /\ \A y \in S : d <= y
  <2> HIDE DEF S
  <2> QED BY <1>3, <1>4, LeastExists
<1>6. d \in 1..(n + 1) /\ a[d] > now - BrakeFor  BY <1>1, <1>5
<1>7. \A k \in 1..(n + 1) : a[k] > now - BrakeFor => d <= k  BY <1>1, <1>5
<1> HIDE DEF d
<1>8. /\ r \in Seq(Nat) /\ Len(r) = n + 2 - d
      /\ \A k \in 1..(n + 2 - d) : r[k] = a[k + d - 1]
  <2>1. r = SubSeq(a, d, n + 1) /\ d \in Int /\ n + 1 \in Int /\ d <= n + 1  BY <1>1, <1>2, <1>6
  <2>2. \A i \in d..(n + 1) : a[i] \in Nat  BY <1>1, <1>6
  <2>3. /\ r \in Seq(Nat) /\ Len(r) = (n + 1) - d + 1
        /\ \A k \in 1..((n + 1) - d + 1) : r[k] = a[d + k - 1]
    BY <2>1, <2>2, SubSeqProperties
  <2>4. (n + 1) - d + 1 = n + 2 - d /\ \A k \in Int : d + k - 1 = k + d - 1  BY <1>1, <1>6
  <2>5. \A k \in 1..(n + 2 - d) : r[k] = a[k + d - 1]
    <3> TAKE k \in 1..(n + 2 - d)
    <3>1. k \in 1..((n + 1) - d + 1)  BY <2>4
    <3>2. r[k] = a[d + k - 1]  BY <2>3, <3>1
    <3>3. d + k - 1 = k + d - 1  BY <2>4
    <3> QED BY <3>2, <3>3
  <2> QED BY <2>3, <2>4, <2>5
<1>9. r[n + 2 - d] = now
  <2>1. n + 2 - d \in 1..(n + 2 - d) /\ (n + 2 - d) + d - 1 = n + 1  BY <1>1, <1>6
  <2> QED BY <1>1, <1>8, <2>1
<1>10. \A k \in 1..(n + 2 - d - 1) : k + d - 1 \in 1..n /\ r[k] = q[k + d - 1]
  <2>1. \A k \in 1..(n + 2 - d - 1) : k + d - 1 \in 1..n /\ k \in 1..(n + 2 - d)
    BY <1>1, <1>6
  <2> QED BY <1>1, <1>8, <2>1
<1>11. d <= n => q[d] > now - BrakeFor  BY <1>1, <1>6
<1>12. \A k \in 1..n : q[k] > now - BrakeFor => d <= k  BY <1>1, <1>7
<1>13. Shifted(q, r, d)
  BY <1>6, <1>8, <1>9, <1>10, <1>11, <1>12 DEF Shifted, n
<1> QED BY <1>6, <1>13 DEF n

(* Two entries with as many of their kind after them are the same one.       *)
LEMMA SameCount ==
  ASSUME NEW lg, NEW n \in Nat, NEW i \in 1..n, NEW j \in 1..n,
         lg[i].what = "refused", lg[j].what = "refused",
         Num(lg, "refused", i, n) = Num(lg, "refused", j, n)
  PROVE  i = j
<1>1. Num(lg, "refused", i, n) \in Nat /\ Num(lg, "refused", j, n) \in Nat  BY NumType
<1>2. ASSUME NEW a \in 1..n, NEW b \in 1..n, lg[a].what = "refused", a < b
      PROVE  Num(lg, "refused", a, n) >= Num(lg, "refused", b, n) + 1
  <2>1. a \in Int /\ b \in Int /\ n \in Int /\ a <= n  OBVIOUS
  <2> QED BY <1>2, <2>1, NumFirst
<1>3. i < j => Num(lg, "refused", i, n) >= Num(lg, "refused", j, n) + 1  BY <1>2
<1>4. j < i => Num(lg, "refused", j, n) >= Num(lg, "refused", i, n) + 1  BY <1>2
<1> QED BY <1>1, <1>3, <1>4

(* A refusal joins the queue.  The event before it in the log, if any, was   *)
(* let through: it is the one refused.                                       *)
LEMMA QueueGrows ==
  ASSUME NEW lg, NEW lg2, NEW n \in Nat, Grows(lg, lg2, n, "refused"), now \in Nat,
         NEW q \in Seq(Nat), NEW c \in 0..n, Queued(q, lg, c),
         NEW r, NEW d, Shifted(q, r, d)
  PROVE  /\ \A k \in 1..Len(r) : \E m \in 1..(n + 1) :
                /\ lg2[m].what = "refused" /\ r[k] = lg2[m].at
                /\ Num(lg2, "refused", m, n + 1) = Len(r) - k + 1
         /\ \A m \in (c + 1)..(n + 1) :
                /\ lg2[m].what = "refused" /\ InOrderIn(lg2, m, n + 1)
                /\ lg2[m].at > now - BrakeFor
                => Num(lg2, "refused", m, n + 1) <= Len(r)
         /\ Len(r) <= BrakeRefusals /\ Len(r) >= 1
<1> DEFINE x == Len(q)  y == Len(r)
<1>1. /\ \A i \in 1..n : lg2[i] = lg[i] /\ lg[i].at \in Nat
      /\ lg2[n + 1].at = now /\ lg2[n + 1].what = "refused" /\ Len(lg) = n /\ Len(lg2) = n + 1
  BY DEF Grows
<1>2. "refused" \in {"pass", "refused"} /\ "pass" # "refused"  OBVIOUS
<1>3. \A m \in 1..(n + 1) : /\ Num(lg2, "refused", m, n + 1) = Num(lg, "refused", m, n) + 1
                            /\ Num(lg, "refused", m, n) \in Nat
  BY <1>2 DEF Grows, Recount
<1>4. Num(lg, "refused", n + 1, n) = 0  BY NumType
<1>5. BrakeFor \in Nat /\ BrakeRefusals \in Nat  BY LimitTypes
<1>6. /\ d \in 1..(x + 1) /\ y = x + 2 - d /\ r[y] = now
      /\ \A k \in 1..(y - 1) : k + d - 1 \in 1..x /\ r[k] = q[k + d - 1]
      /\ \A k \in 1..x : q[k] > now - BrakeFor => d <= k
  BY DEF Shifted
<1>7. x \in Nat /\ x < BrakeRefusals  BY DEF Queued
<1>8. \A k \in 1..x : \E m \in 1..n :
          lg[m].what = "refused" /\ q[k] = lg[m].at /\ Num(lg, "refused", m, n) = x - k + 1
  BY <1>1 DEF Queued
<1>9. \A m \in (c + 1)..n :
          lg[m].what = "refused" /\ InOrderIn(lg, m, n) /\ lg[m].at > lg[n].at - BrakeFor
          => Num(lg, "refused", m, n) <= x
  BY <1>1 DEF Queued
<1> HIDE DEF x, y
<1>10. y \in Nat /\ y >= 1 /\ y <= BrakeRefusals  BY <1>5, <1>6, <1>7
<1>11. ASSUME NEW k \in 1..y
       PROVE  \E m \in 1..(n + 1) : /\ lg2[m].what = "refused" /\ r[k] = lg2[m].at
                                    /\ Num(lg2, "refused", m, n + 1) = y - k + 1
  <2>1. CASE k = y
    <3>1. n + 1 \in 1..(n + 1)  OBVIOUS
    <3>2. Num(lg2, "refused", n + 1, n + 1) = 1  BY <1>3, <1>4, <3>1
    <3>3. y - k + 1 = 1  BY <1>10, <2>1
    <3> QED BY <1>1, <1>6, <2>1, <3>1, <3>2, <3>3
  <2>2. CASE k # y
    <3>1. k \in 1..(y - 1)  BY <1>10, <2>2
    <3>2. k + d - 1 \in 1..x /\ r[k] = q[k + d - 1]  BY <1>6, <3>1
    <3>3. PICK m \in 1..n : /\ lg[m].what = "refused" /\ q[k + d - 1] = lg[m].at
                            /\ Num(lg, "refused", m, n) = x - (k + d - 1) + 1
      BY <1>8, <3>2
    <3>4. m \in 1..(n + 1)  OBVIOUS
    <3>5. Num(lg2, "refused", m, n + 1) = x - (k + d - 1) + 1 + 1  BY <1>3, <3>3, <3>4
    <3>6. x - (k + d - 1) + 1 + 1 = y - k + 1  BY <1>6, <1>7
    <3> QED BY <1>1, <3>2, <3>3, <3>4, <3>5, <3>6
  <2> QED BY <2>1, <2>2
<1>12. ASSUME NEW m \in (c + 1)..(n + 1), lg2[m].what = "refused", InOrderIn(lg2, m, n + 1),
              lg2[m].at > now - BrakeFor
       PROVE  Num(lg2, "refused", m, n + 1) <= y
  <2>1. CASE m = n + 1
    <3>1. n + 1 \in 1..(n + 1)  OBVIOUS
    <3>2. Num(lg2, "refused", m, n + 1) = 1  BY <1>3, <1>4, <2>1, <3>1
    <3> QED BY <1>10, <3>2
  <2>2. CASE m # n + 1
    <3>1. m \in 1..n /\ m \in (c + 1)..n /\ n \in m..n /\ m \in 1..(n + 1)  BY <2>2
    <3>2. InOrderIn(lg, m, n) /\ lg[n].at <= now  BY <1>2, <1>12, <3>1, Before
    <3>3. lg2[m] = lg[m] /\ lg[m].at \in Nat /\ lg[n].at \in Nat  BY <1>1, <3>1
    <3>4. lg[m].at > lg[n].at - BrakeFor
      <4> DEFINE u == lg[m].at  v == lg[n].at
      <4>1. u \in Nat /\ v \in Nat /\ v <= now /\ u > now - BrakeFor  BY <1>12, <3>2, <3>3
      <4> HIDE DEF u, v
      <4>2. u > v - BrakeFor  BY <1>5, <4>1
      <4> QED BY <4>2 DEF u, v
    <3> DEFINE z == Num(lg, "refused", m, n)
    <3>5. z <= x /\ z \in Nat  BY <1>3, <1>9, <1>12, <3>1, <3>2, <3>3, <3>4
    <3>6. z >= 1
      <4>1. z >= Num(lg, "refused", n + 1, n) + 1  BY <1>12, <3>1, <3>3, NumFirst
      <4> QED BY <1>4, <4>1
    <3>7. x - z + 1 \in 1..x /\ x - (x - z + 1) + 1 = z
      <4> HIDE DEF z
      <4> QED BY <1>7, <3>5, <3>6
    <3>8. PICK m2 \in 1..n : /\ lg[m2].what = "refused" /\ q[x - z + 1] = lg[m2].at
                             /\ Num(lg, "refused", m2, n) = z
      <4>1. PICK m2 \in 1..n : /\ lg[m2].what = "refused" /\ q[x - z + 1] = lg[m2].at
                               /\ Num(lg, "refused", m2, n) = x - (x - z + 1) + 1
        <5> HIDE DEF z
        <5> QED BY <1>8, <3>7
      <4> QED BY <3>7, <4>1
    <3>9. m2 = m  BY <1>12, <3>1, <3>3, <3>8, SameCount
    <3>10. q[x - z + 1] > now - BrakeFor  BY <1>12, <3>3, <3>8, <3>9
    <3>11. d <= x - z + 1  BY <1>6, <3>7, <3>10
    <3>12. Num(lg2, "refused", m, n + 1) = z + 1  BY <1>3, <3>1
    <3> HIDE DEF z
    <3>13. z + 1 <= y  BY <1>6, <1>7, <3>5, <3>11
    <3> QED BY <3>12, <3>13
  <2> QED BY <2>1, <2>2
<1> QED BY <1>10, <1>11, <1>12 DEF y

(* Nothing after the last brake makes enough of the refusals before it.      *)
LEMMA NotEnough ==
  ASSUME NEW lg, NEW lg2, NEW n \in Nat, Grows(lg, lg2, n, "refused"), now \in Nat,
         n > 0 => lg[n].what = "pass",
         NEW b, NEW c \in 0..n, BrakedBy(b, lg, c),
         NEW i \in 1..c, InOrderIn(lg2, i, n + 1)
  PROVE  lg2[i].at <= now - BrakeFor
<1>1. /\ \A m \in 1..n : lg2[m] = lg[m] /\ lg[m].at \in Nat
      /\ lg2[n + 1].at = now /\ Len(lg) = n
  BY DEF Grows
<1>2. c > 0 /\ c \in 1..n  OBVIOUS
<1>3. lg[c].what = "refused" /\ b = lg[c].at + BrakeFor  BY <1>1, <1>2 DEF BrakedBy
<1>4. "refused" # "pass"  OBVIOUS
<1>5. c # n  BY <1>2, <1>3, <1>4
<1>6. c < n  BY <1>2, <1>5
<1>7. lg[c + 1].at >= b  BY <1>1, <1>2, <1>6 DEF BrakedBy
<1>8. c \in i..(n + 1) /\ c + 1 \in i..(n + 1) /\ n + 1 \in i..(n + 1) /\ i \in i..(n + 1)
      /\ i <= c /\ c + 1 <= n + 1
  BY <1>6
<1>9. lg2[i].at <= lg2[c].at /\ lg2[c + 1].at <= lg2[n + 1].at  BY <1>8 DEF InOrderIn
<1>10. lg2[c] = lg[c] /\ lg2[c + 1] = lg[c + 1] /\ lg2[i] = lg[i]
       /\ lg[c].at \in Nat /\ lg[c + 1].at \in Nat /\ lg[i].at \in Nat
  BY <1>1, <1>2, <1>6
<1> DEFINE u == lg[i].at  v == lg[c].at  w == lg[c + 1].at
<1>11. u <= v /\ w <= now /\ w >= v + BrakeFor /\ u \in Nat /\ v \in Nat /\ w \in Nat /\ BrakeFor \in Nat
  BY <1>1, <1>3, <1>7, <1>9, <1>10, LimitTypes
<1> HIDE DEF u, v, w
<1>12. u <= now - BrakeFor  BY <1>11
<1> QED BY <1>10, <1>12 DEF u

(* A refusal too few for the brake.                                          *)
LEMMA RefusalWaits ==
  ASSUME NEW lg, NEW lg2, NEW n \in Nat, Grows(lg, lg2, n, "refused"), now \in Nat,
         n > 0 => lg[n].what = "pass",
         NEW q \in Seq(Nat), NEW b, NEW c \in 0..n, Queued(q, lg, c), BrakedBy(b, lg, c),
         NEW r, NEW d, Shifted(q, r, d), Len(r) < BrakeRefusals
  PROVE  Braking(r, b, lg2)
<1>1. /\ \A i \in 1..n : lg2[i] = lg[i] /\ lg[i].at \in Nat
      /\ lg2[n + 1].at = now /\ lg2[n + 1].what = "refused" /\ Len(lg) = n /\ Len(lg2) = n + 1
  BY DEF Grows
<1>2. "refused" \in {"pass", "refused"} /\ "pass" # "refused"  OBVIOUS
<1> DEFINE y == Len(r)
<1>3. /\ \A k \in 1..y : \E m \in 1..(n + 1) :
                /\ lg2[m].what = "refused" /\ r[k] = lg2[m].at
                /\ Num(lg2, "refused", m, n + 1) = y - k + 1
      /\ \A m \in (c + 1)..(n + 1) :
                /\ lg2[m].what = "refused" /\ InOrderIn(lg2, m, n + 1)
                /\ lg2[m].at > now - BrakeFor
                => Num(lg2, "refused", m, n + 1) <= y
  BY QueueGrows
<1>4. Queued(r, lg2, c)  BY <1>1, <1>3 DEF Queued
<1>5. y < BrakeRefusals /\ y \in Nat /\ BrakeRefusals \in Nat  BY LimitTypes DEF Shifted
<1> HIDE DEF y
<1>6. ASSUME c > 0
      PROVE  /\ b = lg2[c].at + BrakeFor /\ lg2[c].what = "refused"
             /\ \E i \in 1..c : EnoughIn(lg2, i, c)
             /\ c < n + 1 => lg2[c + 1].what = "pass" /\ lg2[c + 1].at >= b
  <2>1. c \in 1..n /\ lg2[c] = lg[c]  BY <1>1, <1>6
  <2>2. b = lg[c].at + BrakeFor /\ lg[c].what = "refused"  BY <1>6 DEF BrakedBy
  <2>3. PICK i \in 1..c : EnoughIn(lg, i, c)  BY <1>6 DEF BrakedBy
  <2>4. EnoughIn(lg2, i, c)  BY <1>2, <2>1, <2>3, Before
  <2>5. c < n  BY <1>2, <2>1, <2>2
  <2>6. lg[c + 1].what = "pass" /\ lg[c + 1].at >= b  BY <1>1, <1>6, <2>5 DEF BrakedBy
  <2>7. lg2[c + 1] = lg[c + 1]  BY <1>1, <2>5
  <2> QED BY <2>1, <2>2, <2>4, <2>6, <2>7
<1>7. ASSUME NEW i \in 1..(n + 1), NEW j \in 1..(n + 1), EnoughIn(lg2, i, j), InOrderIn(lg2, i, j)
      PROVE  j <= c
  <2>1. i <= j  BY <1>7 DEF EnoughIn
  <2>2. CASE j = n + 1
    <3>1. lg2[i].what = "refused" /\ lg2[i].at > now - BrakeFor
          /\ Num(lg2, "refused", i, n + 1) = BrakeRefusals
      BY <1>1, <1>7, <2>2 DEF EnoughIn
    <3>2. InOrderIn(lg2, i, n + 1)  BY <1>7, <2>2
    <3>3. CASE i \in 1..c
      <4>1. lg2[i].at <= now - BrakeFor  BY <3>2, <3>3, NotEnough
      <4>2. lg2[i].at \in Nat /\ BrakeFor \in Nat  BY LimitTypes DEF Grows
      <4> QED BY <3>1, <4>1, <4>2
    <3>4. CASE i \notin 1..c
      <4>1. i \in (c + 1)..(n + 1)  BY <3>4
      <4>2. Num(lg2, "refused", i, n + 1) <= y  BY <1>3, <3>1, <3>2, <4>1
      <4> QED BY <1>5, <3>1, <4>2
    <3> QED BY <3>3, <3>4
  <2>3. CASE j # n + 1
    <3>1. i \in 1..n /\ j \in 1..n  BY <2>1, <2>3
    <3>2. EnoughIn(lg, i, j) /\ InOrderIn(lg, i, j)  BY <1>2, <1>7, <3>1, Before
    <3> QED BY <1>1, <3>1, <3>2 DEF BrakedBy
  <2> QED BY <2>2, <2>3
<1>8. c = 0 => b = 0  BY DEF BrakedBy
<1>9. BrakedBy(b, lg2, c)  BY <1>1, <1>6, <1>7, <1>8 DEF BrakedBy
<1>10. c \in 0..(n + 1)  OBVIOUS
<1> QED BY <1>1, <1>4, <1>9, <1>10 DEF Braking

(* The refusal that puts the brake on.                                       *)
LEMMA RefusalEnough ==
  ASSUME NEW lg, NEW lg2, NEW n \in Nat, Grows(lg, lg2, n, "refused"), now \in Nat,
         NEW q \in Seq(Nat), NEW c \in 0..n, Queued(q, lg, c),
         NEW r, NEW d, Shifted(q, r, d), Len(r) >= BrakeRefusals
  PROVE  Braking(<<>>, now + BrakeFor, lg2)
<1>1. /\ \A i \in 1..n : lg2[i] = lg[i] /\ lg[i].at \in Nat
      /\ lg2[n + 1].at = now /\ lg2[n + 1].what = "refused" /\ Len(lg) = n /\ Len(lg2) = n + 1
  BY DEF Grows
<1> DEFINE y == Len(r)  x == Len(q)
<1>2. y <= BrakeRefusals /\ y >= 1 /\ \A k \in 1..y : \E m \in 1..(n + 1) :
          /\ lg2[m].what = "refused" /\ r[k] = lg2[m].at
          /\ Num(lg2, "refused", m, n + 1) = y - k + 1
  BY QueueGrows
<1>3. BrakeFor \in Nat \ {0} /\ BrakeRefusals \in Nat \ {0}  BY LimitTypes
<1>4. /\ d \in 1..(x + 1) /\ y = x + 2 - d /\ r[y] = now /\ x \in Nat
      /\ \A k \in 1..(y - 1) : k + d - 1 \in 1..x /\ r[k] = q[k + d - 1]
      /\ d <= x => q[d] > now - BrakeFor
  BY DEF Shifted
<1>5. y >= BrakeRefusals  OBVIOUS
<1> HIDE DEF x, y
<1>6. y = BrakeRefusals /\ y \in Nat  BY <1>2, <1>3, <1>4, <1>5
<1>7. PICK m \in 1..(n + 1) : /\ lg2[m].what = "refused" /\ r[1] = lg2[m].at
                              /\ Num(lg2, "refused", m, n + 1) = y - 1 + 1
  <2>1. 1 \in 1..y  BY <1>3, <1>6
  <2> QED BY <1>2, <2>1
<1>8. r[1] > now - BrakeFor
  <2>1. CASE y = 1  BY <1>3, <1>4, <2>1
  <2>2. CASE y # 1
    <3>1. 1 \in 1..(y - 1) /\ 1 + d - 1 = d /\ d <= x  BY <1>2, <1>4, <1>6, <2>2
    <3> QED BY <1>4, <3>1
  <2> QED BY <2>1, <2>2
<1>9. EnoughIn(lg2, m, n + 1)
  <2>1. y - 1 + 1 = BrakeRefusals /\ m <= n + 1  BY <1>3, <1>6
  <2> QED BY <1>1, <1>7, <1>8, <2>1 DEF EnoughIn
<1>10. BrakedBy(now + BrakeFor, lg2, n + 1)  BY <1>1, <1>9 DEF BrakedBy
<1>11. Queued(<<>>, lg2, n + 1)
  <2>1. Len(<<>>) = 0 /\ 0 < BrakeRefusals  BY <1>3
  <2> QED BY <1>1, <2>1 DEF Queued
<1>12. n + 1 \in 0..(n + 1)  OBVIOUS
<1> QED BY <1>1, <1>10, <1>11, <1>12 DEF Braking

(* An event let through.                                                     *)
Paid(e, size, f) == f = [e EXCEPT !.tokens = @ - Refill, !.events = @ + 1, !.bytes = @ + size]

LEMMA PassHolds ==
  ASSUME NEW lg, NEW e, EntryHolds(e, lg), LogHolds(lg), now \in Nat, e.at = now,
         e.brakedUntil <= now, e.tokens >= Refill, e.events < DayEvents,
         NEW size \in Nat, e.bytes + size <= DayBytes,
         NEW lg2, Grown(lg, "pass", BytesOf(lg) + size, lg2), NEW f, Paid(e, size, f)
  PROVE  EntryHolds(f, lg2) /\ LogHolds(lg2)
<1>1. e \in Entry /\ lg \in Seq(LogEntry) /\ BrakeIn(lg)  BY DEF EntryHolds, LogHolds
<1>2. /\ e.tokens \in Int /\ e.at \in Nat /\ e.events \in Nat /\ e.bytes \in Nat
      /\ e.refused \in Seq(Nat) /\ e.brakedUntil \in Nat /\ Refill \in Nat
  BY <1>1, LimitTypes DEF Entry
<1>3. /\ f \in Entry /\ f.tokens = e.tokens - Refill /\ f.at = now /\ f.events = e.events + 1
      /\ f.bytes = e.bytes + size /\ f.refused = e.refused /\ f.brakedUntil = e.brakedUntil
  <2>1. e.tokens - Refill \in Int /\ e.events + 1 \in Nat /\ e.bytes + size \in Nat  BY <1>2
  <2> QED BY <1>1, <2>1 DEF Paid, Entry
<1>4. e.events = Num(lg, "pass", 1, Len(lg)) /\ e.bytes = BytesOf(lg)
  BY DEF EntryHolds, Counting
<1>5. BytesOf(lg) + size \in Nat  BY <1>2, <1>4
<1>6. "pass" \in {"pass", "refused"}  OBVIOUS
<1>7. /\ lg2 \in Seq(LogEntry) /\ BytesOf(lg2) = BytesOf(lg) + size
      /\ \E n \in Nat : Grows(lg, lg2, n, "pass")
  BY <1>1, <1>5, <1>6, Growing
<1>8. PICK n \in Nat : Grows(lg, lg2, n, "pass")  BY <1>7
<1>9. Filling(f, lg2) /\ BurstIn(lg2)  BY <1>3, <1>8, PassFills
<1>10. Num(lg2, "pass", 1, Len(lg2)) = e.events + 1
  <2>1. Len(lg) = n /\ Len(lg2) = n + 1 /\ Recount(lg, lg2, n, "pass")  BY <1>8 DEF Grows
  <2>2. 1 \in 1..(n + 1)  OBVIOUS
  <2>3. Num(lg2, "pass", 1, n + 1) = Num(lg, "pass", 1, n) + 1
    BY <1>6, <2>1, <2>2 DEF Recount
  <2> QED BY <1>4, <2>1, <2>3
<1>11. Counting(f, lg2) /\ DayIn(lg2)
  <2>1. DayEvents \in Nat  BY LimitTypes
  <2> QED BY <1>2, <1>3, <1>4, <1>7, <1>10, <2>1 DEF Counting, DayIn
<1>12. Braking(e.refused, e.brakedUntil, lg)  BY DEF EntryHolds
<1>13. Braking(f.refused, f.brakedUntil, lg2) /\ BrakeIn(lg2)
  BY <1>1, <1>2, <1>3, <1>8, <1>12, PassBrakes
<1> QED BY <1>3, <1>9, <1>7, <1>11, <1>13 DEF EntryHolds, LogHolds

(* An event refused on the merits.                                           *)
Charged(e, f) ==
    LET q == Recent(Append(e.refused, now))
    IN  f = IF Brakes(q) THEN [e EXCEPT !.refused = <<>>, !.brakedUntil = now + BrakeFor]
                         ELSE [e EXCEPT !.refused = q]

LEMMA RefusalHolds ==
  ASSUME NEW lg, NEW e, EntryHolds(e, lg), LogHolds(lg), now \in Nat,
         lg # <<>> => lg[Len(lg)].what = "pass",
         NEW lg2, Grown(lg, "refused", BytesOf(lg) + 0, lg2), NEW f, Charged(e, f)
  PROVE  EntryHolds(f, lg2) /\ LogHolds(lg2)
<1>1. e \in Entry /\ lg \in Seq(LogEntry) /\ BrakeIn(lg)  BY DEF EntryHolds, LogHolds
<1>2. /\ e.tokens \in Int /\ e.at \in Nat /\ e.events \in Nat /\ e.bytes \in Nat
      /\ e.refused \in Seq(Nat) /\ e.brakedUntil \in Nat /\ BrakeFor \in Nat
  BY <1>1, LimitTypes DEF Entry
<1> DEFINE q == e.refused
           r == Recent(Append(q, now))
<1>3. PICK d \in 1..(Len(q) + 1) : Shifted(q, r, d)  BY <1>2, RecentShifts
<1>4. r \in Seq(Nat) /\ Len(r) \in Nat  BY <1>3 DEF Shifted
<1> HIDE DEF r
<1>5. f = IF Len(r) >= BrakeRefusals THEN [e EXCEPT !.refused = <<>>, !.brakedUntil = now + BrakeFor]
                                     ELSE [e EXCEPT !.refused = r]
  BY DEF Charged, Brakes, r
<1>6. /\ f \in Entry /\ f.tokens = e.tokens /\ f.at = e.at /\ f.events = e.events /\ f.bytes = e.bytes
  <2>1. now + BrakeFor \in Nat /\ <<>> \in Seq(Nat)  BY <1>2
  <2> QED BY <1>1, <1>4, <1>5, <2>1 DEF Entry
<1>7. e.events = Num(lg, "pass", 1, Len(lg)) /\ e.bytes = BytesOf(lg)
  BY DEF EntryHolds, Counting
<1>8. BytesOf(lg) + 0 \in Nat /\ BytesOf(lg) + 0 = BytesOf(lg)  BY <1>2, <1>7
<1>9. "refused" \in {"pass", "refused"} /\ "pass" \in {"pass", "refused"} /\ "pass" # "refused"  OBVIOUS
<1>10. /\ lg2 \in Seq(LogEntry) /\ BytesOf(lg2) = BytesOf(lg) + 0
       /\ \E n \in Nat : Grows(lg, lg2, n, "refused")
  BY <1>1, <1>8, <1>9, Growing
<1>11. PICK n \in Nat : Grows(lg, lg2, n, "refused")  BY <1>10
<1>12. Filling(f, lg2) /\ BurstIn(lg2)  BY <1>6, <1>11, RefusalFills
<1>13. Len(lg) = n /\ Len(lg2) = n + 1 /\ Recount(lg, lg2, n, "refused")  BY <1>11 DEF Grows
<1>14. Num(lg2, "pass", 1, Len(lg2)) = e.events
  <2>1. 1 \in 1..(n + 1)  OBVIOUS
  <2>2. Num(lg2, "pass", 1, n + 1) = Num(lg, "pass", 1, n)
    BY <1>9, <1>13, <2>1 DEF Recount
  <2> QED BY <1>7, <1>13, <2>2
<1>15. Counting(f, lg2)  BY <1>6, <1>7, <1>8, <1>10, <1>14 DEF Counting
<1>16. DayIn(lg2)  BY <1>7, <1>8, <1>10, <1>14 DEF LogHolds, DayIn
<1>17. n > 0 => lg[n].what = "pass"
  <2>1. n > 0 => lg # <<>>  BY <1>1, <1>13
  <2> QED BY <1>13, <2>1
<1>18. PICK c \in 0..n : Queued(q, lg, c) /\ BrakedBy(e.brakedUntil, lg, c)
  BY <1>13 DEF EntryHolds, Braking
<1>19. Braking(f.refused, f.brakedUntil, lg2)
  <2>1. CASE Len(r) >= BrakeRefusals
    <3>1. f.refused = <<>> /\ f.brakedUntil = now + BrakeFor  BY <1>1, <1>5, <2>1 DEF Entry
    <3>2. Braking(<<>>, now + BrakeFor, lg2)
      BY <1>2, <1>3, <1>11, <1>18, <2>1, RefusalEnough
    <3> QED BY <3>1, <3>2
  <2>2. CASE ~(Len(r) >= BrakeRefusals)
    <3>1. f.refused = r /\ f.brakedUntil = e.brakedUntil  BY <1>1, <1>5, <2>2 DEF Entry
    <3>2. Len(r) < BrakeRefusals  BY <1>4, <2>2, LimitTypes
    <3>3. Braking(r, e.brakedUntil, lg2)
      BY <1>2, <1>3, <1>11, <1>17, <1>18, <3>2, RefusalWaits
    <3> QED BY <3>1, <3>3
  <2> QED BY <2>1, <2>2
<1>20. BrakeIn(lg2)  BY <1>1, <1>9, <1>11, BrakeKept
<1> QED BY <1>6, <1>12, <1>10, <1>15, <1>16, <1>19, <1>20 DEF EntryHolds, LogHolds

-----------------------------------------------------------------------------
(* The queue, the logs and what has been seen, together.                    *)

\* o is others, lg the logs.
Held(l, lg, o) ==
    /\ DOMAIN l = Fields /\ Queue(l)
    /\ DOMAIN lg = Sources /\ \A s \in Sources : LogHolds(lg[s])
    /\ o \in [Sources -> SUBSET Sources] /\ Seen(l.order, o)
    /\ \A s \in Known(l) : EntryHolds(l.table[s], lg[s])

LEMMA HeldSame ==
  ASSUME NEW l, NEW m, NEW lg, NEW o, Held(l, lg, o),
         DOMAIN m = Fields, m.order = l.order, m.table = l.table
  PROVE  Held(m, lg, o)
<1>1. Known(m) = Known(l)  BY DEF Known
<1>2. Queue(m)  BY <1>1 DEF Held, Queue
<1> QED BY <1>1, <1>2 DEF Held

(* Nobody is known: a new day, a new plugin.                                 *)
LEMMA NobodyHeld ==
  ASSUME NEW l, DOMAIN l = Fields, l.order = <<>>, l.table = <<>>, now \in Nat
  PROVE  /\ Known(l) = {}
         /\ Held(l, [s \in Sources |-> <<>>], [s \in Sources |-> Unseen])
<1> DEFINE o == [s \in Sources |-> Unseen]
<1>1. Known(l) = {}
  <2>1. DOMAIN <<>> = {}  OBVIOUS
  <2> QED BY <2>1 DEF Known, ToSet
<1>2. Queue(l)
  <2>1. <<>> \in Seq(Sources) /\ IsInjective(<<>>) /\ Len(<<>>) = 0  BY DEF IsInjective
  <2>2. <<>> \in [{} -> Entry]  OBVIOUS
  <2> QED BY <1>1, <2>1, <2>2, Lengths DEF Queue
<1>3. Seen(<<>>, o)
  <2>1. Len(<<>>) = 0 /\ \A s \in Sources : s \in o[s]  BY DEF Unseen
  <2> QED BY <2>1 DEF Seen
<1>4. o \in [Sources -> SUBSET Sources]  BY DEF Unseen
<1>5. LogHolds(<<>>)  BY NothingLogged
<1> QED BY <1>1, <1>2, <1>3, <1>4, <1>5 DEF Held

LEMMA FlushQueue ==
  ASSUME NEW l, DOMAIN l = Fields
  PROVE  /\ DOMAIN Flush(l) = Fields /\ Flush(l).day = l.day
         /\ Flush(l).order = l.order /\ Flush(l).table = l.table
BY DEF Flush, Fields

LEMMA WaitingQueue ==
  ASSUME NEW l, DOMAIN l = Fields
  PROVE  /\ DOMAIN WriteWaiting(l) = Fields /\ WriteWaiting(l).day = l.day
         /\ WriteWaiting(l).order = l.order /\ WriteWaiting(l).table = l.table
BY FlushQueue DEF WriteWaiting

LEMMA LimitQueue ==
  ASSUME NEW l, DOMAIN l = Fields, NEW s
  PROVE  /\ DOMAIN Limit(l, s) = Fields /\ Limit(l, s).day = l.day
         /\ Limit(l, s).order = l.order /\ Limit(l, s).table = l.table
<1> DEFINE first == s \notin l.limited /\ Cardinality(l.limited) < MaxSources
           m == [l EXCEPT !.n = @ + 1, !.dirty = TRUE,
                          !.limited = IF first THEN @ \cup {s} ELSE @]
<1>1. DOMAIN m = Fields /\ m.day = l.day /\ m.order = l.order /\ m.table = l.table  BY DEF Fields
<1>2. Limit(l, s) = IF first THEN Flush(m) ELSE WriteWaiting(m)  BY DEF Limit
<1> HIDE DEF m, first
<1> QED BY <1>1, <1>2, FlushQueue, WaitingQueue

\* What others holds once the day is the clock's.
Rolled(o) == IF Roll(limits).day = limits.day THEN o ELSE [q \in Sources |-> Unseen]

LEMMA RollHeld ==
  ASSUME Held(limits, log, others), now \in Nat
  PROVE  /\ Held(Roll(limits), [q \in Sources |-> LogOf(q)], Rolled(others))
         /\ Known(Roll(limits)) \subseteq Known(limits)
<1> DEFINE l == Roll(limits)
           lg == [q \in Sources |-> LogOf(q)]
<1>1. CASE Day(now) = limits.day
  <2>1. l = limits /\ Rolled(others) = others  BY <1>1 DEF Roll, Rolled
  <2>2. \A q \in Sources : lg[q] = IF q \in Known(limits) THEN log[q] ELSE <<>>
    BY <2>1 DEF LogOf
  <2>3. Known(limits) \subseteq Sources  BY DEF Held, Queue, Known, ToSet
  <2>4. DOMAIN lg = Sources  OBVIOUS
  <2>5. LogHolds(<<>>)  BY NothingLogged
  <2> HIDE DEF lg, l
  <2>6. \A q \in Sources : LogHolds(lg[q])  BY <2>2, <2>5 DEF Held
  <2>7. \A q \in Known(limits) : EntryHolds(limits.table[q], lg[q])  BY <2>2, <2>3 DEF Held
  <2>8. Held(l, lg, Rolled(others))  BY <2>1, <2>4, <2>6, <2>7 DEF Held
  <2> QED BY <2>1, <2>8 DEF lg, l
<1>2. CASE Day(now) # limits.day
  <2> DEFINE w == IF limits.dirty THEN Flush(limits) ELSE limits
  <2>1. DOMAIN w = Fields  BY FlushQueue DEF Held
  <2>2. DOMAIN l = Fields /\ l.day = Day(now) /\ l.order = <<>> /\ l.table = <<>>
    <3>1. l = [w EXCEPT !.day = Day(now), !.order = <<>>, !.table = <<>>, !.limited = {},
                        !.n = w.file[Day(now)].n, !.base = w.file[Day(now)].sources]
      BY <1>2 DEF Roll
    <3> HIDE DEF w, l
    <3> QED BY <2>1, <3>1 DEF Fields
  <2>3. Rolled(others) = [q \in Sources |-> Unseen]  BY <1>2, <2>2 DEF Rolled
  <2> HIDE DEF l, w
  <2>4. Known(l) = {} /\ Held(l, [s \in Sources |-> <<>>], [s \in Sources |-> Unseen])
    BY <2>2, NobodyHeld
  <2>5. lg = [s \in Sources |-> <<>>]  BY <2>4 DEF LogOf, l
  <2> QED BY <2>3, <2>4, <2>5 DEF l
<1> QED BY <1>1, <1>2

(* _source, on an object with the queue and the table of the day.            *)
LEMMA SourceHeld ==
  ASSUME Held(limits, log, others), now \in Nat, NEW s \in Sources,
         NEW w, DOMAIN w = Fields, w.order = Roll(limits).order, w.table = Roll(limits).table
  PROVE  /\ Held(Source(w, s), [q \in Sources |-> LogOf(q)], Seeing(s, Rolled(others)))
         /\ s \in Known(Source(w, s))
<1> DEFINE m == Source(w, s)
           lg == [q \in Sources |-> LogOf(q)]
           o == Rolled(others)
<1>1. Held(Roll(limits), lg, o)  BY RollHeld
<1>2. LogOf(s) = lg[s]  OBVIOUS
<1>3. s \notin Known(w) => LogOf(s) = <<>>  BY DEF LogOf, Known
<1> HIDE DEF lg, o, m
<1>4. Held(w, lg, o)  BY <1>1, HeldSame
<1>5. /\ DOMAIN m = Fields /\ Queue(m) /\ s \in Known(m)
      /\ m.table[s] = IF s \in Known(w) THEN w.table[s] ELSE Fresh
      /\ \A q \in Known(m) : q # s => q \in Known(w) /\ m.table[q] = w.table[q]
  BY <1>4, SourceQueue DEF Held, m
<1>6. Seen(m.order, Seeing(s, o)) /\ Seeing(s, o) \in [Sources -> SUBSET Sources]
  BY <1>4, SourceSeen DEF Held, m
<1>7. EntryHolds(Fresh, <<>>)  BY NothingLogged
<1>8. ASSUME NEW q \in Known(m) PROVE EntryHolds(m.table[q], lg[q])
  <2>1. CASE q # s  BY <1>4, <1>5, <2>1 DEF Held
  <2>2. CASE q = s /\ s \in Known(w)  BY <1>4, <1>5, <2>2 DEF Held
  <2>3. CASE q = s /\ s \notin Known(w)  BY <1>2, <1>3, <1>5, <1>7, <2>3
  <2> QED BY <2>1, <2>2, <2>3
<1>9. Held(m, lg, Seeing(s, o))  BY <1>4, <1>5, <1>6, <1>8 DEF Held
<1> QED BY <1>5, <1>9 DEF lg, o, m

(* A source's entry and its log change together.                             *)
LEMMA EntryChanged ==
  ASSUME NEW m, NEW lg, NEW o, Held(m, lg, o), NEW s \in Known(m),
         NEW f, NEW lgs, EntryHolds(f, lgs), LogHolds(lgs),
         NEW lg2, DOMAIN lg2 = Sources, lg2[s] = lgs, \A q \in Sources \ {s} : lg2[q] = lg[q],
         NEW n, n = [m EXCEPT !.table[s] = f]
  PROVE  Held(n, lg2, o)
<1>1. DOMAIN n = Fields /\ n.order = m.order /\ n.table = [m.table EXCEPT ![s] = f]
  BY DEF Held, Fields
<1>2. Known(n) = Known(m) /\ Known(m) \subseteq Sources
  BY <1>1 DEF Held, Queue, Known, ToSet
<1>3. m.table \in [Known(m) -> Entry] /\ f \in Entry  BY DEF Held, Queue, EntryHolds
<1>4. n.table \in [Known(n) -> Entry] /\ n.table[s] = f /\ \A q \in Known(m) \ {s} : n.table[q] = m.table[q]
  BY <1>1, <1>2, <1>3
<1>5. Queue(n)  BY <1>1, <1>4 DEF Held, Queue
<1>6. \A q \in Sources : LogHolds(lg2[q])  BY <1>2 DEF Held
<1>7. \A q \in Known(n) : EntryHolds(n.table[q], lg2[q])  BY <1>2, <1>4 DEF Held
<1> QED BY <1>1, <1>5, <1>6, <1>7 DEF Held

\* The event being judged is the last in its source's log.
Judged == judging \in Known(limits) =>
              log[judging] # <<>> /\ log[judging][Len(log[judging])].what = "pass"

SourceInv == /\ judging \in Sources \cup {None}
             /\ Held(limits, log, others)
             /\ Judged

LEMMA NowType == CountInv => now \in Nat
BY Lengths DEF CountInv

LEMMA InitSource == Init => SourceInv
<1> SUFFICES ASSUME Init PROVE SourceInv  OBVIOUS
<1>1. /\ DOMAIN limits = Fields /\ limits.order = <<>> /\ limits.table = <<>>
      /\ now \in Nat /\ judging = None
      /\ log = [s \in Sources |-> <<>>] /\ others = [s \in Sources |-> Unseen]
  BY DEF Init, New, Fields
<1>2. Known(limits) = {} /\ Held(limits, log, others)  BY <1>1, NobodyHeld
<1> QED BY <1>1, <1>2 DEF SourceInv, Judged

(* A plugin that starts has the file, and nobody in its table.               *)
LEMMA ForgetSource ==
  ASSUME now \in Nat, Forget, NEW l, limits' = New(l)
  PROVE  SourceInv'
<1>1. /\ DOMAIN limits' = Fields /\ limits'.order = <<>> /\ limits'.table = <<>>
  BY DEF New, Fields
<1>2. judging' = None /\ log' = [s \in Sources |-> <<>>] /\ others' = [s \in Sources |-> Unseen]
  BY DEF Forget
<1>3. Known(limits)' = {} /\ Held(limits', [s \in Sources |-> <<>>], [s \in Sources |-> Unseen])
  BY <1>1, NobodyHeld DEF Known
<1>4. Held(limits, log, others)'  BY <1>2, <1>3
<1> QED BY <1>2, <1>3, <1>4 DEF SourceInv, Judged

(* What check finds when it looks at a source.                               *)
LEMMA LookedHeld ==
  ASSUME SourceInv, CountInv, NEW s \in Sources
  PROVE  /\ Held(Looked(s), [q \in Sources |-> LogOf(q)], Seeing(s, Rolled(others)))
         /\ s \in Known(Looked(s)) /\ Looked(s).day = Roll(limits).day
         /\ EntryHolds(Looked(s).table[s], LogOf(s)) /\ LogHolds(LogOf(s))
<1> DEFINE w == WriteWaiting(Roll(limits))
           lg == [q \in Sources |-> LogOf(q)]
<1>1. now \in Nat /\ Held(limits, log, others)  BY NowType DEF SourceInv
<1>2. DOMAIN Roll(limits) = Fields  BY <1>1, RollHeld DEF Held
<1>3. /\ DOMAIN w = Fields /\ w.day = Roll(limits).day
      /\ w.order = Roll(limits).order /\ w.table = Roll(limits).table
  BY <1>2, WaitingQueue
<1>4. Looked(s) = Source(w, s)  BY DEF Looked
<1> HIDE DEF w
<1>5. Held(Source(w, s), lg, Seeing(s, Rolled(others))) /\ s \in Known(Source(w, s))
  BY <1>1, <1>3, SourceHeld
<1>6. lg[s] = LogOf(s)  OBVIOUS
<1> HIDE DEF lg
<1>7. EntryHolds(Source(w, s).table[s], LogOf(s)) /\ LogHolds(LogOf(s))
  BY <1>5, <1>6 DEF Held
<1>8. Looked(s).day = Roll(limits).day
  BY LookedCounts, RollCounts DEF CountInv
<1> QED BY <1>4, <1>5, <1>7, <1>8 DEF lg

(* Time has dripped in.                                                      *)
LEMMA FilledHeld ==
  ASSUME SourceInv, CountInv, NEW s \in Sources
  PROVE  /\ EntryHolds(Filled(s), LogOf(s)) /\ Filled(s).at = now
         /\ Filled(s).brakedUntil = Looked(s).table[s].brakedUntil
<1>1. now \in Nat  BY NowType
<1>2. Dripped(Looked(s).table[s], Filled(s))  BY DEF Dripped, Filled, Full
<1>3. EntryHolds(Looked(s).table[s], LogOf(s)) /\ LogHolds(LogOf(s))  BY LookedHeld
<1> QED BY <1>1, <1>2, <1>3, FillHolds

LEMMA Others ==
  ASSUME NEW s \in Sources, NEW l, l.day = Roll(limits).day, Saw(s, l)
  PROVE  others' = Seeing(s, Rolled(others))
BY DEF Saw, Seeing, Rolled

LEMMA OverSource ==
  ASSUME SourceInv, CountInv, NEW s \in Sources, NEW size \in Sizes, CheckOver(s, size)
  PROVE  SourceInv'
<1> DEFINE lg == [q \in Sources |-> LogOf(q)]
           o == Seeing(s, Rolled(others))
<1>1. /\ judging = None /\ judging' = judging /\ log' = lg /\ Saw(s, limits')
  BY DEF CheckOver, Begin
<1>2. /\ Held(Looked(s), lg, o) /\ s \in Known(Looked(s)) /\ Looked(s).day = Roll(limits).day
      /\ LogHolds(LogOf(s))
  BY LookedHeld
<1>3. EntryHolds(Filled(s), LogOf(s))  BY FilledHeld
<1>4. DOMAIN lg = Sources /\ lg[s] = LogOf(s)  OBVIOUS
<1>5. PICK l : /\ l = Looked(s) \/ l = [Looked(s) EXCEPT !.table[s] = Filled(s)]
               /\ limits' = Limit(l, s)
  BY DEF CheckOver
<1> HIDE DEF lg, o
<1>6. Held(l, lg, o) /\ l.day = Roll(limits).day
  <2>1. CASE l = Looked(s)  BY <1>2, <2>1
  <2>2. CASE l = [Looked(s) EXCEPT !.table[s] = Filled(s)]
    <3>1. Held(l, lg, o)  BY <1>2, <1>3, <1>4, <2>2, EntryChanged
    <3>2. l.day = Looked(s).day  BY <1>2, <2>2 DEF Held, Fields
    <3> QED BY <1>2, <3>1, <3>2
  <2> QED BY <1>5, <2>1, <2>2
<1>7. /\ DOMAIN limits' = Fields /\ limits'.day = l.day
      /\ limits'.order = l.order /\ limits'.table = l.table
  BY <1>5, <1>6, LimitQueue DEF Held
<1>8. Held(limits', lg, o)  BY <1>6, <1>7, HeldSame
<1>9. others' = o  BY <1>1, <1>6, <1>7, Others DEF o
<1>10. None \notin Known(limits')
  BY <1>8, LimitsAssumption DEF Held, Queue, Known, ToSet
<1>11. Held(limits, log, others)'  BY <1>1, <1>8, <1>9
<1>12. Judged'  BY <1>1, <1>10 DEF Judged, Known
<1> QED BY <1>1, <1>11, <1>12 DEF SourceInv

\* The logs once s's has an entry more.
LEMMA LogsGrown ==
  ASSUME NEW s \in Sources, NEW what, NEW size, Logged(s, what, size)
  PROVE  /\ Grown(LogOf(s), what, BytesOf(LogOf(s)) + size, log'[s])
         /\ DOMAIN log' = Sources /\ \A q \in Sources \ {s} : log'[q] = LogOf(q)
BY DEF Logged, Grown

LEMMA PassSource ==
  ASSUME SourceInv, CountInv, NEW s \in Sources, NEW size \in Sizes, CheckPass(s, size)
  PROVE  SourceInv'
<1> DEFINE lg == [q \in Sources |-> LogOf(q)]
           o == Seeing(s, Rolled(others))
           f == [Filled(s) EXCEPT !.tokens = @ - Refill, !.events = @ + 1, !.bytes = @ + size]
<1>1. /\ judging' = s /\ Logged(s, "pass", size) /\ Saw(s, limits')
      /\ ~Braked(s) /\ ~Over(s, size)
      /\ limits' = [Looked(s) EXCEPT !.table[s] = f]
  BY DEF CheckPass, Begin
<1>2. /\ Held(Looked(s), lg, o) /\ s \in Known(Looked(s)) /\ Looked(s).day = Roll(limits).day
      /\ LogHolds(LogOf(s)) /\ EntryHolds(Looked(s).table[s], LogOf(s))
  BY LookedHeld
<1>3. /\ EntryHolds(Filled(s), LogOf(s)) /\ Filled(s).at = now
      /\ Filled(s).brakedUntil = Looked(s).table[s].brakedUntil
  BY FilledHeld
<1>4. now \in Nat /\ size \in Nat  BY NowType, LimitTypes
<1>5. /\ Filled(s).tokens \in Int /\ Filled(s).events \in Nat /\ Filled(s).bytes \in Nat
      /\ Filled(s).brakedUntil \in Nat
      /\ Refill \in Nat /\ DayEvents \in Nat /\ DayBytes \in Nat
  BY <1>3, LimitTypes DEF EntryHolds, Entry
<1>6. /\ Filled(s).brakedUntil <= now /\ Filled(s).tokens >= Refill
      /\ Filled(s).events < DayEvents /\ Filled(s).bytes + size <= DayBytes
  <2>1. ~(Filled(s).brakedUntil > now)  BY <1>1, <1>3 DEF Braked
  <2>2. /\ ~(Filled(s).tokens < Refill) /\ ~(Filled(s).events >= DayEvents)
        /\ ~(Filled(s).bytes + size > DayBytes)
    BY <1>1 DEF Over
  <2> QED BY <1>4, <1>5, <2>1, <2>2
<1>7. /\ Grown(LogOf(s), "pass", BytesOf(LogOf(s)) + size, log'[s])
      /\ DOMAIN log' = Sources /\ \A q \in Sources \ {s} : log'[q] = LogOf(q)
  BY <1>1, LogsGrown
<1>8. Paid(Filled(s), size, f)  BY DEF Paid
<1>9. DOMAIN lg = Sources /\ \A q \in Sources : lg[q] = LogOf(q)  OBVIOUS
<1> HIDE DEF lg, o, f
<1>10. EntryHolds(f, log'[s]) /\ LogHolds(log'[s])
  BY <1>2, <1>3, <1>4, <1>6, <1>7, <1>8, PassHolds
<1>11. Held(limits', log', o)
  BY <1>1, <1>2, <1>7, <1>9, <1>10, EntryChanged
<1>12. limits'.day = Roll(limits).day
  BY <1>1, <1>2 DEF Held, Fields
<1>13. others' = o  BY <1>1, <1>12, Others DEF o
<1>14. log'[s] # <<>> /\ log'[s][Len(log'[s])].what = "pass"
  <2> DEFINE new == log'[s]  bytes == BytesOf(LogOf(s)) + size
  <2>1. bytes \in Nat
    BY <1>3, <1>4, <1>5 DEF EntryHolds, Counting
  <2>2. LogOf(s) \in Seq(LogEntry) /\ "pass" \in {"pass", "refused"}  BY <1>2 DEF LogHolds
  <2> HIDE DEF new, bytes
  <2>3. Grown(LogOf(s), "pass", bytes, new)  BY <1>7 DEF new, bytes
  <2>4. /\ Len(LogOf(s)) \in Nat /\ new \in Seq(LogEntry) /\ Len(new) = Len(LogOf(s)) + 1
        /\ new[Len(LogOf(s)) + 1].what = "pass"
    BY <1>4, <2>1, <2>2, <2>3, Longer
  <2>5. new # <<>> /\ new[Len(new)].what = "pass"  BY <2>4
  <2> QED BY <2>5 DEF new
<1>15. Held(limits, log, others)'  BY <1>11, <1>13
<1>16. Judged'  BY <1>1, <1>14 DEF Judged
<1> QED BY <1>1, <1>15, <1>16 DEF SourceInv

LEMMA RefusedSource ==
  ASSUME SourceInv, CountInv, JudgedRefused
  PROVE  SourceInv'
<1> DEFINE s == judging
           l == Source(Roll(limits), s)
           lg == [q \in Sources |-> LogOf(q)]
           o == Seeing(s, Rolled(others))
           e == l.table[s]
           r == Recent(Append(e.refused, now))
           f == IF Brakes(r) THEN [e EXCEPT !.refused = <<>>, !.brakedUntil = now + BrakeFor]
                             ELSE [e EXCEPT !.refused = r]
<1>1. /\ s # None /\ judging' = None /\ Logged(s, "refused", 0) /\ Saw(s, l)
      /\ limits' = [l EXCEPT !.table[s] = f]
  BY DEF JudgedRefused
<1>2. s \in Sources /\ now \in Nat /\ Held(limits, log, others)  BY <1>1, NowType DEF SourceInv
<1>3. DOMAIN Roll(limits) = Fields /\ Known(Roll(limits)) \subseteq Known(limits)
  BY <1>2, RollHeld DEF Held
<1>4. Held(l, lg, o) /\ s \in Known(l)  BY <1>2, <1>3, SourceHeld
<1>5. DOMAIN lg = Sources /\ \A q \in Sources : lg[q] = LogOf(q)  OBVIOUS
<1>6. /\ Grown(LogOf(s), "refused", BytesOf(LogOf(s)) + 0, log'[s])
      /\ DOMAIN log' = Sources /\ \A q \in Sources \ {s} : log'[q] = LogOf(q)
  BY <1>1, <1>2, LogsGrown
<1>7. Charged(e, f)  BY DEF Charged
<1>8. l.day = Roll(limits).day
  <2>1. Object(Roll(limits))  BY RollCounts DEF CountInv, Counts
  <2> QED BY <2>1, SourceSame DEF Same
<1>9. LogOf(s) # <<>> => LogOf(s)[Len(LogOf(s))].what = "pass"
  <2>1. CASE s \in Known(Roll(limits))
    <3>1. LogOf(s) = log[s] /\ s \in Known(limits)  BY <1>3, <2>1 DEF LogOf
    <3> QED BY <3>1 DEF SourceInv, Judged
  <2>2. CASE s \notin Known(Roll(limits))  BY <2>2 DEF LogOf
  <2> QED BY <2>1, <2>2
<1> HIDE DEF lg, o, f, r, l
<1>10. EntryHolds(e, LogOf(s)) /\ LogHolds(LogOf(s))
  BY <1>2, <1>4, <1>5 DEF Held
<1> HIDE DEF e, s
<1>11. EntryHolds(f, log'[s]) /\ LogHolds(log'[s])
  BY <1>2, <1>6, <1>7, <1>9, <1>10, RefusalHolds
<1>12. Held(limits', log', o)
  BY <1>1, <1>2, <1>4, <1>5, <1>6, <1>11, EntryChanged
<1>13. others' = o  BY <1>1, <1>2, <1>8, Others DEF o
<1>14. None \notin Known(limits')
  BY <1>12, LimitsAssumption DEF Held, Queue, Known, ToSet
<1>15. Held(limits, log, others)'  BY <1>12, <1>13
<1>16. Judged'  BY <1>1, <1>14 DEF Judged, Known
<1> QED BY <1>1, <1>15, <1>16 DEF SourceInv

LEMMA SourceStep == SourceInv /\ CountInv /\ [Next]_vars => SourceInv'
<1> SUFFICES ASSUME SourceInv, CountInv, [Next]_vars PROVE SourceInv'  OBVIOUS
<1>1. ASSUME NEW s \in Sources, NEW size \in Sizes, CheckOver(s, size) PROVE SourceInv'
  BY <1>1, OverSource
<1>2. ASSUME NEW s \in Sources, NEW size \in Sizes, CheckPass(s, size) PROVE SourceInv'
  BY <1>2, PassSource
<1>3. CASE JudgedRefused  BY <1>3, RefusedSource
<1>4. CASE Quiet
  <2>1. /\ limits' = Flush(limits) /\ judging = None
        /\ judging' = judging /\ log' = log /\ others' = others
    BY <1>4 DEF Quiet
  <2>2. /\ DOMAIN limits' = Fields /\ limits'.order = limits.order /\ limits'.table = limits.table
    BY <2>1, FlushQueue DEF SourceInv, Held
  <2>3. Held(limits', log, others)  BY <2>2, HeldSame DEF SourceInv
  <2>4. Held(limits, log, others)'  BY <2>1, <2>3
  <2>5. None \notin Known(limits')
    BY <2>3, LimitsAssumption DEF Held, Queue, Known, ToSet
  <2> QED BY <2>1, <2>4, <2>5 DEF SourceInv, Judged
<1>5. CASE \/ Tick \/ SetBack \/ Outage \/ JudgedQuiet \/ Wait \/ UNCHANGED vars
  <2>1. /\ limits' = limits /\ log' = log /\ others' = others
        /\ judging' = judging \/ judging' = None
    BY <1>5 DEF Tick, SetBack, Outage, JudgedQuiet, Wait, vars, bounds
  <2>2. None \notin Known(limits)
    BY LimitsAssumption DEF SourceInv, Held, Queue, Known, ToSet
  <2>3. Held(limits, log, others)'  BY <2>1 DEF SourceInv
  <2>4. Judged'  BY <2>1, <2>2 DEF SourceInv, Judged, Known
  <2> QED BY <2>1, <2>3, <2>4 DEF SourceInv
<1>6. CASE Stop
  <2>1. Forget /\ limits' = New(IF limits.dirty THEN Flush(limits) ELSE limits)  BY <1>6 DEF Stop
  <2> QED BY <2>1, NowType, ForgetSource
<1>7. CASE Crash
  <2>1. Forget /\ limits' = New(limits)  BY <1>7 DEF Crash
  <2> QED BY <2>1, NowType, ForgetSource
<1> QED BY <1>1, <1>2, <1>3, <1>4, <1>5, <1>6, <1>7 DEF Next

LEMMA SourceInvariant == Spec => []SourceInv
BY CountInvariant, InitSource, SourceStep, PTL DEF Spec

(* Between any two of a source's admitted events no more than a full bucket  *)
(* and what dripped in meanwhile (check).                                    *)
THEOREM NoBurst == Spec => []BurstBound
<1>1. SourceInv => BurstBound
  <2> SUFFICES ASSUME SourceInv, NEW s \in Sources,
                      NEW i \in 1..Len(log[s]), NEW j \in 1..Len(log[s]),
                      i <= j, log[s][i].what = "pass", log[s][j].what = "pass"
               PROVE  Refill * (Num(log[s], "pass", i, j) - Burst) <= log[s][j].at - log[s][i].at
    BY DEF BurstBound, Passed, Entries, Num, Kind
  <2> DEFINE k == Num(log[s], "pass", i, j)  u == log[s][i].at  v == log[s][j].at
  <2>1. LogHolds(log[s])  BY DEF SourceInv, Held
  <2>2. Bought(k) <= Full + (v - u)  BY <2>1 DEF LogHolds, BurstIn
  <2>3. u \in Nat /\ v \in Nat /\ i \in Int /\ j \in Int  BY <2>1, LogTypes DEF LogHolds
  <2>4. k \in Nat  BY <2>3, NumType
  <2> HIDE DEF k, u, v
  <2>5. Bought(k) \in Nat /\ Refill * (k - Burst) = Bought(k) - Full /\ Full \in Nat
    BY <2>4, Products, LimitTypes
  <2>6. Bought(k) - Full <= v - u  BY <2>2, <2>3, <2>5
  <2>7. Refill * (k - Burst) <= v - u  BY <2>5, <2>6
  <2> QED BY <2>7 DEF k, u, v
<1> QED BY <1>1, SourceInvariant, PTL

(* No more events and bytes of a source than the day's caps (check).         *)
THEOREM CapsKept == Spec => []DayCaps
<1>1. SourceInv => DayCaps
  BY DEF SourceInv, Held, LogHolds, DayIn, DayCaps, Entries, Num, Kind
<1> QED BY <1>1, SourceInvariant, PTL

(* After enough refusals within an hour nothing is let through for an hour   *)
(* (refused, check).                                                         *)
THEOREM BrakeKeeps == Spec => []BrakeHolds
<1>1. ASSUME NEW s, NEW i, NEW j, NEW p
      PROVE  /\ Enough(s, i, j) <=> EnoughIn(log[s], i, j)
             /\ InOrder(s, i, p) <=> InOrderIn(log[s], i, p)
  BY DEF Enough, EnoughIn, Refused, Entries, Num, Kind, InOrder, InOrderIn
<1>2. SourceInv => BrakeHolds
  BY <1>1 DEF SourceInv, Held, LogHolds, BrakeIn, BrakeHolds, Passed
<1> QED BY <1>2, SourceInvariant, PTL

(* And only a source that had so many is braked (refused).                   *)
THEOREM BrakesEarned == Spec => []BrakeEarned
<1>1. SourceInv => BrakeEarned
  <2> SUFFICES ASSUME SourceInv, NEW s \in Known(limits), limits.table[s].brakedUntil > 0
               PROVE  \E i, j \in 1..Len(log[s]) :
                         Enough(s, i, j) /\ limits.table[s].brakedUntil = log[s][j].at + BrakeFor
    BY DEF BrakeEarned
  <2> DEFINE b == limits.table[s].brakedUntil  n == Len(log[s])
  <2>1. EntryHolds(limits.table[s], log[s])  BY DEF SourceInv, Held
  <2>2. PICK c \in 0..n : BrakedBy(b, log[s], c)  BY <2>1 DEF EntryHolds, Braking
  <2>3. n \in Nat
    <3>1. s \in Sources  BY DEF SourceInv, Held, Queue, Known, ToSet
    <3> QED BY <3>1, LogTypes DEF SourceInv, Held, LogHolds
  <2>4. c # 0  BY <2>2 DEF BrakedBy
  <2> HIDE DEF n
  <2>5. c > 0 /\ c \in 1..n  BY <2>3, <2>4
  <2>6. b = log[s][c].at + BrakeFor  BY <2>2, <2>5 DEF BrakedBy
  <2>7. PICK i \in 1..c : EnoughIn(log[s], i, c)  BY <2>2, <2>5 DEF BrakedBy
  <2>8. i \in 1..n  BY <2>3, <2>5
  <2>9. Enough(s, i, c)  BY <2>7 DEF Enough, EnoughIn, Refused, Entries, Num, Kind
  <2> QED BY <2>5, <2>6, <2>8, <2>9 DEF n
<1> QED BY <1>1, SourceInvariant, PTL

(* A source is forgotten only when MAX_SOURCES others have been seen since   *)
(* (_source).                                                                *)
THEOREM Remembers == Spec => []RememberedWhileRecent
<1>1. SourceInv => RememberedWhileRecent
  <2> SUFFICES ASSUME SourceInv, NEW s \in Sources, s \notin others[s],
                      Cardinality(others[s]) < MaxSources
               PROVE  s \in Known(limits)
    BY DEF RememberedWhileRecent
  <2>1. others[s] \in SUBSET Sources /\ Seen(limits.order, others)  BY DEF SourceInv, Held
  <2>2. Cardinality(others[s]) \in Nat /\ MaxSources \in Nat  BY <2>1, SourcesFinite, Lengths
  <2>3. s \notin ToSet(limits.order) => Cardinality(others[s]) >= MaxSources  BY <2>1 DEF Seen
  <2> QED BY <2>2, <2>3 DEF Known
<1> QED BY <1>1, SourceInvariant, PTL

(* Every variable has its type; the table holds exactly the sources in the   *)
(* queue, each once, and never more than MAX_SOURCES (_source).              *)
THEOREM LimitsTyped == Spec => []TypeOK
<1>1. SourceInv /\ CountInv => TypeOK
  <2> SUFFICES ASSUME SourceInv, CountInv PROVE TypeOK  OBVIOUS
  <2>1. /\ limits.day \in Days \cup {None} /\ limits.limited \subseteq Sources
        /\ limits.dirty \in BOOLEAN /\ limits.failed \subseteq Days
        /\ limits.file \in [Days -> [n : Nat, sources : Nat]]
    BY DEF CountInv, Counts, Object
  <2>2. \A d \in Days : told[d].missed \subseteq told[d].sources
    BY DEF CountInv, Counts, History
  <2>3. /\ IsInjective(limits.order) /\ Len(limits.order) <= MaxSources
        /\ DOMAIN limits.table = Known(limits)
        /\ \A s \in Known(limits) : limits.table[s] \in Entry
    BY DEF SourceInv, Held, Queue
  <2> QED BY <2>1, <2>2, <2>3 DEF TypeOK, SourceInv, CountInv
<1> QED BY <1>1, CountInvariant, SourceInvariant, PTL
=============================================================================
