-------------------------- MODULE BoundKeysProofs --------------------------
(***************************************************************************)
(* What holds of the slot of device records and of the keys taken as bound  *)
(* for every set of keys, statements and relays, every cap and every batch: *)
(* the copies stay capped, advice adds no key, and a key is bound only by   *)
(* what nothing held all along, here or abroad, gainsays.                   *)
(***************************************************************************)
EXTENDS BoundKeys, FiniteSetTheorems, FunctionTheorems, TLAPS

\* The keys a signed copy of s is on its way for.
InFlight(s) == {k \in Keys : <<k, <<s, TRUE>>>> \in admitted}

Copied(s) == SignedCarriers(s) \cup InFlight(s)

\* The inductive invariant of the slot: what is admitted counts already.
SlotInv ==
    /\ slot \in [Keys -> Records \cup {Nothing}]
    /\ admitted \in SUBSET (Keys \X Records)
    /\ IsFiniteSet(admitted) /\ Cardinality(admitted) <= Batch
    /\ \A s \in Statements : Cardinality(Copied(s)) <= Copies + Batch - 1
    /\ \A e \in admitted : e[2][2] \/ slot[e[1]] # Nothing

-----------------------------------------------------------------------------
LEMMA RecordIsPair == ASSUME NEW r \in Records
                      PROVE  r[1] \in Statements /\ r[2] \in BOOLEAN /\ r = <<r[1], r[2]>> /\ r # Nothing
BY SlotAssumption DEF Records

(* Each copy on its way is one of the events admitted.                       *)
LEMMA FlightsBounded == ASSUME NEW s, NEW A, IsFiniteSet(A),
                               NEW F, F = {k \in Keys : <<k, <<s, TRUE>>>> \in A}
                        PROVE  IsFiniteSet(F) /\ Cardinality(F) <= Cardinality(A)
<1> DEFINE f == [k \in F |-> <<k, <<s, TRUE>>>>]
<1>1. f \in [F -> A]  OBVIOUS
<1>2. \A j, k \in F : f[j] = f[k] => j = k  OBVIOUS
<1>3. f \in Injection(F, A)  BY <1>1, <1>2, Fun_IsInj
<1> HIDE DEF f
<1> QED BY <1>3, FS_Injection

(* The bound on a set that is part of two bounded ones.                      *)
LEMMA PartOfTwo == ASSUME NEW S, NEW A, NEW B, S \subseteq A \cup B,
                          IsFiniteSet(A), IsFiniteSet(B)
                   PROVE  IsFiniteSet(S) /\ Cardinality(S) <= Cardinality(A) + Cardinality(B)
<1>1. IsFiniteSet(A \cup B)  BY FS_Union
<1>2. Cardinality(A \cup B) = Cardinality(A) + Cardinality(B) - Cardinality(A \cap B)  BY FS_Union
<1>3. IsFiniteSet(A \cap B)  BY FS_Intersection
<1>4. /\ Cardinality(A) \in Nat /\ Cardinality(B) \in Nat
      /\ Cardinality(A \cap B) \in Nat /\ Cardinality(A \cup B) \in Nat
  BY <1>1, <1>3, FS_CardinalityType
<1>5. IsFiniteSet(S) /\ Cardinality(S) <= Cardinality(A \cup B)  BY <1>1, FS_Subset
<1>6. Cardinality(S) \in Nat  BY <1>5, FS_CardinalityType
<1> QED BY <1>2, <1>4, <1>5, <1>6

LEMMA CopiedFinite == ASSUME NEW s PROVE IsFiniteSet(Copied(s))
<1>1. Copied(s) \in SUBSET Keys  BY DEF Copied, SignedCarriers, InFlight
<1> QED BY <1>1, SlotAssumption, FS_Subset

-----------------------------------------------------------------------------
LEMMA SlotInit == InitSlot => SlotInv
<1> SUFFICES ASSUME InitSlot PROVE SlotInv
  OBVIOUS
<1>1. slot = [k \in Keys |-> Nothing] /\ admitted = {}  BY DEF InitSlot
<1>2. \A s \in Statements : Cardinality(Copied(s)) = 0
  <2> SUFFICES ASSUME NEW s \in Statements PROVE Copied(s) = {}
    BY FS_EmptySet
  <2>1. <<s, TRUE>> \in Statements \X BOOLEAN  OBVIOUS
  <2>2. <<s, TRUE>> # Nothing  BY <2>1, SlotAssumption
  <2> QED BY <1>1, <2>2 DEF Copied, SignedCarriers, InFlight
<1>3. IsFiniteSet(admitted) /\ Cardinality(admitted) = 0  BY <1>1, FS_EmptySet
<1>4. 0 <= Copies + Batch - 1 /\ 0 <= Batch  BY SlotAssumption
<1> QED BY <1>1, <1>2, <1>3, <1>4 DEF SlotInv

(* One more event on its way.                                                *)
LEMMA AdmitInv == ASSUME SlotInv, NEW k \in Keys, NEW r \in Records, Admit(k, r),
                         r[2] \/ slot[k] # Nothing,
                         r[2] => Cardinality(Carriers(k, r[1])) < Copies
                  PROVE  SlotInv'
<1>1. /\ admitted' = admitted \cup {<<k, r>>} /\ slot' = slot
      /\ IsFiniteSet(admitted) /\ Cardinality(admitted) < Batch
      /\ slot \in [Keys -> Records \cup {Nothing}]
  BY DEF Admit, SlotInv
<1>2. IsFiniteSet(admitted') /\ Cardinality(admitted') <= Batch
  <2>1. Cardinality(admitted) \in Nat  BY <1>1, FS_CardinalityType
  <2>2. /\ IsFiniteSet(admitted')
        /\ Cardinality(admitted') = IF <<k, r>> \in admitted THEN Cardinality(admitted)
                                   ELSE Cardinality(admitted) + 1
    BY <1>1, FS_AddElement
  <2> QED BY <1>1, <2>1, <2>2, SlotAssumption
<1>3. \A e \in admitted' : e[2][2] \/ slot'[e[1]] # Nothing
  BY <1>1 DEF SlotInv
<1>4. ASSUME NEW s \in Statements PROVE Cardinality(Copied(s)') <= Copies + Batch - 1
  <2>1. CASE r = <<s, TRUE>>
    <3>1. Cardinality(Carriers(k, s)) < Copies  BY <2>1
    <3>2. IsFiniteSet(Carriers(k, s)) /\ Cardinality(Carriers(k, s)) \in Nat
      <4>1. Carriers(k, s) \in SUBSET Keys  BY DEF Carriers
      <4> QED BY <4>1, SlotAssumption, FS_Subset, FS_CardinalityType
    <3>3. IsFiniteSet(InFlight(s)') /\ Cardinality(InFlight(s)') <= Cardinality(admitted')
      BY <1>2, FlightsBounded DEF InFlight
    <3>4. Cardinality(InFlight(s)') \in Nat /\ Cardinality(admitted') \in Nat
      BY <1>2, <3>3, FS_CardinalityType
    <3>5. Copied(s)' \subseteq Carriers(k, s) \cup InFlight(s)'
      <4>1. k \in InFlight(s)'  BY <1>1, <2>1 DEF InFlight
      <4>2. \A q \in SignedCarriers(s)' : q = k \/ q \in Carriers(k, s)
        BY <1>1, <2>1, RecordIsPair DEF SignedCarriers, Carriers, Carries
      <4> QED BY <4>1, <4>2 DEF Copied
    <3>6. Cardinality(Copied(s)') <= Cardinality(Carriers(k, s)) + Cardinality(InFlight(s)')
      BY <3>2, <3>3, <3>5, PartOfTwo
    <3>7. Cardinality(Copied(s)') \in Nat
      BY <3>2, <3>3, <3>5, PartOfTwo, FS_CardinalityType
    <3> QED BY <1>2, <3>1, <3>2, <3>3, <3>4, <3>6, <3>7, SlotAssumption
  <2>2. CASE r # <<s, TRUE>>
    <3>1. Copied(s)' = Copied(s)
      BY <1>1, <2>2 DEF Copied, SignedCarriers, InFlight
    <3> QED BY <3>1 DEF SlotInv
  <2> QED BY <2>1, <2>2
<1>5. admitted' \in SUBSET (Keys \X Records)  BY <1>1 DEF SlotInv
<1> QED BY <1>1, <1>2, <1>3, <1>4, <1>5 DEF SlotInv

(* A record that lands was on its way: it adds no copy and no advice.        *)
LEMMA CommitInv == ASSUME SlotInv, Commit PROVE SlotInv'
<1>1. PICK e \in admitted :
          /\ admitted' = admitted \ {e}
          /\ slot' = [slot EXCEPT ![e[1]] = e[2]] \/ slot' = slot
  BY DEF Commit
<1>2. e[1] \in Keys /\ e[2] \in Records /\ e = <<e[1], e[2]>>  BY DEF SlotInv
<1>3. slot \in [Keys -> Records \cup {Nothing}]  BY DEF SlotInv
<1>4. slot' \in [Keys -> Records \cup {Nothing}]  BY <1>1, <1>2, <1>3
<1>5. IsFiniteSet(admitted') /\ Cardinality(admitted') <= Batch
  <2>1. admitted' \in SUBSET admitted /\ IsFiniteSet(admitted)  BY <1>1 DEF SlotInv
  <2>2. IsFiniteSet(admitted') /\ Cardinality(admitted') <= Cardinality(admitted)
    BY <2>1, FS_Subset
  <2>3. Cardinality(admitted) \in Nat /\ Cardinality(admitted') \in Nat
    BY <2>1, <2>2, FS_CardinalityType
  <2> QED BY <2>2, <2>3, SlotAssumption DEF SlotInv
<1>6. ASSUME NEW s \in Statements PROVE Cardinality(Copied(s)') <= Copies + Batch - 1
  <2>1. \A k \in Keys : slot'[k] = slot[k] \/ (k = e[1] /\ slot'[k] = e[2])
    BY <1>1, <1>2, <1>3
  <2>2. Copied(s)' \in SUBSET Copied(s)
    BY <1>1, <1>2, <2>1 DEF Copied, SignedCarriers, InFlight
  <2>3. IsFiniteSet(Copied(s))  BY CopiedFinite
  <2>4. IsFiniteSet(Copied(s)') /\ Cardinality(Copied(s)') <= Cardinality(Copied(s))
    BY <2>2, <2>3, FS_Subset
  <2>5. Cardinality(Copied(s)) \in Nat /\ Cardinality(Copied(s)') \in Nat
    BY <2>3, <2>4, FS_CardinalityType
  <2> QED BY <2>4, <2>5, SlotAssumption DEF SlotInv
<1>7. ASSUME NEW f \in admitted' PROVE f[2][2] \/ slot'[f[1]] # Nothing
  <2>1. f \in admitted /\ f[1] \in Keys  BY <1>1 DEF SlotInv
  <2>2. slot'[f[1]] = slot[f[1]] \/ slot'[f[1]] = e[2]  BY <1>1, <1>2, <1>3, <2>1
  <2>3. e[2] # Nothing  BY <1>2, RecordIsPair
  <2> QED BY <2>1, <2>2, <2>3 DEF SlotInv
<1>8. admitted' \in SUBSET (Keys \X Records)  BY <1>1 DEF SlotInv
<1> QED BY <1>4, <1>5, <1>6, <1>7, <1>8 DEF SlotInv

LEMMA FileInv == ASSUME SlotInv, [FileNext]_slotVars PROVE SlotInv'
<1>1. ASSUME NEW k \in Keys, NEW r \in Records, FileSigned(k, r) PROVE SlotInv'
  <2>1. r[2] /\ Cardinality(Carriers(k, r[1])) < Copies /\ Admit(k, r)
    BY <1>1 DEF FileSigned, Verified, RoomFor
  <2> QED BY <2>1, AdmitInv
<1>2. ASSUME NEW k \in Keys, NEW r \in Records, FileAdvice(k, r) PROVE SlotInv'
  <2>1. ~Verified(k, r) /\ Header[r[1]] = "revoke" /\ slot[k] # Nothing /\ Admit(k, r)
    BY <1>2 DEF FileAdvice, OwnDevice
  <2>2. ~r[2]  BY <2>1 DEF Verified
  <2> QED BY <2>1, <2>2, AdmitInv
<1>3. CASE Commit  BY <1>3, CommitInv
<1>4. CASE UNCHANGED slotVars
  <2>1. slot' = slot /\ admitted' = admitted  BY <1>4 DEF slotVars
  <2>2. \A s : Copied(s)' = Copied(s)  BY <2>1 DEF Copied, SignedCarriers, InFlight
  <2> QED BY <2>1, <2>2 DEF SlotInv
<1> QED BY <1>1, <1>2, <1>3, <1>4 DEF FileNext

(* The cap follows from what is counted before it lands.                     *)
LEMMA InvCapsCopies == ASSUME SlotInv PROVE CopiesCapped
<1> SUFFICES ASSUME NEW s \in Statements
             PROVE  Cardinality(SignedCarriers(s)) <= Copies + Batch - 1
  BY DEF CopiesCapped
<1>1. SignedCarriers(s) \in SUBSET Copied(s) /\ IsFiniteSet(Copied(s))
  BY CopiedFinite DEF Copied
<1>2. IsFiniteSet(SignedCarriers(s)) /\ Cardinality(SignedCarriers(s)) <= Cardinality(Copied(s))
  BY <1>1, FS_Subset
<1>3. Cardinality(SignedCarriers(s)) \in Nat /\ Cardinality(Copied(s)) \in Nat
  BY <1>1, <1>2, FS_CardinalityType
<1> QED BY <1>2, <1>3, SlotAssumption DEF SlotInv

(* A key that holds nothing here comes in only by a commit, and what is      *)
(* admitted unsigned is for a key that holds a record.                       *)
LEMMA StepAddsSigned ==
    ASSUME SlotInv, [FileNext]_slotVars, NEW k \in Keys, slot[k] = Nothing, slot'[k] # Nothing
    PROVE  slot'[k][2]
<1>1. slot' # slot  OBVIOUS
<1>2. Commit  BY <1>1 DEF FileNext, FileSigned, FileAdvice, Admit, slotVars
<1>3. PICK e \in admitted : slot' = [slot EXCEPT ![e[1]] = e[2]] \/ slot' = slot
  BY <1>2 DEF Commit
<1>4. k = e[1] /\ slot'[k] = e[2]  BY <1>1, <1>3 DEF SlotInv
<1> QED BY <1>4 DEF SlotInv

-----------------------------------------------------------------------------
(* A check files nothing: BoundKeys is the slot with a reader beside it.     *)
LEMMA CheckKeepsSlot == ASSUME [Next]_vars PROVE [FileNext]_slotVars
<1>1. CASE File  BY <1>1 DEF File, FileNext
<1>2. CASE ~File
  BY <1>2 DEF Next, Change, Begin, ReadWhole, ReadOwn, ReadPublic, NotRead, DecideHere, PublicBusy,
     DecideEverywhere, Answers, vars, slotVars
<1> QED BY <1>1, <1>2

THEOREM ReadsFileNothing == Spec => SlotSpec
<1>1. Init => InitSlot  BY DEF Init
<1> QED BY <1>1, CheckKeepsSlot, PTL DEF Spec, SlotSpec

LEMMA SlotInvariant == SlotSpec => []SlotInv
BY SlotInit, FileInv, PTL DEF SlotSpec

(* "At most three records carry one statement here" (rules.mjs:10), among    *)
(* signed ones and but for a batch, whatever is filed beside and in whatever *)
(* order it lands.                                                           *)
THEOREM Capped == Spec => []CopiesCapped
BY SlotInvariant, ReadsFileNothing, InvCapsCopies, PTL

(* Advice "replaces its record; it adds none" (rules.mjs:313), although it   *)
(* lands later than the read of the slot that let it in.                     *)
THEOREM AdviceAddsNone == Spec => AdviceOnlyReplaces
<1>1. SlotInv /\ [FileNext]_slotVars =>
          [\A k \in Keys : slot[k] = Nothing /\ slot'[k] # Nothing => slot'[k][2]]_slotVars
  BY StepAddsSigned
<1> QED BY <1>1, SlotInvariant, ReadsFileNothing, PTL DEF SlotSpec, AdviceOnlyReplaces

-----------------------------------------------------------------------------
\* A read that answered.
Answered(read) == read \notin {Unread, NoAnswer}

\* The inductive invariant of a check: no read misses what is held all along
\* where it was made.
CheckInv == /\ TypeOK
            /\ Answered(whole) => through \subseteq whole
            /\ \A p \in Relays : Answered(pub[p]) => abroad[p] \subseteq pub[p]

\* Whatever is asked, the slot's own part of the invariant is kept beside it.
BoundInv == SlotInv /\ CheckInv

LEMMA InitBound == Init => BoundInv
<1> SUFFICES ASSUME Init PROVE BoundInv
  OBVIOUS
<1>1. SlotInv  BY SlotInit DEF Init
<1>2. SlotTypeOK  BY <1>1 DEF SlotInv, SlotTypeOK
<1>3. /\ \A p \in Relays : pub[p] = Unread
      /\ abroad \in [Relays -> SUBSET (Keys \X Records)]
      /\ \A p \in Relays : abroad[p] \subseteq public[p]
  BY DEF Init, NoneAbroad
<1>4. TypeOK  BY <1>2, <1>3 DEF Init, TypeOK, Checking
<1> QED BY <1>1, <1>3, <1>4 DEF BoundInv, CheckInv, Init, Answered

LEMMA HeldTyped == Held \in SUBSET (Keys \X Records)
BY DEF Held

(* A step that leaves the slot alone keeps what is held.                     *)
LEMMA SameSlot == ASSUME SlotTypeOK, UNCHANGED slotVars
                  PROVE  SlotTypeOK' /\ Held' = Held
BY DEF SlotTypeOK, slotVars, Held

(* A check that ends, whatever it answers, has nothing left of its reads.    *)
LEMMA EndInv == ASSUME CheckInv, NEW v \in {"bound", "unbound", "busy"}, Answers(v)
                PROVE  CheckInv'
<1>1. /\ verdict' = v /\ signer' = Nothing /\ through' = {} /\ UNCHANGED <<slotVars, public>>
      /\ whole' = Unread /\ own' = Unread /\ pub' = [p \in Relays |-> Unread]
      /\ abroad' = [p \in Relays |-> {}]
  BY DEF Answers, Clear, NoneAbroad
<1>2. SlotTypeOK'  BY <1>1, SameSlot DEF CheckInv, TypeOK
<1>3. public' \in [Relays -> Elsewhere]  BY <1>1 DEF CheckInv, TypeOK
<1>4. \A p \in Relays : pub'[p] = Unread /\ abroad'[p] = {}  BY <1>1
<1>5. TypeOK'  BY <1>1, <1>2, <1>3, <1>4 DEF TypeOK
<1> QED BY <1>1, <1>4, <1>5 DEF CheckInv, Answered

(* What is held abroad can be read there.                                    *)
LEMMA PublicTyped == ASSUME public \in [Relays -> Elsewhere]
                     PROVE  public \in [Relays -> SUBSET (Keys \X Records)]
BY RelaysAssumption

LEMMA NextBound == ASSUME BoundInv, [Next]_vars PROVE BoundInv'
<1>0. SlotInv' /\ SlotTypeOK'
  <2>1. SlotInv'  BY CheckKeepsSlot, FileInv DEF BoundInv
  <2> QED BY <2>1 DEF SlotInv, SlotTypeOK
<1> SUFFICES CheckInv'
  BY <1>0 DEF BoundInv
<1>1. CASE File
  <2>1. /\ through' = {e \in through : slot'[e[1]] = e[2]}
        /\ UNCHANGED <<public, abroad, signer, whole, own, pub, verdict>>
    BY <1>1 DEF File, checkVars
  <2>2. through' \in SUBSET through /\ through \in SUBSET (Keys \X Records)
    BY <2>1, HeldTyped DEF BoundInv, CheckInv, TypeOK
  <2>3. through' \in SUBSET Held'  BY <2>1, <2>2 DEF Held
  <2>4. TypeOK'  BY <1>0, <2>1, <2>3 DEF BoundInv, CheckInv, TypeOK, Checking
  <2> QED BY <2>1, <2>2, <2>4 DEF BoundInv, CheckInv, Answered
<1>2. ASSUME NEW k \in Keys, Begin(k) PROVE CheckInv'
  <2>1. /\ ~Checking /\ signer' = k /\ through' = Held /\ abroad' = public /\ verdict' = "none"
        /\ UNCHANGED <<slotVars, public, whole, own, pub>>
    BY <1>2 DEF Begin
  <2>2. whole = Unread /\ own = Unread /\ pub = [p \in Relays |-> Unread]
    BY <2>1 DEF BoundInv, CheckInv, TypeOK
  <2>3. Held' = Held  BY <2>1, SameSlot DEF BoundInv, CheckInv, TypeOK
  <2>4. abroad' \in [Relays -> SUBSET (Keys \X Records)]
    BY <2>1, PublicTyped DEF BoundInv, CheckInv, TypeOK
  <2>5. TypeOK'  BY <1>0, <2>1, <2>2, <2>3, <2>4 DEF BoundInv, CheckInv, TypeOK
  <2>6. whole' = Unread /\ \A p \in Relays : pub'[p] = Unread  BY <2>1, <2>2
  <2> QED BY <2>5, <2>6 DEF CheckInv, Answered
<1>3. CASE ReadWhole
  <2>1. /\ Checking /\ whole' \in {Held, NoAnswer} /\ through' = through /\ abroad' = abroad
        /\ UNCHANGED <<slotVars, public, signer, own, pub, verdict>>
    BY <1>3 DEF ReadWhole, history
  <2>2. Held' = Held  BY <2>1, SameSlot DEF BoundInv, CheckInv, TypeOK
  <2>3. TypeOK'
    BY <1>0, <2>1, <2>2, HeldTyped DEF BoundInv, CheckInv, TypeOK, Checking
  <2>4. through \subseteq Held  BY DEF BoundInv, CheckInv, TypeOK
  <2> QED BY <2>1, <2>3, <2>4 DEF BoundInv, CheckInv, Answered
<1>4. CASE ReadOwn
  <2>1. /\ Checking /\ own' \in {{e \in Held : e[1] = signer}, NoAnswer}
        /\ through' = through /\ abroad' = abroad
        /\ UNCHANGED <<slotVars, public, signer, whole, pub, verdict>>
    BY <1>4 DEF ReadOwn, history
  <2>2. Held' = Held  BY <2>1, SameSlot DEF BoundInv, CheckInv, TypeOK
  <2>3. {e \in Held : e[1] = signer} \in SUBSET (Keys \X Records)  BY HeldTyped
  <2>4. own' \in {Unread, NoAnswer} \cup SUBSET (Keys \X Records)  BY <2>1, <2>3
  <2>5. TypeOK'  BY <1>0, <2>1, <2>2, <2>4 DEF BoundInv, CheckInv, TypeOK, Checking
  <2> QED BY <2>1, <2>5 DEF BoundInv, CheckInv, Answered
<1>5. ASSUME NEW p \in Relays, ReadPublic(p) PROVE CheckInv'
  <2>1. PICK answer \in {public[p], NoAnswer} :
            /\ Checking /\ pub' = [pub EXCEPT ![p] = answer]
            /\ through' = through /\ abroad' = abroad
            /\ UNCHANGED <<slotVars, public, signer, whole, own, verdict>>
    BY <1>5 DEF ReadPublic, history
  <2>2. Held' = Held  BY <2>1, SameSlot DEF BoundInv, CheckInv, TypeOK
  <2>3. pub \in [Relays -> {Unread, NoAnswer} \cup Elsewhere] /\ public[p] \in Elsewhere
    BY DEF BoundInv, CheckInv, TypeOK
  <2>4. pub' \in [Relays -> {Unread, NoAnswer} \cup Elsewhere]  BY <2>1, <2>3
  <2>5. TypeOK'  BY <1>0, <2>1, <2>2, <2>4 DEF BoundInv, CheckInv, TypeOK, Checking
  <2>6. \A q \in Relays : pub'[q] = pub[q] \/ pub'[q] = NoAnswer \/ pub'[q] = public[q]
    BY <2>1, <2>3
  <2>7. \A q \in Relays : abroad[q] \subseteq public[q]  BY DEF BoundInv, CheckInv, TypeOK
  <2>8. \A q \in Relays : Answered(pub'[q]) => abroad'[q] \subseteq pub'[q]
    BY <2>1, <2>6, <2>7 DEF BoundInv, CheckInv, Answered
  <2> QED BY <2>1, <2>5, <2>8 DEF BoundInv, CheckInv, Answered
<1>6. CASE NotRead \/ DecideHere \/ PublicBusy \/ DecideEverywhere
  <2>1. \A events : Verdict(events) \in {"bound", "unbound", "busy"}  BY DEF Verdict
  <2>2. \E v \in {"bound", "unbound", "busy"} : Answers(v)
    BY <1>6, <2>1 DEF NotRead, DecideHere, PublicBusy, DecideEverywhere
  <2> QED BY <2>2, EndInv DEF BoundInv
<1>7. ASSUME NEW p \in Relays, Change(p) PROVE CheckInv'
  <2>1. PICK held \in Elsewhere :
            /\ public' = [public EXCEPT ![p] = held]
            /\ abroad' = [abroad EXCEPT ![p] = @ \cap held]
            /\ UNCHANGED <<slotVars, signer, whole, own, pub, verdict, through>>
    BY <1>7 DEF Change, checkVars
  <2>2. Held' = Held  BY <2>1, SameSlot DEF BoundInv, CheckInv, TypeOK
  <2>3. /\ public \in [Relays -> Elsewhere]
        /\ abroad \in [Relays -> SUBSET (Keys \X Records)]
        /\ \A q \in Relays : abroad[q] \subseteq public[q]
    BY DEF BoundInv, CheckInv, TypeOK
  <2>4. public' \in [Relays -> Elsewhere]  BY <2>1, <2>3
  <2>5. \A q \in Relays : /\ abroad'[q] = IF q = p THEN abroad[q] \cap held ELSE abroad[q]
                          /\ public'[q] = IF q = p THEN held ELSE public[q]
    BY <2>1, <2>3
  <2>6. abroad' \in [Relays -> SUBSET (Keys \X Records)]
    <3>1. abroad[p] \cap held \in SUBSET (Keys \X Records)  BY <2>3
    <3> QED BY <2>1, <2>3, <3>1
  <2>7. \A q \in Relays : abroad'[q] \subseteq public'[q] /\ abroad'[q] \subseteq abroad[q]
    BY <2>3, <2>5
  <2>8. TypeOK'
    BY <1>0, <2>1, <2>2, <2>4, <2>6, <2>7 DEF BoundInv, CheckInv, TypeOK, Checking
  <2>9. \A q \in Relays : Answered(pub'[q]) => abroad'[q] \subseteq pub'[q]
    BY <2>1, <2>7 DEF BoundInv, CheckInv
  <2> QED BY <2>1, <2>8, <2>9 DEF BoundInv, CheckInv, Answered
<1>8. CASE UNCHANGED vars
  <2>1. UNCHANGED <<slotVars, public, signer, whole, own, pub, verdict, through, abroad>>
    BY <1>8 DEF vars, checkVars, history
  <2>2. Held' = Held  BY <2>1, SameSlot DEF BoundInv, CheckInv, TypeOK
  <2>3. TypeOK'  BY <1>0, <2>1, <2>2 DEF BoundInv, CheckInv, TypeOK, Checking
  <2> QED BY <2>1, <2>3 DEF BoundInv, CheckInv, Answered
<1> QED BY <1>1, <1>2, <1>3, <1>4, <1>5, <1>6, <1>7, <1>8 DEF Next

(* Every variable has its type, and nothing read is kept between checks.     *)
THEOREM Typed == Spec => []TypeOK
<1>1. BoundInv => TypeOK  BY DEF BoundInv, CheckInv
<1> QED BY InitBound, NextBound, <1>1, PTL DEF Spec

-----------------------------------------------------------------------------
(* What binds among more records binds among fewer of them.                  *)
LEMMA BindsAmongFewer == ASSUME NEW A, NEW B, A \subseteq B, NEW e, Binds(B, e)
                         PROVE  Binds(A, e)
BY DEF Binds, Revoked, Sole

(* Once both reads here are done, what the check goes by holds everything     *)
(* genuine that is held here all along.                                      *)
LEMMA HereHoldsAll == ASSUME BoundInv, ReadHere, whole # NoAnswer
                      PROVE  /\ through \subseteq whole /\ whole \subseteq Local
                             /\ Local \subseteq Keys \X Records
                             /\ through \cap Genuine \subseteq Here
                             /\ Here \subseteq Local \cap Genuine
<1>1. through \subseteq whole /\ whole \subseteq Local
  BY DEF BoundInv, CheckInv, ReadHere, Answered, Local
<1>2. Local \subseteq Keys \X Records  BY DEF BoundInv, CheckInv, TypeOK, ReadHere, Local
<1> QED BY <1>1, <1>2 DEF Here, VerifiedFrom, Genuine

(* Which steps end a check, and with what.                                   *)
LEMMA WhatEnds == ASSUME [Next]_vars, Checking, signer' = Nothing
                  PROVE  NotRead \/ DecideHere \/ PublicBusy \/ DecideEverywhere
BY DEF Next, File, Change, Begin, ReadWhole, ReadOwn, ReadPublic, vars, checkVars, Checking

(* Once every relay answered, what was served misses nothing that any of     *)
(* them holds all along.                                                     *)
LEMMA ServedHoldsAll == ASSUME BoundInv, PublicRead, AllAnswered
                        PROVE  HeldAbroad \subseteq Served /\ Served \subseteq Keys \X Records
<1>1. \A p \in Relays : Answered(pub[p])  BY DEF PublicRead, AllAnswered, Answered
<1>2. \A p \in Relays : abroad[p] \subseteq pub[p] /\ pub[p] \in Elsewhere
  BY <1>1 DEF BoundInv, CheckInv, TypeOK, Answered
<1>3. \A p \in Relays : pub[p] \subseteq Served  BY <1>1 DEF Served, Answered
<1>4. UNION {abroad[p] : p \in Relays} \subseteq Served  BY <1>2, <1>3
<1>5. Served \subseteq Keys \X Records  BY <1>2, RelaysAssumption DEF Served
<1> QED BY <1>4, <1>5 DEF HeldAbroad

LEMMA BoundStep ==
    ASSUME BoundInv, [Next]_vars, Ends("bound")
    PROVE  \E e \in (Local \cup Served) \cap Genuine :
               /\ e[1] = signer
               /\ Binds(HeldThroughout, e)
               /\ (e \in Local /\ V3Here) \/ Binds(HeldAbroad, e)
<1>1. NotRead \/ DecideHere \/ PublicBusy \/ DecideEverywhere  BY WhatEnds DEF Ends
<1>2. ~NotRead /\ ~PublicBusy  BY DEF NotRead, PublicBusy, Answers, Ends
<1>3. CASE DecideHere
  <2>1. ReadHere /\ whole # NoAnswer /\ V3Here /\ signer \in Bound(Here)
    BY <1>3 DEF DecideHere, Answers, Verdict, Ends
  <2>2. PICK e \in Here : e[1] = signer /\ Binds(Here, e)  BY <2>1 DEF Bound
  <2>3. HeldThroughout \subseteq Here  BY <2>1, HereHoldsAll DEF HeldThroughout
  <2>4. Binds(HeldThroughout, e)  BY <2>2, <2>3, BindsAmongFewer
  <2> QED BY <2>1, <2>2, <2>4, HereHoldsAll
<1>4. CASE DecideEverywhere
  <2> DEFINE all == VerifiedFrom(Local, Served)
  <2>1. ReadHere /\ whole # NoAnswer /\ PublicRead /\ AllAnswered /\ signer \in Bound(all)
    BY <1>4 DEF DecideEverywhere, Answers, Verdict, Ends
  <2>2. all = (Local \cup Served) \cap Genuine
    BY <2>1, ServedHoldsAll, HereHoldsAll DEF VerifiedFrom, Genuine
  <2>3. PICK e \in all : e[1] = signer /\ Binds(all, e)  BY <2>1 DEF Bound
  <2>4. HeldAbroad \subseteq Genuine  BY DEF HeldAbroad
  <2>5. HeldThroughout \subseteq all /\ HeldAbroad \subseteq all
    BY <2>1, <2>2, <2>4, ServedHoldsAll, HereHoldsAll DEF HeldThroughout
  <2> HIDE DEF all
  <2>6. Binds(HeldThroughout, e) /\ Binds(HeldAbroad, e)
    BY <2>3, <2>5, BindsAmongFewer
  <2> QED BY <2>2, <2>3, <2>6
<1> QED BY <1>1, <1>2, <1>3, <1>4

(* A key is taken as bound only by a record that binds it and that nothing   *)
(* held here while the check ran gainsays, nor, but for a key with a v3 bind *)
(* here, anything a public relay held while it ran (rules.mjs:168-175):      *)
(* although the reads are of different moments, the relays change between    *)
(* them, and any may go without an answer.                                   *)
THEOREM BoundByWhatIsHeld == Spec => BoundIsBound
<1> DEFINE A == Ends("bound") =>
           \E e \in (Local \cup Served) \cap Genuine :
               /\ e[1] = signer
               /\ Binds(HeldThroughout, e)
               /\ (e \in Local /\ V3Here) \/ Binds(HeldAbroad, e)
<1>1. BoundInv /\ [Next]_vars => [A]_vars  BY BoundStep
<1> HIDE DEF A
<1>2. Spec => [][A]_vars  BY <1>1, InitBound, NextBound, PTL DEF Spec
<1> QED BY <1>2 DEF BoundIsBound, A

(* A v3 bind held here all along binds its key, whatever the public relays   *)
(* do, unless a revocation here retires its device (rules.mjs:194-196).      *)
LEMMA StandsStep ==
    ASSUME BoundInv, [Next]_vars, Checking, signer' = Nothing, whole # NoAnswer,
           NEW e \in through, e[1] = signer, e \in Genuine, Says(e, "bind3"),
           ~Revoked(Here, DeviceOf(e))
    PROVE  verdict' = "bound"
<1>1. ReadHere
  BY WhatEnds DEF NotRead, DecideHere, PublicBusy, DecideEverywhere
<1>2. e \in Here /\ signer \in Keys  BY <1>1, HereHoldsAll DEF Genuine
<1>3. signer \in Bound(Here)  BY <1>2 DEF Bound, Binds
<1>4. V3Here
  <2> DEFINE binds == {f \in Here : Says(f, "bind3")}
  <2>1. e \in binds /\ ~Revoked(binds, DeviceOf(e))  BY <1>2 DEF Revoked, Says
  <2>2. signer \in Bound(binds)  BY <1>2, <2>1 DEF Bound, Binds
  <2> QED BY <2>2 DEF V3Here
<1>5. DecideHere  BY <1>4, WhatEnds DEF NotRead, PublicBusy, DecideEverywhere
<1> QED BY <1>3, <1>5 DEF DecideHere, Answers, Verdict

THEOREM HereStands == Spec => BoundHereStands
<1> DEFINE A == Checking /\ signer' = Nothing /\ whole # NoAnswer
                /\ (\E e \in through : /\ e[1] = signer /\ e \in Genuine /\ Says(e, "bind3")
                                       /\ ~Revoked(Here, DeviceOf(e)))
                    => verdict' = "bound"
<1>1. BoundInv /\ [Next]_vars => [A]_vars  BY StandsStep
<1> HIDE DEF A
<1>2. Spec => [][A]_vars  BY <1>1, InitBound, NextBound, PTL DEF Spec
<1> QED BY <1>2 DEF BoundHereStands, A
=============================================================================
