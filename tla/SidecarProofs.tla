---------------------------- MODULE SidecarProofs ----------------------------
(***************************************************************************)
(* What holds of the directory sidecar for any number of claims, keys,      *)
(* handles, coins, reasons, days, checks and restarts, and any number of    *)
(* keys to an address.  As long as no check runs past its deadline, a       *)
(* listing is blocked by live claims only; and as long as every record      *)
(* admitted is in step with the store (InStep), one coin backs at most one  *)
(* live claim.  With one key to an address every record is in step.  The    *)
(* runs claims_late and claims_keys show that without the two conditions    *)
(* two live claims may share a coin.  With no condition at all, the counts  *)
(* file agrees with what was answered, whenever the sidecar ends.           *)
(***************************************************************************)
EXTENDS Sidecar, FiniteSetTheorems, WellFoundedInduction, NaturalsInduction, TLAPS

\* A claim that a stored listing carries, and one that a tombstone ends.
Listed(c) == Carries(stored, "listing", c)
Tombstoned(c) == Carries(stored, "tombstone", c)

\* A claim that is live here, or whose listing is on its way to the store.
Coming(c) == accepted # None /\ accepted.kind = "listing" /\ accepted.claim = c
Held(c) == Live(c) \/ Coming(c)

Types == /\ stored \in [Slots -> Record]
         /\ coinIndex \in Indexes \cup {NoIndex}
         /\ runs \in [Who -> Run]
         /\ accepted \in Events \cup {None}

\* What decide and the key check leave in the store and on its way there.
Filed == /\ \A s \in Slots : stored[s].kind # "none" =>
                /\ stored[s].claim \in Claims
                /\ s[1] \in KeysOf[stored[s].claim]
                /\ s[2] = HandleOf[stored[s].claim]
         /\ accepted # None => Bound(accepted) /\ WellFormed(accepted)

\* The one check there is, and what it has found out so far.
OneCheck ==
    LET r == runs["now"] IN
    /\ runs["late"] = Idle
    /\ ~r.stale
    /\ accepted # None => r = Idle
    /\ r.stage # "idle" => r.ev \in Events /\ WellFormed(r.ev)
    /\ r.stage \in {"load", "built", "ask", "decide"} => r.ev.kind = "listing" /\ Bound(r.ev)
    /\ r.stage = "built" => r.built \in Builds(stored)
    /\ r.stage \in {"ask", "decide"} =>
          /\ coinIndex # NoIndex
          /\ r.prior = coinIndex[CoinOf[r.ev.claim]]
          /\ r.prior # None
    /\ r.stage = "decide" => r.live = StillLive(stored, r.prior)

\* What holds as long as no check is late.
BaseInv == Types /\ Filed /\ OneCheck

HeldOnce == \A c1, c2 \in Claims : Held(c1) /\ Held(c2) /\ CoinOf[c1] = CoinOf[c2] => c1 = c2

IndexNamesHeld == coinIndex # NoIndex => \A c \in Claims : Held(c) => coinIndex[CoinOf[c]] = c

\* On a coin with a live claim, the newest listing is that claim's.
NewestLive ==
    \A c \in Claims : Live(c) =>
        \E slot \in ListingsOn(stored, CoinOf[c]) :
            /\ stored[slot].claim = c
            /\ \A other \in ListingsOn(stored, CoinOf[c]) :
                  stored[other].claim # c => stored[other].at < stored[slot].at

AdmittedInStep == accepted # None => InStep(accepted)

\* What holds as long as every record admitted is in step, too.
LiveInv == HeldOnce /\ IndexNamesHeld /\ NewestLive /\ AdmittedInStep

-----------------------------------------------------------------------------
LEMMA IdleIsRun == Idle \in Run /\ Idle.stage = "idle" /\ ~Idle.stale
BY DEF Idle, Run

(* The slots a claim's own records may be in.                                *)
LEMMA OwnSlots == ASSUME NEW c \in Claims, NEW k \in Keys PROVE <<k, HandleOf[c]>> \in Slots
BY ClaimsAssumption DEF Slots

(* What a reader finds live is what stillLive finds: records of a claim are  *)
(* only under keys bound to its address.                                     *)
LEMMA LiveIsStillLive == ASSUME Filed, NEW c \in Claims
                         PROVE  Live(c) <=> Listed(c) /\ ~Tombstoned(c)
<1>1. KeysOf[c] \subseteq Keys  BY ClaimsAssumption
<1>2. ASSUME NEW k \in Keys, stored[<<k, HandleOf[c]>>].kind # "none",
             stored[<<k, HandleOf[c]>>].claim = c
      PROVE  k \in KeysOf[c]
  BY <1>2, OwnSlots DEF Filed
<1> QED BY <1>1, <1>2 DEF Live, Listed, Tombstoned, Carries

LEMMA LiveIsStillLiveNext == ASSUME Filed', NEW c \in Claims
                             PROVE  Live(c)' <=> Listed(c)' /\ ~Tombstoned(c)'
<1>1. KeysOf[c] \subseteq Keys  BY ClaimsAssumption
<1>2. ASSUME NEW k \in Keys, stored'[<<k, HandleOf[c]>>].kind # "none",
             stored'[<<k, HandleOf[c]>>].claim = c
      PROVE  k \in KeysOf[c]
  BY <1>2, OwnSlots DEF Filed
<1> QED BY <1>1, <1>2 DEF Live, Listed, Tombstoned, Carries

(* A step that leaves the store and the admitted event alone, and the index  *)
(* or forgets it, keeps all that is said of them.                            *)
LEMMA Quiet == ASSUME LiveInv, stored' = stored, accepted' = accepted,
                      coinIndex' \in {coinIndex, NoIndex}
               PROVE  LiveInv'
<1>1. \A c \in Claims : (Held(c)' <=> Held(c)) /\ (Live(c)' <=> Live(c))
  BY DEF Held, Coming, Live
<1>2. HeldOnce'  BY <1>1 DEF LiveInv, HeldOnce
<1>3. IndexNamesHeld'  BY <1>1 DEF LiveInv, IndexNamesHeld
<1>4. NewestLive'  BY <1>1 DEF LiveInv, NewestLive, ListingsOn
<1>5. AdmittedInStep'  BY DEF LiveInv, AdmittedInStep, InStep, ListingsOn
<1> QED BY <1>2, <1>3, <1>4, <1>5 DEF LiveInv

(* The heart: taking a coin that no other live claim holds, according to an  *)
(* index that names every live claim, keeps one claim to the coin (listing,  *)
(* idx.set).                                                                 *)
LEMMA TakeCoin == ASSUME BaseInv, LiveInv, NEW e \in Events, accepted = None,
                         e # None => InStep(e),
                         NEW idx \in Indexes,
                         \A c \in Claims : Live(c) => idx[CoinOf[c]] = c,
                         \/ idx[CoinOf[e.claim]] \in {None, e.claim}
                         \/ ~Live(idx[CoinOf[e.claim]]),
                         coinIndex' = [idx EXCEPT ![CoinOf[e.claim]] = e.claim],
                         accepted' = e, stored' = stored
                  PROVE  LiveInv'
<1>1. e.claim \in Claims /\ CoinOf[e.claim] \in Coins
  BY ClaimsAssumption DEF Events
<1>2. \A c \in Claims : (Live(c)' <=> Live(c)) /\ (Held(c)' => Live(c) \/ c = e.claim)
  BY DEF Held, Coming, Live
<1>3. ASSUME NEW c \in Claims, Live(c), CoinOf[c] = CoinOf[e.claim] PROVE c = e.claim
  <2>1. idx[CoinOf[e.claim]] = c  BY <1>3
  <2>2. c # None  BY ClaimsAssumption
  <2> QED BY <1>3, <2>1, <2>2
<1>4. \A c1, c2 \in Claims : Live(c1) /\ Live(c2) /\ CoinOf[c1] = CoinOf[c2] => c1 = c2
  BY DEF LiveInv, HeldOnce, Held
<1>5. HeldOnce'  BY <1>2, <1>3, <1>4 DEF HeldOnce
<1>6. IndexNamesHeld'
  <2> SUFFICES ASSUME NEW c \in Claims, Held(c)' PROVE coinIndex'[CoinOf[c]] = c
    BY DEF IndexNamesHeld
  <2>1. CoinOf[c] \in Coins  BY ClaimsAssumption
  <2>2. CASE c = e.claim  BY <1>1, <2>2 DEF Indexes
  <2>3. CASE c # e.claim
    <3>1. Live(c)  BY <1>2, <2>3
    <3>2. CoinOf[c] # CoinOf[e.claim]  BY <1>3, <2>3, <3>1
    <3> QED BY <2>1, <3>1, <3>2 DEF Indexes
  <2> QED BY <2>2, <2>3
<1>7. NewestLive'  BY <1>2 DEF LiveInv, NewestLive, ListingsOn
<1>8. AdmittedInStep'  BY DEF AdmittedInStep, InStep, ListingsOn
<1> QED BY <1>5, <1>6, <1>7, <1>8 DEF LiveInv

(* The index built from the store names every live claim: the newest listing *)
(* on its coin is its own (index).                                           *)
LEMMA BuiltNamesLive == ASSUME BaseInv, LiveInv, NEW b \in Builds(stored)
                        PROVE  /\ b \in Indexes
                               /\ \A c \in Claims : Live(c) => b[CoinOf[c]] = c
<1>1. b \in Indexes  BY DEF Builds
<1> SUFFICES ASSUME NEW c \in Claims, Live(c) PROVE b[CoinOf[c]] = c
  BY <1>1
<1> DEFINE coin == CoinOf[c]
<1>2. coin \in Coins  BY ClaimsAssumption
<1>3. PICK own \in ListingsOn(stored, coin) :
          /\ stored[own].claim = c
          /\ \A other \in ListingsOn(stored, coin) :
                stored[other].claim # c => stored[other].at < stored[own].at
  BY DEF LiveInv, NewestLive
<1>4. PICK slot \in ListingsOn(stored, coin) :
          b[coin] = stored[slot].claim /\ stored[own].at <= stored[slot].at
  BY <1>2, <1>3 DEF Builds
<1>5. stored[own].at \in Nat /\ stored[slot].at \in Nat
  <2>1. stored[own] \in Record /\ stored[slot] \in Record
    BY DEF BaseInv, Types, ListingsOn
  <2>2. Stamps \cup {0} \subseteq Nat  BY ClaimsAssumption
  <2> QED BY <2>1, <2>2 DEF Record
<1>6. stored[slot].claim = c
  <2> SUFFICES ASSUME stored[slot].claim # c PROVE FALSE
    OBVIOUS
  <2>1. stored[slot].at < stored[own].at  BY <1>3
  <2> QED BY <1>4, <1>5, <2>1
<1> QED BY <1>4, <1>6

-----------------------------------------------------------------------------
(* As long as no check is late.                                              *)

LEMMA InitBase == Init => BaseInv
<1> SUFFICES ASSUME Init PROVE BaseInv
  OBVIOUS
<1>1. NoRecord \in Record  BY DEF NoRecord, Record
<1>2. Types  BY <1>1, IdleIsRun DEF Init, Types
<1>3. \A s \in Slots : stored[s].kind = "none"  BY DEF Init, NoRecord
<1>4. Filed  BY <1>3 DEF Init, Filed
<1>5. OneCheck  BY IdleIsRun DEF Init, OneCheck, Who
<1> QED BY <1>2, <1>4, <1>5 DEF BaseInv

LEMMA InitLive == Init => LiveInv
<1> SUFFICES ASSUME Init PROVE LiveInv
  OBVIOUS
<1>1. ASSUME NEW c \in Claims PROVE ~Live(c)
  <2>1. KeysOf[c] \subseteq Keys  BY ClaimsAssumption
  <2>2. \A k \in Keys : stored[<<k, HandleOf[c]>>].kind = "none"
    BY OwnSlots DEF Init, NoRecord
  <2> QED BY <2>1, <2>2 DEF Live
<1>2. \A c \in Claims : ~Held(c)  BY <1>1 DEF Init, Held, Coming
<1> QED BY <1>1, <1>2 DEF Init, LiveInv, HeldOnce, IndexNamesHeld, NewestLive, AdmittedInStep

(* A check that ends without touching store, index and admitted event is     *)
(* over, and the rest stands.                                                *)
LEMMA EndBase == ASSUME BaseInv, Ends("now"), UNCHANGED <<stored, coinIndex, accepted>>
                 PROVE  BaseInv'
<1>1. runs' \in [Who -> Run] /\ runs'["now"] = Idle /\ runs'["late"] = Idle
  BY IdleIsRun DEF BaseInv, Types, Ends, Who, OneCheck
<1>2. Types' /\ Filed'  BY <1>1 DEF BaseInv, Types, Filed, Bound, WellFormed
<1>3. OneCheck'  BY <1>1, IdleIsRun DEF OneCheck
<1> QED BY <1>2, <1>3 DEF BaseInv

(* Beginning a check, and a read in the middle of one, leave store, index    *)
(* and admitted event alone; what must be shown is OneCheck.                 *)
LEMMA MiddleBase == ASSUME BaseInv, UNCHANGED <<stored, coinIndex, accepted>>,
                           runs' \in [Who -> Run], OneCheck'
                    PROVE  BaseInv'
BY DEF BaseInv, Types, Filed, Bound, WellFormed

LEMMA BeginBase == ASSUME BaseInv, NEW e \in Events, Begin(e) PROVE BaseInv'
<1> DEFINE r == [Idle EXCEPT !.stage = "chain", !.ev = e]
<1>1. r \in Run /\ r.stage = "chain" /\ r.ev = e /\ ~r.stale
  BY IdleIsRun DEF Idle, Run
<1>2. /\ runs' \in [Who -> Run] /\ runs'["now"] = r /\ runs'["late"] = Idle
  BY <1>1 DEF Begin, BaseInv, Types, OneCheck, Who
<1>3. WellFormed(e) /\ accepted = None /\ accepted' = None
  BY DEF Begin
<1>4. OneCheck'  BY <1>1, <1>2, <1>3 DEF OneCheck
<1> QED BY <1>2, <1>4, MiddleBase DEF Begin

\* Only the check under way can take a step.
LEMMA OnlyNow == ASSUME OneCheck, NEW r \in Who, runs[r].stage # "idle"
                 PROVE  r = "now" /\ runs["now"].ev \in Events /\ accepted = None
BY IdleIsRun DEF OneCheck, Who

(* A check that ends with its event admitted.                                *)
LEMMA AdmitBase == ASSUME BaseInv, NEW e \in Events, Bound(e), WellFormed(e),
                          accepted' = e, stored' = stored,
                          coinIndex' \in Indexes \/ coinIndex' = coinIndex,
                          runs' \in [Who -> Run], runs'["now"] = Idle, runs'["late"] = Idle
                   PROVE  BaseInv'
<1>1. Types'  BY DEF BaseInv, Types
<1>2. Filed'  BY DEF BaseInv, Filed, Bound, WellFormed
<1>3. OneCheck'  BY IdleIsRun DEF OneCheck
<1> QED BY <1>1, <1>2, <1>3 DEF BaseInv

(* The index in hand, the prior claim is looked up in it: the coin is taken, *)
(* or the check goes on to ask the store about the prior.                    *)
LEMMA ResolveBase == ASSUME BaseInv, NEW idx \in Indexes,
                            runs["now"].stage # "idle", runs["now"].ev.kind = "listing",
                            Bound(runs["now"].ev),
                            Resolve("now", idx, runs), stored' = stored
                     PROVE  BaseInv'
<1> DEFINE r == runs["now"]
           e == r.ev
           prior == idx[CoinOf[e.claim]]
<1>1. /\ r \in Run /\ e \in Events /\ accepted = None /\ ~r.stale /\ WellFormed(e)
      /\ runs["late"] = Idle /\ runs \in [Who -> Run] /\ r # Idle
  BY OnlyNow, IdleIsRun DEF BaseInv, Types, OneCheck, Who
<1>2. e.claim \in Claims /\ CoinOf[e.claim] \in Coins /\ prior \in Claims \cup {None}
  BY <1>1, ClaimsAssumption DEF Events, Indexes
<1>3. CASE prior \in {None, e.claim}
  <2>1. /\ coinIndex' = [idx EXCEPT ![CoinOf[e.claim]] = e.claim]
        /\ accepted' = e
        /\ runs' = [runs EXCEPT !["now"] = Idle]
    BY <1>1, <1>3 DEF Resolve, Set, Accept, Event
  <2>2. runs' \in [Who -> Run] /\ runs'["now"] = Idle /\ runs'["late"] = Idle
    BY <1>1, <2>1, IdleIsRun DEF Who
  <2>3. coinIndex' \in Indexes  BY <1>2, <2>1 DEF Indexes
  <2> HIDE DEF prior
  <2> QED BY <1>1, <2>1, <2>2, <2>3, AdmitBase
<1>4. CASE prior \notin {None, e.claim}
  <2> DEFINE r2 == [r EXCEPT !.stage = "ask", !.prior = prior, !.built = NoIndex]
  <2>1. coinIndex' = idx /\ accepted' = None /\ runs' = [runs EXCEPT !["now"] = r2]
    BY <1>1, <1>4 DEF Resolve, Event
  <2>2. /\ r2 \in Run /\ r2.stage = "ask" /\ r2.ev = e /\ r2.prior = prior /\ ~r2.stale
    BY <1>1, <1>2 DEF Run
  <2>3. runs' \in [Who -> Run] /\ runs'["now"] = r2 /\ runs'["late"] = Idle
    BY <1>1, <2>1, <2>2 DEF Who
  <2>4. Types' /\ Filed'  BY <1>1, <2>1, <2>3 DEF BaseInv, Types, Filed
  <2>5. coinIndex' # NoIndex  BY <2>1, ClaimsAssumption DEF Indexes
  <2>6. OneCheck'
    <3>1. WellFormed(r2.ev) /\ Bound(r2.ev) /\ r2.ev.kind = "listing" /\ r2.ev \in Events
      BY <1>1, <2>2
    <3>2. r2.prior = coinIndex'[CoinOf[r2.ev.claim]] /\ r2.prior # None
      BY <1>4, <2>1, <2>2
    <3> HIDE DEF r2
    <3> QED BY <2>1, <2>2, <2>3, <2>5, <3>1, <3>2 DEF OneCheck
  <2> QED BY <2>4, <2>6 DEF BaseInv
<1> QED BY <1>3, <1>4

\* A record as strfry keeps it, and where.
RecordOf(e) == [kind |-> e.kind, claim |-> e.claim, at |-> e.at]
SlotOf(e) == <<e.key, e.d>>

(* strfry's commit changes one slot at most.                                 *)
LEMMA OneSlot == ASSUME BaseInv, Commit
                 PROVE  /\ accepted \in Events /\ accepted # None /\ accepted' = None
                        /\ Bound(accepted) /\ WellFormed(accepted)
                        /\ SlotOf(accepted) \in Slots /\ RecordOf(accepted) \in Record
                        /\ Lands(accepted) \/ stored' = stored
                        /\ \A s \in Slots : stored'[s] =
                              IF s = SlotOf(accepted) /\ Lands(accepted) THEN RecordOf(accepted)
                              ELSE stored[s]
<1>1. accepted \in Events /\ accepted # None /\ accepted' = None  BY DEF Commit, BaseInv, Types
<1>2. Bound(accepted) /\ WellFormed(accepted)  BY <1>1 DEF BaseInv, Filed
<1>3. SlotOf(accepted) \in Slots /\ RecordOf(accepted) \in Record
  BY <1>1 DEF Slots, Events, Record, SlotOf, RecordOf
<1>4. stored \in [Slots -> Record]  BY DEF BaseInv, Types
<1>5. Lands(accepted) \/ stored' = stored  BY DEF Commit
<1>6. CASE Lands(accepted)
  <2>1. stored' = [stored EXCEPT ![SlotOf(accepted)] = RecordOf(accepted)]
    BY <1>6 DEF Lands, SlotOf, RecordOf
  <2> QED BY <1>1, <1>2, <1>3, <1>4, <1>6, <2>1
<1>7. CASE ~Lands(accepted)  BY <1>1, <1>2, <1>3, <1>5, <1>7
<1> QED BY <1>6, <1>7

LEMMA CommitBase == ASSUME BaseInv, Commit PROVE BaseInv'
<1>1. /\ accepted \in Events /\ accepted # None /\ accepted' = None
      /\ Bound(accepted) /\ WellFormed(accepted)
      /\ SlotOf(accepted) \in Slots /\ RecordOf(accepted) \in Record
      /\ Lands(accepted) \/ stored' = stored
      /\ \A s \in Slots : stored'[s] = stored[s]
                          \/ (s = SlotOf(accepted) /\ stored'[s] = RecordOf(accepted))
  BY OneSlot
<1>2. coinIndex' = coinIndex /\ runs' = runs /\ runs["now"] = Idle
  BY <1>1 DEF Commit, BaseInv, OneCheck
<1>3. Types'
  <2>1. stored' = stored \/ stored' = [stored EXCEPT ![SlotOf(accepted)] = RecordOf(accepted)]
    BY <1>1 DEF Lands, SlotOf, RecordOf
  <2> QED BY <1>1, <1>2, <2>1 DEF BaseInv, Types
<1>4. LET k == RecordOf(accepted) IN
      k.claim \in Claims /\ SlotOf(accepted)[1] \in KeysOf[k.claim]
                         /\ SlotOf(accepted)[2] = HandleOf[k.claim]
  BY <1>1 DEF Events, Bound, WellFormed, RecordOf, SlotOf
<1>5. Filed'  BY <1>1, <1>4 DEF BaseInv, Filed
<1>6. OneCheck'  BY <1>1, <1>2, IdleIsRun DEF BaseInv, OneCheck
<1> QED BY <1>3, <1>5, <1>6 DEF BaseInv

LEMMA BaseNext == ASSUME BaseInv, [Next]_vars PROVE BaseInv'
<1> DEFINE now == runs["now"]
<1>0. /\ OneCheck /\ Types /\ runs \in [Who -> Run] /\ now \in Run /\ runs["late"] = Idle
  BY DEF BaseInv, Types, Who, OneCheck
<1>1. ASSUME NEW e \in Events, Begin(e) PROVE BaseInv'  BY <1>1, BeginBase
<1>2. CASE AcceptTombstone
  <2> DEFINE e == now.ev
  <2>1. /\ e.kind = "tombstone" /\ Bound(e) /\ accepted' = e
        /\ Ends("now") /\ coinIndex' = coinIndex /\ stored' = stored
        /\ now.stage = "chain"
    BY <1>2 DEF AcceptTombstone, At, Event, Accept
  <2>2. e \in Events /\ WellFormed(e)
    BY <1>0, <2>1 DEF OneCheck
  <2>3. runs' \in [Who -> Run] /\ runs'["now"] = Idle /\ runs'["late"] = Idle
    BY <1>0, <2>1, IdleIsRun DEF Ends, Who
  <2> QED BY <2>1, <2>2, <2>3, AdmitBase
<1>3. ASSUME NEW r \in Who, Refuse(r) \/ Block(r) PROVE BaseInv'
  <2>1. r = "now"  BY <1>0, <1>3, OnlyNow DEF Refuse, Block, At
  <2> QED BY <1>3, <2>1, EndBase DEF Refuse, Block
<1>4. ASSUME NEW r \in Who, LookUp(r) PROVE BaseInv'
  <2>1. r = "now"  BY <1>0, <1>4, OnlyNow DEF LookUp, At
  <2>2. /\ now.ev.kind = "listing" /\ Bound(now.ev) /\ now.stage # "idle"
        /\ coinIndex \in Indexes /\ stored' = stored /\ Resolve("now", coinIndex, runs)
    BY <1>0, <1>4, <2>1 DEF LookUp, Event, At, Types
  <2> QED BY <2>2, ResolveBase
<1>5. ASSUME NEW r \in Who, Load(r) PROVE BaseInv'
  <2>1. r = "now" /\ accepted = None  BY <1>0, <1>5, OnlyNow DEF Load, At
  <2> DEFINE r2 == [now EXCEPT !.stage = "load"]
  <2>2. /\ runs' = [runs EXCEPT !["now"] = r2] /\ Bound(now.ev) /\ now.ev.kind = "listing"
        /\ UNCHANGED <<stored, coinIndex, accepted>> /\ now.stage = "chain"
    BY <1>5, <2>1 DEF Load, Event, At
  <2>3. r2 \in Run /\ r2.stage = "load" /\ r2.ev = now.ev /\ r2.stale = now.stale
    BY <1>0 DEF Run
  <2>4. runs' \in [Who -> Run] /\ runs'["now"] = r2 /\ runs'["late"] = Idle
    BY <1>0, <2>2, <2>3 DEF Who
  <2>5. OneCheck'  BY <1>0, <2>1, <2>2, <2>3, <2>4 DEF OneCheck, Bound, WellFormed
  <2> QED BY <2>2, <2>4, <2>5, MiddleBase
<1>6. ASSUME NEW r \in Who, ReadAll(r) PROVE BaseInv'
  <2>1. r = "now" /\ accepted = None  BY <1>0, <1>6, OnlyNow DEF ReadAll, At
  <2>2. PICK b \in Builds(stored) :
           runs' = [runs EXCEPT !["now"].stage = "built", !["now"].built = b]
    BY <1>6, <2>1 DEF ReadAll
  <2>3. b \in Indexes  BY DEF Builds
  <2> DEFINE r2 == [now EXCEPT !.stage = "built", !.built = b]
  <2>4. r2 \in Run /\ r2.stage = "built" /\ r2.ev = now.ev /\ r2.stale = now.stale /\ r2.built = b
    BY <1>0, <2>3 DEF Run
  <2>5. runs' \in [Who -> Run] /\ runs'["now"] = r2 /\ runs'["late"] = Idle
    BY <1>0, <2>2, <2>4 DEF Who
  <2>6. UNCHANGED <<stored, coinIndex, accepted>> /\ now.stage = "load"
    BY <1>6, <2>1 DEF ReadAll, At
  <2>7. OneCheck'
    <3>1. b \in Builds(stored)'  BY <2>6 DEF Builds, ListingsOn
    <3> HIDE DEF r2
    <3> QED BY <1>0, <2>1, <2>4, <2>5, <2>6, <3>1 DEF OneCheck, Bound, WellFormed
  <2> QED BY <2>5, <2>6, <2>7, MiddleBase
<1>7. ASSUME NEW r \in Who, Loaded(r) PROVE BaseInv'
  <2>1. r = "now"  BY <1>0, <1>7, OnlyNow DEF Loaded, At
  <2> DEFINE others == [q \in Who |-> IF q # r /\ runs[q].stage \in {"ask", "decide"}
                                        THEN [runs[q] EXCEPT !.stale = TRUE] ELSE runs[q]]
  <2>2. others = runs  BY <1>0, <2>1, IdleIsRun DEF Who
  <2>3. now.stage = "built" /\ Resolve("now", now.built, runs) /\ stored' = stored
    BY <1>7, <2>1, <2>2 DEF Loaded, At
  <2>4. now.built \in Builds(stored) /\ now.ev.kind = "listing" /\ Bound(now.ev)
    BY <1>0, <2>3 DEF OneCheck
  <2>5. now.built \in Indexes  BY <2>4 DEF Builds
  <2> QED BY <2>3, <2>4, <2>5, ResolveBase
<1>8. ASSUME NEW r \in Who, AskStore(r) PROVE BaseInv'
  <2>1. r = "now" /\ accepted = None  BY <1>0, <1>8, OnlyNow DEF AskStore, At
  <2> DEFINE r2 == [now EXCEPT !.stage = "decide", !.live = StillLive(stored, now.prior)]
  <2>2. /\ runs' = [runs EXCEPT !["now"].stage = "decide",
                                !["now"].live = StillLive(stored, now.prior)]
        /\ UNCHANGED <<stored, coinIndex, accepted>> /\ now.stage = "ask"
    BY <1>8, <2>1 DEF AskStore, At
  <2>3. StillLive(stored, now.prior) \in BOOLEAN  BY DEF StillLive
  <2>4. /\ r2 \in Run /\ r2.stage = "decide" /\ r2.ev = now.ev /\ r2.stale = now.stale
        /\ r2.prior = now.prior /\ r2.live = StillLive(stored, now.prior)
    BY <1>0, <2>3 DEF Run
  <2>5. runs' \in [Who -> Run] /\ runs'["now"] = r2 /\ runs'["late"] = Idle
    BY <1>0, <2>2, <2>4 DEF Who
  <2>6. OneCheck'
    <3>1. stored' = stored  BY <2>2
    <3> HIDE DEF r2
    <3>2. r2.live = StillLive(stored', r2.prior)
      BY <2>4, <3>1
    <3> QED BY <1>0, <2>1, <2>2, <2>4, <2>5, <3>2 DEF OneCheck, Bound, WellFormed
  <2> QED BY <2>2, <2>5, <2>6, MiddleBase
<1>9. ASSUME NEW r \in Who, TakeOver(r) PROVE BaseInv'
  <2>1. r = "now"  BY <1>0, <1>9, OnlyNow DEF TakeOver, At
  <2> DEFINE e == now.ev
  <2>2. /\ now.stage = "decide" /\ ~now.stale
        /\ coinIndex' = [coinIndex EXCEPT ![CoinOf[e.claim]] = e.claim]
        /\ accepted' = e /\ stored' = stored /\ Ends("now")
    BY <1>0, <1>9, <2>1 DEF TakeOver, At, Set, Accept, Event, OneCheck
  <2>3. /\ e \in Events /\ Bound(e) /\ WellFormed(e) /\ coinIndex \in Indexes
    BY <1>0, <2>2 DEF OneCheck, Types
  <2>4. coinIndex' \in Indexes
    BY <2>2, <2>3, ClaimsAssumption DEF Indexes, Events
  <2>5. runs' \in [Who -> Run] /\ runs'["now"] = Idle /\ runs'["late"] = Idle
    BY <1>0, <2>2, IdleIsRun DEF Ends, Who
  <2> HIDE DEF e
  <2> QED BY <2>2, <2>3, <2>4, <2>5, AdmitBase
<1>11. CASE Restart
  <2>1. /\ runs' = [r \in Who |-> Idle] /\ coinIndex' = NoIndex
        /\ stored' = stored /\ accepted' = accepted
    BY <1>11 DEF Restart
  <2>2. Types' /\ Filed'  BY <2>1, IdleIsRun DEF BaseInv, Types, Filed, Bound, WellFormed
  <2>3. OneCheck'  BY <2>1, IdleIsRun DEF OneCheck, Who
  <2> QED BY <2>2, <2>3 DEF BaseInv
<1>12. CASE Commit  BY <1>12, CommitBase
<1>13. CASE Rest \/ UNCHANGED vars
  <2>1. UNCHANGED <<stored, coinIndex, accepted, runs>>  BY <1>13 DEF Rest, vars
  <2>2. OneCheck'
    <3>1. /\ Builds(stored)' = Builds(stored)
          /\ \A c \in Claims : StillLive(stored, c)' = StillLive(stored, c)
      BY <2>1
    <3>2. now' = now  BY <2>1
    <3>3. StillLive(stored, now.prior)' = StillLive(stored, now.prior)  BY <2>1
    <3> QED BY <1>0, <2>1, <3>1, <3>2, <3>3 DEF OneCheck, Bound, WellFormed
  <2> QED BY <1>0, <2>1, <2>2, MiddleBase
<1> QED
  BY <1>1, <1>2, <1>3, <1>4, <1>5, <1>6, <1>7, <1>8, <1>9, <1>11, <1>12,
     <1>13 DEF Next

-----------------------------------------------------------------------------
(* How a listing is admitted: on an index that names every live claim, its   *)
(* coin was free or its own, or named a claim that is no longer live.        *)
TakesFreeCoin(e, idx) ==
    /\ e \in Events /\ e.kind = "listing" /\ accepted = None /\ idx \in Indexes
    /\ \A c \in Claims : Live(c) => idx[CoinOf[c]] = c
    /\ \/ idx[CoinOf[e.claim]] \in {None, e.claim}
       \/ ~Live(idx[CoinOf[e.claim]])
    /\ coinIndex' = [idx EXCEPT ![CoinOf[e.claim]] = e.claim]
    /\ accepted' = e /\ stored' = stored

\* A check has found another claim on its coin, and asks the store about it.
FindsPrior(idx) ==
    /\ accepted = None /\ idx \in Indexes
    /\ \A c \in Claims : Live(c) => idx[CoinOf[c]] = c
    /\ coinIndex' = idx /\ UNCHANGED <<accepted, stored>>

LEMMA ResolveFinds ==
    ASSUME BaseInv, NEW idx \in Indexes,
           \A c \in Claims : Live(c) => idx[CoinOf[c]] = c,
           runs["now"].stage # "idle", runs["now"].ev.kind = "listing",
           Resolve("now", idx, runs), stored' = stored
    PROVE  TakesFreeCoin(runs["now"].ev, idx) \/ FindsPrior(idx)
<1> DEFINE e == runs["now"].ev
<1>1. e \in Events /\ accepted = None /\ ~runs["now"].stale
  BY OnlyNow DEF BaseInv, OneCheck, Who
<1>2. CASE idx[CoinOf[e.claim]] \in {None, e.claim}
  <2>1. coinIndex' = [idx EXCEPT ![CoinOf[e.claim]] = e.claim] /\ accepted' = e
    BY <1>1, <1>2 DEF Resolve, Set, Accept, Event
  <2> QED BY <1>1, <1>2, <2>1 DEF TakesFreeCoin
<1>3. CASE idx[CoinOf[e.claim]] \notin {None, e.claim}
  <2>1. coinIndex' = idx /\ accepted' = accepted
    BY <1>3 DEF Resolve, Event
  <2> QED BY <1>1, <2>1 DEF FindsPrior
<1> QED BY <1>2, <1>3

\* An admitted tombstone, and all the steps that admit and store nothing.
EndsAClaim(e) ==
    /\ e \in Events /\ e.kind = "tombstone" /\ accepted = None
    /\ accepted' = e /\ UNCHANGED <<stored, coinIndex>>

Keeps == stored' = stored /\ accepted' = accepted /\ coinIndex' \in {coinIndex, NoIndex}

(* What a step does to store, index and admitted event.                      *)
LEMMA Steps ==
    ASSUME BaseInv, LiveInv, [Next]_vars
    PROVE  \/ Commit
           \/ \E e \in Events : EndsAClaim(e) \/ \E idx \in Indexes : TakesFreeCoin(e, idx)
           \/ \E idx \in Indexes : FindsPrior(idx)
           \/ Keeps
<1> DEFINE now == runs["now"]
<1>0. OneCheck /\ Types /\ Filed /\ now \in Run
  BY DEF BaseInv, Types, Who
<1>1. CASE AcceptTombstone
  <2>1. /\ now.ev.kind = "tombstone" /\ accepted' = now.ev /\ now.stage = "chain"
        /\ UNCHANGED <<stored, coinIndex>>
    BY <1>1 DEF AcceptTombstone, At, Event, Accept
  <2>2. now.ev \in Events /\ accepted = None  BY <1>0, <2>1, OnlyNow DEF Who
  <2> QED BY <2>1, <2>2 DEF EndsAClaim
<1>2. ASSUME NEW r \in Who, LookUp(r)
      PROVE  TakesFreeCoin(now.ev, coinIndex) \/ FindsPrior(coinIndex)
  <2>1. r = "now" /\ accepted = None  BY <1>0, <1>2, OnlyNow DEF LookUp, At
  <2>2. /\ now.ev.kind = "listing" /\ now.stage # "idle" /\ coinIndex \in Indexes
        /\ stored' = stored /\ Resolve("now", coinIndex, runs)
    BY <1>0, <1>2, <2>1 DEF LookUp, Event, At, Types
  <2>3. \A c \in Claims : Live(c) => coinIndex[CoinOf[c]] = c
    BY <1>2 DEF LookUp, LiveInv, IndexNamesHeld, Held
  <2> QED BY <2>2, <2>3, ResolveFinds
<1>3. ASSUME NEW r \in Who, Loaded(r)
      PROVE  /\ now.built \in Indexes
             /\ TakesFreeCoin(now.ev, now.built) \/ FindsPrior(now.built)
  <2>1. r = "now"  BY <1>0, <1>3, OnlyNow DEF Loaded, At
  <2> DEFINE others == [q \in Who |-> IF q # r /\ runs[q].stage \in {"ask", "decide"}
                                        THEN [runs[q] EXCEPT !.stale = TRUE] ELSE runs[q]]
  <2>2. others = runs  BY <1>0, <2>1, IdleIsRun DEF OneCheck, Types, Who
  <2>3. now.stage = "built" /\ Resolve("now", now.built, runs) /\ stored' = stored
    BY <1>3, <2>1, <2>2 DEF Loaded, At
  <2>4. now.built \in Builds(stored) /\ now.ev.kind = "listing"
    BY <1>0, <2>3 DEF OneCheck
  <2>5. /\ now.built \in Indexes
        /\ \A c \in Claims : Live(c) => now.built[CoinOf[c]] = c
    BY <2>4, BuiltNamesLive
  <2> QED BY <2>3, <2>4, <2>5, ResolveFinds
<1>4. ASSUME NEW r \in Who, TakeOver(r) PROVE TakesFreeCoin(now.ev, coinIndex)
  <2>1. r = "now" /\ accepted = None  BY <1>0, <1>4, OnlyNow DEF TakeOver, At
  <2>2. /\ now.stage = "decide" /\ ~now.live /\ ~now.stale
        /\ coinIndex' = [coinIndex EXCEPT ![CoinOf[now.ev.claim]] = now.ev.claim]
        /\ accepted' = now.ev /\ stored' = stored
    BY <1>0, <1>4, <2>1 DEF TakeOver, At, Set, Accept, Event, OneCheck
  <2>3. /\ now.ev \in Events /\ now.ev.kind = "listing"
        /\ coinIndex \in Indexes /\ coinIndex # NoIndex
        /\ now.prior = coinIndex[CoinOf[now.ev.claim]] /\ now.prior # None
        /\ ~StillLive(stored, now.prior)
    BY <1>0, <2>2 DEF OneCheck, Types
  <2>4. now.prior \in Claims  BY <1>0, <2>3 DEF Run
  <2>5. ~Live(now.prior)
    BY <1>0, <2>3, <2>4, LiveIsStillLive DEF StillLive, Listed, Tombstoned
  <2>6. \A c \in Claims : Live(c) => coinIndex[CoinOf[c]] = c
    BY <2>3 DEF LiveInv, IndexNamesHeld, Held
  <2> QED BY <2>1, <2>2, <2>3, <2>5, <2>6 DEF TakesFreeCoin
<1>5. CASE \/ \E e \in Events : Begin(e)
           \/ \E r \in Who : Refuse(r) \/ Load(r) \/ ReadAll(r) \/ AskStore(r) \/ Block(r)
           \/ Restart \/ Rest \/ UNCHANGED vars
  BY <1>5 DEF Begin, Refuse, Load, ReadAll, AskStore, Block, Restart, Rest, vars, Keeps
<1> QED BY <1>1, <1>2, <1>3, <1>4, <1>5 DEF Next, TakesFreeCoin, FindsPrior

(* What lands makes no other claim live: whatever it replaces, an ended      *)
(* claim that is still listed keeps its tombstone.                           *)
LEMMA LandsLive ==
    ASSUME BaseInv, LiveInv, Commit, NEW c \in Claims, Live(c)'
    PROVE  /\ Held(c)
           /\ c # accepted.claim => Live(c)
           /\ c = accepted.claim /\ Lands(accepted) => Coming(c)
<1> DEFINE e == accepted
           slot == SlotOf(accepted)
<1>1. /\ e \in Events /\ e # None /\ Bound(e) /\ WellFormed(e) /\ slot \in Slots
      /\ Lands(e) \/ stored' = stored
      /\ \A s \in Slots : stored'[s] = IF s = slot /\ Lands(e) THEN RecordOf(e) ELSE stored[s]
  BY OneSlot
<1>2. Filed /\ Filed' /\ InStep(e)
  BY <1>1, CommitBase DEF BaseInv, LiveInv, AdmittedInStep
<1>3. CASE stored' = stored /\ ~Lands(e)  BY <1>3 DEF Live, Held
<1>4. CASE Lands(e)
  <2>1. Listed(c)' /\ ~Tombstoned(c)'  BY <1>2, LiveIsStillLiveNext
  <2>2. PICK k \in Keys : /\ stored'[<<k, HandleOf[c]>>].kind = "listing"
                          /\ stored'[<<k, HandleOf[c]>>].claim = c
    BY <2>1 DEF Listed, Carries
  <2>3. <<k, HandleOf[c]>> \in Slots  BY OwnSlots
  <2>4. CASE c = e.claim
    <3>1. slot = <<e.key, HandleOf[c]>> /\ e.key \in Keys
      BY <1>1, <2>4 DEF SlotOf, WellFormed, Events
    <3>2. stored'[slot].kind = e.kind /\ stored'[slot].claim = c  BY <1>1, <1>4, <2>4 DEF RecordOf
    <3>3. e.kind # "tombstone"  BY <2>1, <3>1, <3>2 DEF Tombstoned, Carries
    <3>4. Coming(c)  BY <1>1, <2>4, <3>3 DEF Coming, Events
    <3> QED BY <2>4, <3>4 DEF Held
  <2>5. CASE c # e.claim
    <3>1. <<k, HandleOf[c]>> # slot  BY <1>1, <1>4, <2>2, <2>5 DEF RecordOf
    <3>2. Listed(c)  BY <1>1, <2>2, <2>3, <3>1 DEF Listed, Carries
    <3>3. ASSUME Tombstoned(c) PROVE FALSE
      <4>1. PICK t \in Keys : /\ stored[<<t, HandleOf[c]>>].kind = "tombstone"
                              /\ stored[<<t, HandleOf[c]>>].claim = c
        BY <3>3 DEF Tombstoned, Carries
      <4>2. <<t, HandleOf[c]>> \in Slots  BY OwnSlots
      <4>3. <<t, HandleOf[c]>> = slot
        <5> SUFFICES ASSUME <<t, HandleOf[c]>> # slot PROVE FALSE
          OBVIOUS
        <5>1. stored'[<<t, HandleOf[c]>>] = stored[<<t, HandleOf[c]>>]  BY <1>1, <4>2
        <5> QED BY <2>1, <4>1, <5>1 DEF Tombstoned, Carries
      <4>4. t = e.key /\ e.d = HandleOf[c] /\ k # t  BY <3>1, <4>3 DEF SlotOf
      <4>5. stored[<<k, HandleOf[c]>>] = stored'[<<k, HandleOf[c]>>]  BY <1>1, <2>3, <3>1
      <4> QED BY <1>2, <2>2, <2>5, <4>1, <4>4, <4>5 DEF InStep
    <3>4. Live(c)  BY <1>2, <3>2, <3>3, LiveIsStillLive
    <3> QED BY <2>5, <3>4 DEF Held
  <2> QED BY <2>4, <2>5
<1> QED BY <1>1, <1>3, <1>4

(* The newest listing on a coin with a live claim stays that claim's: what   *)
(* lands there is newer, and takes the place of no listing of a claim that   *)
(* stays live.                                                               *)
LEMMA LandsNewest == ASSUME BaseInv, LiveInv, Commit, Lands(accepted) PROVE NewestLive'
<1> DEFINE e == accepted
           slot == SlotOf(accepted)
<1>1. /\ e \in Events /\ e # None /\ WellFormed(e) /\ slot \in Slots
      /\ \A s \in Slots : stored'[s] = IF s = slot THEN RecordOf(e) ELSE stored[s]
  BY OneSlot
<1>2. InStep(e) /\ HeldOnce /\ NewestLive  BY <1>1 DEF LiveInv, AdmittedInStep
<1> SUFFICES ASSUME NEW c \in Claims, Live(c)'
             PROVE  \E own \in ListingsOn(stored', CoinOf[c]) :
                       /\ stored'[own].claim = c
                       /\ \A other \in ListingsOn(stored', CoinOf[c]) :
                             stored'[other].claim # c => stored'[other].at < stored'[own].at
  BY DEF NewestLive, ListingsOn
<1>3. ASSUME NEW s \in ListingsOn(stored', CoinOf[c]), s # slot
      PROVE  s \in ListingsOn(stored, CoinOf[c]) /\ stored'[s] = stored[s]
  BY <1>1, <1>3 DEF ListingsOn
<1>4. CASE c = e.claim
  <2>1. e.kind = "listing"  BY <1>4, LandsLive DEF Coming
  <2>2. stored'[slot] = RecordOf(e) /\ slot[2] = HandleOf[c]
    BY <1>1, <1>4 DEF SlotOf, WellFormed
  <2>3. slot \in ListingsOn(stored', CoinOf[c]) /\ stored'[slot].claim = c
        /\ stored'[slot].at = e.at
    BY <1>1, <1>4, <2>1, <2>2 DEF ListingsOn, RecordOf
  <2>4. ASSUME NEW other \in ListingsOn(stored', CoinOf[c]), stored'[other].claim # c
        PROVE  stored'[other].at < e.at
    <3>1. other # slot  BY <2>3, <2>4
    <3> QED BY <1>2, <1>3, <1>4, <2>1, <2>4, <3>1 DEF InStep
  <2> QED BY <2>3, <2>4
<1>5. CASE c # e.claim
  <2>1. Live(c)  BY <1>5, LandsLive
  <2>2. PICK own \in ListingsOn(stored, CoinOf[c]) :
          /\ stored[own].claim = c
          /\ \A other \in ListingsOn(stored, CoinOf[c]) :
                stored[other].claim # c => stored[other].at < stored[own].at
    BY <1>2, <2>1 DEF NewestLive
  <2>3. PICK k \in Keys : /\ stored'[<<k, HandleOf[c]>>].kind = "listing"
                          /\ stored'[<<k, HandleOf[c]>>].claim = c
    <3>1. KeysOf[c] \subseteq Keys  BY ClaimsAssumption
    <3> QED BY <3>1 DEF Live
  <2>4. <<k, HandleOf[c]>> \in Slots /\ <<k, HandleOf[c]>> # slot
    BY <1>1, <1>5, <2>3, OwnSlots DEF RecordOf
  <2>5. own # slot
    <3> SUFFICES ASSUME own = slot PROVE FALSE
      OBVIOUS
    <3>1. /\ stored[<<e.key, e.d>>].kind = "listing" /\ stored[<<e.key, e.d>>].claim = c
          /\ e.d = HandleOf[c]
      BY <2>2 DEF ListingsOn, SlotOf
    <3>2. k # e.key  BY <2>4, <3>1 DEF SlotOf
    <3>3. stored[<<k, e.d>>].kind = "listing" /\ stored[<<k, e.d>>].claim = c
      BY <1>1, <2>3, <2>4, <3>1
    <3> QED BY <1>2, <1>5, <3>1, <3>2, <3>3 DEF InStep
  <2>6. stored'[own] = stored[own] /\ own \in ListingsOn(stored', CoinOf[c])
    BY <1>1, <2>2, <2>5 DEF ListingsOn
  <2>7. ASSUME NEW other \in ListingsOn(stored', CoinOf[c]), stored'[other].claim # c
        PROVE  other # slot
    <3> SUFFICES ASSUME other = slot PROVE FALSE
      OBVIOUS
    <3>1. e.kind = "listing" /\ CoinOf[e.claim] = CoinOf[c]
      BY <1>1, <2>7 DEF ListingsOn, RecordOf
    <3>2. Held(c) /\ Held(e.claim) /\ e.claim \in Claims
      BY <1>1, <2>1, <3>1 DEF Held, Coming, Events
    <3> QED BY <1>2, <1>5, <3>1, <3>2 DEF HeldOnce
  <2> QED BY <1>3, <2>2, <2>6, <2>7
<1> QED BY <1>4, <1>5

LEMMA CommitLive == ASSUME BaseInv, LiveInv, Commit PROVE LiveInv'
<1>1. accepted' = None /\ coinIndex' = coinIndex /\ (Lands(accepted) \/ stored' = stored)
  BY DEF Commit
<1>2. \A c \in Claims : Held(c)' => Held(c)
  BY <1>1, LandsLive DEF Held, Coming
<1>3. HeldOnce'  BY <1>2 DEF LiveInv, HeldOnce
<1>4. IndexNamesHeld'  BY <1>1, <1>2 DEF LiveInv, IndexNamesHeld
<1>5. NewestLive'
  <2>1. CASE Lands(accepted)  BY <2>1, LandsNewest
  <2>2. CASE stored' = stored
    <3>1. \A c \in Claims : Live(c)' <=> Live(c)  BY <2>2 DEF Live
    <3> QED BY <2>2, <3>1 DEF LiveInv, NewestLive, ListingsOn
  <2> QED BY <1>1, <2>1, <2>2
<1>6. AdmittedInStep'  BY <1>1 DEF AdmittedInStep
<1> QED BY <1>3, <1>4, <1>5, <1>6 DEF LiveInv

LEMMA LiveNext == ASSUME BaseInv, LiveInv, [OrderedNext]_vars PROVE LiveInv'
<1>1. [Next]_vars  BY DEF OrderedNext
<1>2. CASE Commit  BY <1>2, CommitLive
<1>3. ASSUME NEW e \in Events, EndsAClaim(e) PROVE LiveInv'
  <2>1. accepted' = e /\ stored' = stored /\ coinIndex' = coinIndex /\ accepted = None
    BY <1>3 DEF EndsAClaim
  <2>2. ASSUME e # None PROVE InStep(e)
    <3>1. accepted' \notin {accepted, None}  BY <2>1, <2>2
    <3>2. OrderedNext  BY <3>1 DEF vars
    <3> QED BY <2>1, <3>1, <3>2 DEF OrderedNext
  <2>3. \A c \in Claims : (Held(c)' <=> Held(c)) /\ (Live(c)' <=> Live(c))
    BY <1>3, <2>1 DEF Held, Coming, Live, EndsAClaim
  <2>4. HeldOnce' /\ IndexNamesHeld'  BY <2>1, <2>3 DEF LiveInv, HeldOnce, IndexNamesHeld
  <2>5. NewestLive'  BY <2>1, <2>3 DEF LiveInv, NewestLive, ListingsOn
  <2>6. AdmittedInStep'  BY <2>1, <2>2 DEF AdmittedInStep, InStep, ListingsOn
  <2> QED BY <2>4, <2>5, <2>6 DEF LiveInv
<1>4. ASSUME NEW e \in Events, NEW idx \in Indexes, TakesFreeCoin(e, idx) PROVE LiveInv'
  <2>1. accepted' = e /\ accepted = None
    BY <1>4 DEF TakesFreeCoin
  <2>2. ASSUME e # None PROVE InStep(e)
    <3>1. accepted' \notin {accepted, None}  BY <2>1, <2>2
    <3>2. OrderedNext  BY <3>1 DEF vars
    <3> QED BY <2>1, <3>1, <3>2 DEF OrderedNext
  <2> QED BY <1>4, <2>2, TakeCoin DEF TakesFreeCoin
<1>5. ASSUME NEW idx \in Indexes, FindsPrior(idx) PROVE LiveInv'
  <2>1. stored' = stored /\ accepted' = accepted /\ accepted = None /\ coinIndex' = idx
    BY <1>5 DEF FindsPrior
  <2>2. \A c \in Claims : (Held(c)' <=> Live(c)) /\ (Live(c)' <=> Live(c)) /\ (Held(c) <=> Live(c))
    BY <2>1 DEF Held, Coming, Live
  <2>3. HeldOnce'  BY <2>2 DEF LiveInv, HeldOnce
  <2>4. IndexNamesHeld'  BY <1>5, <2>1, <2>2 DEF IndexNamesHeld, FindsPrior
  <2>5. NewestLive' /\ AdmittedInStep'
    BY <2>1, <2>2 DEF LiveInv, NewestLive, AdmittedInStep, ListingsOn
  <2> QED BY <2>3, <2>4, <2>5 DEF LiveInv
<1>6. CASE Keeps  BY <1>6, Quiet DEF Keeps
<1> QED BY <1>1, <1>2, <1>3, <1>4, <1>5, <1>6, Steps

\* The inductive invariant.
IInv == BaseInv /\ LiveInv

LEMMA OrderedStep == IInv /\ [OrderedNext]_vars => IInv'
BY BaseNext, LiveNext DEF IInv, OrderedNext

(* "One coin backs at most one live claim per namespace here": whatever is   *)
(* listed, ended, refused, stored or dropped, under however many keys, and   *)
(* however often the sidecar restarts, if every check keeps its deadline and *)
(* every record admitted is in step with the store (listing, index,          *)
(* stillLive).                                                               *)
THEOREM OneLiveClaim == OrderedSpec => []OneLiveClaimPerCoin
<1>1. IInv => OneLiveClaimPerCoin  BY DEF IInv, LiveInv, HeldOnce, Held, OneLiveClaimPerCoin
<1> QED BY InitBase, InitLive, OrderedStep, <1>1, PTL DEF OrderedSpec, IInv

(* Why it holds: while the index is in memory it names the live claim of     *)
(* every coin that has one, and an admitted one on its way to disk (idx.set).*)
THEOREM IndexNames == OrderedSpec => []IndexNamesLive
<1>1. IInv => IndexNamesLive
  BY DEF IInv, LiveInv, IndexNamesHeld, IndexNamesLive, Held, Coming
<1> QED BY InitBase, InitLive, OrderedStep, <1>1, PTL DEF OrderedSpec, IInv

-----------------------------------------------------------------------------
(* Whom a listing is blocked by, as long as no check is late.                *)

\* An index names claims under their own coin.
OnCoins(index) ==
    \A coin \in Coins : index[coin] # None => index[coin] \in Claims /\ CoinOf[index[coin]] = coin

\* The claim a check asks the store about is another one's, of the same coin.
AsksOther ==
    /\ coinIndex # NoIndex => OnCoins(coinIndex)
    /\ runs["now"].stage \in {"ask", "decide"} => runs["now"].prior # runs["now"].ev.claim

LEMMA BuiltOnCoins == ASSUME Types, Filed, NEW b \in Builds(stored) PROVE b \in Indexes /\ OnCoins(b)
<1>1. ASSUME NEW coin \in Coins, b[coin] # None PROVE b[coin] \in Claims /\ CoinOf[b[coin]] = coin
  <2>1. PICK slot \in ListingsOn(stored, coin) : b[coin] = stored[slot].claim
    BY <1>1 DEF Builds
  <2> QED BY <2>1 DEF ListingsOn, Filed
<1> QED BY <1>1 DEF Builds, OnCoins

LEMMA SetOnCoins == ASSUME NEW index \in Indexes, OnCoins(index), NEW c \in Claims
                    PROVE  OnCoins([index EXCEPT ![CoinOf[c]] = c])
BY ClaimsAssumption DEF OnCoins, Indexes

LEMMA ResolveAsksOther ==
  ASSUME BaseInv, runs["now"].stage # "idle", NEW index \in Indexes, OnCoins(index),
         Resolve("now", index, runs)
  PROVE  AsksOther'
<1> DEFINE e == runs["now"].ev
           prior == index[CoinOf[e.claim]]
<1>1. /\ e.claim \in Claims /\ ~runs["now"].stale /\ runs \in [Who -> Run] /\ runs["now"] \in Run
  BY DEF BaseInv, OneCheck, Types, Events, Who
<1>2. CASE prior \in {None, e.claim}
  <2>1. coinIndex' = [index EXCEPT ![CoinOf[e.claim]] = e.claim] /\ runs'["now"] = Idle
    BY <1>1, <1>2 DEF Resolve, Set, Event, Who
  <2> HIDE DEF e
  <2> QED BY <1>1, <2>1, SetOnCoins, IdleIsRun DEF AsksOther, OnCoins
<1>3. CASE prior \notin {None, e.claim}
  <2> DEFINE asking == [runs["now"] EXCEPT !.stage = "ask", !.prior = prior, !.built = NoIndex]
  <2>1. coinIndex' = index /\ runs' = [runs EXCEPT !["now"] = asking]
    BY <1>3 DEF Resolve, Event
  <2>2. runs'["now"] = asking  BY <1>1, <2>1 DEF Who
  <2>3. asking.prior = prior /\ asking.ev = e  BY <1>1 DEF Run
  <2> QED BY <1>3, <2>1, <2>2, <2>3 DEF AsksOther, OnCoins
<1> QED BY <1>2, <1>3

LEMMA AsksOtherNext ==
  ASSUME BaseInv, AsksOther, [Next]_vars
  PROVE  AsksOther'
<1> DEFINE now == runs["now"]
<1>0. OneCheck /\ runs \in [Who -> Run] /\ now \in Run /\ runs["late"] = Idle
  BY DEF BaseInv, Types, Who, OneCheck
<1>1. CASE runs' = [r \in Who |-> Idle] /\ coinIndex' = NoIndex
  BY <1>1, IdleIsRun DEF AsksOther, Who
<1>2. CASE coinIndex' = coinIndex /\ runs'["now"].stage \notin {"ask", "decide"}
  BY <1>2 DEF AsksOther, OnCoins
<1>3. ASSUME NEW r \in Who, LookUp(r) PROVE AsksOther'
  <2>1. r = "now"  BY <1>0, <1>3, OnlyNow DEF LookUp, At
  <2> QED BY <1>3, <2>1, ResolveAsksOther DEF LookUp, At, AsksOther, BaseInv, Types
<1>4. ASSUME NEW r \in Who, Loaded(r) PROVE AsksOther'
  <2>1. r = "now"  BY <1>0, <1>4, OnlyNow DEF Loaded, At
  <2> DEFINE others == [q \in Who |-> IF q # r /\ runs[q].stage \in {"ask", "decide"}
                                        THEN [runs[q] EXCEPT !.stale = TRUE] ELSE runs[q]]
  <2>2. others = runs  BY <1>0, <2>1, IdleIsRun DEF Who
  <2>3. now.stage = "built" /\ Resolve("now", now.built, runs)
    BY <1>4, <2>1, <2>2 DEF Loaded, At
  <2>4. now.built \in Builds(stored)  BY <1>0, <2>3 DEF OneCheck
  <2>5. now.built \in Indexes /\ OnCoins(now.built)  BY <2>4, BuiltOnCoins DEF BaseInv
  <2> QED BY <2>3, <2>5, ResolveAsksOther
<1>5. ASSUME NEW r \in Who, AskStore(r) PROVE AsksOther'
  <2>1. r = "now"  BY <1>0, <1>5, OnlyNow DEF AskStore, At
  <2> DEFINE told == [now EXCEPT !.stage = "decide", !.live = StillLive(stored, now.prior)]
  <2>2. now.stage = "ask" /\ coinIndex' = coinIndex /\ runs'["now"] = told
    BY <1>0, <1>5, <2>1 DEF AskStore, At, Who
  <2>3. told.prior = now.prior /\ told.ev = now.ev  BY <1>0 DEF Run
  <2> QED BY <2>2, <2>3 DEF AsksOther, OnCoins
<1>6. ASSUME NEW r \in Who, TakeOver(r) PROVE AsksOther'
  <2>1. r = "now"  BY <1>0, <1>6, OnlyNow DEF TakeOver, At
  <2>2. /\ now.stage = "decide" /\ ~now.stale /\ now.ev.claim \in Claims
        /\ coinIndex # NoIndex /\ coinIndex \in Indexes
    BY <1>0, <1>6, <2>1 DEF TakeOver, At, OneCheck, Events, BaseInv, Types
  <2>3. coinIndex' = [coinIndex EXCEPT ![CoinOf[now.ev.claim]] = now.ev.claim]
        /\ runs'["now"] = Idle
    BY <1>0, <1>6, <2>1, <2>2 DEF TakeOver, Set, Event, Ends, Who
  <2>4. OnCoins(coinIndex')  BY <2>2, <2>3, SetOnCoins DEF AsksOther
  <2> QED BY <2>3, <2>4, IdleIsRun DEF AsksOther, OnCoins
<1>7. ASSUME NEW e \in Events, Begin(e) PROVE AsksOther'
  <2>1. coinIndex' = coinIndex /\ runs'["now"].stage = "chain"
    BY <1>0, <1>7 DEF Begin, Who, Idle
  <2> QED BY <1>2, <2>1
<1>8. ASSUME NEW r \in Who, Load(r) \/ ReadAll(r) PROVE AsksOther'
  <2>1. r = "now"  BY <1>0, <1>8, OnlyNow DEF Load, ReadAll, At
  <2>2. coinIndex' = coinIndex /\ runs'["now"].stage \in {"load", "built"}
    BY <1>0, <1>8, <2>1 DEF Load, ReadAll, Who, Run
  <2> QED BY <1>2, <2>2
<1>9. ASSUME NEW r \in Who, Refuse(r) \/ Block(r) \/ AcceptTombstone PROVE AsksOther'
  <2>1. coinIndex' = coinIndex /\ (Ends(r) \/ Ends("now"))
    BY <1>9 DEF Refuse, Block, AcceptTombstone
  <2>2. AcceptTombstone \/ r = "now"  BY <1>0, <1>9, OnlyNow DEF Refuse, Block, At
  <2>3. runs'["now"] = Idle
    BY <1>0, <1>9, <2>2 DEF Ends, Who, Refuse, Block, AcceptTombstone
  <2> QED BY <1>2, <2>1, <2>3, IdleIsRun
<1>11. CASE Restart  BY <1>1, <1>11 DEF Restart
<1>12. CASE Commit \/ Rest \/ UNCHANGED vars
  BY <1>12 DEF Commit, Rest, vars, AsksOther, OnCoins
<1> QED BY <1>3, <1>4, <1>5, <1>6, <1>7, <1>8, <1>9, <1>11, <1>12 DEF Next, Who

(* A listing is blocked only while another claim on its coin is live: the    *)
(* answer of the store still holds when it is used (listing, stillLive).     *)
THEOREM BlockedOnlyByLive == Spec => BlockedByLiveOnly
<1>1. ASSUME BaseInv, AsksOther, NEW r \in Who, At(r, "decide"), runs[r].live
      PROVE  \E c \in Claims \ {Event(r).claim} : CoinOf[c] = CoinOf[Event(r).claim] /\ Live(c)
  <2> DEFINE prior == runs["now"].prior
  <2>1. r = "now"  BY <1>1, IdleIsRun DEF BaseInv, OneCheck, At, Who
  <2>2. /\ runs["now"] \in Run /\ runs["now"].ev \in Events
        /\ coinIndex # NoIndex /\ prior = coinIndex[CoinOf[Event(r).claim]] /\ prior # None
        /\ StillLive(stored, prior)
    BY <1>1, <2>1 DEF BaseInv, Types, OneCheck, At, Event, Who
  <2>3. prior \in Claims /\ CoinOf[prior] = CoinOf[Event(r).claim] /\ prior # Event(r).claim
    BY <1>1, <2>1, <2>2, ClaimsAssumption DEF AsksOther, OnCoins, At, Event, Events
  <2>4. Live(prior)
    BY <1>1, <2>2, <2>3, LiveIsStillLive DEF BaseInv, StillLive, Listed, Tombstoned
  <2> QED BY <2>3, <2>4
<1>2. Init => AsksOther  BY IdleIsRun DEF Init, AsksOther, Who
<1>3. BaseInv /\ AsksOther /\ [Next]_vars => BaseInv' /\ AsksOther'  BY BaseNext, AsksOtherNext
<1>4. BaseInv /\ AsksOther /\ [Next]_vars =>
        [\A r \in Who : At(r, "decide") /\ runs[r].live /\ runs'[r] = Idle /\ restarts' = restarts =>
            \E c \in Claims \ {Event(r).claim} :
                CoinOf[c] = CoinOf[Event(r).claim] /\ Live(c)]_vars
  BY <1>1
<1> QED BY InitBase, <1>2, <1>3, <1>4, PTL DEF Spec, BlockedByLiveOnly

-----------------------------------------------------------------------------
(* With one key to an address every record admitted is in step.              *)

OneKeyPerAddress == \A c \in Claims : \E k \in Keys : KeysOf[c] = {k}

\* A claim's records are all in the one slot its key and handle have.
LEMMA OneSlotOnly ==
    ASSUME OneKeyPerAddress, Filed, NEW s \in Slots, NEW t \in Slots,
           stored[s].kind # "none", stored[t].kind # "none", stored[s].claim = stored[t].claim
    PROVE  s = t
<1> DEFINE c == stored[s].claim
<1>1. c \in Claims /\ s[1] \in KeysOf[c] /\ t[1] \in KeysOf[c] /\ s[2] = t[2]  BY DEF Filed
<1>2. s[1] = t[1]  BY <1>1 DEF OneKeyPerAddress
<1>3. s = <<s[1], s[2]>> /\ t = <<t[1], t[2]>>  BY DEF Slots
<1> QED BY <1>1, <1>2, <1>3

LEMMA OneKeyStep == ASSUME OneKeyPerAddress, IInv, [Next]_vars PROVE [OrderedNext]_vars
<1> SUFFICES ASSUME Next, accepted' \notin {accepted, None} PROVE InStep(accepted')
  BY DEF OrderedNext
<1>1. ASSUME NEW e \in Events, NEW k \in Keys \ {e.key},
             stored[<<e.key, e.d>>].kind # "none", stored[<<k, e.d>>].kind = "listing"
      PROVE  stored[<<k, e.d>>].claim # stored[<<e.key, e.d>>].claim
  <2>1. <<e.key, e.d>> \in Slots /\ <<k, e.d>> \in Slots  BY DEF Events, Slots
  <2>2. <<k, e.d>> # <<e.key, e.d>>  OBVIOUS
  <2> QED BY <1>1, <2>1, <2>2, OneSlotOnly DEF IInv, BaseInv
<1>2. ASSUME NEW e \in Events, EndsAClaim(e) PROVE InStep(accepted')
  BY <1>1, <1>2 DEF EndsAClaim, InStep
<1>3. ASSUME NEW e \in Events, NEW idx \in Indexes, TakesFreeCoin(e, idx)
      PROVE  InStep(accepted')
  <2>1. ASSUME NEW slot \in ListingsOn(stored, CoinOf[e.claim]) PROVE stored[slot].claim = e.claim
    <3> DEFINE c == stored[slot].claim
    <3>1. /\ slot \in Slots /\ stored[slot].kind = "listing" /\ c \in Claims
          /\ CoinOf[c] = CoinOf[e.claim] /\ slot = <<slot[1], HandleOf[c]>> /\ slot[1] \in Keys
      BY DEF ListingsOn, IInv, BaseInv, Filed, Slots
    <3>2. Listed(c)  BY <3>1 DEF Listed, Carries
    <3>3. ~Tombstoned(c)
      <4> SUFFICES ASSUME NEW k \in Keys, stored[<<k, HandleOf[c]>>].kind = "tombstone",
                          stored[<<k, HandleOf[c]>>].claim = c
                   PROVE  FALSE
        BY DEF Tombstoned, Carries
      <4>1. <<k, HandleOf[c]>> \in Slots  BY <3>1, OwnSlots
      <4> QED BY <3>1, <4>1, OneSlotOnly DEF IInv, BaseInv
    <3>4. Live(c)  BY <3>1, <3>2, <3>3, LiveIsStillLive DEF IInv, BaseInv
    <3>5. idx[CoinOf[e.claim]] = c /\ c # None  BY <1>3, <3>1, <3>4, ClaimsAssumption DEF TakesFreeCoin
    <3> QED BY <1>3, <3>4, <3>5 DEF TakesFreeCoin
  <2>2. accepted' = e  BY <1>3 DEF TakesFreeCoin
  <2> QED BY <1>1, <2>1, <2>2 DEF InStep
<1>4. CASE Commit  BY <1>4 DEF Commit
<1>5. ASSUME NEW idx \in Indexes, FindsPrior(idx) PROVE FALSE  BY <1>5 DEF FindsPrior
<1>6. CASE Keeps  BY <1>6 DEF Keeps
<1> QED BY <1>2, <1>3, <1>4, <1>5, <1>6, Steps DEF IInv

(* As long as an address has one key, the gate itself sees to it that every  *)
(* record it admits is in step: what holds of OrderedSpec then holds of any  *)
(* behaviour in which no check is late (listing, tombstone).                 *)
THEOREM OneKeyInStep ==
    ASSUME OneKeyPerAddress
    PROVE  Spec => OrderedSpec
<1>1. IInv /\ [Next]_vars => [OrderedNext]_vars /\ IInv'  BY OneKeyStep, OrderedStep
<1> QED BY InitBase, InitLive, <1>1, PTL DEF Spec, OrderedSpec, IInv

-----------------------------------------------------------------------------
(* The registry of listed and live claims (CoinRegistry).                    *)

LiveClaims == {c \in Claims : Live(c)}
ListedClaims == {c \in Claims : Carries(stored, "listing", c)}
Names == [c \in Claims |-> KeysOf[c] \X {HandleOf[c]}]
Admitted == IF accepted = None THEN None
            ELSE [kind |-> accepted.kind, claim |-> accepted.claim]

\* A tombstone on its way to the store ends a claim that is still listed there.
EndsListed == accepted # None /\ accepted.kind = "tombstone" => Listed(accepted.claim)

LEMMA EndsListedNext == ASSUME BaseInv, EndsListed, [Next]_vars PROVE EndsListed'
<1>1. CASE AcceptTombstone
  <2>1. Known(Event("now")) /\ accepted' = Event("now") /\ stored' = stored
    BY <1>1 DEF AcceptTombstone, Accept
  <2> QED BY <2>1 DEF Known, EndsListed, Listed, Carries
<1>2. ASSUME NEW r \in Who, LookUp(r) \/ Loaded(r) \/ TakeOver(r) PROVE EndsListed'
  <2>1. runs[r].stage # "idle" /\ stored' = stored
    BY <1>2, IdleIsRun DEF LookUp, Loaded, TakeOver, At
  <2>2. r = "now"  BY <2>1, OnlyNow DEF BaseInv
  <2>3. Event(r).kind = "listing"
    BY <1>2, <2>2 DEF BaseInv, OneCheck, LookUp, Loaded, TakeOver, At, Event
  <2>4. accepted' = accepted \/ accepted' = Event(r)
    BY <1>2 DEF LookUp, Loaded, TakeOver, Resolve, Accept
  <2> QED BY <2>1, <2>3, <2>4 DEF EndsListed, Listed, Carries
<1>3. CASE Commit  BY <1>3 DEF Commit, EndsListed
<1>4. ASSUME \/ \E e \in Events : Begin(e)
             \/ \E r \in Who : Refuse(r) \/ Load(r) \/ ReadAll(r) \/ AskStore(r) \/ Block(r)
             \/ Restart \/ Rest \/ UNCHANGED vars
      PROVE  EndsListed'
  <2>1. stored' = stored /\ accepted' = accepted
    BY <1>4 DEF Begin, Refuse, Load, ReadAll, AskStore, Block, Restart, Rest, vars
  <2> QED BY <2>1 DEF EndsListed, Listed, Carries
<1> QED BY <1>1, <1>2, <1>3, <1>4 DEF Next

\* The claim listed in the slot that a record is about to take.
InItsPlace(e) == {c \in Claims : stored[SlotOf(e)].kind = "listing" /\ stored[SlotOf(e)].claim = c}

LEMMA ListedUnderName == ASSUME Filed, NEW c \in Claims, Listed(c)
                         PROVE  \E name \in Names[c] : /\ name \in Slots
                                                       /\ stored[name].kind = "listing"
                                                       /\ stored[name].claim = c
<1>1. PICK k \in Keys : /\ stored[<<k, HandleOf[c]>>].kind = "listing"
                        /\ stored[<<k, HandleOf[c]>>].claim = c
  BY DEF Listed, Carries
<1>2. <<k, HandleOf[c]>> \in Slots  BY OwnSlots
<1>3. k \in KeysOf[c]  BY <1>1, <1>2 DEF Filed
<1> QED BY <1>1, <1>2, <1>3 DEF Names

LEMMA ListedUnderNameNext == ASSUME Filed', NEW c \in Claims, Listed(c)'
                             PROVE  \E name \in Names[c] : /\ name \in Slots
                                                           /\ stored'[name].kind = "listing"
                                                           /\ stored'[name].claim = c
<1>1. PICK k \in Keys : /\ stored'[<<k, HandleOf[c]>>].kind = "listing"
                        /\ stored'[<<k, HandleOf[c]>>].claim = c
  BY DEF Listed, Carries
<1>2. <<k, HandleOf[c]>> \in Slots  BY OwnSlots
<1>3. k \in KeysOf[c]  BY <1>1, <1>2 DEF Filed
<1> QED BY <1>1, <1>2, <1>3 DEF Names

(* A record that lands puts out the claim it replaces and changes no other   *)
(* but its own.                                                              *)
LEMMA LandsOnOne ==
    ASSUME BaseInv, LiveInv, Commit, Lands(accepted), NEW c \in Claims, c # accepted.claim
    PROVE  /\ Listed(c)' <=> Listed(c) /\ c \notin InItsPlace(accepted)
           /\ Live(c)' <=> Live(c) /\ c \notin InItsPlace(accepted)
<1> DEFINE e == accepted
           slot == SlotOf(e)
<1>1. /\ e \in Events /\ e # None /\ slot \in Slots
      /\ \A s \in Slots : stored'[s] = IF s = slot THEN RecordOf(e) ELSE stored[s]
  BY OneSlot
<1>2. Filed /\ Filed' /\ InStep(e)
  BY <1>1, CommitBase DEF BaseInv, LiveInv, AdmittedInStep
<1>3. \A k \in Keys : <<k, HandleOf[c]>> \in Slots  BY OwnSlots
<1>4. stored'[slot].claim # c  BY <1>1 DEF RecordOf
<1>5. ASSUME Listed(c)' PROVE Listed(c) /\ c \notin InItsPlace(e)
  <2>1. PICK k \in Keys : /\ stored'[<<k, HandleOf[c]>>].kind = "listing"
                          /\ stored'[<<k, HandleOf[c]>>].claim = c
    BY <1>5 DEF Listed, Carries
  <2>2. <<k, HandleOf[c]>> # slot  BY <1>4, <2>1
  <2>3. stored[<<k, HandleOf[c]>>] = stored'[<<k, HandleOf[c]>>]  BY <1>1, <1>3, <2>2
  <2>4. ASSUME c \in InItsPlace(e) PROVE FALSE
    <3>1. /\ stored[<<e.key, e.d>>].kind = "listing" /\ stored[<<e.key, e.d>>].claim = c
          /\ slot[2] = HandleOf[c]
      BY <1>1, <1>2, <2>4 DEF InItsPlace, Filed, SlotOf
    <3>2. e.d = HandleOf[c] /\ k # e.key  BY <2>2, <3>1 DEF SlotOf
    <3> QED BY <1>2, <2>1, <2>3, <3>1, <3>2 DEF InStep
  <2> QED BY <2>1, <2>3, <2>4 DEF Listed, Carries
<1>6. ASSUME Listed(c), c \notin InItsPlace(e) PROVE Listed(c)'
  <2>1. PICK k \in Keys : /\ stored[<<k, HandleOf[c]>>].kind = "listing"
                          /\ stored[<<k, HandleOf[c]>>].claim = c
    BY <1>6 DEF Listed, Carries
  <2>2. <<k, HandleOf[c]>> # slot  BY <1>6, <2>1 DEF InItsPlace
  <2>3. stored'[<<k, HandleOf[c]>>] = stored[<<k, HandleOf[c]>>]  BY <1>1, <1>3, <2>2
  <2> QED BY <2>1, <2>3 DEF Listed, Carries
<1>7. ASSUME Tombstoned(c)' PROVE Tombstoned(c)
  <2>1. PICK k \in Keys : /\ stored'[<<k, HandleOf[c]>>].kind = "tombstone"
                          /\ stored'[<<k, HandleOf[c]>>].claim = c
    BY <1>7 DEF Tombstoned, Carries
  <2>2. <<k, HandleOf[c]>> # slot  BY <1>4, <2>1
  <2>3. stored[<<k, HandleOf[c]>>] = stored'[<<k, HandleOf[c]>>]  BY <1>1, <1>3, <2>2
  <2> QED BY <2>1, <2>3 DEF Tombstoned, Carries
<1>8. (Live(c) <=> Listed(c) /\ ~Tombstoned(c)) /\ (Live(c)' <=> Listed(c)' /\ ~Tombstoned(c)')
  BY <1>2, LiveIsStillLive, LiveIsStillLiveNext
<1>9. Live(c)' => Live(c)  BY LandsLive
<1> QED BY <1>5, <1>6, <1>7, <1>8, <1>9

(* A record that strfry stores lists or ends its claim.                      *)
LEMMA LandsInRegistry ==
    ASSUME BaseInv, LiveInv, Commit, NEW e \in Events, accepted = e, Lands(e)
    PROVE  Registry!Next
<1> DEFINE name == SlotOf(e)
           out == InItsPlace(e)
<1>1. /\ e \in Events /\ e # None /\ accepted' = None /\ Bound(e) /\ WellFormed(e)
      /\ name \in Slots
      /\ \A s \in Slots : stored'[s] = IF s = name THEN RecordOf(e) ELSE stored[s]
  BY OneSlot
<1>2. /\ e.claim \in Claims /\ e.kind \in {"listing", "tombstone"}
      /\ name \in Names[e.claim] /\ name = <<e.key, HandleOf[e.claim]>> /\ e.key \in Keys
  BY <1>1 DEF Events, Bound, WellFormed, SlotOf, Names
<1>3. Admitted = [kind |-> e.kind, claim |-> e.claim] /\ Admitted' = None
  BY <1>1 DEF Admitted
<1>4. Filed /\ Filed'  BY CommitBase DEF BaseInv
<1>5. stored'[name].kind = e.kind /\ stored'[name].claim = e.claim  BY <1>1 DEF RecordOf
<1>6. out \subseteq {c \in ListedClaims : name \in Names[c]}
  <2> SUFFICES ASSUME NEW c \in out PROVE Listed(c) /\ name \in Names[c]
    BY DEF ListedClaims, InItsPlace, Listed
  <2>1. /\ c \in Claims /\ stored[name].kind = "listing" /\ stored[name].claim = c
    BY DEF InItsPlace
  <2>2. name[1] \in KeysOf[c] /\ name[2] = HandleOf[c] /\ name = <<name[1], name[2]>> /\ name[1] \in Keys
    BY <1>1, <1>4, <2>1 DEF Filed, Slots
  <2>3. name \in Names[c]  BY <2>1, <2>2 DEF Names
  <2> QED BY <2>1, <2>2, <2>3 DEF Listed, Carries
<1>7. \A c, d \in out : c = d  BY DEF InItsPlace
<1>8. ASSUME NEW c \in ListedClaims, Names[c] = {name} PROVE c \in out
  BY <1>4, <1>8, ListedUnderName DEF ListedClaims, Listed, InItsPlace
<1>9. \A c \in Claims : c # e.claim => /\ Listed(c)' <=> Listed(c) /\ c \notin out
                                       /\ Live(c)' <=> Live(c) /\ c \notin out
  BY LandsOnOne
<1>10. CASE e.kind = "listing"
  <2>1. Listed(e.claim)'  BY <1>2, <1>5, <1>10 DEF Listed, Carries
  <2>2. ListedClaims' = (ListedClaims \ out) \cup {e.claim}
    BY <1>2, <1>9, <2>1 DEF ListedClaims, Listed
  <2>3. Registry!Replaces(name, out)
    BY <1>6, <1>7, <1>8 DEF Registry!Replaces, ListedClaims, Names
  <2>4. \/ LiveClaims' = (LiveClaims \ out) \cup {e.claim}
        \/ /\ e.claim \notin LiveClaims /\ Names[e.claim] # {name}
           /\ LiveClaims' = LiveClaims \ out
    <3>1. CASE Live(e.claim)'  BY <1>2, <1>9, <3>1 DEF LiveClaims
    <3>2. CASE ~Live(e.claim)'
      <4>1. Tombstoned(e.claim)'  BY <1>2, <1>4, <2>1, <3>2, LiveIsStillLiveNext
      <4>2. PICK k \in Keys : /\ stored'[<<k, HandleOf[e.claim]>>].kind = "tombstone"
                              /\ stored'[<<k, HandleOf[e.claim]>>].claim = e.claim
        BY <4>1 DEF Tombstoned, Carries
      <4>3. <<k, HandleOf[e.claim]>> # name /\ <<k, HandleOf[e.claim]>> \in Slots
        BY <1>2, <1>5, <1>10, <4>2, OwnSlots
      <4>4. Tombstoned(e.claim)  BY <1>1, <4>2, <4>3 DEF Tombstoned, Carries
      <4>5. ~Live(e.claim)  BY <1>2, <1>4, <4>4, LiveIsStillLive
      <4>6. k \in KeysOf[e.claim]  BY <1>4, <4>2, <4>3 DEF Filed
      <4>7. Names[e.claim] # {name}  BY <1>2, <4>3, <4>6 DEF Names
      <4> QED BY <1>2, <1>9, <3>2, <4>5, <4>7 DEF LiveClaims
    <3> QED BY <3>1, <3>2
  <2>5. out \in SUBSET ListedClaims  BY <1>6
  <2>6. Registry!List(e.claim, name)
    <3> HIDE DEF name, out
    <3> QED BY <1>3, <1>10, <2>2, <2>3, <2>4, <2>5
            DEF Registry!List, LiveClaims, ListedClaims, Admitted, Names
  <2> QED BY <1>2, <2>6 DEF Registry!Next, Names
<1>11. CASE e.kind = "tombstone"
  <2> DEFINE gone == {c \in out : ~Listed(c)'}
  <2>1. Tombstoned(e.claim)'  BY <1>2, <1>5, <1>11 DEF Tombstoned, Carries
  <2>2. ~Live(e.claim)'  BY <1>2, <1>4, <2>1, LiveIsStillLiveNext
  <2>3. Listed(e.claim)' <=> Listed(e.claim) /\ e.claim \notin gone
    <3>1. ASSUME Listed(e.claim)' PROVE Listed(e.claim)
      <4>1. PICK k \in Keys : /\ stored'[<<k, HandleOf[e.claim]>>].kind = "listing"
                              /\ stored'[<<k, HandleOf[e.claim]>>].claim = e.claim
        BY <3>1 DEF Listed, Carries
      <4>2. <<k, HandleOf[e.claim]>> # name /\ <<k, HandleOf[e.claim]>> \in Slots
        BY <1>2, <1>5, <1>11, <4>1, OwnSlots
      <4> QED BY <1>1, <4>1, <4>2 DEF Listed, Carries
    <3>2. ASSUME Listed(e.claim), e.claim \notin out PROVE Listed(e.claim)'
      <4>1. PICK k \in Keys : /\ stored[<<k, HandleOf[e.claim]>>].kind = "listing"
                              /\ stored[<<k, HandleOf[e.claim]>>].claim = e.claim
        BY <3>2 DEF Listed, Carries
      <4>2. <<k, HandleOf[e.claim]>> # name /\ <<k, HandleOf[e.claim]>> \in Slots
        BY <1>2, <3>2, <4>1, OwnSlots DEF InItsPlace
      <4> QED BY <1>1, <4>1, <4>2 DEF Listed, Carries
    <3> QED BY <3>1, <3>2
  <2>4. \A c \in Claims : c # e.claim => (c \in gone <=> c \in out)
    BY <1>9
  <2>5. ListedClaims' = ListedClaims \ gone
    BY <1>2, <1>9, <2>3, <2>4 DEF ListedClaims, Listed
  <2>6. LiveClaims' = LiveClaims \ (gone \cup {e.claim})
    BY <1>2, <1>9, <2>2, <2>4 DEF LiveClaims
  <2>7. ASSUME NEW c \in ListedClaims, Names[c] = {name} PROVE c \in gone
    <3>1. c \in out /\ c \in Claims  BY <1>8, <2>7 DEF ListedClaims
    <3>2. ASSUME Listed(c)' PROVE FALSE
      <4>1. PICK n \in Names[c] : stored'[n].kind = "listing" BY <1>4, <3>1, <3>2, ListedUnderNameNext
      <4> QED BY <1>5, <1>11, <2>7, <4>1
    <3> QED BY <3>1, <3>2
  <2>8. Registry!Replaces(name, gone)
    BY <1>6, <1>7, <2>7 DEF Registry!Replaces, ListedClaims, Names
  <2>9. gone \in SUBSET ListedClaims  BY <1>6
  <2>10. Registry!End(e.claim, name)
    <3> HIDE DEF name, gone
    <3> QED BY <1>3, <1>11, <2>5, <2>6, <2>8, <2>9
            DEF Registry!End, LiveClaims, ListedClaims, Admitted, Names
  <2> QED BY <1>2, <2>10 DEF Registry!Next, Names
<1> QED BY <1>2, <1>10, <1>11

(* A record is let in when its coin is free or its claim is listed.          *)
LEMMA AdmitsInRegistry ==
    ASSUME LiveInv', EndsListed', stored' = stored,
           accepted = None, accepted' \in Events, accepted' # None
    PROVE  Registry!Next
<1>1. PICK c \in Claims, kind \in {"listing", "tombstone"} :
          accepted'.claim = c /\ accepted'.kind = kind
  BY DEF Events
<1>2. LiveClaims' = LiveClaims /\ ListedClaims' = ListedClaims
  BY DEF LiveClaims, Live, ListedClaims, Carries
<1>3. Admitted = None /\ Admitted' = [kind |-> kind, claim |-> c]  BY <1>1 DEF Admitted
<1>4. ASSUME kind = "listing", NEW other \in LiveClaims, CoinOf[other] = CoinOf[c]
      PROVE  other = c
  <2>1. other \in Claims /\ Held(other)'  BY DEF LiveClaims, Held, Live
  <2>2. Held(c)'  BY <1>1, <1>4 DEF Held, Coming
  <2> QED BY <1>4, <2>1, <2>2 DEF LiveInv, HeldOnce
<1>5. ASSUME kind = "tombstone" PROVE c \in ListedClaims
  BY <1>1, <1>5 DEF EndsListed, Listed, Carries, ListedClaims
<1>6. kind = "listing" => Registry!Free(c)
  BY <1>4 DEF Registry!Free, LiveClaims
<1>7. Registry!Admit(kind, c)
  BY <1>2, <1>3, <1>5, <1>6 DEF Registry!Admit, LiveClaims, ListedClaims, Admitted
<1> QED BY <1>7 DEF Registry!Next

(* Each step of the gate and the store is a step of the registry or none:    *)
(* what is accepted is let in, what strfry commits counts for a reader.      *)
LEMMA RegistryStep ==
    ASSUME BaseInv, LiveInv, LiveInv', EndsListed', [Next]_vars
    PROVE  [Registry!Next]_<<ListedClaims, LiveClaims, Admitted>>
<1>1. CASE Commit
  <2>1. CASE Lands(accepted)
    <3>1. PICK e \in Events : accepted = e  BY <1>1 DEF Commit, BaseInv, Types
    <3> QED BY <1>1, <2>1, <3>1, LandsInRegistry
  <2>2. CASE ~Lands(accepted)
    <3>1. stored' = stored /\ accepted' = None  BY <1>1, <2>2 DEF Commit
    <3>2. LiveClaims' = LiveClaims /\ ListedClaims' = ListedClaims
      BY <3>1 DEF LiveClaims, Live, ListedClaims, Carries
    <3>3. Admitted' = None  BY <3>1 DEF Admitted
    <3>4. Registry!Drop  BY <3>2, <3>3 DEF Registry!Drop, LiveClaims, ListedClaims, Admitted
    <3> QED BY <3>4 DEF Registry!Next
  <2> QED BY <2>1, <2>2
<1>2. CASE stored' = stored /\ accepted' = accepted
  BY <1>2 DEF LiveClaims, Live, ListedClaims, Carries, Admitted
<1>3. ASSUME NEW e \in Events, accepted' = e, accepted = None, stored' = stored
      PROVE  [Registry!Next]_<<ListedClaims, LiveClaims, Admitted>>
  <2>1. CASE e = None  BY <1>2, <1>3, <2>1
  <2>2. CASE e # None  BY <1>3, <2>2, AdmitsInRegistry
  <2> QED BY <2>1, <2>2
<1> QED BY <1>1, <1>2, <1>3, Steps DEF EndsAClaim, TakesFreeCoin, FindsPrior, Keeps

(* What a reader finds listed and live is a registry: each coin has one live *)
(* claim at most, a listing is let in only while its coin is free, a         *)
(* tombstone only for a claim that is listed, and no record puts a claim out *)
(* or brings one back but its own and one that takes its place, under the    *)
(* same two conditions (listing, tombstone, stillLive).                      *)
THEOREM IsRegistry == OrderedSpec => ImplementsRegistry
<1>1. Init => EndsListed  BY DEF Init, EndsListed
<1>2. Init => Registry!Init
  <2>1. ASSUME Init, NEW c \in Claims PROVE ~Listed(c) /\ ~Live(c)
    <3>1. \A k \in Keys : stored[<<k, HandleOf[c]>>].kind = "none"
      BY <2>1, OwnSlots DEF Init, NoRecord
    <3>2. KeysOf[c] \subseteq Keys  BY ClaimsAssumption
    <3> QED BY <3>1, <3>2 DEF Listed, Carries, Live
  <2> QED BY <2>1 DEF Registry!Init, Init, Listed
<1>3. IInv /\ EndsListed /\ [OrderedNext]_vars =>
          IInv' /\ EndsListed' /\ [Registry!Next]_<<ListedClaims, LiveClaims, Admitted>>
  BY OrderedStep, EndsListedNext, RegistryStep DEF IInv, OrderedNext
<1> QED BY InitBase, InitLive, <1>1, <1>2, <1>3, PTL
        DEF IInv, OrderedSpec, ImplementsRegistry, Registry!Spec, LiveClaims, ListedClaims, Admitted

-----------------------------------------------------------------------------
(* Without those conditions: any checks, late ones too.                      *)

\* What a check holds, whatever step it is at.
RunHolds(r, index) ==
    /\ r \in Run
    /\ r.stage = "idle" <=> r = Idle
    /\ r.stage # "idle" => r.ev \in Events /\ WellFormed(r.ev)
    /\ r.stage \notin {"idle", "chain"} => r.ev.kind = "listing"
    /\ r.stage = "built" => r.built \in Indexes
    /\ r.stage \in {"ask", "decide"} => index \in Indexes

Bounds == checks \in 0..MaxChecks /\ restarts \in 0..MaxRestarts

\* The inductive invariant.
LateInv == /\ Types /\ Bounds
           /\ \A q \in Who : RunHolds(runs[q], coinIndex)
           /\ accepted # None => WellFormed(accepted)

LEMMA IdleHolds == ASSUME NEW index PROVE RunHolds(Idle, index)
BY IdleIsRun DEF RunHolds

LEMMA LateInit == Init => LateInv
<1> SUFFICES ASSUME Init PROVE LateInv
  OBVIOUS
<1>1. Types  BY InitBase DEF BaseInv
<1>2. Bounds  BY ClaimsAssumption DEF Init, Bounds
<1> QED BY <1>1, <1>2, IdleHolds DEF Init, LateInv

(* A step of one check: the index it leaves is one if it was.                *)
LEMMA OneRun ==
    ASSUME LateInv, NEW r \in Who, NEW x, NEW others \in [Who -> Run],
           \A q \in Who : RunHolds(others[q], coinIndex),
           runs' = [others EXCEPT ![r] = x], RunHolds(x, coinIndex'),
           coinIndex' \in Indexes \/ coinIndex' = coinIndex,
           accepted' = accepted \/ (accepted' \in Events /\ WellFormed(accepted')),
           stored' = stored, Bounds'
    PROVE  LateInv'
<1>1. /\ x \in Run /\ coinIndex \in Indexes \cup {NoIndex}
      /\ coinIndex' \in Indexes \cup {NoIndex}
      /\ coinIndex \in Indexes => coinIndex' \in Indexes
  BY DEF LateInv, Types, RunHolds
<1>2. Types'  BY <1>1 DEF LateInv, Types
<1>3. ASSUME NEW q \in Who PROVE RunHolds(runs'[q], coinIndex')
  <2>1. CASE q = r  BY <2>1
  <2>2. CASE q # r
    <3>1. runs'[q] = others[q] /\ RunHolds(others[q], coinIndex)  BY <2>2
    <3> QED BY <1>1, <3>1 DEF RunHolds
  <2> QED BY <2>1, <2>2
<1>4. accepted' # None => WellFormed(accepted')  BY DEF LateInv
<1> QED BY <1>2, <1>3, <1>4 DEF LateInv, WellFormed

LEMMA RunsHold == ASSUME LateInv
                  PROVE  runs \in [Who -> Run] /\ \A q \in Who : RunHolds(runs[q], coinIndex)
BY DEF LateInv, Types

LEMMA EndsHold == ASSUME LateInv, NEW r \in Who, Ends(r), stored' = stored,
                         coinIndex' \in Indexes \/ coinIndex' = coinIndex,
                         accepted' = accepted \/ (accepted' \in Events /\ WellFormed(accepted')),
                         Bounds'
                  PROVE  LateInv'
BY RunsHold, IdleHolds, OneRun DEF Ends

LEMMA ResolveHolds ==
    ASSUME LateInv, NEW r \in Who, NEW index \in Indexes, NEW others \in [Who -> Run],
           \A q \in Who : RunHolds(others[q], coinIndex), others[r] = runs[r],
           runs[r].stage # "idle", runs[r].ev.kind = "listing",
           Resolve(r, index, others), stored' = stored, Bounds'
    PROVE  LateInv'
<1> DEFINE x == runs[r]
           prior == index[CoinOf[x.ev.claim]]
<1>1. /\ x \in Run /\ x.ev \in Events /\ WellFormed(x.ev) /\ x.ev.claim \in Claims
      /\ CoinOf[x.ev.claim] \in Coins
  BY RunsHold, ClaimsAssumption DEF RunHolds, Events
<1>2. prior \in Claims \cup {None}  BY <1>1 DEF Indexes
<1>3. CASE prior \in {None, x.ev.claim}
  <2>1. Set(r, index) /\ Accept(r) /\ runs' = [others EXCEPT ![r] = Idle]
    BY <1>3 DEF Resolve, Event
  <2>2. coinIndex' \in Indexes \/ coinIndex' = coinIndex
    BY <1>1, <2>1 DEF Set, Event, Indexes
  <2>3. accepted' = accepted \/ (accepted' \in Events /\ WellFormed(accepted'))
    BY <1>1, <2>1 DEF Accept, Event
  <2> QED BY <2>1, <2>2, <2>3, IdleHolds, OneRun
<1>4. CASE prior \notin {None, x.ev.claim}
  <2> DEFINE x2 == [x EXCEPT !.stage = "ask", !.prior = prior, !.built = NoIndex]
  <2>1. coinIndex' = index /\ accepted' = accepted /\ runs' = [others EXCEPT ![r] = x2]
    BY <1>4 DEF Resolve, Event
  <2>2. x2 \in Run /\ x2.stage = "ask" /\ x2.ev = x.ev  BY <1>1, <1>2 DEF Run
  <2>3. x2 # Idle  BY <2>2, IdleIsRun
  <2> HIDE DEF x2, prior
  <2>4. RunHolds(x2, coinIndex')  BY <1>1, <2>1, <2>2, <2>3 DEF RunHolds
  <2> QED BY <2>1, <2>4, OneRun
<1> QED BY <1>3, <1>4

(* A check that goes on to its next await.                                   *)
LEMMA MovesHold ==
    ASSUME LateInv, NEW r \in Who, runs[r].stage # "idle", NEW x \in Run,
           x.stage \in {"load", "built", "decide"}, x.ev = runs[r].ev, x.ev.kind = "listing",
           x.stage = "built" => x.built \in Indexes, x.stage = "decide" => coinIndex \in Indexes,
           runs' = [runs EXCEPT ![r] = x],
           UNCHANGED <<stored, coinIndex, accepted, checks, restarts>>
    PROVE  LateInv'
<1>1. RunHolds(x, coinIndex)  BY RunsHold, IdleIsRun DEF RunHolds
<1>2. Bounds'  BY DEF LateInv, Bounds
<1> QED BY <1>1, <1>2, RunsHold, OneRun

LEMMA LateStep == ASSUME LateInv, [LateNext]_vars PROVE LateInv'
<1>0. /\ Types /\ Bounds /\ runs \in [Who -> Run]
      /\ \A q \in Who : RunHolds(runs[q], coinIndex) /\ runs[q] \in Run
  BY RunsHold DEF LateInv, Types, RunHolds
<1>1. ASSUME NEW e \in Events, Begin(e) PROVE LateInv'
  <2> DEFINE x == [Idle EXCEPT !.stage = "chain", !.ev = e]
  <2>1. /\ runs' = [runs EXCEPT !["now"] = x] /\ WellFormed(e) /\ checks' = checks + 1
        /\ checks < MaxChecks /\ UNCHANGED <<stored, coinIndex, accepted, restarts>>
    BY <1>1 DEF Begin
  <2>2. x \in Run /\ x.stage = "chain" /\ x.ev = e  BY IdleIsRun DEF Idle, Run
  <2>3. x # Idle  BY <2>2, IdleIsRun
  <2> HIDE DEF x
  <2>4. RunHolds(x, coinIndex')  BY <2>1, <2>2, <2>3 DEF RunHolds
  <2>5. Bounds'  BY <1>0, <2>1, ClaimsAssumption DEF Bounds
  <2> QED BY <1>0, <2>1, <2>4, <2>5, OneRun DEF Who
<1>2. CASE AcceptTombstone
  <2>1. /\ runs["now"].stage = "chain" /\ accepted' = runs["now"].ev /\ Ends("now")
        /\ UNCHANGED <<stored, coinIndex, checks, restarts>>
    BY <1>2 DEF AcceptTombstone, Accept, Event, At
  <2>2. runs["now"].ev \in Events /\ WellFormed(runs["now"].ev)
    BY <1>0, <2>1 DEF RunHolds, Who
  <2>3. Bounds'  BY <1>0, <2>1 DEF Bounds
  <2> QED BY <2>1, <2>2, <2>3, EndsHold DEF Who
<1>3. ASSUME NEW r \in Who, Refuse(r) \/ Block(r) PROVE LateInv'
  <2>1. Ends(r) /\ UNCHANGED <<stored, coinIndex, accepted, checks, restarts>>
    BY <1>3 DEF Refuse, Block
  <2>2. Bounds'  BY <1>0, <2>1 DEF Bounds
  <2> QED BY <2>1, <2>2, EndsHold
<1>4. ASSUME NEW r \in Who, LookUp(r) PROVE LateInv'
  <2>1. /\ runs[r].stage = "chain" /\ runs[r].ev.kind = "listing" /\ coinIndex # NoIndex
        /\ Resolve(r, coinIndex, runs) /\ UNCHANGED <<stored, checks, restarts>>
    BY <1>4 DEF LookUp, At, Event
  <2>2. coinIndex \in Indexes  BY <1>0, <2>1 DEF Types
  <2>3. Bounds'  BY <1>0, <2>1 DEF Bounds
  <2> QED BY <1>0, <2>1, <2>2, <2>3, ResolveHolds
<1>6. ASSUME NEW r \in Who, Load(r) PROVE LateInv'
  <2> DEFINE x == [runs[r] EXCEPT !.stage = "load"]
  <2>1. /\ runs[r].stage = "chain" /\ runs[r].ev.kind = "listing" /\ runs' = [runs EXCEPT ![r] = x]
        /\ UNCHANGED <<stored, coinIndex, accepted, checks, restarts>>
    BY <1>6 DEF Load, At, Event
  <2>2. x \in Run /\ x.stage = "load" /\ x.ev = runs[r].ev  BY <1>0 DEF Run
  <2> HIDE DEF x
  <2> QED BY <2>1, <2>2, MovesHold
<1>7. ASSUME NEW r \in Who, ReadAll(r) PROVE LateInv'
  <2>1. /\ runs[r].stage = "load"
        /\ \E b \in Builds(stored) : runs' = [runs EXCEPT ![r].stage = "built", ![r].built = b]
        /\ UNCHANGED <<stored, coinIndex, accepted, checks, restarts>>
    BY <1>7 DEF ReadAll, At
  <2>2. PICK b \in Builds(stored) : runs' = [runs EXCEPT ![r].stage = "built", ![r].built = b]
    BY <2>1
  <2>3. b \in Indexes  BY DEF Builds
  <2>4. runs[r].ev.kind = "listing"  BY <1>0, <2>1 DEF RunHolds
  <2> DEFINE x == [runs[r] EXCEPT !.stage = "built", !.built = b]
  <2>5. x \in Run /\ x.stage = "built" /\ x.built = b /\ x.ev = runs[r].ev  BY <1>0, <2>3 DEF Run
  <2>6. runs' = [runs EXCEPT ![r] = x]  BY <1>0, <2>2 DEF Run
  <2> HIDE DEF x
  <2> QED BY <2>1, <2>3, <2>4, <2>5, <2>6, MovesHold
<1>8. ASSUME NEW r \in Who, Loaded(r) PROVE LateInv'
  <2> DEFINE others == [q \in Who |-> IF q # r /\ runs[q].stage \in {"ask", "decide"}
                                        THEN [runs[q] EXCEPT !.stale = TRUE] ELSE runs[q]]
  <2>1. /\ runs[r].stage = "built" /\ Resolve(r, runs[r].built, others)
        /\ UNCHANGED <<stored, checks, restarts>>
    BY <1>8 DEF Loaded, At
  <2>2. ASSUME NEW q \in Who PROVE others[q] \in Run /\ RunHolds(others[q], coinIndex)
    <3>1. CASE q # r /\ runs[q].stage \in {"ask", "decide"}
      <4> DEFINE x == [runs[q] EXCEPT !.stale = TRUE]
      <4>1. others[q] = x  BY <3>1
      <4>2. runs[q] \in Run /\ RunHolds(runs[q], coinIndex)  BY <1>0
      <4>3. x \in Run /\ x.stage = runs[q].stage /\ x.ev = runs[q].ev  BY <4>2 DEF Run
      <4>4. x # Idle  BY <3>1, <4>3, IdleIsRun
      <4> HIDE DEF x
      <4>5. RunHolds(x, coinIndex)  BY <3>1, <4>2, <4>3, <4>4 DEF RunHolds
      <4> QED BY <4>1, <4>3, <4>5
    <3>2. CASE ~(q # r /\ runs[q].stage \in {"ask", "decide"})
      BY <1>0, <3>2
    <3> QED BY <3>1, <3>2
  <2>3. others \in [Who -> Run] /\ others[r] = runs[r]  BY <2>2
  <2>4. runs[r].built \in Indexes /\ runs[r].ev.kind = "listing"  BY <1>0, <2>1 DEF RunHolds
  <2>5. Bounds'  BY <1>0, <2>1 DEF Bounds
  <2> HIDE DEF others
  <2> QED BY <2>1, <2>2, <2>3, <2>4, <2>5, ResolveHolds
<1>9. ASSUME NEW r \in Who, AskStore(r) PROVE LateInv'
  <2>1. /\ runs[r].stage = "ask"
        /\ runs' = [runs EXCEPT ![r].stage = "decide", ![r].live = StillLive(stored, runs[r].prior)]
        /\ UNCHANGED <<stored, coinIndex, accepted, checks, restarts>>
    BY <1>9 DEF AskStore, At
  <2>2. StillLive(stored, runs[r].prior) \in BOOLEAN  BY DEF StillLive
  <2>3. runs[r].ev.kind = "listing" /\ coinIndex \in Indexes  BY <1>0, <2>1 DEF RunHolds
  <2> DEFINE x == [runs[r] EXCEPT !.stage = "decide", !.live = StillLive(stored, runs[r].prior)]
  <2>4. x \in Run /\ x.stage = "decide" /\ x.ev = runs[r].ev  BY <1>0, <2>2 DEF Run
  <2>5. runs' = [runs EXCEPT ![r] = x]  BY <1>0, <2>1 DEF Run
  <2> HIDE DEF x
  <2> QED BY <2>1, <2>3, <2>4, <2>5, MovesHold
<1>10. ASSUME NEW r \in Who, TakeOver(r) PROVE LateInv'
  <2>1. /\ runs[r].stage = "decide" /\ Set(r, coinIndex) /\ Accept(r) /\ Ends(r)
        /\ UNCHANGED <<stored, checks, restarts>>
    BY <1>10 DEF TakeOver, At
  <2>2. coinIndex \in Indexes /\ runs[r].ev \in Events /\ WellFormed(runs[r].ev)
    BY <1>0, <2>1 DEF RunHolds
  <2>3. coinIndex' \in Indexes \/ coinIndex' = coinIndex
    BY <2>1, <2>2, ClaimsAssumption DEF Set, Event, Indexes, Events
  <2>4. accepted' = accepted \/ (accepted' \in Events /\ WellFormed(accepted'))
    BY <2>1, <2>2 DEF Accept, Event
  <2>5. Bounds'  BY <1>0, <2>1 DEF Bounds
  <2> QED BY <2>1, <2>3, <2>4, <2>5, EndsHold
<1>11. CASE Overdue
  <2>1. /\ runs["now"] # Idle
        /\ runs' = [runs EXCEPT !["late"] = runs["now"], !["now"] = Idle]
        /\ UNCHANGED <<stored, coinIndex, accepted, checks, restarts>>
    BY <1>11 DEF Overdue
  <2>2. /\ runs' \in [Who -> Run]
        /\ \A q \in Who : runs'[q] = Idle \/ \E p \in Who : runs'[q] = runs[p]
    BY <1>0, <2>1, IdleIsRun DEF Who
  <2>3. \A q \in Who : RunHolds(runs'[q], coinIndex)  BY <1>0, <2>2, IdleHolds
  <2>4. Types' /\ Bounds'  BY <1>0, <2>1, <2>2 DEF Types, Bounds
  <2> QED BY <2>1, <2>3, <2>4 DEF LateInv, WellFormed
<1>12. CASE Restart
  <2>1. /\ restarts < MaxRestarts /\ restarts' = restarts + 1
        /\ runs' = [r \in Who |-> Idle] /\ coinIndex' = NoIndex
        /\ UNCHANGED <<stored, accepted, checks>>
    BY <1>12 DEF Restart
  <2>2. Bounds'  BY <1>0, <2>1, ClaimsAssumption DEF Bounds
  <2>3. Types'  BY <1>0, <2>1, IdleIsRun DEF Types
  <2>4. \A q \in Who : RunHolds(runs'[q], coinIndex')  BY <2>1, IdleHolds
  <2> QED BY <2>1, <2>2, <2>3, <2>4 DEF LateInv, WellFormed
<1>13. CASE Commit
  <2>1. /\ accepted \in Events /\ accepted' = None
        /\ UNCHANGED <<coinIndex, runs, checks, restarts>>
    BY <1>0, <1>13 DEF Commit, Types
  <2>2. stored' \in [Slots -> Record]
    <3>1. stored' = stored \/ Lands(accepted)  BY <1>13 DEF Commit
    <3> QED BY <1>0, <2>1, <3>1 DEF Lands, Types, Slots, Record, Events
  <2>3. Types' /\ Bounds'  BY <1>0, <2>1, <2>2 DEF Types, Bounds
  <2> QED BY <1>0, <2>1, <2>3 DEF LateInv
<1>14. CASE Rest \/ UNCHANGED vars
  <2>1. UNCHANGED <<stored, coinIndex, runs, accepted, checks, restarts>>
    BY <1>14 DEF Rest, vars
  <2> QED BY <2>1 DEF LateInv, Types, Bounds, WellFormed
<1> QED
  BY <1>1, <1>2, <1>3, <1>4, <1>6, <1>7, <1>8, <1>9, <1>10, <1>11, <1>12, <1>13, <1>14 DEF LateNext, Next

(* Every variable has its type; only listings reach the coin index, and an   *)
(* idle check carries nothing over to the next, late checks or not.          *)
THEOREM Typed == LateSpec => []TypeOK
<1>1. LateInv => TypeOK  BY DEF LateInv, Types, Bounds, RunHolds, TypeOK
<1> QED BY LateInit, LateStep, <1>1, PTL DEF LateSpec

-----------------------------------------------------------------------------
(* Sets of days.                                                             *)
LEMMA FirstExists == ASSUME NEW S \in SUBSET Nat, S # {}
                     PROVE  \E m \in S : \A y \in S : m <= y
<1>1. PICK x \in S : \A y \in S : ~ (<<y, x>> \in OpToRel(<, Nat))
  BY NatLessThanWellFounded, WFMin
<1> DEFINE less == {ss \in Nat \X Nat : ss[1] < ss[2]}
<1>2. OpToRel(<, Nat) = less  BY DEF OpToRel
<1>3. \A y \in S : ~ (<<y, x>> \in less)  BY <1>1, <1>2
<1>4. ASSUME NEW y \in S PROVE x <= y
  <2>1. x \in Nat /\ y \in Nat  OBVIOUS
  <2>2. <<y, x>> \in less <=> y < x  BY <2>1
  <2> QED BY <1>3, <2>1, <2>2
<1> QED BY <1>4

LEMMA LastExists == ASSUME NEW n \in Nat, NEW S \in SUBSET (0..n), S # {}
                    PROVE  \E m \in S : \A y \in S : y <= m
<1> DEFINE T == {n - x : x \in S}
<1>1. T \in SUBSET Nat /\ T # {}
  <2>1. \A x \in S : n - x \in Nat  OBVIOUS
  <2>2. PICK x \in S : TRUE  OBVIOUS
  <2>3. n - x \in T  BY <2>2
  <2> QED BY <2>1, <2>3
<1>2. PICK k \in T : \A y \in T : k <= y  BY <1>1, FirstExists
<1>3. PICK m \in S : k = n - m  BY <1>2
<1>4. ASSUME NEW y \in S PROVE y <= m
  <2>1. n - y \in T  OBVIOUS
  <2>2. n - m <= n - y  BY <1>2, <1>3, <2>1
  <2>3. m \in Nat /\ y \in Nat  OBVIOUS
  <2> QED BY <2>2, <2>3
<1> QED BY <1>4

After(D, d) == {e \in D : e > d}
LastOf(D) == {d \in D : Cardinality(After(D, d)) < KeepDays}

LEMMA DaysFinite == ASSUME NEW n \in Nat, NEW D \in SUBSET (0..n)
                    PROVE  /\ IsFiniteSet(D) /\ Cardinality(D) \in Nat
                           /\ \A E \in SUBSET D : /\ IsFiniteSet(E) /\ Cardinality(E) \in Nat
                                                  /\ Cardinality(E) <= Cardinality(D)
<1>1. IsFiniteSet(0..n)  BY FS_Interval
<1>2. IsFiniteSet(D)  BY <1>1, FS_Subset
<1> QED BY <1>2, FS_Subset, FS_CardinalityType

LEMMA AtMostOneMore == ASSUME NEW S, IsFiniteSet(S), NEW x
                       PROVE  /\ IsFiniteSet(S \cup {x})
                              /\ Cardinality(S) \in Nat /\ Cardinality(S \cup {x}) \in Nat
                              /\ Cardinality(S \cup {x}) <= Cardinality(S) + 1
<1> DEFINE n == Cardinality(S)
           m == Cardinality(S \cup {x})
<1>1. IsFiniteSet(S \cup {x}) /\ m = IF x \in S THEN n ELSE n + 1  BY FS_AddElement
<1>2. n \in Nat /\ m \in Nat  BY <1>1, FS_CardinalityType
<1> HIDE DEF n, m
<1>3. m <= n + 1  BY <1>1, <1>2
<1> QED BY <1>1, <1>2, <1>3 DEF n, m

(* No more than KeepDays days have fewer than KeepDays after them.           *)
LEMMA LastFew == ASSUME NEW n \in Nat, NEW D \in SUBSET (0..n)
                 PROVE  Cardinality(LastOf(D)) <= KeepDays
<1> DEFINE Q == LastOf(D)
<1>0. KeepDays \in Nat \ {0}  BY TallyAssumption
<1>1. Q \subseteq D /\ Q \in SUBSET (0..n)  BY DEF LastOf
<1>2. CASE Q = {}
  <2>1. Cardinality(Q) = 0  BY <1>2, FS_EmptySet
  <2> QED BY <1>0, <2>1
<1>3. CASE Q # {}
  <2>1. PICK m \in Q : \A y \in Q : m <= y  BY <1>1, <1>3, FirstExists
  <2>2. Q \subseteq After(D, m) \cup {m}
    <3> SUFFICES ASSUME NEW y \in Q, y # m PROVE y \in After(D, m)
      OBVIOUS
    <3>1. m <= y /\ y \in Nat /\ m \in Nat  BY <1>1, <2>1
    <3> QED BY <1>1, <3>1 DEF After
  <2>3. Cardinality(After(D, m)) < KeepDays  BY <2>1 DEF LastOf
  <2> DEFINE A == After(D, m)
  <2>4. A \in SUBSET D  BY DEF After
  <2>5. IsFiniteSet(A) /\ Cardinality(A) \in Nat  BY <2>4, DaysFinite
  <2> HIDE DEF A, Q
  <2>6. IsFiniteSet(A \cup {m}) /\ Cardinality(A \cup {m}) <= Cardinality(A) + 1
    BY <2>5, AtMostOneMore
  <2>7. Cardinality(Q) <= Cardinality(A \cup {m}) /\ Cardinality(A \cup {m}) \in Nat
        /\ Cardinality(Q) \in Nat
    BY <2>2, <2>6, FS_Subset, FS_CardinalityType DEF A
  <2>8. Cardinality(A) < KeepDays  BY <2>3 DEF A
  <2>9. Cardinality(Q) <= KeepDays  BY <1>0, <2>5, <2>6, <2>7, <2>8
  <2> QED BY <2>9 DEF Q
<1> QED BY <1>2, <1>3

(* A day with few of the kept days after it has few of all the days after it.*)
LEMMA FewAfter == ASSUME NEW n \in Nat, NEW D \in SUBSET (0..n), NEW d \in Nat,
                         Cardinality(After(LastOf(D), d)) < KeepDays
                  PROVE  Cardinality(After(D, d)) < KeepDays
<1> DEFINE L == After(D, d)
           P == After(LastOf(D), d)
<1>0. KeepDays \in Nat  BY TallyAssumption
<1>1. /\ L \in SUBSET D /\ P \in SUBSET L /\ L \in SUBSET (0..n)
  BY DEF After, LastOf
<1>2. CASE P = L  BY <1>2
<1>3. CASE P # L
  <2>1. PICK m \in L \ P : \A y \in L \ P : y <= m
    <3>1. L \ P \in SUBSET (0..n) /\ L \ P # {}  BY <1>1, <1>3
    <3> HIDE DEF L, P
    <3> QED BY <3>1, LastExists
  <2>2. m \in D /\ m > d /\ m \in Nat /\ ~(Cardinality(After(D, m)) < KeepDays)
    BY <1>1, <2>1 DEF After, LastOf
  <2>3. After(D, m) \subseteq P
    <3> SUFFICES ASSUME NEW y \in After(D, m) PROVE y \in P
      OBVIOUS
    <3>1. y \in D /\ y > m /\ y \in Nat  BY DEF After
    <3>2. y \in L  BY <2>2, <3>1 DEF After
    <3>3. ~(y <= m)  BY <2>2, <3>1
    <3> HIDE DEF L, P
    <3> QED BY <2>1, <3>2, <3>3
  <2>4. P \in SUBSET D /\ After(D, m) \in SUBSET P  BY <1>1, <2>3
  <2>5. IsFiniteSet(P)  BY <2>4, DaysFinite
  <2> HIDE DEF P
  <2>6. Cardinality(After(D, m)) <= Cardinality(P) /\ Cardinality(P) \in Nat
        /\ Cardinality(After(D, m)) \in Nat
    BY <2>4, <2>5, FS_Subset, FS_CardinalityType
  <2>7. Cardinality(P) < KeepDays  BY DEF P
  <2> QED BY <1>0, <2>2, <2>6, <2>7
<1> QED BY <1>2, <1>3

-----------------------------------------------------------------------------
(* The counts of one day.                                                    *)
DayHolds(f) ==
    /\ DOMAIN f \subseteq Reasons \cup {Other}
    /\ IsFiniteSet(DOMAIN f) /\ Cardinality(DOMAIN f \ {Other}) <= MaxReasons
    /\ \A r \in DOMAIN f : f[r] \in Nat \ {0}
    /\ IsFiniteSet(AnswersIn(f))

LEMMA EmptyDay == DayHolds(Nobody) /\ Cardinality(AnswersIn(Nobody)) = 0
<1>1. DOMAIN Nobody = {}  BY DEF Nobody
<1>2. DOMAIN Nobody \ {Other} = {} /\ AnswersIn(Nobody) = {}  BY <1>1 DEF AnswersIn
<1> QED BY <1>1, <1>2, FS_EmptySet, TallyAssumption DEF DayHolds

(* One count more, whatever its name.                                        *)
LEMMA OneMore ==
    ASSUME NEW f, DayHolds(f), NEW name, NEW g, g = Put(f, name, Get(f, name, 0) + 1)
    PROVE  /\ IsFiniteSet(AnswersIn(g))
           /\ Cardinality(AnswersIn(g)) = Cardinality(AnswersIn(f)) + 1
           /\ DOMAIN g = DOMAIN f \cup {name} /\ \A r \in DOMAIN g : g[r] \in Nat \ {0}
<1> DEFINE k == Get(f, name, 0)
           new == <<name, k + 1>>
<1>1. /\ k \in Nat /\ DOMAIN g = DOMAIN f \cup {name} /\ g[name] = k + 1
      /\ \A r \in DOMAIN f \ {name} : g[r] = f[r]
      /\ \A r \in DOMAIN f : f[r] \in Nat
      /\ name \in DOMAIN f => k = f[name]
      /\ name \notin DOMAIN f => k = 0
  BY DEF Get, Put, DayHolds
<1>2. ASSUME NEW x \in AnswersIn(f) PROVE x \in AnswersIn(g) /\ x # new
  <2>1. PICK r \in DOMAIN f : x \in {r} \X (1..f[r])  BY DEF AnswersIn
  <2>2. PICK i \in 1..f[r] : x = <<r, i>>  BY <2>1
  <2>3. CASE r = name
    <3>1. i \in 1..(k + 1) /\ i # k + 1 /\ k = f[name]  BY <1>1, <2>2, <2>3
    <3>2. x \in {name} \X (1..g[name])  BY <1>1, <2>2, <2>3, <3>1
    <3>3. x # new  BY <2>2, <3>1
    <3> QED BY <1>1, <3>2, <3>3 DEF AnswersIn
  <2>4. CASE r # name
    <3>1. x \in {r} \X (1..g[r]) /\ r \in DOMAIN g /\ x # new  BY <1>1, <2>2, <2>4
    <3> QED BY <3>1 DEF AnswersIn
  <2> QED BY <2>3, <2>4
<1>3. ASSUME NEW x \in AnswersIn(g), x # new PROVE x \in AnswersIn(f)
  <2>1. PICK r \in DOMAIN g : x \in {r} \X (1..g[r])  BY DEF AnswersIn
  <2>2. PICK i \in 1..g[r] : x = <<r, i>>  BY <2>1
  <2>3. CASE r = name
    <3>1. i \in 1..(k + 1) /\ i # k + 1  BY <1>1, <1>3, <2>2, <2>3
    <3>2. i \in 1..k /\ k # 0  BY <1>1, <3>1
    <3>3. name \in DOMAIN f /\ k = f[name]  BY <1>1, <3>2
    <3>4. x \in {name} \X (1..f[name])  BY <2>2, <2>3, <3>2, <3>3
    <3> QED BY <3>3, <3>4 DEF AnswersIn
  <2>4. CASE r # name
    <3>1. x \in {r} \X (1..f[r]) /\ r \in DOMAIN f  BY <1>1, <2>2, <2>4
    <3> QED BY <3>1 DEF AnswersIn
  <2> QED BY <2>3, <2>4
<1>4. new \in AnswersIn(g)
  <2>1. new \in {name} \X (1..g[name]) /\ name \in DOMAIN g  BY <1>1
  <2> QED BY <2>1 DEF AnswersIn
<1> DEFINE A == AnswersIn(f)
           B == AnswersIn(g)
<1>5. IsFiniteSet(A)  BY DEF DayHolds
<1> HIDE DEF new, A, B
<1>6. new \notin A /\ B = A \cup {new}  BY <1>2, <1>3, <1>4, Zenon DEF A, B
<1>7. IsFiniteSet(B) /\ Cardinality(B) = Cardinality(A) + 1
  BY <1>5, <1>6, FS_AddElement
<1>8. \A r \in DOMAIN g : g[r] \in Nat \ {0}
  BY <1>1 DEF DayHolds
<1> QED BY <1>1, <1>7, <1>8 DEF A, B

LEMMA DayCounts ==
    ASSUME NEW f, DayHolds(f), NEW reason \in Reasons, NEW g,
           g = Put(f, NameOf(reason, f), Get(f, NameOf(reason, f), 0) + 1)
    PROVE  DayHolds(g) /\ Cardinality(AnswersIn(g)) = Cardinality(AnswersIn(f)) + 1
<1> DEFINE name == NameOf(reason, f)
<1>1. /\ IsFiniteSet(AnswersIn(g)) /\ Cardinality(AnswersIn(g)) = Cardinality(AnswersIn(f)) + 1
      /\ DOMAIN g = DOMAIN f \cup {name} /\ \A r \in DOMAIN g : g[r] \in Nat \ {0}
  BY OneMore
<1>2. DOMAIN g \subseteq Reasons \cup {Other}  BY <1>1 DEF DayHolds, NameOf
<1> DEFINE D == DOMAIN f
           E == D \ {Other}
<1>3. /\ IsFiniteSet(D) /\ Cardinality(D) \in Nat /\ IsFiniteSet(E) /\ Cardinality(E) \in Nat
      /\ Cardinality(E) <= Cardinality(D) /\ Cardinality(E) <= MaxReasons /\ MaxReasons \in Nat
  BY FS_Subset, FS_CardinalityType, TallyAssumption DEF DayHolds
<1>4. IsFiniteSet(DOMAIN g)  BY <1>1, <1>3, FS_AddElement
<1>5. Cardinality(DOMAIN g \ {Other}) <= MaxReasons
  <2>1. CASE name = Other
    <3>1. DOMAIN g \ {Other} = E  BY <1>1, <2>1
    <3> QED BY <1>3, <3>1
  <2>2. CASE name \in D
    <3>1. DOMAIN g \ {Other} = E  BY <1>1, <2>2
    <3> QED BY <1>3, <3>1
  <2>3. CASE name # Other /\ name \notin D
    <3>1. Cardinality(D) < MaxReasons  BY <2>3 DEF NameOf
    <3>2. DOMAIN g \ {Other} = E \cup {name}  BY <1>1, <2>3
    <3> HIDE DEF E, D, name
    <3>3. Cardinality(E \cup {name}) <= Cardinality(E) + 1
          /\ Cardinality(E \cup {name}) \in Nat
      <4>1. IsFiniteSet(E)  BY <1>3
      <4> QED BY <4>1, AtMostOneMore
    <3> QED BY <1>3, <3>1, <3>2, <3>3
  <2> QED BY <2>1, <2>2, <2>3
<1> QED BY <1>1, <1>2, <1>4, <1>5 DEF DayHolds

-----------------------------------------------------------------------------
(* The counts of all days, in memory or in the file, at day t: what is kept  *)
(* of a day is what was answered that day, but for lost counts that were not *)
(* saved and extra ones whose answer did not go out.                         *)
CountsHold(counts, t, ans, lost, extra) ==
    /\ DOMAIN counts \subseteq 0..t /\ Cardinality(DOMAIN counts) <= KeepDays
    /\ \A d \in DOMAIN counts : DayHolds(counts[d])
    /\ \A d \in 0..t : Cardinality(After(DOMAIN counts, d)) < KeepDays =>
           ans[d] <= Total(counts, d) + lost /\ Total(counts, d) <= ans[d] + extra

LEMMA DayOf == ASSUME NEW counts, NEW d, \A e \in DOMAIN counts : DayHolds(counts[e])
               PROVE  DayHolds(Get(counts, d, Nobody)) /\ Total(counts, d) \in Nat
<1>1. DayHolds(Get(counts, d, Nobody))  BY EmptyDay DEF Get
<1> QED BY <1>1, FS_CardinalityType DEF Total, DayHolds

(* What counting an answer makes of the counts: today's are one more, and a  *)
(* day that is dropped has KeepDays after it.                                *)
LEMMA CountedDays ==
    ASSUME today \in Nat, DOMAIN days \subseteq 0..today, \A d \in DOMAIN days : DayHolds(days[d]),
           NEW reason \in Reasons, NEW c, c = Counted(reason)
    PROVE  /\ DOMAIN c \subseteq 0..today /\ Cardinality(DOMAIN c) <= KeepDays
           /\ \A d \in DOMAIN c : DayHolds(c[d])
           /\ \A d \in 0..today : Cardinality(After(DOMAIN c, d)) < KeepDays =>
                  /\ Cardinality(After(DOMAIN days, d)) < KeepDays
                  /\ Total(c, d) = IF d = today THEN Total(days, d) + 1 ELSE Total(days, d)
<1> DEFINE f == Get(days, today, Nobody)
           name == NameOf(reason, f)
           g == Put(f, name, Get(f, name, 0) + 1)
           all == Put(days, today, g)
           D == DOMAIN days \cup {today}
<1>1. /\ DayHolds(f) /\ DayHolds(g)
      /\ Cardinality(AnswersIn(g)) = Cardinality(AnswersIn(f)) + 1
  <2>1. DayHolds(f)  BY DayOf
  <2> HIDE DEF f
  <2> QED BY <2>1, DayCounts
<1> HIDE DEF g
<1>2. /\ DOMAIN all = D /\ all[today] = g
      /\ \A d \in D : d # today => d \in DOMAIN days /\ all[d] = days[d]
  BY DEF Put
<1>3. /\ c = Kept(all)  BY DEF Counted, g
<1> HIDE DEF all
<1>4. /\ DOMAIN c = LastOf(D) /\ \A d \in LastOf(D) : c[d] = all[d]
  BY <1>2, <1>3 DEF Kept, Restrict, LastOf, After
<1>5. D \in SUBSET (0..today) /\ LastOf(D) \subseteq D  BY DEF LastOf
<1>6. Cardinality(DOMAIN c) <= KeepDays  BY <1>4, <1>5, LastFew
<1>7. \A d \in DOMAIN c : DayHolds(c[d])  BY <1>1, <1>2, <1>4, <1>5
<1>8. ASSUME NEW d \in 0..today, Cardinality(After(DOMAIN c, d)) < KeepDays
      PROVE  /\ Cardinality(After(DOMAIN days, d)) < KeepDays
             /\ Total(c, d) = IF d = today THEN Total(days, d) + 1 ELSE Total(days, d)
  <2>1. Cardinality(After(D, d)) < KeepDays
    <3>1. Cardinality(After(LastOf(D), d)) < KeepDays /\ d \in Nat  BY <1>4, <1>8
    <3> HIDE DEF D
    <3> QED BY <1>5, <3>1, FewAfter
  <2>2. Cardinality(After(DOMAIN days, d)) < KeepDays
    <3>1. After(D, d) \in SUBSET (0..today) /\ After(DOMAIN days, d) \in SUBSET After(D, d)
      BY <1>5 DEF After
    <3>2. /\ Cardinality(After(DOMAIN days, d)) <= Cardinality(After(D, d))
          /\ Cardinality(After(DOMAIN days, d)) \in Nat /\ Cardinality(After(D, d)) \in Nat
      BY <3>1, DaysFinite
    <3> QED BY <2>1, <3>2, TallyAssumption
  <2>3. d \in D => d \in DOMAIN c /\ c[d] = all[d]  BY <1>4, <2>1 DEF LastOf
  <2>4. CASE d = today
    <3>1. Get(c, d, Nobody) = g  BY <1>2, <2>3, <2>4 DEF Get
    <3> QED BY <1>1, <2>2, <2>4, <3>1 DEF Total
  <2>5. CASE d # today
    <3>1. Get(c, d, Nobody) = Get(days, d, Nobody)
      BY <1>2, <1>4, <1>5, <2>3, <2>5 DEF Get
    <3> QED BY <2>2, <2>5, <3>1 DEF Total
  <2> QED BY <2>4, <2>5
<1> QED BY <1>4, <1>5, <1>6, <1>7, <1>8

LEMMA CountsGrow ==
    ASSUME NEW c, NEW t, NEW ans, NEW lost \in Nat, NEW extra \in Nat,
           CountsHold(c, t, ans, lost, extra), NEW ans2, NEW lost2 \in Nat, NEW extra2 \in Nat,
           \A d \in 0..t : /\ ans[d] \in Nat /\ ans2[d] \in Nat
                           /\ ans2[d] + lost <= ans[d] + lost2
                           /\ ans[d] + extra <= ans2[d] + extra2
    PROVE  CountsHold(c, t, ans2, lost2, extra2)
<1> SUFFICES ASSUME NEW d \in 0..t, Cardinality(After(DOMAIN c, d)) < KeepDays
             PROVE  ans2[d] <= Total(c, d) + lost2 /\ Total(c, d) <= ans2[d] + extra2
  BY DEF CountsHold
<1> DEFINE n == Total(c, d)
           x == ans[d]
           y == ans2[d]
<1>1. n \in Nat  BY DayOf DEF CountsHold
<1>2. x <= n + lost /\ n <= x + extra  BY DEF CountsHold
<1>3. x \in Nat /\ y \in Nat /\ y + lost <= x + lost2 /\ x + extra <= y + extra2  OBVIOUS
<1> HIDE DEF n, x, y
<1>4. y <= n + lost2  BY <1>1, <1>2, <1>3
<1>5. n <= y + extra2  BY <1>1, <1>2, <1>3
<1> QED BY <1>4, <1>5 DEF n, x, y

-----------------------------------------------------------------------------
(* The sidecar.                                                              *)
CountInv ==
    /\ today \in 0..LastDay /\ answered \in [0..LastDay -> Nat]
    /\ unsaved \in Nat /\ restarts \in Nat
    /\ \A d \in 0..LastDay : d > today => answered[d] = 0
    /\ CountsHold(days, today, answered, unsaved, restarts)
    /\ CountsHold(file, today, answered, unsaved, restarts)

LEMMA DayNat == ASSUME CountInv
                PROVE  /\ today \in Nat /\ LastDay \in Nat /\ 0..today \subseteq 0..LastDay
                       /\ DOMAIN days \subseteq 0..today /\ \A d \in DOMAIN days : DayHolds(days[d])
                       /\ \A d \in 0..today : answered[d] \in Nat
BY TallyAssumption DEF CountInv, CountsHold

LEMMA InitCount == ASSUME SidecarInit PROVE CountInv
<1>1. /\ today = 0 /\ days = Nobody /\ file = Nobody
      /\ answered = [d \in 0..LastDay |-> 0] /\ unsaved = 0 /\ restarts = 0
  BY DEF SidecarInit, TallyInit, Init
<1>2. DOMAIN Nobody = {}  BY DEF Nobody
<1>3. \A d \in 0..0 : Total(Nobody, d) = 0  BY <1>2, EmptyDay DEF Total, Get
<1>4. Cardinality(DOMAIN Nobody) = 0  BY <1>2, FS_EmptySet
<1>5. CountsHold(Nobody, 0, answered, 0, 0)
  BY <1>1, <1>2, <1>3, <1>4, TallyAssumption DEF CountsHold
<1> QED BY <1>1, <1>5, TallyAssumption DEF CountInv

(* What is counted is answered, or was about to be when the sidecar ended.   *)
LEMMA CountedHolds ==
    ASSUME CountInv, NEW reason \in Reasons, NEW ans, NEW extra \in Nat,
           \A d \in 0..today : /\ ans[d] \in Nat /\ ans[d] \in {answered[d], answered[d] + 1}
                               /\ ans[d] = answered[d] + 1 => d = today,
           (ans[today] = answered[today] + 1 /\ extra = restarts) \/ extra = restarts + 1
    PROVE  CountsHold(Counted(reason), today, ans, unsaved, extra)
<1> DEFINE c == Counted(reason)
<1>1. /\ DOMAIN c \subseteq 0..today /\ Cardinality(DOMAIN c) <= KeepDays
      /\ \A d \in DOMAIN c : DayHolds(c[d])
      /\ \A d \in 0..today : Cardinality(After(DOMAIN c, d)) < KeepDays =>
             /\ Cardinality(After(DOMAIN days, d)) < KeepDays
             /\ Total(c, d) = IF d = today THEN Total(days, d) + 1 ELSE Total(days, d)
  BY DayNat, CountedDays
<1> HIDE DEF c
<1>2. ASSUME NEW d \in 0..today, Cardinality(After(DOMAIN c, d)) < KeepDays
      PROVE  ans[d] <= Total(c, d) + unsaved /\ Total(c, d) <= ans[d] + extra
  <2> DEFINE n == Total(days, d)
             m == Total(c, d)
             x == answered[d]
             y == ans[d]
  <2>1. n \in Nat  BY DayNat, DayOf
  <2>2. x <= n + unsaved /\ n <= x + restarts  BY <1>1, <1>2 DEF CountInv, CountsHold
  <2>3. x \in Nat /\ y \in Nat /\ unsaved \in Nat /\ restarts \in Nat /\ extra \in Nat
    <3>1. x \in Nat  BY DayNat
    <3>2. y \in Nat  OBVIOUS
    <3>3. unsaved \in Nat /\ restarts \in Nat  BY DEF CountInv
    <3> QED BY <3>1, <3>2, <3>3
  <2>4. CASE d = today
    <3>1. m = n + 1  BY <1>1, <1>2, <2>4
    <3>2. y \in {x, x + 1}  OBVIOUS
    <3>3. (y = x + 1 /\ extra = restarts) \/ extra = restarts + 1
      BY <2>4, Zenon
    <3> HIDE DEF n, m, x, y
    <3>4. y <= m + unsaved  BY <2>1, <2>2, <2>3, <3>1, <3>2
    <3>5. m <= y + extra  BY <2>1, <2>2, <2>3, <3>1, <3>2, <3>3
    <3> QED BY <3>4, <3>5 DEF m, y
  <2>5. CASE d # today
    <3>1. m = n /\ y = x
      <4>1. m = n  BY <1>1, <1>2, <2>5
      <4>2. y \in {x, x + 1} /\ (y = x + 1 => d = today)  OBVIOUS
      <4> HIDE DEF n, m, x, y
      <4> QED BY <2>5, <4>1, <4>2
    <3>2. extra \in {restarts, restarts + 1}  OBVIOUS
    <3> HIDE DEF n, m, x, y
    <3>3. y <= m + unsaved  BY <2>2, <3>1
    <3>4. m <= y + extra  BY <2>1, <2>2, <2>3, <3>1, <3>2
    <3> QED BY <3>3, <3>4 DEF m, y
  <2> QED BY <2>4, <2>5
<1> QED BY <1>1, <1>2 DEF CountsHold, c

LEMMA CountKeeps == ASSUME CountInv, NEW reason \in Reasons, Count(reason), restarts' = restarts
                    PROVE  CountInv'
<1>1. /\ days' = Counted(reason) /\ today' = today
      /\ answered' = [answered EXCEPT ![today] = @ + 1]
      /\ (file' = days' /\ unsaved' = unsaved) \/ (file' = file /\ unsaved' = unsaved + 1)
  BY DEF Count
<1>2. /\ answered' \in [0..LastDay -> Nat] /\ answered'[today] = answered[today] + 1
      /\ \A d \in 0..LastDay : d # today => answered'[d] = answered[d]
  BY <1>1 DEF CountInv
<1>3. \A d \in 0..today : /\ answered'[d] \in Nat /\ answered[d] \in Nat
                          /\ answered'[d] \in {answered[d], answered[d] + 1}
                          /\ answered'[d] = answered[d] + 1 => d = today
  BY <1>2, DayNat
<1>4. restarts \in Nat /\ unsaved \in Nat /\ unsaved' \in Nat /\ unsaved' >= unsaved
  BY <1>1 DEF CountInv
<1>5. CountsHold(days', today, answered', unsaved, restarts)
  BY <1>1, <1>2, <1>3, <1>4, CountedHolds
<1>6. CountsHold(days', today, answered', unsaved', restarts)
  BY <1>3, <1>4, <1>5, CountsGrow
<1>7. CountsHold(file', today, answered', unsaved', restarts)
  <2>1. CASE file' = days'  BY <1>6, <2>1
  <2>2. CASE file' = file /\ unsaved' = unsaved + 1
    <3>1. CountsHold(file, today, answered, unsaved, restarts)  BY DEF CountInv
    <3>2. \A d \in 0..today : /\ answered'[d] + unsaved <= answered[d] + unsaved'
                              /\ answered[d] + restarts <= answered'[d] + restarts
      BY <1>3, <1>4, <2>2
    <3> QED BY <1>3, <1>4, <2>2, <3>1, <3>2, CountsGrow
  <2> QED BY <1>1, <2>1, <2>2
<1>8. \A d \in 0..LastDay : d > today => answered'[d] = 0  BY <1>2 DEF CountInv
<1> QED BY <1>1, <1>2, <1>4, <1>6, <1>7, <1>8 DEF CountInv

LEMMA OneExtra == ASSUME CountInv, NEW c, CountsHold(c, today, answered, unsaved, restarts)
                  PROVE  CountsHold(c, today, answered, unsaved, restarts + 1)
<1>1. unsaved \in Nat /\ restarts \in Nat /\ restarts + 1 \in Nat  BY DEF CountInv
<1>2. \A d \in 0..today : /\ answered[d] \in Nat
                          /\ answered[d] + unsaved <= answered[d] + unsaved
                          /\ answered[d] + restarts <= answered[d] + (restarts + 1)
  BY <1>1, DayNat
<1> QED BY <1>1, <1>2, CountsGrow

(* The next sidecar starts from the file, with what was being counted or not.*)
LEMMA EndKeeps ==
    ASSUME CountInv, restarts' = restarts + 1,
           Reopen \/ \E reason \in Reasons : ReopenHalfway(reason)
    PROVE  CountInv'
<1>1. UNCHANGED <<today, answered, unsaved>> /\ days' = file'
  BY DEF Reopen, ReopenHalfway
<1>2. CountsHold(file', today, answered, unsaved, restarts + 1)
  <2>1. CASE file' = file
    <3>1. CountsHold(file, today, answered, unsaved, restarts)  BY DEF CountInv
    <3> QED BY <2>1, <3>1, OneExtra
  <2>2. CASE \E reason \in Reasons : file' = Counted(reason)
    <3>1. PICK reason \in Reasons : file' = Counted(reason)  BY <2>2
    <3>2. restarts + 1 \in Nat  BY DEF CountInv
    <3> QED BY <3>1, <3>2, DayNat, CountedHolds
  <2> QED BY <2>1, <2>2 DEF Reopen, ReopenHalfway
<1>3. restarts + 1 \in Nat  BY DEF CountInv
<1> QED BY <1>1, <1>2, <1>3 DEF CountInv

LEMMA MidnightHolds ==
    ASSUME CountInv, Midnight, NEW c, CountsHold(c, today, answered, unsaved, restarts)
    PROVE  CountsHold(c, today + 1, answered, unsaved, restarts)
<1>1. /\ DOMAIN c \subseteq 0..today /\ Cardinality(DOMAIN c) <= KeepDays
      /\ \A d \in DOMAIN c : DayHolds(c[d])
  BY DEF CountsHold
<1>2. today \in Nat /\ today + 1 \in 0..LastDay /\ unsaved \in Nat /\ restarts \in Nat
  BY DayNat DEF Midnight, CountInv
<1>3. Total(c, today + 1) = 0
  <2>1. today + 1 \notin DOMAIN c  BY <1>1, <1>2
  <2> QED BY <2>1, EmptyDay DEF Total, Get
<1>4. answered[today + 1] = 0  BY <1>2 DEF CountInv
<1>5. ASSUME NEW d \in 0..(today + 1), Cardinality(After(DOMAIN c, d)) < KeepDays
      PROVE  answered[d] <= Total(c, d) + unsaved /\ Total(c, d) <= answered[d] + restarts
  <2>1. CASE d = today + 1  BY <1>2, <1>3, <1>4, <2>1
  <2>2. CASE d \in 0..today  BY <1>5, <2>2 DEF CountsHold
  <2> QED BY <1>2, <2>1, <2>2
<1>6. DOMAIN c \subseteq 0..(today + 1)  BY <1>1, <1>2
<1> QED BY <1>1, <1>5, <1>6 DEF CountsHold

LEMMA MidnightKeeps == ASSUME CountInv, Midnight, restarts' = restarts PROVE CountInv'
<1>1. today' = today + 1 /\ today < LastDay /\ UNCHANGED <<days, file, answered, unsaved>>
  BY DEF Midnight
<1>2. /\ CountsHold(days, today + 1, answered, unsaved, restarts)
      /\ CountsHold(file, today + 1, answered, unsaved, restarts)
  BY MidnightHolds DEF CountInv
<1>3. today + 1 \in 0..LastDay /\ \A d \in 0..LastDay : d > today + 1 => answered[d] = 0
  BY <1>1, DayNat DEF CountInv
<1> QED BY <1>1, <1>2, <1>3 DEF CountInv

(* A step of the sidecar is one of the gate's, or leaves its checks alone.   *)
LEMMA SidecarStep ==
    ASSUME LateInv, CountInv, [SidecarNext]_sidecarVars
    PROVE  LateInv' /\ CountInv'
<1>1. CASE Check
  <2>1. LateInv'  BY <1>1, LateStep DEF Check, LateNext
  <2>2. CountInv'
    <3>1. CASE \E reason \in Told : Count(reason)
      BY <1>1, <3>1, CountKeeps, SidecarAssumption DEF Check, Told
    <3>2. CASE UNCHANGED tallyVars
      BY <1>1, <3>2 DEF Check, tallyVars, CountInv
    <3> QED BY <1>1, <3>1, <3>2 DEF Check
  <2> QED BY <2>1, <2>2
<1>2. CASE DeadlineAnswers
  <2>1. Overdue /\ restarts' = restarts  BY <1>2 DEF DeadlineAnswers, Overdue
  <2>2. PICK reason \in Reasons : Count(reason)  BY <1>2 DEF DeadlineAnswers
  <2> QED BY <2>1, <2>2, LateStep, CountKeeps DEF LateNext
<1>3. CASE RefuseAtOnce
  <2>1. /\ UNCHANGED <<stored, coinIndex, runs, accepted, restarts>>
        /\ checks' = checks + 1 /\ checks < MaxChecks
    BY <1>3 DEF RefuseAtOnce
  <2>2. PICK reason \in Reasons : Count(reason)  BY <1>3 DEF RefuseAtOnce
  <2>3. Bounds'  BY <2>1, ClaimsAssumption DEF LateInv, Bounds
  <2>4. LateInv'  BY <2>1, <2>3 DEF LateInv, Types, WellFormed
  <2> QED BY <2>1, <2>2, <2>4, CountKeeps
<1>4. CASE Ended \/ EndedHalfway
  <2>1. Restart /\ restarts' = restarts + 1  BY <1>4 DEF Ended, EndedHalfway, Restart
  <2>2. Reopen \/ \E reason \in Reasons : ReopenHalfway(reason)
    BY <1>4 DEF Ended, EndedHalfway
  <2>3. LateInv'  BY <2>1, LateStep DEF LateNext, Next
  <2> QED BY <2>1, <2>2, <2>3, EndKeeps
<1>5. CASE NewDay
  <2>1. Midnight /\ UNCHANGED vars  BY <1>5 DEF NewDay
  <2> QED BY <2>1, LateStep, MidnightKeeps DEF vars
<1>6. CASE UNCHANGED sidecarVars
  <2>1. UNCHANGED vars /\ UNCHANGED tallyVars  BY <1>6 DEF sidecarVars
  <2>2. CountInv'  BY <2>1 DEF vars, tallyVars, CountInv
  <2> QED BY <2>1, <2>2, LateStep
<1> QED BY <1>1, <1>2, <1>3, <1>4, <1>5, <1>6 DEF SidecarNext

LEMMA SidecarStarts == ASSUME SidecarInit PROVE LateInv /\ CountInv
BY LateInit, InitCount DEF SidecarInit

(* The counts "outlive a restarted sidecar and a deploy" (tally.mjs:2): for  *)
(* every day still kept the file counts each answer given, but for as many   *)
(* as saves have failed, and nothing that was not answered, but for one      *)
(* answer each time the sidecar was ended while it counted.                  *)
THEOREM CountsOutlive == SidecarSpec => []AnswersCounted
<1>1. ASSUME CountInv PROVE AnswersCounted
  BY <1>1 DEF CountInv, CountsHold, AnswersCounted, InFile, After
<1> QED BY SidecarStarts, SidecarStep, <1>1, PTL DEF SidecarSpec

(* Every variable has its type; neither checks, nor days, nor a day's names  *)
(* of reasons pile up, in memory or in the file, whatever is restarted.      *)
THEOREM SidecarTyped == SidecarSpec => []SidecarTypeOK
<1>1. ASSUME NEW c, CountsHold(c, today, answered, unsaved, restarts)
      PROVE  OnDay(c) /\ Cardinality(DOMAIN c) <= KeepDays
  <2>1. ASSUME NEW d \in DOMAIN c
        PROVE  /\ DOMAIN c[d] \subseteq Reasons \cup {Other}
               /\ Cardinality(DOMAIN c[d]) <= MaxReasons + 1
               /\ \A r \in DOMAIN c[d] : c[d][r] \in Nat \ {0}
    <3> DEFINE D == DOMAIN c[d]
               E == D \ {Other}
    <3>1. /\ D \subseteq Reasons \cup {Other} /\ IsFiniteSet(D) /\ Cardinality(E) <= MaxReasons
          /\ \A r \in D : c[d][r] \in Nat \ {0}
      BY <1>1 DEF CountsHold, DayHolds
    <3>2. IsFiniteSet(E) /\ Cardinality(E) \in Nat /\ D \subseteq E \cup {Other}
      BY <3>1, FS_Subset, FS_CardinalityType
    <3> HIDE DEF D, E
    <3>3. /\ IsFiniteSet(E \cup {Other}) /\ Cardinality(E \cup {Other}) \in Nat
          /\ Cardinality(E \cup {Other}) <= Cardinality(E) + 1
      <4>1. /\ IsFiniteSet(E \cup {Other})
            /\ Cardinality(E \cup {Other}) = IF Other \in E THEN Cardinality(E) ELSE Cardinality(E) + 1
        BY <3>2, FS_AddElement
      <4> QED BY <3>2, <4>1, FS_CardinalityType
    <3>4. Cardinality(D) <= Cardinality(E \cup {Other}) /\ Cardinality(D) \in Nat
      BY <3>1, <3>2, <3>3, FS_Subset, FS_CardinalityType
    <3>5. Cardinality(D) <= MaxReasons + 1
      BY <3>1, <3>2, <3>3, <3>4, TallyAssumption
    <3> QED BY <3>1, <3>5 DEF D
  <2> QED BY <1>1, <2>1 DEF OnDay, CountsHold
<1>2. ASSUME LateInv, CountInv PROVE SidecarTypeOK
  <2>1. TypeOK  BY <1>2 DEF LateInv, Types, Bounds, RunHolds, TypeOK
  <2>2. TallyTypeOK  BY <1>1, <1>2 DEF CountInv, TallyTypeOK
  <2> QED BY <2>1, <2>2 DEF SidecarTypeOK
<1> QED BY SidecarStarts, SidecarStep, <1>2, PTL DEF SidecarSpec
=============================================================================
