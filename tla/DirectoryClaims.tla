-------------------------- MODULE DirectoryClaims --------------------------
(***************************************************************************)
(* The directory claim gate (policy/dir-gate/rules.mjs): listings and       *)
(* tombstones of kind 30114, the coin index that keeps a coin to one live   *)
(* claim, and the store the admitted records land in.  A check is a chain   *)
(* of awaits; a check past its deadline is answered "busy" and goes on      *)
(* running beside the next one.  Time, proofs and the chain are left out:   *)
(* any read may fail, and a check may end in a refusal at any of them.      *)
(***************************************************************************)
EXTENDS Naturals, FiniteSets

CONSTANTS
    Claims,      \* claim ids
    Keys,        \* Nostr keys
    Handles,     \* handles; a record's d tag names one
    Coins,       \* current coins
    HandleOf,    \* the handle a claim is for
    CoinOf,      \* the coin that backs a claim
    KeysOf,      \* the keys bound to the claim's address
    Stamps,      \* the created_at values in use
    MaxChecks,   \* bound: checks begun
    MaxRestarts, \* bound: restarts of the sidecar
    None,        \* no claim, no event
    NoIndex      \* the coin index before it is built

ASSUME ClaimsAssumption == /\ None \notin Claims
                           /\ HandleOf \in [Claims -> Handles]
                           /\ CoinOf \in [Claims -> Coins]
                           /\ KeysOf \in [Claims -> SUBSET Keys]
                           /\ Stamps \subseteq Nat \ {0}
                           /\ MaxChecks \in Nat /\ MaxRestarts \in Nat
                           /\ NoIndex \notin [Coins -> Claims \cup {None}]

VARIABLES
    stored,     \* strfry's addressable records: (key, d) -> the one it keeps
    coinIndex,  \* coin -> the claim the gate takes to hold it, or NoIndex
    runs,       \* the check under way and the overdue one still running
    accepted,   \* the event accepted and not yet committed, or None
    checks, restarts    \* how many so far

vars == <<stored, coinIndex, runs, accepted, checks, restarts>>

Slots == Keys \X Handles
Record == [kind : {"none", "listing", "tombstone"}, claim : Claims \cup {None},
           at : Stamps \cup {0}]
NoRecord == [kind |-> "none", claim |-> None, at |-> 0]

Events == [kind : {"listing", "tombstone"}, claim : Claims, key : Keys, d : Handles,
           at : Stamps]

Indexes == [Coins -> Claims \cup {None}]

\* A check: where it is, its event, the index it built, the prior claim it
\* found, whether that was still live when read, and whether the index it
\* holds has since been replaced by another check's.
Idle == [stage |-> "idle", ev |-> None, built |-> NoIndex, prior |-> None,
         live |-> FALSE, stale |-> FALSE]
Run == [stage : {"idle", "chain", "load", "built", "ask", "decide"},
        ev : Events \cup {None}, built : Indexes \cup {NoIndex},
        prior : Claims \cup {None}, live : BOOLEAN, stale : BOOLEAN]
Who == {"now", "late"}

Init == /\ stored = [s \in Slots |-> NoRecord]
        /\ coinIndex = NoIndex
        /\ runs = [r \in Who |-> Idle]
        /\ accepted = None
        /\ checks = 0 /\ restarts = 0

-----------------------------------------------------------------------------
(* Reading the store.                                                       *)

\* parseStored: a record whose d tag is not its handle's is no record.
Carries(s, kind, c) ==
    \E k \in Keys :
        s[<<k, HandleOf[c]>>].kind = kind /\ s[<<k, HandleOf[c]>>].claim = c

\* Seeded fault: a tombstone under another key than the listing's is not read.
StillLiveIfCarried(s, c) == Carries(s, "listing", c)

\* stillLive: some record carries the claim and none ends it.
StillLive(s, c) == Carries(s, "listing", c) /\ ~Carries(s, "tombstone", c)

\* The listings of allStored() that are on a coin, and the newest of them.
ListingsOn(s, coin) ==
    {slot \in Slots : /\ s[slot].kind = "listing"
                      /\ CoinOf[s[slot].claim] = coin
                      /\ HandleOf[s[slot].claim] = slot[2]}

\* index: records come newest first and the first on a coin wins, a tombstone
\* for it or not; records of one second come in any order.
Builds(s) ==
    {b \in Indexes : \A coin \in Coins :
        IF ListingsOn(s, coin) = {}
          THEN b[coin] = None
          ELSE \E slot \in ListingsOn(s, coin) :
                  /\ b[coin] = s[slot].claim
                  /\ \A other \in ListingsOn(s, coin) : s[other].at <= s[slot].at}

-----------------------------------------------------------------------------
(* A check.                                                                 *)

\* decide, before any await: the d tag is the handle's.  Others are refused.
WellFormed(e) == e.d = HandleOf[e.claim]

\* The sidecar begins one check at a time.  strfry has committed what it was
\* told to accept before it asks again.
Begin(e) ==
    /\ runs["now"] = Idle /\ accepted = None /\ checks < MaxChecks
    /\ WellFormed(e)
    /\ runs' = [runs EXCEPT !["now"] = [Idle EXCEPT !.stage = "chain", !.ev = e]]
    /\ checks' = checks + 1
    /\ UNCHANGED <<stored, coinIndex, accepted, restarts>>

At(r, stage) == runs[r].stage = stage
Event(r) == runs[r].ev
Bound(e) == e.key \in KeysOf[e.claim]

Ends(r) == runs' = [runs EXCEPT ![r] = Idle]

\* Any refusal short of the coin index: no answer, not anchored, not bound,
\* too many writes, the coin does not hold.
Refuse(r) ==
    /\ runs[r].stage \in {"chain", "load", "built", "ask"}
    /\ Ends(r)
    /\ UNCHANGED <<stored, coinIndex, accepted, checks, restarts>>

\* The answer of an overdue check goes nowhere.
Accept(r) == accepted' = IF r = "now" THEN Event(r) ELSE accepted

\* Seeded fault: a tombstone may end a claim that is not held here.
KnownAny(e) == TRUE

\* tombstone: the claim it ends is listed at its d tag.
Known(e) == Carries(stored, "listing", e.claim)

AcceptTombstone ==
    /\ At("now", "chain") /\ Event("now").kind = "tombstone"
    /\ Bound(Event("now")) /\ Known(Event("now"))
    /\ Accept("now") /\ Ends("now")
    /\ UNCHANGED <<stored, coinIndex, checks, restarts>>

\* Seeded fault: the index still names whoever held the coin first.
SetFirstOnly(r, index) ==
    coinIndex' = IF runs[r].stale THEN coinIndex
                 ELSE IF index[CoinOf[Event(r).claim]] # None THEN index
                 ELSE [index EXCEPT ![CoinOf[Event(r).claim]] = Event(r).claim]

\* idx.set, on the map this check holds: a replaced one is read by nobody.
Set(r, index) ==
    coinIndex' = IF runs[r].stale THEN coinIndex
                 ELSE [index EXCEPT ![CoinOf[Event(r).claim]] = Event(r).claim]

\* With the index in hand: a free coin, or the same claim's, is taken at once;
\* another claim's asks the store about that claim first.
Resolve(r, index, others) ==
    LET prior == index[CoinOf[Event(r).claim]]
    IN  IF prior \in {None, Event(r).claim}
          THEN /\ Set(r, index) /\ Accept(r)
               /\ runs' = [others EXCEPT ![r] = Idle]
          ELSE /\ coinIndex' = index /\ UNCHANGED accepted
               /\ runs' = [others EXCEPT ![r] =
                              [@ EXCEPT !.stage = "ask", !.prior = prior, !.built = NoIndex]]

\* listing, every chain read done and the index already built.
LookUp(r) ==
    /\ At(r, "chain") /\ Event(r).kind = "listing" /\ Bound(Event(r))
    /\ coinIndex # NoIndex
    /\ Resolve(r, coinIndex, runs)
    /\ UNCHANGED <<stored, checks, restarts>>

\* The first listing since the sidecar started reads the whole store.
Load(r) ==
    /\ At(r, "chain") /\ Event(r).kind = "listing" /\ Bound(Event(r))
    /\ coinIndex = NoIndex
    /\ runs' = [runs EXCEPT ![r].stage = "load"]
    /\ UNCHANGED <<stored, coinIndex, accepted, checks, restarts>>

ReadAll(r) ==
    /\ At(r, "load")
    /\ \E b \in Builds(stored) :
          runs' = [runs EXCEPT ![r].stage = "built", ![r].built = b]
    /\ UNCHANGED <<stored, coinIndex, accepted, checks, restarts>>

\* The map built replaces the index; a check holding the old one is left with it.
Loaded(r) ==
    /\ At(r, "built")
    /\ Resolve(r, runs[r].built,
               [q \in Who |-> IF q # r /\ runs[q].stage \in {"ask", "decide"}
                                THEN [runs[q] EXCEPT !.stale = TRUE] ELSE runs[q]])
    /\ UNCHANGED <<stored, checks, restarts>>

\* stillLive's read of the store; its answer is used a step later.
AskStore(r) ==
    /\ At(r, "ask")
    /\ runs' = [runs EXCEPT ![r].stage = "decide",
                            ![r].live = StillLive(stored, runs[r].prior)]
    /\ UNCHANGED <<stored, coinIndex, accepted, checks, restarts>>

\* "blocked: this coin already backs another live claim here"
Block(r) ==
    /\ At(r, "decide") /\ runs[r].live
    /\ Ends(r)
    /\ UNCHANGED <<stored, coinIndex, accepted, checks, restarts>>

TakeOver(r) ==
    /\ At(r, "decide") /\ ~runs[r].live
    /\ Set(r, coinIndex) /\ Accept(r) /\ Ends(r)
    /\ UNCHANGED <<stored, checks, restarts>>

\* check: the deadline answers busy, and decide goes on.
Overdue ==
    /\ runs["now"] # Idle /\ runs["late"] = Idle
    /\ Event("now").kind = "listing"
    /\ runs' = [runs EXCEPT !["late"] = runs["now"], !["now"] = Idle]
    /\ UNCHANGED <<stored, coinIndex, accepted, checks, restarts>>

\* The bridge or the system ends the sidecar; the next event starts another.
Restart ==
    /\ restarts < MaxRestarts
    /\ runs' = [r \in Who |-> Idle] /\ coinIndex' = NoIndex
    /\ restarts' = restarts + 1
    /\ UNCHANGED <<stored, accepted, checks>>

-----------------------------------------------------------------------------
(* strfry: one record per key and d tag, the newer; of one second, either.  *)

Lands(e) == stored' = [stored EXCEPT ![<<e.key, e.d>>] =
                         [kind |-> e.kind, claim |-> e.claim, at |-> e.at]]

Commit ==
    /\ accepted # None
    /\ LET held == stored[<<accepted.key, accepted.d>>] IN
          \/ accepted.at >= held.at /\ Lands(accepted)
          \/ accepted.at <= held.at /\ UNCHANGED stored
    /\ accepted' = None
    /\ UNCHANGED <<coinIndex, runs, checks, restarts>>

\* Between events the gate rests: it waits for strfry's next line.
Rest == runs["now"] = Idle /\ accepted = None /\ UNCHANGED vars

Next == \/ \E e \in Events : Begin(e)
        \/ AcceptTombstone
        \/ \E r \in Who : \/ Refuse(r) \/ LookUp(r) \/ Load(r) \/ ReadAll(r) \/ Loaded(r)
                          \/ AskStore(r) \/ Block(r) \/ TakeOver(r)
        \/ Restart \/ Commit \/ Rest

\* Every check keeps its deadline.
Spec == Init /\ [][Next]_vars

\* A record in step with what the store holds: a listing is newer than what
\* other claims, ended ones too, still have listed on its coin, and no record
\* takes the place of one of another claim that stays listed under another key.
InStep(e) ==
    /\ e.kind = "listing" =>
          \A slot \in ListingsOn(stored, CoinOf[e.claim]) :
              stored[slot].claim # e.claim => stored[slot].at < e.at
    /\ LET there == stored[<<e.key, e.d>>] IN
          there.kind # "none" /\ there.claim # e.claim =>
              \A k \in Keys \ {e.key} :
                  stored[<<k, e.d>>].kind = "listing" => stored[<<k, e.d>>].claim # there.claim

\* No check is late and every record admitted is in step.  The code asks for
\* neither; as long as an address has one key, every record is (OneKeyInStep).
OrderedNext == Next /\ (accepted' \notin {accepted, None} => InStep(accepted'))
OrderedSpec == Init /\ [][OrderedNext]_vars

\* Any may pass it, one at a time.
LateNext == Next \/ Overdue
LateSpec == Init /\ [][LateNext]_vars

-----------------------------------------------------------------------------
(* A claim is live here when this relay holds a listing that carries it and  *)
(* no tombstone that ends it: what a reader of the relay finds.              *)
Live(c) ==
    LET records(kind) == {k \in KeysOf[c] : /\ stored[<<k, HandleOf[c]>>].kind = kind
                                            /\ stored[<<k, HandleOf[c]>>].claim = c}
    IN  records("listing") # {} /\ records("tombstone") = {}

(* Every variable has its type; only listings reach the coin index, and an  *)
(* idle check carries nothing over to the next.                             *)
TypeOK == /\ stored \in [Slots -> Record]
          /\ coinIndex \in Indexes \cup {NoIndex}
          /\ runs \in [Who -> Run]
          /\ accepted \in Events \cup {None}
          /\ checks \in 0..MaxChecks /\ restarts \in 0..MaxRestarts
          /\ \A r \in Who : runs[r].stage = "idle" <=> runs[r] = Idle
          /\ \A r \in Who : runs[r].stage \notin {"idle", "chain"} => runs[r].ev.kind = "listing"

(* "One coin backs at most one live claim per namespace here" (ABUSE.md;     *)
(* listing's coin index and stillLive).                                      *)
OneLiveClaimPerCoin ==
    \A c1, c2 \in Claims : CoinOf[c1] = CoinOf[c2] /\ Live(c1) /\ Live(c2) => c1 = c2

(* Why it holds: while the index is in memory it names the live claim of     *)
(* every coin that has one, so the one prior claim listing asks about is the *)
(* one that matters; an admitted listing on its way to disk counts too.      *)
IndexNamesLive ==
    coinIndex # NoIndex =>
        \A c \in Claims :
            \/ Live(c)
            \/ accepted # None /\ accepted.kind = "listing" /\ accepted.claim = c
            => coinIndex[CoinOf[c]] = c

(* A listing is blocked only while another claim on its coin really is live: *)
(* an index entry left by an ended claim locks nobody out.                   *)
BlockedByLiveOnly ==
    [][\A r \in Who : At(r, "decide") /\ runs[r].live /\ runs'[r] = Idle /\ restarts' = restarts =>
           \E c \in Claims \ {Event(r).claim} :
               CoinOf[c] = CoinOf[Event(r).claim] /\ Live(c)]_vars

(* Listed and live claims are a registry of coins and names: a listing is    *)
(* let in only while its coin is free, a tombstone only for a claim that is  *)
(* listed, and no record puts a claim out or brings one back but its own and *)
(* another's under its name (listing, tombstone, stillLive).                 *)
Registry == INSTANCE CoinRegistry WITH
                live     <- {c \in Claims : Live(c)},
                listed   <- {c \in Claims : Carries(stored, "listing", c)},
                admitted <- IF accepted = None THEN None
                            ELSE [kind |-> accepted.kind, claim |-> accepted.claim],
                NamesOf  <- [c \in Claims |-> KeysOf[c] \X {HandleOf[c]}]
ImplementsRegistry == Registry!Spec
=============================================================================
