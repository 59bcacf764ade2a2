----------------------------- MODULE ChainReads -----------------------------
(***************************************************************************)
(* What a directory check reads of the chain (policy/dir-gate/rules.mjs):   *)
(* the tip, the headers its proof names and its coin, each from a cache or  *)
(* from the chain source against a budget.  Every read is awaited, so a     *)
(* check past its deadline reads on beside the next one, over the same      *)
(* caches and budget; meanwhile blocks are mined and the newest replaced.   *)
(* Re-points read headers the same way, and are left out with the rest of   *)
(* resolveDirectory: what it decides from what was read is open.            *)
(***************************************************************************)
EXTENDS Naturals, FiniteSets

CONSTANTS
    Checks,     \* checks that can be in progress at once, late ones among them
    Sources,    \* writers
    Proofs,     \* proofs of a claim: sets of blocks they attest, <<height, version>>
    Minute,     \* ticks to a minute
    ReadsAll, ReadsEach, \* LIMITS.chainReads and chainReadsPerSource
    Deep,       \* DEEP
    CacheMax,   \* CACHE_MAX
    Reorg,      \* the newest blocks that can still be replaced
    Mined,      \* blocks mined while one read is outstanding, at most
    FirstTip, LastTip, \* height of the chain at first, and at most
    Nothing

ASSUME ChainAssumption ==
    /\ Minute \in Nat \ {0} /\ ReadsAll \in Nat \ {0} /\ ReadsEach \in Nat \ {0}
    /\ Deep \in Nat \ {0} /\ CacheMax \in Nat \ {0}
    /\ Reorg \in Nat /\ Mined \in Nat \ {0}
    /\ Reorg + Mined <= Deep
    /\ FirstTip \in Nat \ {0} /\ LastTip \in Nat /\ FirstTip <= LastTip
    /\ Reorg <= FirstTip
    /\ "all" \notin Sources /\ Nothing \notin [age : Nat, n : Nat]
    /\ \A proof \in Proofs : /\ proof \subseteq (Nat \ {0}) \X Nat
                              /\ \E lowest \in proof : \A b \in proof : lowest[1] <= b[1]

VARIABLES
    \* The chain source.
    chain,      \* height -> version of its block
    spent,      \* height at which the claim's coin is spent, or 0
    \* The gate.
    windows,    \* window -> its minute: [age, n], or Nothing
    tipCache,   \* [height, age], or Nothing
    headerCache,\* height -> version, of the headers kept
    coinCache,  \* [spend, age, final], or Nothing
    check,      \* check -> what it is doing (see Begin), or Nothing
    \* History.
    reads,      \* age -> window -> chain reads charged to it that long ago or since
    anchors     \* blocks that anchor a claim whose check passed

chainVars == <<chain, spent>>
cacheVars == <<tipCache, headerCache, coinCache>>
budgetVars == <<windows, reads>>
vars == <<chainVars, budgetVars, cacheVars, check, anchors>>

Tip == Cardinality(DOMAIN chain)

\* Each writer has a window, and everyone together.
Windows == Sources \cup {"all"}

NoReads == [w \in Windows |-> 0]
NoHeaders == [h \in {} |-> 0]

Fresh == /\ windows = [w \in Windows |-> Nothing]
         /\ reads = [age \in 0..(Minute - 1) |-> NoReads]
         /\ tipCache = Nothing /\ headerCache = NoHeaders /\ coinCache = Nothing
         /\ check = [c \in Checks |-> Nothing]

Init == /\ chain = [h \in 1..FirstTip |-> 0] /\ spent \in 0..FirstTip
        /\ Fresh /\ anchors = {}

In(c, phase) == check[c] # Nothing /\ check[c].phase = phase

-----------------------------------------------------------------------------
(* The chain source.                                                        *)

\* A block on top of others, the newest r of which it replaces.
NewBlock(r) ==
    LET kept == Tip - r IN
    /\ Tip < LastTip
    /\ \A c \in Checks : In(c, "answered") => Tip - check[c].tip < Mined
    /\ chain' = [h \in 1..(Tip + 1) |-> IF h <= kept THEN chain[h]
                                        ELSE IF h <= Tip THEN chain[h] + 1 ELSE 0]
    /\ IF spent \in 1..kept THEN UNCHANGED spent
       ELSE spent' \in {0} \cup (kept + 1)..(Tip + 1)
    /\ UNCHANGED <<budgetVars, cacheVars, check, anchors>>

\* It answers a read with what holds now; the answer is on its way.
Answer(c) ==
    /\ In(c, "asked")
    /\ LET now == CASE check[c].step = "tip" -> Tip
                    [] check[c].step = "coin" -> spent
                    [] OTHER -> IF check[c].block[1] <= Tip THEN chain[check[c].block[1]]
                                                            ELSE Nothing
       IN check' = [check EXCEPT ![c].phase = "answered", ![c].value = now, ![c].tip = Tip]
    /\ UNCHANGED <<chainVars, budgetVars, cacheVars, anchors>>

-----------------------------------------------------------------------------
(* The budget (windows, budget).                                            *)

Older(x) == [x EXCEPT !.age = IF @ < Minute THEN @ + 1 ELSE @]

\* What is a minute old counts as absent, but for the tip's height and a final coin.
Aged(x) == IF x = Nothing \/ x.age + 1 = Minute THEN Nothing ELSE Older(x)

Tick == /\ windows' = [w \in DOMAIN windows |-> Aged(windows[w])]
        /\ reads' = [age \in DOMAIN reads |-> IF age = 0 THEN NoReads ELSE reads[age - 1]]
        /\ tipCache' = IF tipCache = Nothing THEN Nothing ELSE Older(tipCache)
        /\ coinCache' = IF coinCache # Nothing /\ coinCache.final THEN coinCache ELSE Aged(coinCache)
        /\ UNCHANGED <<chainVars, headerCache, check, anchors>>

Running(w) == windows[w] # Nothing

Limit(w) == IF w = "all" THEN ReadsAll ELSE ReadsEach

\* Seeded fault: a full window lets one more read pass.
RoomOneMore(w) == Running(w) => windows[w].n <= Limit(w)

Room(w) == Running(w) => windows[w].n < Limit(w)

\* Seeded fault: the first read of a minute is not counted.
FilledFromNone(w, n) == IF Running(w) THEN [windows[w] EXCEPT !.n = @ + n] ELSE [age |-> 0, n |-> 0]

\* The window with n more in it; a new minute starts with its first.
Filled(w, n) == IF Running(w) THEN [windows[w] EXCEPT !.n = @ + n] ELSE [age |-> 0, n |-> n]

Affordable(s) == Room("all") /\ Room(s)

Charge(s) == /\ windows' = [windows EXCEPT !["all"] = Filled("all", 1), ![s] = Filled(s, 1)]
             /\ reads' = [age \in DOMAIN reads |->
                              [reads[age] EXCEPT !["all"] = @ + 1, ![s] = @ + 1]]

\* A writer's own limit is asked after everyone's minute has begun.
Deny == /\ windows' = [windows EXCEPT !["all"] = IF Room("all") THEN Filled("all", 0) ELSE @]
        /\ UNCHANGED reads

-----------------------------------------------------------------------------
(* A check (listing): the tip, each header of its proof, its coin.          *)

Begin(c, s, proof) ==
    /\ check[c] = Nothing
    /\ check' = [check EXCEPT ![c] =
            [source |-> s, proof |-> proof, left |-> proof, ok |-> TRUE, height |-> 0,
             step |-> "tip", block |-> Nothing, phase |-> "next", value |-> Nothing, tip |-> 0]]
    /\ UNCHANGED <<chainVars, budgetVars, cacheVars, anchors>>

Cached(c) == CASE check[c].step = "tip" -> tipCache # Nothing /\ tipCache.age < Minute
               [] check[c].step = "header" -> check[c].block[1] \in DOMAIN headerCache
               [] OTHER -> coinCache # Nothing

Ask(c) == /\ In(c, "next") /\ ~Cached(c)
          /\ Affordable(check[c].source) /\ Charge(check[c].source)
          /\ check' = [check EXCEPT ![c].phase = "asked"]
          /\ UNCHANGED <<chainVars, cacheVars, anchors>>

Ends(c) == check' = [check EXCEPT ![c] = Nothing]

\* Ends busy: the budget is spent, or the read fails or is not answered in time.
Busy(c) == /\ \/ /\ In(c, "next") /\ ~Cached(c) /\ ~Affordable(check[c].source) /\ Deny
              \/ (In(c, "asked") \/ In(c, "answered")) /\ UNCHANGED budgetVars
           /\ Ends(c)
           /\ UNCHANGED <<chainVars, cacheVars, anchors>>

Ready(c, step) == /\ check[c] # Nothing /\ check[c].step = step
                  /\ check[c].phase = "answered" \/ (check[c].phase = "next" /\ Cached(c))

Value(c) == IF check[c].phase = "answered" THEN check[c].value
            ELSE CASE check[c].step = "tip" -> tipCache.height
                   [] check[c].step = "header" -> headerCache[check[c].block[1]]
                   [] OTHER -> coinCache.spend

\* Seeded fault: a block six high is taken for one buried six deep.
BuriedAtTip(h) == tipCache # Nothing /\ h + Deep <= tipCache.height + 1

\* By the tip last read, by this check or another.
Buried(h) == tipCache # Nothing /\ h + Deep <= tipCache.height

\* A full cache drops its oldest entry, here any.
Remembered(h, v) ==
    LET full == Cardinality(DOMAIN headerCache) >= CacheMax IN
    {[k \in (DOMAIN headerCache \ gone) \cup {h} |-> IF k = h THEN v ELSE headerCache[k]] :
        gone \in IF full THEN {{k} : k \in DOMAIN headerCache} ELSE {{}}}

\* What the answer leaves in the caches.
Keep(c) ==
    IF check[c].phase # "answered" THEN UNCHANGED cacheVars
    ELSE CASE check[c].step = "tip" ->
                  /\ tipCache' = [height |-> Value(c), age |-> 0]
                  /\ UNCHANGED <<headerCache, coinCache>>
           [] check[c].step = "header" ->
                  /\ IF Value(c) # Nothing /\ Buried(check[c].block[1])
                     THEN headerCache' \in Remembered(check[c].block[1], Value(c))
                     ELSE UNCHANGED headerCache
                  /\ UNCHANGED <<tipCache, coinCache>>
           [] OTHER ->
                  /\ coinCache' = [spend |-> Value(c), age |-> 0,
                                   final |-> Value(c) # 0 /\ Buried(Value(c))]
                  /\ UNCHANGED <<tipCache, headerCache>>

\* The walk over a proof's headers is the library's, in any order.
TakeTip(c) ==
    /\ Ready(c, "tip") /\ Keep(c)
    /\ \E block \in check[c].left :
           check' = [check EXCEPT ![c].height = Value(c), ![c].step = "header", ![c].block = block,
                                  ![c].phase = "next", ![c].value = Nothing, ![c].tip = 0]
    /\ UNCHANGED <<chainVars, budgetVars, anchors>>

\* The header confirms the attestation.
Confirms(c) == check[c].ok /\ Value(c) = check[c].block[2]
Left(c) == check[c].left \ {check[c].block}

NextHeader(c) ==
    /\ Ready(c, "header") /\ Left(c) # {} /\ Keep(c)
    /\ \E block \in Left(c) :
           check' = [check EXCEPT ![c].left = Left(c), ![c].ok = Confirms(c), ![c].block = block,
                                  ![c].phase = "next", ![c].value = Nothing, ![c].tip = 0]
    /\ UNCHANGED <<chainVars, budgetVars, anchors>>

\* The lowest block a proof attests.
AnchorOf(proof) == CHOOSE b \in proof : \A other \in proof : b[1] <= other[1]

\* Seeded fault: one confirmation fewer will do.
DeepEnoughLess(c) == check[c].height + 2 >= AnchorOf(check[c].proof)[1] + Deep

DeepEnough(c) == check[c].height + 1 >= AnchorOf(check[c].proof)[1] + Deep

\* Every attestation is confirmed, and the anchor has six confirmations.
Anchored(c) ==
    /\ Ready(c, "header") /\ Left(c) = {} /\ Confirms(c) /\ DeepEnough(c) /\ Keep(c)
    /\ check' = [check EXCEPT ![c].proof = {AnchorOf(@)}, ![c].left = {}, ![c].height = 0,
                              ![c].step = "coin", ![c].block = Nothing, ![c].phase = "next", ![c].value = Nothing, ![c].tip = 0]
    /\ UNCHANGED <<chainVars, budgetVars, anchors>>

\* Ends invalid: padded, not anchored, or too few confirmations.
NotAnchored(c) ==
    /\ Ready(c, "header") /\ Keep(c)
    /\ ~Confirms(c) \/ (Left(c) = {} /\ ~DeepEnough(c))
    /\ Ends(c)
    /\ UNCHANGED <<chainVars, budgetVars, anchors>>

\* The claim is decided from the coin, the bound keys and the index.
Resolve(c, verdict) ==
    /\ Ready(c, "coin") /\ Keep(c) /\ Ends(c)
    /\ anchors' = IF verdict = "accept" THEN anchors \cup {AnchorOf(check[c].proof)} ELSE anchors
    /\ UNCHANGED <<chainVars, budgetVars>>

Works(c) == Ask(c) \/ TakeTip(c) \/ NextHeader(c) \/ Anchored(c)

Next == \/ \E r \in 0..Reorg : NewBlock(r)
        \/ Tick
        \/ \E c \in Checks :
               \/ \E s \in Sources, proof \in Proofs : Begin(c, s, proof)
               \/ Answer(c) \/ Works(c) \/ Busy(c) \/ NotAnchored(c)
               \/ \E verdict \in {"accept", "invalid", "busy"} : Resolve(c, verdict)

Spec == Init /\ [][Next]_vars

-----------------------------------------------------------------------------
(* Every variable has its type, a minute counts no more than its limit, and  *)
(* only an answered check holds an answer.                                   *)
TypeOK ==
    /\ chain \in [1..Tip -> Nat] /\ Tip \in FirstTip..LastTip /\ spent \in 0..Tip
    /\ \A w \in Windows :
           Running(w) => windows[w].age \in 0..(Minute - 1) /\ windows[w].n \in 0..Limit(w)
    /\ reads \in [0..(Minute - 1) -> [Windows -> Nat]]
    /\ \A c \in Checks :
           check[c] # Nothing =>
               /\ check[c].source \in Sources /\ check[c].left \subseteq check[c].proof
               /\ check[c].height \in 0..Tip /\ check[c].tip \in 0..Tip
               /\ check[c].phase # "answered" => check[c].value = Nothing /\ check[c].tip = 0
    /\ tipCache = Nothing \/ (tipCache.height \in FirstTip..Tip /\ tipCache.age \in 0..Minute)
    /\ DOMAIN headerCache \subseteq 1..Tip /\ Cardinality(DOMAIN headerCache) <= CacheMax
    /\ coinCache = Nothing \/ (coinCache.spend \in 0..Tip /\ coinCache.age \in 0..(Minute - 1))

(* LIMITS.chainReads and chainReadsPerSource bound a minute that starts with *)
(* a read: over the end of one minute and the start of the next, one writer  *)
(* reads less than twice its limit, and all together at most twice theirs    *)
(* (windows, rules.mjs:94).                                                  *)
BudgetHeld ==
    /\ \A s \in Sources : reads[Minute - 1][s] < 2 * ReadsEach
    /\ reads[Minute - 1]["all"] <= 2 * ReadsAll

(* "Only a header buried 6 deep is kept" and "a spend buried 6 deep does not *)
(* change" (rules.mjs:149, 162): what is kept for good agrees with the chain *)
(* for ever, although the read and the tip that buries it were answered at   *)
(* different moments, perhaps to different checks.                           *)
FinalIsFinal ==
    /\ \A h \in DOMAIN headerCache : headerCache[h] = chain[h]
    /\ coinCache # Nothing /\ coinCache.final => coinCache.spend = spent

(* The block that anchors an admitted claim is not replaced, although the    *)
(* tip it is measured against may be a minute old (rules.mjs:236).           *)
AnchorsStand == \A b \in anchors : chain[b[1]] = b[2]
=============================================================================
