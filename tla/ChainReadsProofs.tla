-------------------------- MODULE ChainReadsProofs --------------------------
(***************************************************************************)
(* What a directory check takes as final of the chain stays so, for any     *)
(* number of checks at once, writers, limits and proofs, as long as a block *)
(* buried Deep - Mined deep is not replaced: Reorg + Mined <= Deep.  The    *)
(* answer to a read and the height it is measured against may be of         *)
(* different moments; Mined bounds how far they are apart.                  *)
(* And a minute's budget bounds any minute by twice itself, whatever starts *)
(* the windows and whoever charges them.                                    *)
(***************************************************************************)
EXTENDS ChainReads, FiniteSetTheorems, TLAPS

Blocks == (Nat \ {0}) \X Nat
CheckSet == [source : Sources, proof : SUBSET Blocks, left : SUBSET Blocks, ok : BOOLEAN,
             height : Nat, step : {"tip", "header", "coin"}, block : Blocks \cup {Nothing},
             phase : {"next", "asked", "answered"}, value : Nat \cup {Nothing}, tip : Nat]
TipSet == [height : Nat, age : Nat]
CoinSet == [spend : Nat, age : Nat, final : BOOLEAN]

Types ==
    /\ Tip \in Nat /\ FirstTip <= Tip
    /\ chain \in [1..Tip -> Nat] /\ spent \in 0..Tip
    /\ check \in [Checks -> CheckSet \cup {Nothing}]
    /\ tipCache \in TipSet \cup {Nothing} /\ coinCache \in CoinSet \cup {Nothing}

\* A block that can no longer be replaced, of a chain of height n.
Settled(b, n, ch) == b \in Blocks /\ b[1] + Reorg <= n /\ ch[b[1]] = b[2]

\* What an answer is worth when it arrives, however late.
AnswerHolds(r, n, ch, sp) ==
    /\ r.tip <= n /\ n <= r.tip + Mined
    /\ r.step = "tip" => r.value = r.tip
    /\ r.step = "header" => /\ r.height <= r.tip
                            /\ r.block[1] + Reorg <= r.tip => r.value = ch[r.block[1]]
    /\ r.step = "coin" => /\ r.value \in Nat
                          /\ r.value # 0 /\ r.value + Reorg <= r.tip => r.value = sp

\* What a check has found out so far.
CheckHolds(r, n, ch, sp) ==
    /\ r.height <= n
    /\ r.phase = "answered" => AnswerHolds(r, n, ch, sp)
    /\ r.step = "tip" => r.left = r.proof
    /\ r.step # "coin" => r.proof \in Proofs
    /\ r.step = "header" =>
           /\ r.block \in r.left /\ r.left \subseteq r.proof
           /\ r.ok => \A b \in r.proof \ r.left : b[1] + Deep <= r.height + 1 => ch[b[1]] = b[2]
    /\ r.step = "coin" => Settled(AnchorOf(r.proof), n, ch)

CachesHold ==
    /\ tipCache # Nothing => tipCache.height <= Tip
    /\ \A h \in DOMAIN headerCache :
           h \in Nat \ {0} /\ h + Reorg <= Tip /\ headerCache[h] = chain[h]
    /\ coinCache # Nothing /\ coinCache.final =>
           coinCache.spend # 0 /\ coinCache.spend + Reorg <= Tip /\ coinCache.spend = spent

ChecksHold == \A c \in Checks : check[c] # Nothing => CheckHolds(check[c], Tip, chain, spent)

\* The inductive invariant.
IInv == Types /\ CachesHold /\ ChecksHold /\ \A b \in anchors : Settled(b, Tip, chain)

-----------------------------------------------------------------------------
LEMMA TipIsLength == ASSUME NEW n \in Nat, NEW ch, DOMAIN ch = 1..n
                     PROVE  Cardinality(DOMAIN ch) = n
<1>1. Cardinality(1..n) = IF 1 > n THEN 0 ELSE n - 1 + 1  BY FS_Interval
<1> QED BY <1>1

LEMMA InitInv == Init => IInv
<1> SUFFICES ASSUME Init PROVE IInv
  OBVIOUS
<1>1. chain = [h \in 1..FirstTip |-> 0] /\ FirstTip \in Nat  BY ChainAssumption DEF Init
<1>2. Tip = FirstTip  BY <1>1, TipIsLength DEF Tip
<1>3. /\ tipCache = Nothing /\ coinCache = Nothing /\ headerCache = NoHeaders /\ anchors = {}
      /\ check = [c \in Checks |-> Nothing] /\ spent \in 0..FirstTip
  BY DEF Init, Fresh
<1>4. Types  BY <1>1, <1>2, <1>3 DEF Types
<1>5. CachesHold  BY <1>3 DEF CachesHold, NoHeaders
<1>6. ChecksHold  BY <1>3 DEF ChecksHold
<1> QED BY <1>3, <1>4, <1>5, <1>6 DEF IInv

(* The lowest block of a proof is one of its blocks.                         *)
LEMMA AnchorInProof == ASSUME NEW proof \in Proofs
                       PROVE  /\ proof \subseteq Blocks /\ AnchorOf(proof) \in proof
                              /\ \A b \in proof : AnchorOf(proof)[1] <= b[1]
BY ChainAssumption DEF AnchorOf, Blocks

LEMMA AnchorAlone == ASSUME NEW b \in Blocks PROVE AnchorOf({b}) = b
<1>1. b[1] <= b[1]  BY DEF Blocks
<1> QED BY <1>1 DEF AnchorOf

-----------------------------------------------------------------------------
(* A block more: what is buried Reorg deep stays.                            *)
LEMMA NewBlockKeeps ==
    ASSUME Types, NEW r \in 0..Reorg, NewBlock(r)
    PROVE  /\ Types' /\ Tip' = Tip + 1
           /\ \A h \in Nat \ {0} : h + Reorg <= Tip => chain'[h] = chain[h]
           /\ spent # 0 /\ spent + Reorg <= Tip => spent' = spent
<1> DEFINE kept == Tip - r
<1>1. /\ chain' = [h \in 1..(Tip + 1) |-> IF h <= kept THEN chain[h]
                                          ELSE IF h <= Tip THEN chain[h] + 1 ELSE 0]
      /\ IF spent \in 1..kept THEN UNCHANGED spent ELSE spent' \in {0} \cup (kept + 1)..(Tip + 1)
      /\ UNCHANGED <<tipCache, coinCache, check>>
  BY DEF NewBlock, cacheVars
<1>2. Tip \in Nat /\ Reorg \in Nat /\ r \in Nat /\ r <= Reorg /\ Reorg <= FirstTip /\ FirstTip <= Tip
      /\ FirstTip \in Nat
  BY ChainAssumption DEF Types
<1>3. Tip' = Tip + 1  BY <1>1, <1>2, TipIsLength DEF Tip
<1>4. chain' \in [1..(Tip + 1) -> Nat]
  <2>1. \A h \in 1..(Tip + 1) : chain'[h] \in Nat  BY <1>1, <1>2 DEF Types
  <2> QED BY <1>1, <2>1
<1>5. spent' \in 0..(Tip + 1)  BY <1>1, <1>2 DEF Types
<1>6. Types'  BY <1>1, <1>2, <1>3, <1>4, <1>5 DEF Types
<1>7. \A h \in Nat \ {0} : h + Reorg <= Tip => chain'[h] = chain[h]  BY <1>1, <1>2
<1>8. spent # 0 /\ spent + Reorg <= Tip => spent' = spent  BY <1>1, <1>2 DEF Types
<1> QED BY <1>3, <1>6, <1>7, <1>8

(* A check outlives a new block, as long as no answer is older than Mined.   *)
LEMMA CheckOutlives ==
    ASSUME NEW r \in CheckSet, NEW n \in Nat, NEW ch, NEW sp \in Nat, NEW ch2, NEW sp2,
           CheckHolds(r, n, ch, sp),
           r.phase = "answered" => n - r.tip < Mined,
           \A h \in Nat \ {0} : h + Reorg <= n => ch2[h] = ch[h],
           sp # 0 /\ sp + Reorg <= n => sp2 = sp
    PROVE  CheckHolds(r, n + 1, ch2, sp2)
<1>0. /\ Reorg \in Nat /\ Mined \in Nat \ {0} /\ Deep \in Nat /\ Reorg + Mined <= Deep
      /\ r.height \in Nat /\ r.tip \in Nat
  BY ChainAssumption DEF CheckSet
<1>1. r.height <= n + 1  BY <1>0 DEF CheckHolds
<1>2. ASSUME r.phase = "answered" PROVE AnswerHolds(r, n + 1, ch2, sp2)
  <2>1. AnswerHolds(r, n, ch, sp) /\ n - r.tip < Mined  BY <1>2 DEF CheckHolds
  <2>2. r.tip <= n + 1 /\ n + 1 <= r.tip + Mined /\ r.tip <= n
    BY <1>0, <2>1 DEF AnswerHolds
  <2>3. ASSUME r.step = "header", r.block[1] + Reorg <= r.tip PROVE r.value = ch2[r.block[1]]
    <3>1. r.block \in Blocks  BY <2>3 DEF CheckHolds, CheckSet
    <3>2. r.block[1] \in Nat \ {0}  BY <3>1 DEF Blocks
    <3> QED BY <1>0, <2>1, <2>2, <2>3, <3>2 DEF AnswerHolds
  <2>4. ASSUME r.step = "coin", r.value # 0, r.value + Reorg <= r.tip PROVE r.value = sp2
    <3>1. r.value \in Nat /\ r.value = sp  BY <2>1, <2>4 DEF AnswerHolds
    <3> QED BY <1>0, <2>2, <2>4, <3>1
  <2> QED BY <2>1, <2>2, <2>3, <2>4 DEF AnswerHolds
<1>3. ASSUME r.step = "header", r.ok, NEW b \in r.proof \ r.left, b[1] + Deep <= r.height + 1
      PROVE  ch2[b[1]] = b[2]
  <2>1. ch[b[1]] = b[2] /\ r.height <= n  BY <1>3 DEF CheckHolds
  <2>2. b[1] \in Nat \ {0}  BY <1>3 DEF CheckSet, Blocks
  <2>3. b[1] + Reorg <= n  BY <1>0, <1>3, <2>1, <2>2
  <2> QED BY <2>1, <2>2, <2>3
<1>4. ASSUME r.step = "coin" PROVE Settled(AnchorOf(r.proof), n + 1, ch2)
  <2> DEFINE b == AnchorOf(r.proof)
  <2>1. b \in Blocks /\ b[1] + Reorg <= n /\ ch[b[1]] = b[2]  BY <1>4 DEF CheckHolds, Settled
  <2>2. b[1] \in Nat \ {0}  BY <2>1 DEF Blocks
  <2> HIDE DEF b
  <2>3. b[1] + Reorg <= n + 1 /\ ch2[b[1]] = b[2]  BY <1>0, <2>1, <2>2
  <2> QED BY <2>1, <2>3 DEF Settled, b
<1> QED BY <1>1, <1>2, <1>3, <1>4 DEF CheckHolds

LEMMA NewBlockInv == ASSUME IInv, NEW r \in 0..Reorg, NewBlock(r) PROVE IInv'
<1>1. /\ Types /\ Types' /\ Tip' = Tip + 1 /\ Tip \in Nat /\ Reorg \in Nat
      /\ \A h \in Nat \ {0} : h + Reorg <= Tip => chain'[h] = chain[h]
      /\ spent # 0 /\ spent + Reorg <= Tip => spent' = spent
  BY NewBlockKeeps, ChainAssumption DEF IInv, Types
<1>2. /\ check' = check /\ anchors' = anchors
      /\ tipCache' = tipCache /\ headerCache' = headerCache /\ coinCache' = coinCache
      /\ \A c \in Checks : In(c, "answered") => Tip - check[c].tip < Mined
  BY DEF NewBlock, cacheVars
<1>3. CachesHold'
  <2>1. tipCache # Nothing => tipCache.height <= Tip + 1
    BY <1>1 DEF IInv, CachesHold, Types, TipSet
  <2>2. \A h \in DOMAIN headerCache :
            h \in Nat \ {0} /\ h + Reorg <= Tip + 1 /\ headerCache[h] = chain'[h]
    BY <1>1 DEF IInv, CachesHold
  <2>3. coinCache # Nothing /\ coinCache.final =>
            coinCache.spend # 0 /\ coinCache.spend + Reorg <= Tip + 1 /\ coinCache.spend = spent'
    BY <1>1 DEF IInv, CachesHold, Types, CoinSet
  <2> QED BY <1>1, <1>2, <2>1, <2>2, <2>3 DEF CachesHold
<1>4. ChecksHold'
  <2> SUFFICES ASSUME NEW c \in Checks, check[c] # Nothing
               PROVE  CheckHolds(check[c], Tip + 1, chain', spent')
    BY <1>1, <1>2 DEF ChecksHold
  <2>1. check[c] \in CheckSet /\ CheckHolds(check[c], Tip, chain, spent) /\ spent \in Nat
    BY <1>1 DEF IInv, Types, ChecksHold
  <2>2. check[c].phase = "answered" => Tip - check[c].tip < Mined
    BY <1>2 DEF In
  <2> QED BY <1>1, <2>1, <2>2, CheckOutlives
<1>5. \A b \in anchors' : Settled(b, Tip', chain')
  <2> SUFFICES ASSUME NEW b \in anchors PROVE Settled(b, Tip + 1, chain')
    BY <1>1, <1>2
  <2>1. b \in Blocks /\ b[1] \in Nat \ {0} /\ b[1] + Reorg <= Tip /\ chain[b[1]] = b[2]
    BY DEF IInv, Settled, Blocks
  <2> QED BY <1>1, <2>1 DEF Settled
<1> QED BY <1>1, <1>3, <1>4, <1>5 DEF IInv

-----------------------------------------------------------------------------
(* What a ready check goes by: fresh, cached or late, it is good for what is *)
(* buried deep enough, by this check's height or by the tip last read.       *)
LEMMA TipIsOld == ASSUME IInv, NEW c \in Checks, Ready(c, "tip")
                  PROVE  Value(c) \in Nat /\ Value(c) <= Tip
<1>1. check[c] \in CheckSet /\ CheckHolds(check[c], Tip, chain, spent) /\ check[c].step = "tip"
  BY DEF Ready, IInv, Types, ChecksHold
<1>2. CASE check[c].phase = "answered"
  BY <1>1, <1>2 DEF Value, CheckHolds, AnswerHolds, CheckSet
<1>3. CASE check[c].phase # "answered"
  <2>1. tipCache # Nothing  BY <1>1, <1>3 DEF Ready, Cached
  <2> QED BY <1>1, <1>3, <2>1 DEF Value, IInv, CachesHold, Types, TipSet
<1> QED BY <1>2, <1>3

LEMMA HeaderIsGood ==
    ASSUME IInv, NEW c \in Checks, Ready(c, "header")
    PROVE  /\ check[c].block \in Blocks
           /\ \/ check[c].block[1] + Deep <= check[c].height + 1
              \/ Buried(check[c].block[1])
              => /\ Value(c) = chain[check[c].block[1]]
                 /\ check[c].block[1] + Reorg <= Tip
<1> DEFINE r == check[c]
           h == check[c].block[1]
<1>1. r \in CheckSet /\ CheckHolds(r, Tip, chain, spent) /\ r.step = "header"
  BY DEF Ready, IInv, Types, ChecksHold
<1>2. r.block \in Blocks /\ h \in Nat \ {0}  BY <1>1 DEF CheckHolds, CheckSet, Blocks
<1>3. /\ Reorg \in Nat /\ Mined \in Nat \ {0} /\ Deep \in Nat /\ Reorg + Mined <= Deep
      /\ r.height \in Nat /\ r.height <= Tip /\ Tip \in Nat /\ r.tip \in Nat
  BY <1>1, ChainAssumption DEF CheckSet, CheckHolds, IInv, Types
<1>4. Buried(h) => h + Deep <= Tip
  BY <1>2, <1>3 DEF Buried, IInv, CachesHold, Types, TipSet
<1>5. CASE r.phase = "answered"
  <2>1. AnswerHolds(r, Tip, chain, spent) /\ Value(c) = r.value
    BY <1>1, <1>5 DEF CheckHolds, Value
  <2>2. /\ Tip <= r.tip + Mined /\ r.height <= r.tip
        /\ h + Reorg <= r.tip => r.value = chain[h]
    BY <1>1, <2>1 DEF AnswerHolds
  <2>3. h + Deep <= r.height + 1 \/ h + Deep <= Tip => h + Reorg <= r.tip /\ h + Reorg <= Tip
    BY <1>2, <1>3, <2>2
  <2> QED BY <1>2, <1>4, <2>1, <2>2, <2>3
<1>6. CASE r.phase # "answered"
  <2>1. h \in DOMAIN headerCache /\ Value(c) = headerCache[h]
    BY <1>1, <1>6 DEF Ready, Cached, Value
  <2>2. headerCache[h] = chain[h] /\ h + Reorg <= Tip
    BY <2>1 DEF IInv, CachesHold
  <2> QED BY <1>2, <2>1, <2>2
<1> QED BY <1>5, <1>6

LEMMA CoinIsGood ==
    ASSUME IInv, NEW c \in Checks, Ready(c, "coin"), check[c].phase = "answered"
    PROVE  /\ Value(c) \in Nat
           /\ Value(c) # 0 /\ Buried(Value(c)) => Value(c) = spent /\ Value(c) + Reorg <= Tip
<1> DEFINE r == check[c]
<1>1. r \in CheckSet /\ CheckHolds(r, Tip, chain, spent) /\ r.step = "coin" /\ Value(c) = r.value
  BY DEF Ready, IInv, Types, ChecksHold, Value
<1>2. AnswerHolds(r, Tip, chain, spent)  BY <1>1 DEF CheckHolds
<1>3. /\ r.value \in Nat /\ Tip <= r.tip + Mined
      /\ r.value # 0 /\ r.value + Reorg <= r.tip => r.value = spent
  BY <1>1, <1>2 DEF AnswerHolds
<1>4. /\ Reorg \in Nat /\ Mined \in Nat \ {0} /\ Deep \in Nat /\ Reorg + Mined <= Deep
      /\ Tip \in Nat /\ r.tip \in Nat
  BY <1>1, ChainAssumption DEF CheckSet, IInv, Types
<1>5. Buried(r.value) => r.value + Deep <= Tip
  BY <1>3, <1>4 DEF Buried, IInv, CachesHold, Types, TipSet
<1> QED BY <1>1, <1>3, <1>4, <1>5

CacheTypes == tipCache \in TipSet \cup {Nothing} /\ coinCache \in CoinSet \cup {Nothing}

(* What an answer leaves in the caches holds (kept only when buried).        *)
LEMMA KeepInv ==
    ASSUME IInv, NEW c \in Checks, NEW step, Ready(c, step), Keep(c), chain' = chain, spent' = spent
    PROVE  CachesHold' /\ CacheTypes'
<1>0. Tip' = Tip /\ CachesHold /\ CacheTypes  BY DEF Tip, IInv, Types, CacheTypes
<1>1. CASE check[c].phase # "answered"
  BY <1>0, <1>1 DEF Keep, cacheVars, CachesHold, CacheTypes
<1>2. CASE check[c].phase = "answered" /\ check[c].step = "tip"
  <2>1. tipCache' = [height |-> Value(c), age |-> 0] /\ UNCHANGED <<headerCache, coinCache>>
    BY <1>2 DEF Keep
  <2>2. Value(c) \in Nat /\ Value(c) <= Tip  BY <1>2, TipIsOld DEF Ready
  <2>3. tipCache' \in TipSet /\ tipCache'.height = Value(c)  BY <2>1, <2>2 DEF TipSet
  <2>4. CacheTypes'  BY <1>0, <2>1, <2>3 DEF CacheTypes
  <2>5. CachesHold'  BY <1>0, <2>1, <2>2, <2>3 DEF CachesHold
  <2> QED BY <2>4, <2>5
<1>3. CASE check[c].phase = "answered" /\ check[c].step = "header"
  <2> DEFINE h == check[c].block[1]
  <2>1. /\ UNCHANGED <<tipCache, coinCache>>
        /\ headerCache' = headerCache \/ (Buried(h) /\ headerCache' \in Remembered(h, Value(c)))
    BY <1>3 DEF Keep
  <2>2. Buried(h) => h \in Nat \ {0} /\ Value(c) = chain[h] /\ h + Reorg <= Tip
    BY <1>3, HeaderIsGood DEF Ready, Blocks
  <2>3. CASE headerCache' = headerCache
    BY <1>0, <2>1, <2>3 DEF CachesHold, CacheTypes
  <2>4. CASE Buried(h) /\ headerCache' \in Remembered(h, Value(c))
    <3>1. PICK gone : headerCache' = [k \in (DOMAIN headerCache \ gone) \cup {h} |->
                                         IF k = h THEN Value(c) ELSE headerCache[k]]
      BY <2>4 DEF Remembered
    <3>2. \A k \in DOMAIN headerCache' :
              k \in Nat \ {0} /\ k + Reorg <= Tip /\ headerCache'[k] = chain[k]
      BY <1>0, <2>2, <2>4, <3>1 DEF CachesHold
    <3> QED BY <1>0, <2>1, <3>2 DEF CachesHold, CacheTypes
  <2> QED BY <2>1, <2>3, <2>4
<1>4. CASE check[c].phase = "answered" /\ check[c].step = "coin"
  <2>1. /\ coinCache' = [spend |-> Value(c), age |-> 0, final |-> Value(c) # 0 /\ Buried(Value(c))]
        /\ UNCHANGED <<tipCache, headerCache>>
    BY <1>4 DEF Keep
  <2>2. Value(c) \in Nat /\ (Value(c) # 0 /\ Buried(Value(c)) => Value(c) = spent /\ Value(c) + Reorg <= Tip)
    BY <1>4, CoinIsGood DEF Ready
  <2>3. (Value(c) # 0 /\ Buried(Value(c))) \in BOOLEAN  BY DEF Buried
  <2>4. /\ coinCache' \in CoinSet /\ coinCache'.spend = Value(c)
        /\ coinCache'.final = (Value(c) # 0 /\ Buried(Value(c)))
    BY <2>1, <2>2, <2>3 DEF CoinSet
  <2>5. CacheTypes'  BY <1>0, <2>1, <2>4 DEF CacheTypes
  <2>6. CachesHold'  BY <1>0, <2>1, <2>2, <2>4 DEF CachesHold
  <2> QED BY <2>5, <2>6
<1>5. check[c].step \in {"tip", "header", "coin"}
  BY DEF Ready, IInv, Types, CheckSet
<1> QED BY <1>1, <1>2, <1>3, <1>4, <1>5

-----------------------------------------------------------------------------
(* A step of one check leaves the others as they are.                        *)
LEMMA OneCheckInv ==
    ASSUME IInv, NEW c \in Checks, NEW r,
           r = Nothing \/ (r \in CheckSet /\ CheckHolds(r, Tip, chain, spent)),
           check' = [check EXCEPT ![c] = r],
           chain' = chain, spent' = spent, CachesHold', CacheTypes',
           \A b \in anchors' : b \in anchors \/ Settled(b, Tip, chain)
    PROVE  IInv'
<1>1. Tip' = Tip  BY DEF Tip
<1>2. check' \in [Checks -> CheckSet \cup {Nothing}]  BY DEF IInv, Types
<1>3. Types'  BY <1>1, <1>2 DEF IInv, Types, CacheTypes
<1>4. ChecksHold'
  <2> SUFFICES ASSUME NEW d \in Checks, check'[d] # Nothing
               PROVE  CheckHolds(check'[d], Tip, chain, spent)
    BY <1>1 DEF ChecksHold
  <2>1. CASE d = c  BY <2>1 DEF IInv, Types
  <2>2. CASE d # c  BY <2>2 DEF IInv, Types, ChecksHold
  <2> QED BY <2>1, <2>2
<1> QED BY <1>1, <1>3, <1>4 DEF IInv

LEMMA SameCaches == ASSUME IInv, UNCHANGED <<chainVars, cacheVars>> PROVE CachesHold' /\ CacheTypes'
BY DEF IInv, Types, CachesHold, CacheTypes, chainVars, cacheVars, Tip

LEMMA EndsInv == ASSUME IInv, NEW c \in Checks, Ends(c), UNCHANGED chainVars,
                        CachesHold', CacheTypes',
                        \A b \in anchors' : b \in anchors \/ Settled(b, Tip, chain)
                 PROVE  IInv'
BY OneCheckInv DEF Ends, chainVars

LEMMA TickInv == ASSUME IInv, Tick PROVE IInv'
<1>1. /\ tipCache' = IF tipCache = Nothing THEN Nothing ELSE Older(tipCache)
      /\ coinCache' = IF coinCache # Nothing /\ coinCache.final THEN coinCache ELSE Aged(coinCache)
      /\ UNCHANGED <<chainVars, headerCache, check, anchors>>
  BY DEF Tick
<1>2. \A x \in TipSet : Older(x) \in TipSet /\ Older(x).height = x.height
  BY ChainAssumption DEF Older, TipSet
<1>3. \A x \in CoinSet : Older(x) \in CoinSet /\ Older(x).final = x.final
  BY ChainAssumption DEF Older, CoinSet
<1>4. Tip' = Tip /\ chain' = chain /\ spent' = spent  BY <1>1 DEF chainVars, Tip
<1>5. CacheTypes'
  BY <1>1, <1>2, <1>3 DEF CacheTypes, IInv, Types, Aged
<1>6. CachesHold'
  <2>1. tipCache' # Nothing => tipCache'.height <= Tip
    BY <1>1, <1>2 DEF IInv, Types, CachesHold
  <2>2. coinCache' # Nothing /\ coinCache'.final => coinCache # Nothing /\ coinCache.final /\ coinCache' = coinCache
    BY <1>1, <1>3 DEF IInv, Types, Aged
  <2> QED BY <1>1, <1>4, <2>1, <2>2 DEF IInv, CachesHold
<1>7. Types'  BY <1>1, <1>4, <1>5 DEF IInv, Types, CacheTypes
<1>8. ChecksHold'  BY <1>1, <1>4 DEF IInv, ChecksHold
<1> QED BY <1>1, <1>4, <1>6, <1>7, <1>8 DEF IInv

LEMMA BeginInv == ASSUME IInv, NEW c \in Checks, NEW s \in Sources, NEW proof \in Proofs,
                         Begin(c, s, proof)
                  PROVE  IInv'
<1> DEFINE r == [source |-> s, proof |-> proof, left |-> proof, ok |-> TRUE, height |-> 0,
                 step |-> "tip", block |-> Nothing, phase |-> "next", value |-> Nothing, tip |-> 0]
<1>1. check' = [check EXCEPT ![c] = r] /\ UNCHANGED <<chainVars, cacheVars, anchors>>
  BY DEF Begin
<1>2. r \in CheckSet  BY AnchorInProof DEF CheckSet
<1>3. CheckHolds(r, Tip, chain, spent)  BY DEF CheckHolds, IInv, Types
<1>4. CachesHold' /\ CacheTypes'  BY <1>1, SameCaches
<1> HIDE DEF r
<1> QED BY <1>1, <1>2, <1>3, <1>4, OneCheckInv DEF chainVars

(* The chain source answers with what holds now.                             *)
LEMMA AnswerInv == ASSUME IInv, NEW c \in Checks, Answer(c) PROVE IInv'
<1> DEFINE r == check[c]
           now == CASE check[c].step = "tip" -> Tip
                    [] check[c].step = "coin" -> spent
                    [] OTHER -> IF check[c].block[1] <= Tip THEN chain[check[c].block[1]]
                                                            ELSE Nothing
           r2 == [r EXCEPT !.phase = "answered", !.value = now, !.tip = Tip]
<1>1. /\ r # Nothing /\ r.phase = "asked" /\ UNCHANGED <<chainVars, cacheVars, anchors>>
      /\ check' = [check EXCEPT ![c].phase = "answered", ![c].value = now, ![c].tip = Tip]
  BY DEF Answer, In
<1>2. /\ r \in CheckSet /\ CheckHolds(r, Tip, chain, spent)
      /\ Tip \in Nat /\ spent \in Nat /\ chain \in [1..Tip -> Nat]
  BY <1>1 DEF IInv, Types, ChecksHold
<1>3. r.step = "header" => r.block \in Blocks /\ r.block[1] \in Nat \ {0}
  BY <1>2 DEF CheckHolds, CheckSet, Blocks
<1>4. r.step \in {"tip", "header", "coin"} /\ r.height \in Nat  BY <1>2 DEF CheckSet
<1>5. now \in Nat \cup {Nothing}  BY <1>2, <1>3, <1>4
<1>6. /\ r.step = "tip" => now = Tip
      /\ r.step = "header" /\ r.block[1] <= Tip => now = chain[r.block[1]]
      /\ r.step = "coin" => now = spent
  OBVIOUS
<1> HIDE DEF now
<1>7. /\ r2 \in CheckSet /\ r2.phase = "answered" /\ r2.value = now /\ r2.tip = Tip
      /\ r2.step = r.step /\ r2.block = r.block /\ r2.height = r.height /\ r2.ok = r.ok
      /\ r2.proof = r.proof /\ r2.left = r.left
  BY <1>2, <1>5 DEF CheckSet
<1>8. check' = [check EXCEPT ![c] = r2]  BY <1>1 DEF IInv, Types
<1> HIDE DEF r2
<1>9. AnswerHolds(r2, Tip, chain, spent)
  BY <1>2, <1>3, <1>4, <1>6, <1>7, ChainAssumption DEF AnswerHolds, CheckHolds
<1>10. CheckHolds(r2, Tip, chain, spent)
  BY <1>2, <1>7, <1>9 DEF CheckHolds
<1> QED BY <1>1, <1>7, <1>8, <1>10, SameCaches, OneCheckInv DEF chainVars

LEMMA AskInv == ASSUME IInv, NEW c \in Checks, Ask(c) PROVE IInv'
<1> DEFINE r == check[c]
           r2 == [r EXCEPT !.phase = "asked"]
<1>1. /\ r # Nothing /\ check' = [check EXCEPT ![c].phase = "asked"]
      /\ UNCHANGED <<chainVars, cacheVars, anchors>>
  BY DEF Ask, In
<1>2. r \in CheckSet /\ CheckHolds(r, Tip, chain, spent)
  BY <1>1 DEF IInv, Types, ChecksHold
<1>3. /\ r2 \in CheckSet /\ r2.phase = "asked" /\ r2.step = r.step /\ r2.block = r.block
      /\ r2.height = r.height /\ r2.ok = r.ok /\ r2.proof = r.proof /\ r2.left = r.left
  BY <1>2 DEF CheckSet
<1>4. check' = [check EXCEPT ![c] = r2]  BY <1>1 DEF IInv, Types
<1> HIDE DEF r2
<1>5. CheckHolds(r2, Tip, chain, spent)  BY <1>2, <1>3 DEF CheckHolds
<1> QED BY <1>1, <1>3, <1>4, <1>5, SameCaches, OneCheckInv DEF chainVars

(* With the tip, the check goes on to a header; none is confirmed yet.       *)
LEMMA TakeTipInv == ASSUME IInv, NEW c \in Checks, TakeTip(c) PROVE IInv'
<1> DEFINE r == check[c]
<1>1. PICK block \in r.left :
          check' = [check EXCEPT ![c].height = Value(c), ![c].step = "header", ![c].block = block,
                                 ![c].phase = "next", ![c].value = Nothing, ![c].tip = 0]
  BY DEF TakeTip
<1>2. Ready(c, "tip") /\ Keep(c) /\ UNCHANGED <<chainVars, anchors>>  BY DEF TakeTip
<1>3. r \in CheckSet /\ CheckHolds(r, Tip, chain, spent) /\ r.step = "tip"
  BY <1>2 DEF Ready, IInv, Types, ChecksHold
<1>4. Value(c) \in Nat /\ Value(c) <= Tip  BY <1>2, TipIsOld
<1> DEFINE r2 == [r EXCEPT !.height = Value(c), !.step = "header", !.block = block,
                           !.phase = "next", !.value = Nothing, !.tip = 0]
<1>5. block \in Blocks  BY <1>3 DEF CheckSet
<1>6. /\ r2 \in CheckSet /\ r2.height = Value(c) /\ r2.step = "header" /\ r2.block = block
      /\ r2.phase = "next" /\ r2.proof = r.proof /\ r2.left = r.left
  BY <1>3, <1>4, <1>5 DEF CheckSet
<1>7. check' = [check EXCEPT ![c] = r2]  BY <1>1 DEF IInv, Types
<1> HIDE DEF r2
<1>8. CheckHolds(r2, Tip, chain, spent)  BY <1>3, <1>4, <1>6 DEF CheckHolds
<1>9. CachesHold' /\ CacheTypes'  BY <1>2, KeepInv DEF chainVars
<1> QED BY <1>2, <1>6, <1>7, <1>8, <1>9, OneCheckInv DEF chainVars

(* A confirmed block that has its six confirmations stays in the chain.      *)
LEMMA ConfirmedStands ==
    ASSUME IInv, NEW c \in Checks, Ready(c, "header"), Confirms(c),
           NEW b \in check[c].proof \ Left(c), b[1] + Deep <= check[c].height + 1
    PROVE  chain[b[1]] = b[2]
<1>1. check[c].ok /\ CheckHolds(check[c], Tip, chain, spent) /\ check[c].step = "header"
  BY DEF Confirms, Ready, IInv, ChecksHold
<1>2. CASE b = check[c].block  BY <1>2, HeaderIsGood DEF Confirms
<1>3. CASE b # check[c].block
  <2>1. b \in check[c].proof \ check[c].left  BY <1>3 DEF Left
  <2> QED BY <1>1, <2>1 DEF CheckHolds
<1> QED BY <1>2, <1>3

LEMMA NextHeaderInv == ASSUME IInv, NEW c \in Checks, NextHeader(c) PROVE IInv'
<1> DEFINE r == check[c]
<1>1. PICK block \in Left(c) :
          check' = [check EXCEPT ![c].left = Left(c), ![c].ok = Confirms(c), ![c].block = block,
                                 ![c].phase = "next", ![c].value = Nothing, ![c].tip = 0]
  BY DEF NextHeader
<1>2. Ready(c, "header") /\ Keep(c) /\ UNCHANGED <<chainVars, anchors>>  BY DEF NextHeader
<1>3. r \in CheckSet /\ CheckHolds(r, Tip, chain, spent) /\ r.step = "header"
  BY <1>2 DEF Ready, IInv, Types, ChecksHold
<1> DEFINE r2 == [r EXCEPT !.left = Left(c), !.ok = Confirms(c), !.block = block,
                           !.phase = "next", !.value = Nothing, !.tip = 0]
<1>4. /\ Left(c) \in SUBSET Blocks /\ Left(c) \subseteq r.left /\ block \in Blocks
  BY <1>3 DEF CheckSet, Left
<1>5. Confirms(c) \in BOOLEAN  BY <1>3 DEF Confirms, CheckSet
<1>6. /\ r2 \in CheckSet /\ r2.height = r.height /\ r2.step = "header" /\ r2.block = block
      /\ r2.phase = "next" /\ r2.proof = r.proof /\ r2.left = Left(c) /\ r2.ok = Confirms(c)
  BY <1>3, <1>4, <1>5 DEF CheckSet
<1>7. check' = [check EXCEPT ![c] = r2]  BY <1>1 DEF IInv, Types
<1> HIDE DEF r2
<1>8. CheckHolds(r2, Tip, chain, spent)
  <2>1. r2.ok => \A b \in r2.proof \ r2.left : b[1] + Deep <= r2.height + 1 => chain[b[1]] = b[2]
    BY <1>2, <1>6, ConfirmedStands
  <2>2. r2.height <= Tip /\ r2.proof \in Proofs /\ r2.left \subseteq r2.proof /\ r2.block \in r2.left
    BY <1>3, <1>4, <1>6 DEF CheckHolds
  <2> QED BY <1>6, <2>1, <2>2 DEF CheckHolds
<1>9. CachesHold' /\ CacheTypes'  BY <1>2, KeepInv DEF chainVars
<1> QED BY <1>2, <1>6, <1>7, <1>8, <1>9, OneCheckInv DEF chainVars

LEMMA AnchoredInv == ASSUME IInv, NEW c \in Checks, Anchored(c) PROVE IInv'
<1> DEFINE r == check[c]
           a == AnchorOf(r.proof)
<1>1. /\ Ready(c, "header") /\ Left(c) = {} /\ Confirms(c) /\ DeepEnough(c) /\ Keep(c)
      /\ check' = [check EXCEPT ![c].proof = {a}, ![c].left = {}, ![c].height = 0,
                                ![c].step = "coin", ![c].block = Nothing, ![c].phase = "next",
                                ![c].value = Nothing, ![c].tip = 0]
      /\ UNCHANGED <<chainVars, anchors>>
  BY DEF Anchored
<1>2. r \in CheckSet /\ CheckHolds(r, Tip, chain, spent) /\ r.step = "header" /\ r.proof \in Proofs
  BY <1>1 DEF Ready, IInv, Types, ChecksHold, CheckHolds
<1>3. a \in r.proof /\ a \in Blocks /\ a[1] \in Nat  BY <1>2, AnchorInProof DEF Blocks
<1>4. /\ Reorg \in Nat /\ Mined \in Nat \ {0} /\ Deep \in Nat /\ Reorg + Mined <= Deep
      /\ r.height \in Nat /\ r.height <= Tip /\ Tip \in Nat
  BY <1>2, ChainAssumption DEF CheckSet, CheckHolds, IInv, Types
<1> HIDE DEF a
<1>5. a[1] + Deep <= r.height + 1  BY <1>1, <1>4, <1>3 DEF DeepEnough, a
<1>6. chain[a[1]] = a[2]  BY <1>1, <1>3, <1>5, ConfirmedStands
<1>7. Settled(a, Tip, chain)  BY <1>3, <1>4, <1>5, <1>6 DEF Settled
<1> DEFINE r2 == [r EXCEPT !.proof = {a}, !.left = {}, !.height = 0, !.step = "coin",
                           !.block = Nothing, !.phase = "next", !.value = Nothing, !.tip = 0]
<1>8. /\ r2 \in CheckSet /\ r2.height = 0 /\ r2.step = "coin" /\ r2.phase = "next" /\ r2.proof = {a}
  BY <1>2, <1>3 DEF CheckSet
<1>9. check' = [check EXCEPT ![c] = r2]  BY <1>1 DEF IInv, Types
<1> HIDE DEF r2
<1>10. CheckHolds(r2, Tip, chain, spent)
  <2>1. AnchorOf(r2.proof) = a  BY <1>3, <1>8, AnchorAlone
  <2> QED BY <1>4, <1>7, <1>8, <2>1 DEF CheckHolds
<1>11. CachesHold' /\ CacheTypes'  BY <1>1, KeepInv DEF chainVars
<1> QED BY <1>1, <1>8, <1>9, <1>10, <1>11, OneCheckInv DEF chainVars

LEMMA ResolveInv == ASSUME IInv, NEW c \in Checks, NEW verdict, Resolve(c, verdict) PROVE IInv'
<1>1. /\ Ready(c, "coin") /\ Keep(c) /\ Ends(c) /\ UNCHANGED chainVars
      /\ anchors' \subseteq anchors \cup {AnchorOf(check[c].proof)}
  BY DEF Resolve
<1>2. Settled(AnchorOf(check[c].proof), Tip, chain)
  BY <1>1 DEF Ready, IInv, ChecksHold, CheckHolds
<1>3. CachesHold' /\ CacheTypes'  BY <1>1, KeepInv DEF chainVars
<1> QED BY <1>1, <1>2, <1>3, EndsInv

LEMMA NextInv == ASSUME IInv, [Next]_vars PROVE IInv'
<1>1. ASSUME NEW r \in 0..Reorg, NewBlock(r) PROVE IInv'  BY <1>1, NewBlockInv
<1>2. CASE Tick  BY <1>2, TickInv
<1>3. ASSUME NEW c \in Checks, NEW s \in Sources, NEW proof \in Proofs, Begin(c, s, proof)
      PROVE  IInv'
  BY <1>3, BeginInv
<1>4. ASSUME NEW c \in Checks, Answer(c) PROVE IInv'  BY <1>4, AnswerInv
<1>5. ASSUME NEW c \in Checks, Works(c) PROVE IInv'
  BY <1>5, AskInv, TakeTipInv, NextHeaderInv, AnchoredInv DEF Works
<1>6. ASSUME NEW c \in Checks, Busy(c) PROVE IInv'
  <2>1. Ends(c) /\ UNCHANGED <<chainVars, cacheVars, anchors>>  BY <1>6 DEF Busy
  <2> QED BY <2>1, SameCaches, EndsInv
<1>7. ASSUME NEW c \in Checks, NotAnchored(c) PROVE IInv'
  <2>1. Ready(c, "header") /\ Keep(c) /\ Ends(c) /\ UNCHANGED <<chainVars, anchors>>
    BY <1>7 DEF NotAnchored
  <2> QED BY <2>1, KeepInv, EndsInv DEF chainVars
<1>8. ASSUME NEW c \in Checks, NEW verdict, Resolve(c, verdict) PROVE IInv'
  BY <1>8, ResolveInv
<1>9. CASE UNCHANGED vars
  BY <1>9 DEF vars, chainVars, cacheVars, IInv, Types, CachesHold, ChecksHold, Tip
<1> QED BY <1>1, <1>2, <1>3, <1>4, <1>5, <1>6, <1>7, <1>8, <1>9 DEF Next

-----------------------------------------------------------------------------
(* The budget.  A writer's minute starts with a read, everyone's may start    *)
(* with none; either way its first tick leaves the last Minute ticks no later *)
(* than its window ends.                                                     *)
WindowSet == [age : 0..(Minute - 1), n : Nat]
First(w) == IF w = "all" THEN 0 ELSE 1

\* What was charged to w, by how many ticks ago at most.
Past(w) == [age \in 0..(Minute - 1) |-> reads[age][w]]

\* Window x, with r charged to it, at least f when it starts and at most l.
WindowHolds(x, r, f, l) ==
    /\ r \in [0..(Minute - 1) -> Nat]
    /\ \A a, b \in 0..(Minute - 1) : a <= b => r[a] <= r[b]
    /\ x = Nothing => r[0] = 0 /\ r[Minute - 1] + f <= l
    /\ x # Nothing => /\ x \in WindowSet /\ x.n \in f..l /\ r[x.age] = x.n
                      /\ x.age > 0 => r[x.age - 1] + f <= x.n
                      /\ r[Minute - 1] + f <= x.n + l

BudgetInv ==
    /\ windows \in [Windows -> WindowSet \cup {Nothing}]
    /\ reads \in [0..(Minute - 1) -> [Windows -> Nat]]
    /\ \A w \in Windows : WindowHolds(windows[w], Past(w), First(w), Limit(w))

LEMMA MinuteNat == /\ Minute \in Nat \ {0} /\ Minute - 1 \in Nat
                   /\ 0 \in 0..(Minute - 1) /\ Minute - 1 \in 0..(Minute - 1)
                   /\ WindowSet \subseteq [age : Nat, n : Nat] /\ Nothing \notin WindowSet
BY ChainAssumption DEF WindowSet

LEMMA LimitNat == ASSUME NEW w \in Windows
                  PROVE  Limit(w) \in Nat \ {0} /\ First(w) \in {0, 1} /\ First(w) <= Limit(w)
BY ChainAssumption DEF Limit, First

LEMMA RunningHolds ==
    ASSUME NEW x \in WindowSet, NEW r \in [0..(Minute - 1) -> Nat], NEW f, NEW l,
           \A a, b \in 0..(Minute - 1) : a <= b => r[a] <= r[b],
           x.n \in f..l, r[x.age] = x.n, x.age > 0 => r[x.age - 1] + f <= x.n,
           r[Minute - 1] + f <= x.n + l
    PROVE  WindowHolds(x, r, f, l)
BY MinuteNat DEF WindowHolds

(* A tick later.                                                             *)
LEMMA WindowAges ==
    ASSUME NEW x, NEW r, NEW f \in {0, 1}, NEW l \in Nat, f <= l, WindowHolds(x, r, f, l), NEW r2,
           r2 = [age \in 0..(Minute - 1) |-> IF age = 0 THEN 0 ELSE r[age - 1]]
    PROVE  WindowHolds(Aged(x), r2, f, l)
<1> DEFINE m == Minute - 1
<1>1. m \in Nat /\ Minute = m + 1  BY MinuteNat
<1>2. /\ r \in [0..m -> Nat] /\ \A a, b \in 0..m : a <= b => r[a] <= r[b]
  BY DEF WindowHolds
<1>3. /\ r2 \in [0..m -> Nat] /\ \A a \in 0..m : a > 0 => r2[a] = r[a - 1] /\ a - 1 \in 0..m
      /\ r2[0] = 0
  BY <1>1, <1>2
<1>4. \A a, b \in 0..m : a <= b => r2[a] <= r2[b]
  <2> SUFFICES ASSUME NEW a \in 0..m, NEW b \in 0..m, a <= b PROVE r2[a] <= r2[b]
    OBVIOUS
  <2>1. CASE a = 0  BY <1>1, <1>3, <2>1
  <2>2. CASE a > 0
    <3>1. b > 0 /\ a - 1 <= b - 1  BY <1>1, <2>2
    <3> QED BY <1>2, <1>3, <2>2, <3>1
  <2> QED BY <1>1, <2>1, <2>2
<1>5. r2[m] <= r[m] /\ (m > 0 => r2[m] = r[m - 1])
  BY <1>1, <1>2, <1>3
<1>6. CASE x = Nothing
  <2>1. Aged(x) = Nothing  BY <1>6 DEF Aged
  <2>2. r[m] + f <= l /\ r[m] \in Nat /\ r2[m] \in Nat  BY <1>1, <1>2, <1>3, <1>6 DEF WindowHolds
  <2>3. r2[m] + f <= l  BY <1>5, <2>2
  <2> QED BY <1>3, <1>4, <2>1, <2>3 DEF WindowHolds
<1>7. CASE x # Nothing
  <2>1. /\ x \in WindowSet /\ x.n \in f..l /\ r[x.age] = x.n
        /\ x.age > 0 => r[x.age - 1] + f <= x.n
        /\ r[m] + f <= x.n + l
    BY <1>7 DEF WindowHolds
  <2>2. x.age \in 0..m /\ x.n \in Nat  BY <2>1 DEF WindowSet
  <2>3. CASE x.age = m
    <3>1. Aged(x) = Nothing  BY <1>1, <2>3, <1>7 DEF Aged
    <3>2. CASE m = 0  BY <1>3, <1>4, <3>1, <3>2 DEF WindowHolds
    <3>3. CASE m > 0
      <4>1. r[m - 1] \in Nat /\ r2[m] = r[m - 1] /\ r[m - 1] + f <= x.n
        BY <1>1, <1>2, <1>5, <2>1, <2>3, <3>3
      <4>2. r2[m] + f <= l  BY <2>1, <2>2, <4>1
      <4> QED BY <1>3, <1>4, <3>1, <4>2 DEF WindowHolds
    <3> QED BY <1>1, <3>2, <3>3
  <2>4. CASE x.age < m
    <3> DEFINE y == [x EXCEPT !.age = @ + 1]
    <3>1. Aged(x) = y  BY <1>1, <1>7, <2>2, <2>4 DEF Aged, Older
    <3>2. /\ y \in WindowSet /\ y.n = x.n /\ y.age = x.age + 1
      <4>1. x.age + 1 \in 0..(Minute - 1)  BY <1>1, <2>2, <2>4
      <4>2. x \in [age : 0..(Minute - 1), n : Nat]  BY <2>1 DEF WindowSet
      <4> QED BY <4>1, <4>2 DEF WindowSet
    <3> HIDE DEF y
    <3>3. y # Nothing  BY <3>2, MinuteNat
    <3>4. r2[y.age] = x.n
      <4>1. x.age + 1 \in 0..m /\ x.age + 1 > 0 /\ (x.age + 1) - 1 = x.age  BY <1>1, <2>2, <2>4
      <4>2. r2[x.age + 1] = r[(x.age + 1) - 1]  BY <1>3, <4>1
      <4> QED BY <2>1, <3>2, <4>1, <4>2
    <3>5. r2[y.age - 1] + f <= x.n
      <4>1. CASE x.age = 0  BY <1>3, <2>1, <2>2, <3>2, <4>1
      <4>2. CASE x.age > 0
        <5>1. r2[x.age] = r[x.age - 1]  BY <1>3, <2>2, <4>2
        <5> QED BY <2>1, <2>2, <3>2, <4>2, <5>1
      <4> QED BY <1>1, <2>2, <4>1, <4>2
    <3>6. r2[m] + f <= x.n + l
      <4>1. r2[m] \in Nat /\ r[m] \in Nat  BY <1>1, <1>2, <1>3
      <4> QED BY <1>5, <2>1, <2>2, <4>1
    <3> QED BY <1>3, <1>4, <2>1, <3>1, <3>2, <3>4, <3>5, <3>6, RunningHolds
  <2> QED BY <1>1, <2>2, <2>3, <2>4
<1> QED BY <1>6, <1>7

(* What a charge of k does to a window x and to the counts r of its minute.   *)
ChargedFrom(y, x, k) ==
    y = IF x # Nothing THEN [x EXCEPT !.n = @ + k] ELSE [age |-> 0, n |-> k]

RaisedBy(r2, r, k) == r2 = [age \in 0..(Minute - 1) |-> r[age] + k]

(* A read charged to a window with room.                                     *)
LEMMA WindowFills ==
    ASSUME NEW x, NEW r, NEW f \in {0, 1}, NEW l \in Nat \ {0}, f <= l, WindowHolds(x, r, f, l),
           NEW y, NEW r2, NEW k \in {f, 1}, x # Nothing => x.n + k <= l,
           ChargedFrom(y, x, k), RaisedBy(r2, r, k)
    PROVE  WindowHolds(y, r2, f, l)
<1> USE DEF ChargedFrom, RaisedBy
<1> DEFINE m == Minute - 1
<1>1. m \in Nat /\ Minute = m + 1  BY MinuteNat
<1>2. /\ r \in [0..m -> Nat] /\ \A a, b \in 0..m : a <= b => r[a] <= r[b]
  BY DEF WindowHolds
<1>3. /\ r2 \in [0..m -> Nat] /\ \A a \in 0..m : r2[a] = r[a] + k /\ r[a] \in Nat
      /\ 0 \in 0..m /\ m \in 0..m /\ k \in Nat /\ f \in Nat
  BY <1>1, <1>2
<1>4. \A a, b \in 0..m : a <= b => r2[a] <= r2[b]  BY <1>2, <1>3
<1>5. CASE x = Nothing
  <2>1. r[0] = 0 /\ r[m] + f <= l  BY <1>5 DEF WindowHolds
  <2>2. y = [age |-> 0, n |-> k] /\ y \in WindowSet  BY <1>3, <1>5 DEF WindowSet
  <2>3. y.n = k /\ y.age = 0  BY <2>2
  <2>4. k \in f..l /\ r2[0] = k /\ r2[m] + f <= k + l  BY <1>3, <2>1
  <2>5. y.n \in f..l /\ r2[y.age] = y.n /\ r2[m] + f <= y.n + l /\ ~(y.age > 0)
    BY <2>3, <2>4
  <2> QED BY <1>3, <1>4, <2>2, <2>5, RunningHolds
<1>6. CASE x # Nothing
  <2>1. /\ x \in WindowSet /\ x.n \in f..l /\ r[x.age] = x.n
        /\ x.age > 0 => r[x.age - 1] + f <= x.n
        /\ r[m] + f <= x.n + l
    BY <1>6 DEF WindowHolds
  <2>2. x.age \in 0..m /\ x.n \in Nat  BY <2>1 DEF WindowSet
  <2>3. y \in WindowSet /\ y.age = x.age /\ y.n = x.n + k
    BY <1>3, <1>6, <2>1, <2>2 DEF WindowSet
  <2>4. x.n + k <= l  BY <1>6
  <2>5. y.n \in f..l /\ r2[y.age] = y.n /\ r2[m] + f <= y.n + l
    <3>1. r2[x.age] = x.n + k  BY <1>3, <2>1, <2>2
    <3>2. r2[m] = r[m] + k /\ r[m] \in Nat  BY <1>3
    <3>3. x.n + k \in f..l  BY <1>3, <2>1, <2>2, <2>4
    <3>4. r2[m] + f <= x.n + k + l  BY <1>3, <2>1, <2>2, <3>2
    <3> QED BY <2>3, <3>1, <3>3, <3>4
  <2>6. ASSUME y.age > 0 PROVE r2[y.age - 1] + f <= y.n
    <3>1. x.age - 1 \in 0..m  BY <1>1, <2>2, <2>3, <2>6
    <3>2. r2[x.age - 1] = r[x.age - 1] + k /\ r[x.age - 1] \in Nat  BY <1>3, <3>1
    <3>3. r[x.age - 1] + f <= x.n  BY <2>1, <2>3, <2>6
    <3>4. r2[x.age - 1] + f <= x.n + k  BY <1>3, <2>2, <3>2, <3>3
    <3> QED BY <2>3, <3>4
  <2> QED BY <1>3, <1>4, <2>3, <2>5, <2>6, RunningHolds
<1> QED BY <1>5, <1>6

(* The same of window w and what was charged to it.                          *)
LEMMA WindowCharged ==
    ASSUME BudgetInv, NEW w \in Windows, NEW k \in {First(w), 1},
           windows[w] # Nothing => windows[w].n + k <= Limit(w)
    PROVE  \A r2 : r2 = [age \in 0..(Minute - 1) |-> Past(w)[age] + k]
                       => WindowHolds(Filled(w, k), r2, First(w), Limit(w))
<1> SUFFICES ASSUME NEW r2, r2 = [age \in 0..(Minute - 1) |-> Past(w)[age] + k]
             PROVE  WindowHolds(Filled(w, k), r2, First(w), Limit(w))
  OBVIOUS
<1> DEFINE x == windows[w]
           r == Past(w)
           f == First(w)
           l == Limit(w)
           y == Filled(w, k)
<1>1. f \in {0, 1} /\ l \in Nat \ {0} /\ f <= l /\ WindowHolds(x, r, f, l)
  BY LimitNat DEF BudgetInv
<1>2. ChargedFrom(y, x, k)  BY DEF Filled, Running, ChargedFrom
<1>3. RaisedBy(r2, r, k) /\ k \in {f, 1}  BY DEF RaisedBy
<1>4. x # Nothing => x.n + k <= l  OBVIOUS
<1> HIDE DEF x, r, f, l, y
<1>5. WindowHolds(y, r2, f, l)  BY <1>1, <1>2, <1>3, <1>4, WindowFills
<1> QED BY <1>5 DEF y, f, l

LEMMA InitBudget == Init => BudgetInv
<1> SUFFICES ASSUME Init PROVE BudgetInv
  OBVIOUS
<1>1. /\ windows = [w \in Windows |-> Nothing]
      /\ reads = [age \in 0..(Minute - 1) |-> [w \in Windows |-> 0]]
  BY DEF Init, Fresh, NoReads
<1>2. ASSUME NEW w \in Windows PROVE WindowHolds(windows[w], Past(w), First(w), Limit(w))
  <2>1. Past(w) = [age \in 0..(Minute - 1) |-> 0] /\ windows[w] = Nothing
    BY <1>1 DEF Past
  <2>2. Past(w)[0] = 0 /\ Past(w)[Minute - 1] = 0 /\ Past(w) \in [0..(Minute - 1) -> Nat]
    BY <2>1, MinuteNat
  <2>3. \A a, b \in 0..(Minute - 1) : a <= b => Past(w)[a] <= Past(w)[b]
    BY <2>1
  <2>4. 0 + First(w) <= Limit(w)  BY LimitNat
  <2> QED BY <2>1, <2>2, <2>3, <2>4 DEF WindowHolds
<1> QED BY <1>1, <1>2 DEF BudgetInv

LEMMA TickBudget == ASSUME BudgetInv, Tick PROVE BudgetInv'
<1>1. /\ windows' = [w \in DOMAIN windows |-> Aged(windows[w])]
      /\ reads' = [age \in DOMAIN reads |-> IF age = 0 THEN NoReads ELSE reads[age - 1]]
  BY DEF Tick
<1>2. DOMAIN windows = Windows /\ DOMAIN reads = 0..(Minute - 1)  BY DEF BudgetInv
<1>3. reads' \in [0..(Minute - 1) -> [Windows -> Nat]]
  <2>1. NoReads \in [Windows -> Nat]  BY DEF NoReads
  <2>2. ASSUME NEW age \in 0..(Minute - 1), age # 0 PROVE reads[age - 1] \in [Windows -> Nat]
    BY <2>2, MinuteNat DEF BudgetInv
  <2> QED BY <1>1, <1>2, <2>1, <2>2
<1>4. ASSUME NEW w \in Windows PROVE WindowHolds(windows'[w], Past(w)', First(w), Limit(w))
  <2>1. Past(w)' = [age \in 0..(Minute - 1) |-> IF age = 0 THEN 0 ELSE Past(w)[age - 1]]
    BY <1>1, <1>2, MinuteNat DEF Past, NoReads
  <2>2. windows'[w] = Aged(windows[w])  BY <1>1, <1>2
  <2>3. /\ Limit(w) \in Nat /\ First(w) \in {0, 1} /\ First(w) <= Limit(w)
        /\ WindowHolds(windows[w], Past(w), First(w), Limit(w))
    BY LimitNat DEF BudgetInv
  <2> QED BY <2>1, <2>2, <2>3, WindowAges
<1>5. windows' \in [Windows -> WindowSet \cup {Nothing}]
  BY <1>1, <1>2, <1>4 DEF WindowHolds
<1> QED BY <1>3, <1>4, <1>5 DEF BudgetInv

LEMMA ChargeBudget == ASSUME BudgetInv, NEW s \in Sources, Affordable(s), Charge(s)
                      PROVE  BudgetInv'
<1>1. /\ windows' = [windows EXCEPT !["all"] = Filled("all", 1), ![s] = Filled(s, 1)]
      /\ reads' = [age \in DOMAIN reads |-> [reads[age] EXCEPT !["all"] = @ + 1, ![s] = @ + 1]]
  BY DEF Charge
<1>2. /\ DOMAIN windows = Windows /\ DOMAIN reads = 0..(Minute - 1)
      /\ reads \in [0..(Minute - 1) -> [Windows -> Nat]]
      /\ s # "all" /\ s \in Windows /\ "all" \in Windows
  BY ChainAssumption DEF BudgetInv, Windows
<1>3. reads' \in [0..(Minute - 1) -> [Windows -> Nat]]
  <2>1. ASSUME NEW age \in 0..(Minute - 1)
        PROVE  [reads[age] EXCEPT !["all"] = @ + 1, ![s] = @ + 1] \in [Windows -> Nat]
    BY <1>2
  <2> QED BY <1>1, <1>2, <2>1
<1>4. ASSUME NEW w \in {"all", s} PROVE WindowHolds(windows'[w], Past(w)', First(w), Limit(w))
  <2>1. windows'[w] = Filled(w, 1)  BY <1>1, <1>2
  <2>2. Past(w)' = [age \in 0..(Minute - 1) |-> Past(w)[age] + 1]
    BY <1>1, <1>2 DEF Past
  <2>3. w \in Windows /\ Room(w) /\ WindowHolds(windows[w], Past(w), First(w), Limit(w))
    BY <1>2 DEF Affordable, BudgetInv
  <2>4. windows[w] # Nothing => windows[w].n + 1 <= Limit(w)
    BY <2>3, LimitNat DEF Room, Running, WindowHolds, WindowSet
  <2> HIDE DEF Past
  <2>5. WindowHolds(Filled(w, 1), Past(w)', First(w), Limit(w))  BY <2>2, <2>3, <2>4, WindowCharged
  <2> QED BY <2>1, <2>5
<1>5. ASSUME NEW w \in Windows \ {"all", s}
      PROVE  WindowHolds(windows'[w], Past(w)', First(w), Limit(w))
  <2>1. windows'[w] = windows[w] /\ Past(w)' = Past(w)
    BY <1>1, <1>2 DEF Past
  <2> QED BY <2>1 DEF BudgetInv
<1>6. windows' \in [Windows -> WindowSet \cup {Nothing}]
  BY <1>1, <1>2, <1>4, <1>5 DEF WindowHolds, BudgetInv
<1> QED BY <1>3, <1>4, <1>5, <1>6 DEF BudgetInv

LEMMA DenyBudget == ASSUME BudgetInv, Deny PROVE BudgetInv'
<1>1. /\ windows' = [windows EXCEPT !["all"] = IF Room("all") THEN Filled("all", 0) ELSE @]
      /\ reads' = reads
  BY DEF Deny
<1>2. DOMAIN windows = Windows /\ "all" \in Windows  BY DEF BudgetInv, Windows
<1>3. ASSUME NEW w \in Windows PROVE Past(w)' = Past(w)  BY <1>1 DEF Past
<1>4. ASSUME NEW w \in Windows, windows'[w] = windows[w]
      PROVE  WindowHolds(windows'[w], Past(w)', First(w), Limit(w))
  BY <1>3, <1>4 DEF BudgetInv
<1>5. ASSUME windows'["all"] # windows["all"]
      PROVE  WindowHolds(windows'["all"], Past("all")', First("all"), Limit("all"))
  <2>1. Room("all") /\ windows'["all"] = Filled("all", 0)  BY <1>1, <1>2, <1>5
  <2>2. /\ Limit("all") \in Nat \ {0} /\ First("all") = 0
        /\ WindowHolds(windows["all"], Past("all"), 0, Limit("all"))
    BY <1>2, LimitNat DEF BudgetInv, First
  <2>3. windows["all"] # Nothing => windows["all"].n + 0 <= Limit("all")
    BY <2>2 DEF WindowHolds, WindowSet
  <2>5. Past("all")' = [age \in 0..(Minute - 1) |-> Past("all")[age] + 0]
    <3>1. Past("all") \in [0..(Minute - 1) -> Nat]  BY <2>2 DEF WindowHolds
    <3>2. ASSUME NEW age \in 0..(Minute - 1) PROVE Past("all")[age] + 0 = Past("all")[age]
      <4>1. Past("all")[age] \in Nat  BY <3>1
      <4>2. \A k \in Nat : k + 0 = k  OBVIOUS
      <4> QED BY <4>1, <4>2
    <3>3. Past("all") = [age \in 0..(Minute - 1) |-> Past("all")[age]]  BY <3>1
    <3> HIDE DEF Past
    <3>4. Past("all") = [age \in 0..(Minute - 1) |-> Past("all")[age] + 0]  BY <3>2, <3>3
    <3> QED BY <1>2, <1>3, <3>4
  <2>6. WindowHolds(Filled("all", 0), Past("all")', First("all"), Limit("all"))
    BY <1>2, <2>2, <2>3, <2>5, WindowCharged
  <2> QED BY <2>1, <2>6
<1>6. \A w \in Windows \ {"all"} : windows'[w] = windows[w]  BY <1>1, <1>2
<1>7. \A w \in Windows : WindowHolds(windows'[w], Past(w)', First(w), Limit(w))
  BY <1>4, <1>5, <1>6
<1>8. windows' \in [Windows -> WindowSet \cup {Nothing}]
  BY <1>1, <1>2, <1>7 DEF WindowHolds, BudgetInv
<1> QED BY <1>1, <1>7, <1>8 DEF BudgetInv

LEMMA NextBudget == ASSUME IInv, BudgetInv, [Next]_vars PROVE BudgetInv'
<1>1. ASSUME UNCHANGED budgetVars PROVE BudgetInv'
  BY <1>1 DEF budgetVars, BudgetInv, Past, WindowHolds
<1>2. CASE Tick  BY <1>2, TickBudget
<1>3. ASSUME NEW c \in Checks, Ask(c) PROVE BudgetInv'
  <2>1. check[c].source \in Sources  BY <1>3 DEF Ask, In, IInv, Types, CheckSet
  <2> QED BY <1>3, <2>1, ChargeBudget DEF Ask
<1>4. ASSUME NEW c \in Checks, Busy(c) PROVE BudgetInv'
  BY <1>1, <1>4, DenyBudget DEF Busy
<1>5. ASSUME NEW c \in Checks, TakeTip(c) \/ NextHeader(c) \/ Anchored(c) \/ NotAnchored(c) \/ Answer(c)
      PROVE  BudgetInv'
  BY <1>1, <1>5 DEF TakeTip, NextHeader, Anchored, NotAnchored, Answer
<1>6. ASSUME NEW c \in Checks, NEW s \in Sources, NEW proof \in Proofs, Begin(c, s, proof)
      PROVE  BudgetInv'
  BY <1>1, <1>6 DEF Begin
<1>7. ASSUME NEW c \in Checks, NEW verdict, Resolve(c, verdict) PROVE BudgetInv'
  BY <1>1, <1>7 DEF Resolve
<1>8. ASSUME NEW r \in 0..Reorg, NewBlock(r) PROVE BudgetInv'  BY <1>1, <1>8 DEF NewBlock
<1>9. CASE UNCHANGED vars  BY <1>1, <1>9 DEF vars
<1> QED BY <1>2, <1>3, <1>4, <1>5, <1>6, <1>7, <1>8, <1>9 DEF Next, Works

-----------------------------------------------------------------------------
(* The shape of checks and caches.                                           *)
CheckShape(r, n) ==
    /\ r.left \subseteq r.proof
    /\ r.phase # "answered" => r.value = Nothing /\ r.tip = 0
    /\ r.phase = "answered" => FirstTip <= r.tip /\ (r.step = "coin" => r.value <= n)

CacheShape ==
    /\ tipCache # Nothing => FirstTip <= tipCache.height /\ tipCache.age <= Minute
    /\ Cardinality(DOMAIN headerCache) <= CacheMax
    /\ coinCache # Nothing => coinCache.spend <= Tip /\ coinCache.age < Minute

ChecksShape == \A c \in Checks : check[c] # Nothing => CheckShape(check[c], Tip)

ShapeInv == Tip <= LastTip /\ CacheShape /\ ChecksShape

LEMMA ShapeNat == ASSUME IInv
                  PROVE  /\ Tip \in Nat /\ FirstTip \in Nat \ {0} /\ LastTip \in Nat /\ FirstTip <= Tip
                         /\ Minute \in Nat \ {0} /\ CacheMax \in Nat \ {0}
BY ChainAssumption DEF IInv, Types

LEMMA InitShape == Init => ShapeInv
<1> SUFFICES ASSUME Init PROVE ShapeInv
  OBVIOUS
<1>1. /\ chain = [h \in 1..FirstTip |-> 0] /\ FirstTip \in Nat /\ FirstTip <= LastTip
      /\ tipCache = Nothing /\ coinCache = Nothing /\ headerCache = NoHeaders
      /\ check = [c \in Checks |-> Nothing]
  BY ChainAssumption DEF Init, Fresh
<1>2. Tip = FirstTip  BY <1>1, TipIsLength DEF Tip
<1>3. Cardinality(DOMAIN headerCache) = 0  BY <1>1, FS_EmptySet DEF NoHeaders
<1>4. CacheShape  BY <1>1, <1>3, ChainAssumption DEF CacheShape
<1>5. ChecksShape  BY <1>1 DEF ChecksShape
<1> QED BY <1>1, <1>2, <1>4, <1>5 DEF ShapeInv

LEMMA NewBlockShape == ASSUME IInv, ShapeInv, NEW r \in 0..Reorg, NewBlock(r) PROVE ShapeInv'
<1>1. /\ Tip' = Tip + 1 /\ Tip < LastTip /\ check' = check
      /\ tipCache' = tipCache /\ headerCache' = headerCache /\ coinCache' = coinCache
  BY NewBlockKeeps DEF IInv, NewBlock, cacheVars
<1>2. CacheShape'
  <2>1. coinCache # Nothing => coinCache.spend <= Tip + 1
    BY ShapeNat DEF ShapeInv, CacheShape, IInv, Types, CoinSet
  <2> QED BY <1>1, <2>1 DEF ShapeInv, CacheShape
<1>3. ChecksShape'
  <2> SUFFICES ASSUME NEW c \in Checks, check[c] # Nothing PROVE CheckShape(check[c], Tip + 1)
    BY <1>1 DEF ChecksShape
  <2> DEFINE q == check[c]
  <2>1. q \in CheckSet /\ CheckShape(q, Tip) /\ CheckHolds(q, Tip, chain, spent)
    BY DEF IInv, Types, ShapeInv, ChecksShape, ChecksHold
  <2>2. q.phase = "answered" /\ q.step = "coin" => q.value \in Nat
    BY <2>1 DEF CheckHolds, AnswerHolds
  <2>3. q.phase = "answered" /\ q.step = "coin" => q.value <= Tip + 1
    BY <2>1, <2>2, ShapeNat DEF CheckShape
  <2> QED BY <2>1, <2>3 DEF CheckShape
<1>4. Tip' <= LastTip  BY <1>1, ShapeNat
<1> QED BY <1>2, <1>3, <1>4 DEF ShapeInv

LEMMA TickShape == ASSUME IInv, ShapeInv, Tick PROVE ShapeInv'
<1>1. /\ tipCache' = IF tipCache = Nothing THEN Nothing ELSE Older(tipCache)
      /\ coinCache' = IF coinCache # Nothing /\ coinCache.final THEN coinCache ELSE Aged(coinCache)
      /\ chain' = chain /\ headerCache' = headerCache /\ check' = check /\ Tip' = Tip
  BY DEF Tick, chainVars, Tip
<1>2. \A x \in TipSet : x.age <= Minute => Older(x).height = x.height /\ Older(x).age <= Minute
  BY ShapeNat DEF Older, TipSet
<1>3. \A x \in CoinSet : x.age < Minute /\ x.age + 1 # Minute =>
                             Older(x).spend = x.spend /\ Older(x).age < Minute
  BY ShapeNat DEF Older, CoinSet
<1>4. tipCache' # Nothing => FirstTip <= tipCache'.height /\ tipCache'.age <= Minute
  BY <1>1, <1>2 DEF IInv, Types, ShapeInv, CacheShape
<1>5. coinCache' # Nothing => coinCache'.spend <= Tip /\ coinCache'.age < Minute
  BY <1>1, <1>3 DEF IInv, Types, ShapeInv, CacheShape, Aged
<1> QED BY <1>1, <1>4, <1>5 DEF ShapeInv, CacheShape, ChecksShape

(* A full cache forgets a header before it keeps one.                        *)
LEMMA HeadersFit ==
    ASSUME IInv, ShapeInv, NEW h, NEW v, headerCache' \in Remembered(h, v)
    PROVE  Cardinality(DOMAIN headerCache') <= CacheMax
<1> DEFINE D == DOMAIN headerCache
           full == Cardinality(D) >= CacheMax
<1>1. PICK gone \in IF full THEN {{k} : k \in D} ELSE {{}} :
          headerCache' = [k \in (D \ gone) \cup {h} |-> IF k = h THEN v ELSE headerCache[k]]
  BY DEF Remembered
<1>2. DOMAIN headerCache' = (D \ gone) \cup {h}  BY <1>1
<1>3. D \subseteq 1..Tip
  <2> SUFFICES ASSUME NEW k \in D PROVE k \in 1..Tip
    OBVIOUS
  <2>1. k \in Nat \ {0} /\ k + Reorg <= Tip  BY DEF IInv, CachesHold
  <2> QED BY <2>1, ShapeNat, ChainAssumption
<1>4. IsFiniteSet(D) /\ Cardinality(D) \in Nat /\ Cardinality(D) <= CacheMax
  <2>1. IsFiniteSet(1..Tip)  BY ShapeNat, FS_Interval
  <2>2. IsFiniteSet(D)  BY <1>3, <2>1, FS_Subset
  <2> QED BY <2>2, FS_CardinalityType DEF ShapeInv, CacheShape
<1> HIDE DEF D
<1>5. IsFiniteSet(D \ gone) /\ Cardinality(D \ gone) \in Nat /\ Cardinality(D \ gone) + 1 <= CacheMax
  <2>1. CASE full
    <3>1. PICK k \in D : gone = {k}  BY <1>1, <2>1
    <3>2. IsFiniteSet(D \ {k}) /\ Cardinality(D \ {k}) = Cardinality(D) - 1
      BY <1>4, <3>1, FS_RemoveElement
    <3>3. Cardinality(D \ {k}) \in Nat  BY <3>2, FS_CardinalityType
    <3> QED BY <1>4, <3>1, <3>2, <3>3, ShapeNat
  <2>2. CASE ~full
    <3>1. D \ gone = D  BY <1>1, <2>2
    <3> QED BY <1>4, <2>2, <3>1, ShapeNat
  <2> QED BY <2>1, <2>2
<1>6. Cardinality((D \ gone) \cup {h}) <= Cardinality(D \ gone) + 1
  BY <1>5, FS_AddElement
<1>7. IsFiniteSet((D \ gone) \cup {h}) /\ Cardinality((D \ gone) \cup {h}) \in Nat
  BY <1>5, FS_AddElement, FS_CardinalityType
<1> QED BY <1>2, <1>5, <1>6, <1>7, ShapeNat

LEMMA KeepShape ==
    ASSUME IInv, ShapeInv, NEW c \in Checks, NEW step, Ready(c, step), Keep(c), chain' = chain
    PROVE  CacheShape'
<1> DEFINE r == check[c]
<1>0. /\ Tip' = Tip /\ r \in CheckSet /\ CheckShape(r, Tip) /\ CheckHolds(r, Tip, chain, spent)
      /\ CacheShape
  BY DEF Tip, Ready, IInv, Types, ChecksHold, ShapeInv, ChecksShape
<1>1. CASE r.phase # "answered"
  BY <1>0, <1>1 DEF Keep, cacheVars, CacheShape
<1>2. CASE r.phase = "answered" /\ r.step = "tip"
  <2>1. tipCache' = [height |-> Value(c), age |-> 0] /\ UNCHANGED <<headerCache, coinCache>>
    BY <1>2 DEF Keep
  <2>2. FirstTip <= Value(c)
    BY <1>0, <1>2 DEF Value, CheckShape, CheckHolds, AnswerHolds
  <2> QED BY <1>0, <2>1, <2>2, ShapeNat DEF CacheShape
<1>3. CASE r.phase = "answered" /\ r.step = "header"
  <2>1. /\ UNCHANGED <<tipCache, coinCache>>
        /\ headerCache' = headerCache \/ headerCache' \in Remembered(r.block[1], Value(c))
    BY <1>3 DEF Keep
  <2>2. Cardinality(DOMAIN headerCache') <= CacheMax  BY <1>0, <2>1, HeadersFit DEF CacheShape
  <2> QED BY <1>0, <2>1, <2>2 DEF CacheShape
<1>4. CASE r.phase = "answered" /\ r.step = "coin"
  <2>1. /\ coinCache' = [spend |-> Value(c), age |-> 0, final |-> Value(c) # 0 /\ Buried(Value(c))]
        /\ UNCHANGED <<tipCache, headerCache>>
    BY <1>4 DEF Keep
  <2>2. Value(c) <= Tip  BY <1>0, <1>4 DEF Value, CheckShape
  <2>3. coinCache'.spend <= Tip /\ coinCache'.age < Minute  BY <2>1, <2>2, ShapeNat
  <2> QED BY <1>0, <2>1, <2>3 DEF CacheShape
<1> QED BY <1>0, <1>1, <1>2, <1>3, <1>4 DEF CheckSet

LEMMA OneShape ==
    ASSUME IInv, ShapeInv, NEW c \in Checks, NEW r2, check' = [check EXCEPT ![c] = r2],
           r2 # Nothing => CheckShape(r2, Tip), chain' = chain, CacheShape'
    PROVE  ShapeInv'
<1>1. Tip' = Tip  BY DEF Tip
<1>2. ChecksShape'
  <2> SUFFICES ASSUME NEW d \in Checks, check'[d] # Nothing PROVE CheckShape(check'[d], Tip)
    BY <1>1 DEF ChecksShape
  <2>1. CASE d = c  BY <2>1 DEF IInv, Types
  <2>2. CASE d # c  BY <2>2 DEF IInv, Types, ShapeInv, ChecksShape
  <2> QED BY <2>1, <2>2
<1> QED BY <1>1, <1>2 DEF ShapeInv

LEMMA SameShape == ASSUME ShapeInv, UNCHANGED <<chainVars, cacheVars>> PROVE CacheShape'
BY DEF ShapeInv, CacheShape, chainVars, cacheVars, Tip

LEMMA EndsShape == ASSUME IInv, ShapeInv, NEW c \in Checks, Ends(c), chain' = chain, CacheShape'
                   PROVE  ShapeInv'
BY OneShape DEF Ends

(* A check that goes on to its next read has no answer yet.                  *)
LEMMA GoesOn ==
    ASSUME IInv, ShapeInv, NEW c \in Checks, NEW step, Ready(c, step), Keep(c), chain' = chain,
           NEW r2, check' = [check EXCEPT ![c] = r2], r2.left \subseteq r2.proof,
           r2.phase = "next", r2.value = Nothing, r2.tip = 0
    PROVE  ShapeInv'
<1>1. CheckShape(r2, Tip)  BY DEF CheckShape
<1> QED BY <1>1, KeepShape, OneShape

LEMMA TakeTipShape == ASSUME IInv, ShapeInv, NEW c \in Checks, TakeTip(c) PROVE ShapeInv'
<1> DEFINE r == check[c]
<1>1. PICK block \in r.left :
          check' = [check EXCEPT ![c].height = Value(c), ![c].step = "header", ![c].block = block,
                                 ![c].phase = "next", ![c].value = Nothing, ![c].tip = 0]
  BY DEF TakeTip
<1>2. Ready(c, "tip") /\ Keep(c) /\ chain' = chain  BY DEF TakeTip, chainVars
<1>3. r \in CheckSet /\ r.left \subseteq r.proof
  BY <1>2 DEF Ready, IInv, Types, ShapeInv, ChecksShape, CheckShape
<1> DEFINE r2 == [r EXCEPT !.height = Value(c), !.step = "header", !.block = block,
                           !.phase = "next", !.value = Nothing, !.tip = 0]
<1>4. check' = [check EXCEPT ![c] = r2]  BY <1>1 DEF IInv, Types
<1>5. /\ r2.left = r.left /\ r2.proof = r.proof
      /\ r2.phase = "next" /\ r2.value = Nothing /\ r2.tip = 0
  BY <1>3 DEF CheckSet
<1> HIDE DEF r2
<1> QED BY <1>2, <1>3, <1>4, <1>5, GoesOn

LEMMA NextHeaderShape == ASSUME IInv, ShapeInv, NEW c \in Checks, NextHeader(c) PROVE ShapeInv'
<1> DEFINE r == check[c]
<1>1. PICK block \in Left(c) :
          check' = [check EXCEPT ![c].left = Left(c), ![c].ok = Confirms(c), ![c].block = block,
                                 ![c].phase = "next", ![c].value = Nothing, ![c].tip = 0]
  BY DEF NextHeader
<1>2. Ready(c, "header") /\ Keep(c) /\ chain' = chain  BY DEF NextHeader, chainVars
<1>3. r \in CheckSet /\ Left(c) \subseteq r.proof
  BY <1>2 DEF Ready, IInv, Types, ShapeInv, ChecksShape, CheckShape, Left
<1> DEFINE r2 == [r EXCEPT !.left = Left(c), !.ok = Confirms(c), !.block = block,
                           !.phase = "next", !.value = Nothing, !.tip = 0]
<1>4. check' = [check EXCEPT ![c] = r2]  BY <1>1 DEF IInv, Types
<1>5. /\ r2.left = Left(c) /\ r2.proof = r.proof
      /\ r2.phase = "next" /\ r2.value = Nothing /\ r2.tip = 0
  BY <1>3 DEF CheckSet
<1> HIDE DEF r2
<1> QED BY <1>2, <1>3, <1>4, <1>5, GoesOn

LEMMA AnchoredShape == ASSUME IInv, ShapeInv, NEW c \in Checks, Anchored(c) PROVE ShapeInv'
<1> DEFINE r == check[c]
           a == AnchorOf(r.proof)
<1>1. /\ Ready(c, "header") /\ Keep(c) /\ chain' = chain
      /\ check' = [check EXCEPT ![c].proof = {a}, ![c].left = {}, ![c].height = 0,
                                ![c].step = "coin", ![c].block = Nothing, ![c].phase = "next",
                                ![c].value = Nothing, ![c].tip = 0]
  BY DEF Anchored, chainVars
<1>2. r \in CheckSet  BY <1>1 DEF Ready, IInv, Types
<1> HIDE DEF a
<1> DEFINE r2 == [r EXCEPT !.proof = {a}, !.left = {}, !.height = 0, !.step = "coin",
                           !.block = Nothing, !.phase = "next", !.value = Nothing, !.tip = 0]
<1>3. check' = [check EXCEPT ![c] = r2]  BY <1>1 DEF IInv, Types
<1>4. /\ r2.left = {} /\ r2.proof = {a}
      /\ r2.phase = "next" /\ r2.value = Nothing /\ r2.tip = 0
  BY <1>2 DEF CheckSet
<1> HIDE DEF r2
<1> QED BY <1>1, <1>3, <1>4, GoesOn

LEMMA AskShape == ASSUME IInv, ShapeInv, NEW c \in Checks, Ask(c) PROVE ShapeInv'
<1> DEFINE r == check[c]
           r2 == [r EXCEPT !.phase = "asked"]
<1>1. /\ r # Nothing /\ r.phase = "next" /\ check' = [check EXCEPT ![c].phase = "asked"]
      /\ UNCHANGED <<chainVars, cacheVars>>
  BY DEF Ask, In
<1>2. r \in CheckSet /\ CheckShape(r, Tip)
  BY <1>1 DEF IInv, Types, ShapeInv, ChecksShape
<1>3. /\ r2.phase = "asked" /\ r2.left = r.left /\ r2.proof = r.proof
      /\ r2.value = r.value /\ r2.tip = r.tip
  BY <1>2 DEF CheckSet
<1>4. check' = [check EXCEPT ![c] = r2]  BY <1>1 DEF IInv, Types
<1> HIDE DEF r2
<1>5. CheckShape(r2, Tip)  BY <1>1, <1>2, <1>3 DEF CheckShape
<1> QED BY <1>1, <1>4, <1>5, SameShape, OneShape DEF chainVars

LEMMA AnswerShape == ASSUME IInv, ShapeInv, NEW c \in Checks, Answer(c) PROVE ShapeInv'
<1> DEFINE r == check[c]
           now == CASE check[c].step = "tip" -> Tip
                    [] check[c].step = "coin" -> spent
                    [] OTHER -> IF check[c].block[1] <= Tip THEN chain[check[c].block[1]]
                                                            ELSE Nothing
           r2 == [r EXCEPT !.phase = "answered", !.value = now, !.tip = Tip]
<1>1. /\ r # Nothing /\ UNCHANGED <<chainVars, cacheVars>>
      /\ check' = [check EXCEPT ![c].phase = "answered", ![c].value = now, ![c].tip = Tip]
  BY DEF Answer, In
<1>2. r \in CheckSet /\ CheckShape(r, Tip) /\ spent \in 0..Tip
  BY <1>1 DEF IInv, Types, ShapeInv, ChecksShape
<1>3. r.step = "coin" => now = spent  OBVIOUS
<1> HIDE DEF now
<1>4. /\ r2.phase = "answered" /\ r2.left = r.left /\ r2.proof = r.proof /\ r2.step = r.step
      /\ r2.value = now /\ r2.tip = Tip
  BY <1>2 DEF CheckSet
<1>5. check' = [check EXCEPT ![c] = r2]  BY <1>1 DEF IInv, Types
<1> HIDE DEF r2
<1>6. FirstTip <= Tip /\ (r.step = "coin" => now <= Tip)  BY <1>2, <1>3, ShapeNat
<1>7. CheckShape(r2, Tip)  BY <1>2, <1>4, <1>6 DEF CheckShape
<1> QED BY <1>1, <1>5, <1>7, SameShape, OneShape DEF chainVars

LEMMA NextShape == ASSUME IInv, ShapeInv, [Next]_vars PROVE ShapeInv'
<1>1. ASSUME NEW r \in 0..Reorg, NewBlock(r) PROVE ShapeInv'  BY <1>1, NewBlockShape
<1>2. CASE Tick  BY <1>2, TickShape
<1>3. ASSUME NEW c \in Checks, NEW s \in Sources, NEW proof \in Proofs, Begin(c, s, proof)
      PROVE  ShapeInv'
  <2> DEFINE r == [source |-> s, proof |-> proof, left |-> proof, ok |-> TRUE, height |-> 0,
                   step |-> "tip", block |-> Nothing, phase |-> "next", value |-> Nothing, tip |-> 0]
  <2>1. check' = [check EXCEPT ![c] = r] /\ UNCHANGED <<chainVars, cacheVars>>
    BY <1>3 DEF Begin
  <2>2. CheckShape(r, Tip)  BY DEF CheckShape
  <2> HIDE DEF r
  <2> QED BY <2>1, <2>2, SameShape, OneShape DEF chainVars
<1>4. ASSUME NEW c \in Checks, Answer(c) PROVE ShapeInv'  BY <1>4, AnswerShape
<1>5. ASSUME NEW c \in Checks, Works(c) PROVE ShapeInv'
  BY <1>5, AskShape, TakeTipShape, NextHeaderShape, AnchoredShape DEF Works
<1>6. ASSUME NEW c \in Checks, Busy(c) PROVE ShapeInv'
  <2>1. Ends(c) /\ UNCHANGED <<chainVars, cacheVars>>  BY <1>6 DEF Busy
  <2> QED BY <2>1, SameShape, EndsShape DEF chainVars
<1>7. ASSUME NEW c \in Checks, NotAnchored(c) PROVE ShapeInv'
  <2>1. Ready(c, "header") /\ Keep(c) /\ Ends(c) /\ chain' = chain
    BY <1>7 DEF NotAnchored, chainVars
  <2> QED BY <2>1, KeepShape, EndsShape
<1>8. ASSUME NEW c \in Checks, NEW verdict, Resolve(c, verdict) PROVE ShapeInv'
  <2>1. Ready(c, "coin") /\ Keep(c) /\ Ends(c) /\ chain' = chain
    BY <1>8 DEF Resolve, chainVars
  <2> QED BY <2>1, KeepShape, EndsShape
<1>9. CASE UNCHANGED vars
  BY <1>9 DEF vars, chainVars, cacheVars, ShapeInv, CacheShape, ChecksShape, Tip
<1> QED BY <1>1, <1>2, <1>3, <1>4, <1>5, <1>6, <1>7, <1>8, <1>9 DEF Next

-----------------------------------------------------------------------------
(* "Only a header buried 6 deep is kept" and "a spend buried 6 deep does not *)
(* change" (rules.mjs:149, 162): what is kept for good agrees with the chain *)
(* for ever, although an answer may be as old as Mined blocks and the tip    *)
(* that buries it younger.                                                   *)
THEOREM KeptIsFinal == Spec => []FinalIsFinal
<1>1. IInv => FinalIsFinal  BY DEF IInv, CachesHold, FinalIsFinal
<1> QED BY InitInv, NextInv, <1>1, PTL DEF Spec

(* The block that anchors an admitted claim is not replaced, although the    *)
(* tip it is measured against may be a minute old (rules.mjs:236).           *)
THEOREM AdmittedAnchorsStand == Spec => []AnchorsStand
<1>1. IInv => AnchorsStand  BY DEF IInv, Settled, AnchorsStand
<1> QED BY InitInv, NextInv, <1>1, PTL DEF Spec

(* LIMITS.chainReads and chainReadsPerSource bound a minute that starts with *)
(* a read: over any Minute ticks one writer reads less than twice its limit, *)
(* and all together at most twice theirs (windows, rules.mjs:94).            *)
THEOREM BudgetKept == Spec => []BudgetHeld
<1>1. ASSUME BudgetInv PROVE BudgetHeld
  <2>1. ASSUME NEW w \in Windows PROVE reads[Minute - 1][w] + First(w) <= 2 * Limit(w)
    <3> DEFINE x == windows[w]
               r == Past(w)[Minute - 1]
               l == Limit(w)
               f == First(w)
    <3>1. WindowHolds(x, Past(w), f, l) /\ l \in Nat /\ f \in {0, 1}  BY <1>1, LimitNat DEF BudgetInv
    <3>2. r \in Nat  BY <3>1, MinuteNat DEF WindowHolds
    <3>3. x = Nothing => r + f <= l  BY <3>1 DEF WindowHolds
    <3>4. x # Nothing => x.n \in Nat /\ x.n <= l /\ r + f <= x.n + l  BY <3>1 DEF WindowHolds, WindowSet
    <3>5. r = reads[Minute - 1][w]  BY MinuteNat DEF Past
    <3> HIDE DEF x, r, l, f
    <3>6. r + f <= 2 * l  BY <3>1, <3>2, <3>3, <3>4
    <3> QED BY <3>5, <3>6 DEF l, f
  <2>2. /\ reads[Minute - 1]["all"] + 0 <= 2 * ReadsAll
        /\ \A s \in Sources : reads[Minute - 1][s] + 1 <= 2 * ReadsEach
    BY <2>1, ChainAssumption DEF Windows, First, Limit
  <2>3. \A w \in Windows : reads[Minute - 1][w] \in Nat  BY <1>1, MinuteNat DEF BudgetInv
  <2> QED BY <2>2, <2>3, ChainAssumption DEF BudgetHeld, Windows
<1>2. Spec => [](IInv /\ BudgetInv)
  <2>1. IInv /\ BudgetInv /\ [Next]_vars => (IInv /\ BudgetInv)'  BY NextInv, NextBudget
  <2> QED BY InitInv, InitBudget, <2>1, PTL DEF Spec
<1> QED BY <1>1, <1>2, PTL

(* Every variable has its type, a minute counts no more than its limit, the   *)
(* caches keep within theirs, and only an answered check holds an answer.    *)
THEOREM ChainTyped == Spec => []TypeOK
<1>1. ASSUME IInv, BudgetInv, ShapeInv PROVE TypeOK
  <2>1. chain \in [1..Tip -> Nat] /\ Tip \in FirstTip..LastTip /\ spent \in 0..Tip
    BY <1>1, ShapeNat DEF IInv, Types, ShapeInv
  <2>2. ASSUME NEW w \in Windows, Running(w)
        PROVE  windows[w].age \in 0..(Minute - 1) /\ windows[w].n \in 0..Limit(w)
    <3>1. windows[w] \in WindowSet /\ windows[w].n \in First(w)..Limit(w)
      BY <1>1, <2>2 DEF BudgetInv, WindowHolds, Running
    <3> QED BY <3>1, LimitNat DEF WindowSet
  <2>3. ASSUME NEW c \in Checks, check[c] # Nothing
        PROVE  /\ check[c].source \in Sources /\ check[c].left \subseteq check[c].proof
               /\ check[c].height \in 0..Tip /\ check[c].tip \in 0..Tip
               /\ check[c].phase # "answered" => check[c].value = Nothing /\ check[c].tip = 0
    <3> DEFINE r == check[c]
    <3>1. r \in CheckSet /\ CheckHolds(r, Tip, chain, spent) /\ CheckShape(r, Tip)
      BY <1>1, <2>3 DEF IInv, Types, ChecksHold, ShapeInv, ChecksShape
    <3>2. r.source \in Sources /\ r.height \in Nat /\ r.tip \in Nat /\ r.height <= Tip
      BY <3>1 DEF CheckSet, CheckHolds
    <3>3. r.tip <= Tip
      BY <1>1, <3>1, ShapeNat DEF CheckHolds, AnswerHolds, CheckShape
    <3> QED BY <1>1, <3>1, <3>2, <3>3, ShapeNat DEF CheckShape
  <2>4. tipCache = Nothing \/ (tipCache.height \in FirstTip..Tip /\ tipCache.age \in 0..Minute)
    BY <1>1, ShapeNat DEF IInv, Types, TipSet, CachesHold, ShapeInv, CacheShape
  <2>5. DOMAIN headerCache \subseteq 1..Tip
    <3> SUFFICES ASSUME NEW k \in DOMAIN headerCache PROVE k \in 1..Tip
      OBVIOUS
    <3>1. k \in Nat \ {0} /\ k + Reorg <= Tip  BY <1>1 DEF IInv, CachesHold
    <3> QED BY <1>1, <3>1, ShapeNat, ChainAssumption
  <2>6. coinCache = Nothing \/ (coinCache.spend \in 0..Tip /\ coinCache.age \in 0..(Minute - 1))
    BY <1>1, ShapeNat DEF IInv, Types, CoinSet, ShapeInv, CacheShape
  <2>7. reads \in [0..(Minute - 1) -> [Windows -> Nat]]  BY <1>1 DEF BudgetInv
  <2>8. Cardinality(DOMAIN headerCache) <= CacheMax  BY <1>1 DEF ShapeInv, CacheShape
  <2> QED BY <2>1, <2>2, <2>3, <2>4, <2>5, <2>6, <2>7, <2>8 DEF TypeOK
<1>2. IInv /\ BudgetInv /\ ShapeInv /\ [Next]_vars => (IInv /\ BudgetInv /\ ShapeInv)'
  BY NextInv, NextBudget, NextShape
<1> QED BY InitInv, InitBudget, InitShape, <1>1, <1>2, PTL DEF Spec
=============================================================================
