----------------------------- MODULE BoundKeys -----------------------------
(***************************************************************************)
(* Which keys are bound to an address: boundKeys of                         *)
(* policy/dir-gate/rules.mjs, asked by every listing and tombstone.  It     *)
(* reads the whole slot here, the signer's own records here and the slot on *)
(* every public relay, each at its own moment while records are filed and   *)
(* dropped on either side, any of them perhaps without an answer.           *)
(***************************************************************************)
EXTENDS DeviceSlot

CONSTANTS
    Relays,     \* the public relays
    Elsewhere,  \* the sets of records they may hold: of <<key, record>>
    NoAnswer, Unread

ASSUME RelaysAssumption == Elsewhere \subseteq SUBSET (Keys \X Records)

VARIABLES
    public,     \* public relay -> the records it holds
    signer,     \* the key asked about, or Nothing between two checks
    whole,      \* deviceEvents(address): what it answered, NoAnswer or Unread
    own,        \* deviceEventsBy(address, signer): likewise
    pub,        \* public relay -> likewise
    verdict,    \* of the last check: "none", "bound", "unbound" or "busy"
    through,    \* history: the records held here ever since the check began
    abroad      \* history: public relay -> the records held there ever since

checkVars == <<signer, whole, own, pub, verdict>>
history == <<through, abroad>>
vars == <<slotVars, public, checkVars, history>>

Held == {e \in Keys \X Records : slot[e[1]] = e[2]}

Genuine == {e \in Keys \X Records : Verified(e[1], e[2])}

NoneAbroad == [p \in Relays |-> {}]

Init == /\ InitSlot
        /\ public \in [Relays -> Elsewhere]
        /\ signer = Nothing
        /\ whole = Unread /\ own = Unread /\ pub = [p \in Relays |-> Unread]
        /\ verdict = "none" /\ through = {} /\ abroad = NoneAbroad

-----------------------------------------------------------------------------
(* What the records say (verifyDeviceRecords, boundNostrKeys).              *)

\* Only an event whose id and signature check out stands for its id: whatever
\* else a relay serves under that id replaces nothing.
VerifiedFrom(local, remote) == {e \in local \cup remote : Verified(e[1], e[2])}

Says(e, header) == Header[e[2][1]] = header
DeviceOf(e) == Device[e[2][1]]
Revoked(events, d) == \E e \in events : Says(e, "revoke") /\ DeviceOf(e) = d

\* A v2 bind names no key: it binds its carrier only while no other carries it.
Sole(events, e) == \A f \in events : Says(f, "bind2") /\ DeviceOf(f) = DeviceOf(e) => f[1] = e[1]

\* A bind, and nothing among the events says otherwise.
Binds(events, e) == /\ ~Revoked(events, DeviceOf(e))
                    /\ Says(e, "bind3") \/ (Says(e, "bind2") /\ Sole(events, e))

Bound(events) == {k \in Keys : \E e \in events : e[1] = k /\ Binds(events, e)}

-----------------------------------------------------------------------------
(* A check.                                                                 *)

Checking == signer # Nothing

Begin(k) == /\ ~Checking
            /\ signer' = k /\ verdict' = "none"
            /\ through' = Held /\ abroad' = public
            /\ UNCHANGED <<slotVars, public, whole, own, pub>>

ReadWhole == /\ Checking /\ whole = Unread
             /\ whole' \in {Held, NoAnswer}
             /\ UNCHANGED <<slotVars, public, signer, own, pub, verdict, history>>

ReadOwn == /\ Checking /\ own = Unread
           /\ own' \in {{e \in Held : e[1] = signer}, NoAnswer}
           /\ UNCHANGED <<slotVars, public, signer, whole, pub, verdict, history>>

ReadPublic(p) == /\ Checking /\ pub[p] = Unread
                 /\ \E answer \in {public[p], NoAnswer} : pub' = [pub EXCEPT ![p] = answer]
                 /\ UNCHANGED <<slotVars, public, signer, whole, own, verdict, history>>

Clear == /\ whole' = Unread /\ own' = Unread /\ pub' = [p \in Relays |-> Unread]

Answers(v) == /\ verdict' = v /\ signer' = Nothing /\ Clear
              /\ through' = {} /\ abroad' = NoneAbroad
              /\ UNCHANGED <<slotVars, public>>

Verdict(events) == IF signer \in Bound(events) THEN "bound" ELSE "unbound"

Local == whole \cup (IF own = NoAnswer THEN {} ELSE own)
Here == VerifiedFrom(Local, {})
ReadHere == Checking /\ whole # Unread /\ own # Unread

\* Seeded fault: the public relays decide with a v3 bind here too.
V3HereNever == FALSE

\* A signer with a v3 bind here, revoked or not, is decided here.
V3Here == signer \in Bound({e \in Here : Says(e, "bind3")})

NotRead == ReadHere /\ whole = NoAnswer /\ Answers("busy")

DecideHere == ReadHere /\ whole # NoAnswer /\ V3Here /\ Answers(Verdict(Here))

PublicRead == \A p \in Relays : pub[p] # Unread

\* Seeded fault: the relays that answered are enough.
SomeAnswered == TRUE

\* Every relay answered in full, and so did the signer's own read.
AllAnswered == own # NoAnswer /\ \A p \in Relays : pub[p] # NoAnswer

\* Seeded fault: relays that do not answer are asked again.
PublicAgain ==
    /\ ReadHere /\ whole # NoAnswer /\ ~V3Here /\ PublicRead /\ ~AllAnswered
    /\ pub' = [p \in Relays |-> IF pub[p] = NoAnswer THEN Unread ELSE pub[p]]
    /\ own' = IF own = NoAnswer THEN Unread ELSE own
    /\ UNCHANGED <<slotVars, public, signer, whole, verdict, history>>

PublicBusy == /\ ReadHere /\ whole # NoAnswer /\ ~V3Here /\ PublicRead /\ ~AllAnswered
              /\ Answers("busy")

Served == UNION {pub[p] : p \in {q \in Relays : pub[q] \notin {Unread, NoAnswer}}}

DecideEverywhere ==
    /\ ReadHere /\ whole # NoAnswer /\ ~V3Here /\ PublicRead /\ AllAnswered
    /\ Answers(Verdict(VerifiedFrom(Local, Served)))

\* strfry asks about one event at a time: while this one is checked no record is
\* admitted, but those admitted before it may be committed.
File == /\ IF Checking THEN Commit ELSE FileNext
        /\ through' = {e \in through : slot'[e[1]] = e[2]}
        /\ UNCHANGED <<public, checkVars, abroad>>

\* Others file and drop records at a public relay, whatever is checked here.
Change(p) == \E held \in Elsewhere :
    /\ public' = [public EXCEPT ![p] = held]
    /\ abroad' = [abroad EXCEPT ![p] = @ \cap held]
    /\ UNCHANGED <<slotVars, checkVars, through>>

Next == \/ File
        \/ \E p \in Relays : Change(p)
        \/ \E k \in Keys : Begin(k)
        \/ ReadWhole \/ ReadOwn \/ \E p \in Relays : ReadPublic(p)
        \/ NotRead \/ DecideHere \/ PublicBusy \/ DecideEverywhere

Spec == Init /\ [][Next]_vars
\* Every read has a timer of its own, and a check that has its reads goes on.
FairSpec ==
        /\ Spec
        /\ WF_vars(ReadWhole) /\ WF_vars(ReadOwn) /\ \A p \in Relays : WF_vars(ReadPublic(p))
        /\ WF_vars(NotRead \/ DecideHere \/ PublicBusy \/ DecideEverywhere)

-----------------------------------------------------------------------------
(* Every variable has its type, and nothing read is kept between checks.     *)
TypeOK == /\ SlotTypeOK
          /\ public \in [Relays -> Elsewhere]
          /\ signer \in Keys \cup {Nothing}
          /\ whole \in {Unread, NoAnswer} \cup SUBSET (Keys \X Records)
          /\ own \in {Unread, NoAnswer} \cup SUBSET (Keys \X Records)
          /\ pub \in [Relays -> {Unread, NoAnswer} \cup Elsewhere]
          /\ verdict \in {"none", "bound", "unbound", "busy"}
          /\ through \in SUBSET Held
          /\ abroad \in [Relays -> SUBSET (Keys \X Records)]
          /\ \A p \in Relays : abroad[p] \subseteq public[p]
          /\ ~Checking => whole = Unread /\ own = Unread /\ pub = [p \in Relays |-> Unread]

Ends(v) == Checking /\ signer' = Nothing /\ verdict' = v

HeldThroughout == through \cap Genuine
HeldAbroad == (UNION {abroad[p] : p \in Relays}) \cap Genuine

(* A key is taken as bound only by a record of its own that was read, that   *)
(* binds it, and whose device no revocation held here all along retires, a   *)
(* v2 bind only while no other key carries it here all along; and but for a  *)
(* key seen here with a v3 bind, nothing that any public relay held all      *)
(* along says otherwise, however they change and whenever each is read       *)
(* (rules.mjs:168-175).                                                      *)
BoundIsBound ==
    [][Ends("bound") =>
           \E e \in (Local \cup Served) \cap Genuine :
               /\ e[1] = signer
               /\ Binds(HeldThroughout, e)
               /\ (e \in Local /\ V3Here) \/ Binds(HeldAbroad, e)]_vars

(* A key bound here by a v3 bind is neither held up nor refused by anything  *)
(* public relays do or serve: once the slot here is read, only a revocation  *)
(* held here unbinds it (rules.mjs:194-196).                                 *)
BoundHereStands ==
    [][Checking /\ signer' = Nothing /\ whole # NoAnswer
       /\ (\E e \in through : /\ e[1] = signer /\ e \in Genuine /\ Says(e, "bind3")
                              /\ ~Revoked(Here, DeviceOf(e)))
           => verdict' = "bound"]_vars

(* Every check ends, whatever does not answer.                               *)
CheckEnds == Checking ~> ~Checking
=============================================================================
