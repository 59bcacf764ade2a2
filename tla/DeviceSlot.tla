----------------------------- MODULE DeviceSlot -----------------------------
(***************************************************************************)
(* The slot of device records of one address (kind 30078,                   *)
(* oc-lock:device:<address>) and the gate's rule for filing in it           *)
(* (deviceRecord, policy/dir-gate/rules.mjs).  strfry keeps one record per  *)
(* key.  The address signs statements, and the signature covers a statement *)
(* and not the event carrying it, so that any key may file a copy.  Other   *)
(* writers (Sync, Stream, Import) and strfry's own batches may be admitted  *)
(* between a check and the commit of what it admitted.                      *)
(***************************************************************************)
EXTENDS Naturals, FiniteSets

CONSTANTS
    Keys,       \* Nostr keys
    Statements, \* the statements a record can carry
    Header,     \* statement -> "bind2", "bind3" or "revoke"
    Device,     \* statement -> the device it names
    Names,      \* v3 bind -> the key it names
    Signed,     \* the statements the address has signed
    Copies,     \* LIMITS.copiesPerStatement
    Batch,      \* events admitted and not yet committed, at most
    Nothing     \* no record

ASSUME SlotAssumption ==
    /\ IsFiniteSet(Keys)
    /\ Header \in [Statements -> {"bind2", "bind3", "revoke"}]
    /\ Names \in [{s \in Statements : Header[s] = "bind3"} -> Keys]
    /\ Signed \subseteq Statements
    /\ Copies \in Nat \ {0} /\ Batch \in Nat \ {0}
    /\ Nothing \notin Statements \X BOOLEAN

VARIABLES
    slot,       \* key -> the record it holds here, or Nothing
    admitted    \* events admitted and not yet committed: sets of <<key, record>>

slotVars == <<slot, admitted>>

\* A record: the statement it carries, and whether it carries the address's
\* signature of it too.  Nobody else can sign.
Records == {r \in Statements \X BOOLEAN : r[2] => r[1] \in Signed}

InitSlot == slot = [k \in Keys |-> Nothing] /\ admitted = {}

-----------------------------------------------------------------------------
\* verifyDeviceRecords: signed by the address, and a v3 bind by the key it names.
Verified(k, r) == r[2] /\ (Header[r[1]] = "bind3" => Names[r[1]] = k)

Carries(r, s) == r # Nothing /\ r[1] = s

\* The records of other keys here that carry the statement, signed or not.
Carriers(k, s) == {q \in Keys \ {k} : Carries(slot[q], s)}

\* Seeded fault: one copy too many.
RoomForOneMore(k, s) == Cardinality(Carriers(k, s)) <= Copies

RoomFor(k, s) == Cardinality(Carriers(k, s)) < Copies

\* strfry takes up no more events before it commits.
Admit(k, r) ==
    /\ Cardinality(admitted) < Batch
    /\ admitted' = admitted \cup {<<k, r>>}
    /\ UNCHANGED slot

\* A statement the address signed; past the cap it is refused as a duplicate.
FileSigned(k, r) == Verified(k, r) /\ RoomFor(k, r[1]) /\ Admit(k, r)

\* Seeded fault: any key may advise, whatever it holds.
OwnDeviceAny(k, s) == TRUE

\* The key holds a record of that device here (its own read of the slot).
OwnDevice(k, s) == slot[k] # Nothing /\ Device[slot[k][1]] = Device[s]

\* Unsigned advice: a key replaces its record by a revocation of its own device.
FileAdvice(k, r) ==
    /\ ~Verified(k, r) /\ Header[r[1]] = "revoke" /\ OwnDevice(k, r[1])
    /\ Admit(k, r)

\* strfry keeps the newer of a key's two records.
Commit ==
    \E e \in admitted :
        /\ admitted' = admitted \ {e}
        /\ \/ slot' = [slot EXCEPT ![e[1]] = e[2]]
           \/ slot[e[1]] # Nothing /\ UNCHANGED slot

\* A refusal, a slot that does not answer and a source over its limit change nothing.
FileNext == \/ \E k \in Keys, r \in Records : FileSigned(k, r) \/ FileAdvice(k, r)
            \/ Commit

SlotSpec == InitSlot /\ [][FileNext]_slotVars

-----------------------------------------------------------------------------
SlotTypeOK == /\ slot \in [Keys -> Records \cup {Nothing}]
              /\ admitted \in SUBSET (Keys \X Records) /\ Cardinality(admitted) <= Batch

SignedCarriers(s) == {k \in Keys : slot[k] = <<s, TRUE>>}

(* "At most three records carry one statement here" (rules.mjs:10), among    *)
(* those that carry its signature too, and with as many more as strfry had   *)
(* admitted and not committed when the slot was read.                        *)
CopiesCapped ==
    \A s \in Statements : Cardinality(SignedCarriers(s)) <= Copies + Batch - 1

(* Advice "replaces its record; it adds none" (rules.mjs:313): a key comes   *)
(* into the slot only with a statement signed by the address, whatever is    *)
(* committed between its check and its own commit.                           *)
AdviceOnlyReplaces ==
    [][\A k \in Keys : slot[k] = Nothing /\ slot'[k] # Nothing => slot'[k][2]]_slotVars

(* ABUSE.md:47: "and so the slot holds no more than three records for each   *)
(* statement the address itself signed".                                     *)
SlotBounded ==
    Cardinality({k \in Keys : slot[k] # Nothing}) <= Copies * Cardinality(Signed)
=============================================================================
