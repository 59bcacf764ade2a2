----------------------------- MODULE GateBridge -----------------------------
(***************************************************************************)
(* The write-policy plugin's main loop, its DirGate and the sidecar process *)
(* at the other end of two pipes (policy/oc-dtag-filter.py).  The plugin    *)
(* and the sidecar run concurrently: the sidecar may answer late, answer    *)
(* another id, garble a line, hang or die between any two plugin steps.     *)
(* It writes one line per line it reads (policy/dir-gate/gate.mjs).         *)
(***************************************************************************)
EXTENDS Naturals, Sequences

CONSTANTS
    Events,     \* the events strfry hands over
    Family,     \* those decide() accepts
    Gated,      \* those gated() sends to the sidecar
    Big,        \* those whose line is longer than a pipe holds
    MaxAsks,    \* bound: how many times the sidecar may be asked
    None        \* no event

ASSUME BridgeAssumption == /\ None \notin Events
                           /\ Family \subseteq Events
                           /\ Gated \subseteq Events
                           /\ Big \subseteq Events
                           /\ MaxAsks \in Nat

VARIABLES
    pc,         \* where the plugin is: idle, judge, write, wait, ended
    cur,        \* the event of the line being handled, or None
    asks,       \* how many times the sidecar was asked; numbers the current asking
    proc,       \* DirGate.proc: none (None), up, exited (not yet reaped)
    inbox,      \* lines in the sidecar's stdin that it has not handled
    outbox,     \* lines in the sidecar's stdout that the plugin has not read
    buf,        \* DirGate.buf: lines read and not yet parsed
    blessed,    \* history: the sidecar accepted the current asking
    verdict     \* the last line written to strfry, why, and whether it was charged

vars == <<pc, cur, asks, proc, inbox, outbox, buf, blessed, verdict>>
pipes == <<inbox, outbox, buf>>

\* What a line from the sidecar can say: accept, a refusal on the merits, its
\* own "rate-limited: ..." refusal, an answer with no usable action, not JSON.
Says == {"accept", "invalid", "busy", "maybe", "noise"}
Whys == {"none", "ok", "limit", "prefix", "invalid", "busy", "bridge"}
Question == [ask : Nat, event : Events]
Line     == [ask : Nat, id : Events \cup {None}, say : Says]
Verdict  == [event : Events \cup {None}, action : {"none", "accept", "reject"},
             why : Whys, charged : BOOLEAN]

Unanswered == [event |-> None, action |-> "none", why |-> "none", charged |-> FALSE]

Init == /\ pc = "idle" /\ cur = None /\ asks = 0
        /\ proc = "none" /\ inbox = <<>> /\ outbox = <<>> /\ buf = <<>>
        /\ blessed = FALSE /\ verdict = Unanswered

-----------------------------------------------------------------------------
(* The answer to strfry.  main() charges a refusal to its source's brake    *)
(* unless the message is GATE_BUSY, which only the bridge itself writes.    *)

Charged(action, why) == action = "reject" /\ why \notin {"limit", "bridge"}

Answer(action, why) ==
    /\ verdict' = [event |-> cur, action |-> action, why |-> why,
                   charged |-> Charged(action, why)]
    /\ cur' = None
    /\ blessed' = FALSE
    /\ pc' = "idle"

\* Seeded fault: the sidecar that missed its deadline is kept for the next event.
StopKeepsSidecar == UNCHANGED <<proc, pipes>>

\* DirGate._stop: the process is killed, its pipes and buffer go with it.
Stop == proc' = "none" /\ inbox' = <<>> /\ outbox' = <<>> /\ buf' = <<>>

\* Every exception inside ask(): stop the sidecar, refuse as busy.
Fail == Stop /\ Answer("reject", "bridge") /\ UNCHANGED asks

-----------------------------------------------------------------------------
(* The plugin.                                                              *)

Receive(e) == /\ pc = "idle" /\ asks < MaxAsks
              /\ pc' = "judge" /\ cur' = e
              /\ UNCHANGED <<asks, proc, pipes, blessed, verdict>>

\* limits.check named a limit: any source may be over one.
OverLimit == /\ pc = "judge"
             /\ Answer("reject", "limit")
             /\ UNCHANGED <<asks, proc, pipes>>

NotFamily == /\ pc = "judge" /\ cur \notin Family
             /\ Answer("reject", "prefix")
             /\ UNCHANGED <<asks, proc, pipes>>

Ungated == /\ pc = "judge" /\ cur \in Family \ Gated
           /\ Answer("accept", "ok")
           /\ UNCHANGED <<asks, proc, pipes>>

\* poll() finds the sidecar running, or a new one starts on fresh pipes.
Ask == /\ pc = "judge" /\ cur \in Family \cap Gated
       /\ pc' = "write" /\ asks' = asks + 1
       /\ IF proc = "up"
            THEN UNCHANGED <<proc, pipes>>
            ELSE proc' = "up" /\ inbox' = <<>> /\ outbox' = <<>> /\ buf' = <<>>
       /\ UNCHANGED <<cur, blessed, verdict>>

\* Popen raised: no sidecar to ask.
SpawnFails == /\ pc = "judge" /\ cur \in Family \cap Gated /\ proc # "up"
              /\ Fail

Deliver == /\ inbox' = Append(inbox, [ask |-> asks, event |-> cur])
           /\ pc' = "wait"
           /\ UNCHANGED <<cur, asks, proc, outbox, buf, blessed, verdict>>

\* The line fits the pipe: write and flush return at once.
Write == /\ pc = "write" /\ proc = "up" /\ cur \notin Big
         /\ Deliver

\* A longer line: write returns only once the sidecar has read enough of it.
\* No deadline runs yet (it is set after the flush).
WriteDrained == /\ pc = "write" /\ proc = "up" /\ cur \in Big
                /\ Deliver

\* BrokenPipeError: the sidecar exited before the line was written.
WriteBroken == pc = "write" /\ proc = "exited" /\ Fail

\* os.read: what the sidecar has written moves to the buffer.
Read == /\ pc = "wait" /\ buf = <<>> /\ outbox # <<>>
        /\ buf' = outbox /\ outbox' = <<>>
        /\ UNCHANGED <<pc, cur, asks, proc, inbox, blessed, verdict>>

\* Seeded fault: the answer's id is not compared with the event's.
ForThisUnchecked(line) == line.say # "noise"

\* A line counts when it parses and carries the event's id.
ForThis(line) == line.say # "noise" /\ line.id = cur

Skip == /\ pc = "wait" /\ buf # <<>> /\ ~ForThis(Head(buf))
        /\ buf' = Tail(buf)
        /\ UNCHANGED <<pc, cur, asks, proc, inbox, outbox, blessed, verdict>>

Heed == /\ pc = "wait" /\ buf # <<>> /\ ForThis(Head(buf))
        /\ \/ Head(buf).say = "accept" /\ Answer("accept", "ok")
           \/ /\ Head(buf).say \in {"invalid", "busy"}
              /\ Answer("reject", Head(buf).say)
        /\ buf' = Tail(buf)
        /\ UNCHANGED <<asks, proc, inbox, outbox>>

Garbled == /\ pc = "wait" /\ buf # <<>> /\ ForThis(Head(buf))
           /\ Head(buf).say = "maybe"
           /\ Fail

\* Seeded fault: the plugin waits for the sidecar however long it takes.
NoTimeout == FALSE /\ UNCHANGED vars

\* The deadline passes; a line may already wait unread in the pipe.
Timeout == pc = "wait" /\ buf = <<>> /\ Fail

\* os.read returns nothing: the sidecar exited and its output is used up.
Eof == /\ pc = "wait" /\ buf = <<>> /\ outbox = <<>> /\ proc = "exited"
       /\ Fail

\* strfry closes the plugin's stdin.
Close == /\ pc = "idle"
         /\ pc' = "ended"
         /\ UNCHANGED <<cur, asks, proc, pipes, blessed, verdict>>

Ended == pc = "ended" /\ UNCHANGED vars

-----------------------------------------------------------------------------
(* The sidecar.                                                             *)

\* It handles one line and writes one line: for the event asked about or with
\* another id, saying anything.
SideAnswer(id, say) ==
    /\ proc = "up" /\ inbox # <<>>
    /\ inbox' = Tail(inbox)
    /\ outbox' = Append(outbox, [ask |-> Head(inbox).ask, id |-> id, say |-> say])
    /\ blessed' = (blessed \/ (say = "accept" /\ id = cur /\ Head(inbox).ask = asks))
    /\ UNCHANGED <<pc, cur, asks, proc, buf, verdict>>

SideExit == /\ proc = "up"
            /\ proc' = "exited"
            /\ UNCHANGED <<pc, cur, asks, pipes, blessed, verdict>>

-----------------------------------------------------------------------------
PluginStep == \/ OverLimit \/ NotFamily \/ Ungated \/ Ask \/ SpawnFails
              \/ Write \/ WriteBroken \/ Read \/ Skip \/ Heed \/ Garbled
              \/ Timeout \/ Eof

Next == \/ \E e \in Events : Receive(e)
        \/ PluginStep
        \/ WriteDrained
        \/ Close
        \/ Ended
        \/ \E id \in Events \cup {None}, say \in Says : SideAnswer(id, say)
        \/ SideExit

Spec == Init /\ [][Next]_vars

\* The plugin's own steps and its deadline are never put off for ever; nothing
\* is assumed of the sidecar, nor of a write that needs the sidecar to read.
FairSpec == Spec /\ WF_vars(PluginStep)

-----------------------------------------------------------------------------
(* Every variable has its type, and an event is in hand exactly while the   *)
(* plugin is between a line from strfry and its answer.                     *)
TypeOK == /\ pc \in {"idle", "judge", "write", "wait", "ended"}
          /\ cur \in Events \cup {None}
          /\ cur = None <=> pc \in {"idle", "ended"}
          /\ asks \in Nat
          /\ proc \in {"none", "up", "exited"}
          /\ inbox \in Seq(Question)
          /\ outbox \in Seq(Line)
          /\ buf \in Seq(Line)
          /\ blessed \in BOOLEAN
          /\ verdict \in Verdict

(* "A late answer must never be read as the next event's" (DirGate.ask): all *)
(* three buffers between plugin and sidecar are empty unless the plugin      *)
(* waits, and then they hold at most one line, of the asking it waits on.    *)
NoLateAnswer ==
    IF pc # "wait"
      THEN inbox = <<>> /\ outbox = <<>> /\ buf = <<>>
      ELSE /\ Len(inbox) + Len(outbox) + Len(buf) <= 1
           /\ \A i \in 1..Len(inbox) : inbox[i].ask = asks
           /\ \A i \in 1..Len(outbox) : outbox[i].ask = asks
           /\ \A i \in 1..Len(buf) : buf[i].ask = asks

(* An accept for the event in hand that is still on its way in was given by  *)
(* the sidecar to this very asking, and the plugin waits only for an event   *)
(* that both gates apply to.                                                 *)
AcceptIsBlessed ==
    /\ pc \in {"write", "wait"} => cur \in Family \cap Gated
    /\ \A i \in 1..Len(outbox) :
          outbox[i].say = "accept" /\ outbox[i].id = cur => blessed
    /\ \A i \in 1..Len(buf) :
          buf[i].say = "accept" /\ buf[i].id = cur => blessed

(* Every event whose line fits the pipe is answered, whatever the sidecar    *)
(* does and in whatever state the events before left it.  A longer line is   *)
(* written before the deadline is set, and may block for ever (ask, lines).  *)
ShortLinesAnswered == \A e \in Events \ Big : cur = e ~> cur # e

(* The plugin with its sidecar is an implementation of the write gate.       *)
Gate == INSTANCE WriteGate WITH
            verdict <- [event |-> verdict.event, action |-> verdict.action]
ImplementsWriteGate == Gate!Spec
=============================================================================
