-------------------------- MODULE GateBridgeProofs --------------------------
(***************************************************************************)
(* What holds of GateBridge for every set of events and every bound: its   *)
(* types, that no late answer is ever in a buffer, and that the plugin with *)
(* any sidecar implements WriteGate.                                        *)
(***************************************************************************)
EXTENDS GateBridge, TLAPS

\* The inductive invariant.
IInv == TypeOK /\ NoLateAnswer /\ AcceptIsBlessed

(* Emptied buffers: the three pipe conjuncts hold of empty sequences, which  *)
(* is what DirGate._stop and a line taken from a full pipe leave behind.     *)
LEMMA EmptySeq == ASSUME NEW S PROVE <<>> \in Seq(S) /\ Len(<<>>) = 0
OBVIOUS

(* The only element of a one-line buffer is its head, and its tail is empty. *)
LEMMA OneLine == ASSUME NEW S, NEW s \in Seq(S), Len(s) <= 1, s # <<>>
                 PROVE  Len(s) = 1 /\ Head(s) = s[1] /\ s[1] \in S /\ Tail(s) = <<>>
<1>1. Len(s) = 1 /\ Head(s) = s[1] /\ s[1] \in S  OBVIOUS
<1>2. Tail(s) \in Seq(S) /\ Len(Tail(s)) = 0  BY <1>1
<1>3. Tail(s) = <<>>  BY <1>2
<1> QED BY <1>1, <1>3

(* Appending to an empty buffer leaves a one-line buffer.                    *)
LEMMA AppendToEmpty == ASSUME NEW S, NEW x \in S
                       PROVE  /\ Append(<<>>, x) \in Seq(S)
                              /\ Len(Append(<<>>, x)) = 1
                              /\ Append(<<>>, x)[1] = x
OBVIOUS

(* A buffer of no lines is empty.                                            *)
LEMMA NoLines == ASSUME NEW S, NEW s \in Seq(S), Len(s) = 0 PROVE s = <<>>
OBVIOUS

(* Every answer is well typed, leaves the plugin idle and keeps the other    *)
(* conjuncts about the plugin's own state.                                   *)
LEMMA AnswerTypes == ASSUME TypeOK, NEW action \in {"accept", "reject"}, NEW why \in Whys,
                            Answer(action, why)
                     PROVE  /\ verdict' \in Verdict
                            /\ pc' = "idle" /\ cur' = None /\ blessed' = FALSE
BY DEF TypeOK, Answer, Verdict, Charged

(* Failing closed restores the whole invariant: the sidecar and everything   *)
(* it wrote are gone, and the event is refused.                              *)
LEMMA FailInv == ASSUME BridgeAssumption, IInv, Fail PROVE IInv'
<1>1. "reject" \in {"accept", "reject"} /\ "bridge" \in Whys  BY DEF Whys
<1>2. Answer("reject", "bridge")  BY DEF Fail
<1>3. /\ verdict' \in Verdict /\ pc' = "idle" /\ cur' = None /\ blessed' = FALSE
  BY <1>1, <1>2, AnswerTypes DEF IInv
<1>4. /\ proc' = "none" /\ inbox' = <<>> /\ outbox' = <<>> /\ buf' = <<>> /\ asks' = asks
  BY DEF Fail, Stop
<1>5. TypeOK'  BY <1>3, <1>4, EmptySeq DEF IInv, TypeOK
<1>6. NoLateAnswer'  BY <1>3, <1>4 DEF NoLateAnswer
<1>7. AcceptIsBlessed'  BY <1>3, <1>4 DEF AcceptIsBlessed
<1> QED BY <1>5, <1>6, <1>7 DEF IInv

(* An answer given while no line is in a buffer restores the invariant.      *)
LEMMA AnswerInv == ASSUME BridgeAssumption, IInv,
                          NEW action \in {"accept", "reject"}, NEW why \in Whys,
                          Answer(action, why),
                          proc' = proc, asks' = asks,
                          inbox' = <<>>, outbox' = <<>>, buf' = <<>>
                   PROVE  IInv'
<1>1. /\ verdict' \in Verdict /\ pc' = "idle" /\ cur' = None /\ blessed' = FALSE
  BY AnswerTypes DEF IInv
<1>2. TypeOK'  BY <1>1, EmptySeq DEF IInv, TypeOK
<1>3. NoLateAnswer'  BY <1>1 DEF NoLateAnswer
<1>4. AcceptIsBlessed'  BY <1>1 DEF AcceptIsBlessed
<1> QED BY <1>2, <1>3, <1>4 DEF IInv

-----------------------------------------------------------------------------
(* The invariant holds at first.                                             *)
LEMMA InitInv == BridgeAssumption /\ Init => IInv
<1> SUFFICES ASSUME BridgeAssumption, Init PROVE IInv
  OBVIOUS
<1>1. Unanswered \in Verdict  BY DEF Unanswered, Verdict, Whys
<1>2. TypeOK  BY <1>1, EmptySeq DEF Init, TypeOK
<1>3. NoLateAnswer  BY DEF Init, NoLateAnswer
<1>4. AcceptIsBlessed  BY DEF Init, AcceptIsBlessed
<1> QED BY <1>2, <1>3, <1>4 DEF IInv

(* And every step keeps it: one case per action.                             *)
LEMMA NextInv == BridgeAssumption /\ IInv /\ [Next]_vars => IInv'
<1> SUFFICES ASSUME BridgeAssumption, IInv, [Next]_vars PROVE IInv'
  OBVIOUS
<1> USE DEF IInv
<1>1. ASSUME NEW e \in Events, Receive(e) PROVE IInv'
  BY <1>1 DEF Receive, TypeOK, NoLateAnswer, AcceptIsBlessed, pipes, BridgeAssumption
<1>2. CASE OverLimit
  <2>1. /\ inbox' = <<>> /\ outbox' = <<>> /\ buf' = <<>> /\ proc' = proc /\ asks' = asks
    BY <1>2 DEF OverLimit, NoLateAnswer, pipes
  <2>2. Answer("reject", "limit") /\ "limit" \in Whys  BY <1>2 DEF OverLimit, Whys
  <2> QED BY <2>1, <2>2, AnswerInv
<1>3. CASE NotFamily
  <2>1. /\ inbox' = <<>> /\ outbox' = <<>> /\ buf' = <<>> /\ proc' = proc /\ asks' = asks
    BY <1>3 DEF NotFamily, NoLateAnswer, pipes
  <2>2. Answer("reject", "prefix") /\ "prefix" \in Whys  BY <1>3 DEF NotFamily, Whys
  <2> QED BY <2>1, <2>2, AnswerInv
<1>4. CASE Ungated
  <2>1. /\ inbox' = <<>> /\ outbox' = <<>> /\ buf' = <<>> /\ proc' = proc /\ asks' = asks
    BY <1>4 DEF Ungated, NoLateAnswer, pipes
  <2>2. Answer("accept", "ok") /\ "ok" \in Whys  BY <1>4 DEF Ungated, Whys
  <2> QED BY <2>1, <2>2, AnswerInv
<1>5. CASE Ask
  <2>1. /\ pc' = "write" /\ asks' = asks + 1 /\ cur' = cur /\ proc' = "up"
        /\ inbox' = <<>> /\ outbox' = <<>> /\ buf' = <<>>
        /\ blessed' = blessed /\ verdict' = verdict
    BY <1>5 DEF Ask, NoLateAnswer, pipes
  <2>2. cur \in Family \cap Gated /\ cur # None
    BY <1>5 DEF Ask, TypeOK
  <2>3. TypeOK'  BY <2>1, <2>2, EmptySeq DEF TypeOK
  <2>4. NoLateAnswer'  BY <2>1 DEF NoLateAnswer
  <2>5. AcceptIsBlessed'  BY <2>1, <2>2 DEF AcceptIsBlessed
  <2> QED BY <2>3, <2>4, <2>5
<1>6. CASE SpawnFails  BY <1>6, FailInv DEF SpawnFails
<1>7. CASE Write \/ WriteDrained
  <2>1. pc = "write" /\ Deliver  BY <1>7 DEF Write, WriteDrained
  <2>2. inbox = <<>> /\ outbox = <<>> /\ buf = <<>>  BY <2>1 DEF NoLateAnswer
  <2>3. cur \in Family \cap Gated /\ cur \in Events /\ cur # None
    BY <2>1 DEF AcceptIsBlessed, BridgeAssumption
  <2> DEFINE q == [ask |-> asks, event |-> cur]
  <2>4. q \in Question  BY <2>3 DEF Question, TypeOK
  <2>5. inbox' \in Seq(Question) /\ Len(inbox') = 1 /\ inbox'[1] = q
    BY <2>1, <2>2, <2>4, AppendToEmpty DEF Deliver
  <2>6. /\ pc' = "wait" /\ cur' = cur /\ asks' = asks /\ proc' = proc
        /\ outbox' = <<>> /\ buf' = <<>> /\ blessed' = blessed /\ verdict' = verdict
    BY <2>1, <2>2 DEF Deliver
  <2>7. TypeOK'  BY <2>3, <2>5, <2>6, EmptySeq DEF TypeOK
  <2>8. NoLateAnswer'
    <3>1. Len(inbox') + Len(outbox') + Len(buf') <= 1  BY <2>5, <2>6
    <3>2. \A i \in 1..Len(inbox') : inbox'[i].ask = asks'  BY <2>5, <2>6
    <3> QED BY <2>6, <3>1, <3>2 DEF NoLateAnswer
  <2>9. AcceptIsBlessed'  BY <2>3, <2>6 DEF AcceptIsBlessed
  <2> QED BY <2>7, <2>8, <2>9
<1>8. CASE WriteBroken  BY <1>8, FailInv DEF WriteBroken
<1>9. CASE Read
  <2>1. /\ pc = "wait" /\ pc' = "wait" /\ buf' = outbox /\ outbox' = <<>> /\ inbox' = inbox
        /\ cur' = cur /\ asks' = asks /\ proc' = proc /\ blessed' = blessed /\ verdict' = verdict
        /\ Len(buf) = 0
    BY <1>9 DEF Read
  <2>2. TypeOK'  BY <2>1, EmptySeq DEF TypeOK
  <2>3. NoLateAnswer'
    <3>1. Len(inbox') + Len(outbox') + Len(buf') <= 1
      BY <2>1 DEF NoLateAnswer, TypeOK
    <3>2. /\ \A i \in 1..Len(inbox') : inbox'[i].ask = asks'
          /\ \A i \in 1..Len(outbox') : outbox'[i].ask = asks'
          /\ \A i \in 1..Len(buf') : buf'[i].ask = asks'
      BY <2>1 DEF NoLateAnswer
    <3> QED BY <2>1, <3>1, <3>2 DEF NoLateAnswer
  <2>4. AcceptIsBlessed'  BY <2>1 DEF AcceptIsBlessed
  <2> QED BY <2>2, <2>3, <2>4
<1>10. CASE Skip \/ Heed
  <2>1. pc = "wait" /\ buf # <<>> /\ buf' = Tail(buf)
        /\ inbox' = inbox /\ outbox' = outbox /\ asks' = asks /\ proc' = proc
    BY <1>10 DEF Skip, Heed
  <2>2. inbox = <<>> /\ outbox = <<>> /\ Len(buf) <= 1
    <3>1. Len(buf) > 0  BY <2>1, NoLines DEF TypeOK
    <3>2. Len(inbox) = 0 /\ Len(outbox) = 0 /\ Len(buf) <= 1
      BY <2>1, <3>1 DEF NoLateAnswer, TypeOK
    <3> QED BY <3>2, NoLines DEF TypeOK
  <2>3. buf' = <<>>  BY <2>1, <2>2, OneLine DEF TypeOK
  <2>4. CASE Skip
    <3>1. /\ pc' = "wait" /\ cur' = cur /\ blessed' = blessed /\ verdict' = verdict
      BY <2>4 DEF Skip
    <3>2. TypeOK'  BY <2>1, <2>2, <2>3, <3>1, EmptySeq DEF TypeOK
    <3>3. NoLateAnswer'  BY <2>1, <2>2, <2>3, <3>1 DEF NoLateAnswer
    <3>4. AcceptIsBlessed'  BY <2>1, <2>2, <2>3, <3>1 DEF AcceptIsBlessed
    <3> QED BY <3>2, <3>3, <3>4
  <2>5. CASE Heed
    <3>1. PICK action \in {"accept", "reject"}, why \in Whys : Answer(action, why)
      BY <2>5 DEF Heed, Whys
    <3> QED BY <2>1, <2>2, <2>3, <3>1, AnswerInv
  <2> QED BY <1>10, <2>4, <2>5
<1>11. CASE Garbled  BY <1>11, FailInv DEF Garbled
<1>12. CASE Timeout  BY <1>12, FailInv DEF Timeout
<1>13. CASE Eof  BY <1>13, FailInv DEF Eof
<1>14. CASE Close
  BY <1>14 DEF Close, TypeOK, NoLateAnswer, AcceptIsBlessed, pipes
<1>15. ASSUME NEW id \in Events \cup {None}, NEW say \in Says, SideAnswer(id, say)
       PROVE  IInv'
  <2> DEFINE l == [ask |-> Head(inbox).ask, id |-> id, say |-> say]
  <2>1. /\ inbox # <<>> /\ inbox' = Tail(inbox) /\ outbox' = Append(outbox, l)
        /\ blessed' = (blessed \/ (say = "accept" /\ id = cur /\ Head(inbox).ask = asks))
        /\ pc' = pc /\ cur' = cur /\ asks' = asks /\ proc' = proc /\ buf' = buf
        /\ verdict' = verdict
    BY <1>15 DEF SideAnswer
  <2>2. pc = "wait"  BY <2>1 DEF NoLateAnswer
  <2>3. outbox = <<>> /\ buf = <<>> /\ Len(inbox) <= 1
    <3>1. Len(inbox) > 0  BY <2>1, NoLines DEF TypeOK
    <3>2. Len(outbox) = 0 /\ Len(buf) = 0 /\ Len(inbox) <= 1
      BY <2>2, <3>1 DEF NoLateAnswer, TypeOK
    <3> QED BY <3>2, NoLines DEF TypeOK
  <2>4. /\ Len(inbox) = 1 /\ Head(inbox) = inbox[1] /\ inbox[1] \in Question
        /\ inbox' = <<>>
    BY <2>1, <2>3, OneLine DEF TypeOK
  <2>5. Head(inbox).ask = asks  BY <2>2, <2>4 DEF NoLateAnswer
  <2>6. l \in Line  BY <2>4 DEF Line, Question
  <2>7. outbox' \in Seq(Line) /\ Len(outbox') = 1 /\ outbox'[1] = l
    BY <2>1, <2>3, <2>6, AppendToEmpty
  <2>8. TypeOK'  BY <2>1, <2>4, <2>7, EmptySeq DEF TypeOK
  <2>9. NoLateAnswer'
    <3>1. Len(inbox') + Len(outbox') + Len(buf') <= 1
      <4>1. Len(inbox') = 0 /\ Len(buf') = 0  BY <2>1, <2>3, <2>4
      <4> QED BY <2>7, <4>1
    <3>2. \A i \in 1..Len(outbox') : outbox'[i].ask = asks'
      BY <2>1, <2>5, <2>7
    <3> QED BY <2>1, <2>2, <2>3, <2>4, <3>1, <3>2 DEF NoLateAnswer
  <2>10. AcceptIsBlessed'
    <3>1. \A i \in 1..Len(outbox') :
             outbox'[i].say = "accept" /\ outbox'[i].id = cur' => blessed'
      <4> SUFFICES ASSUME NEW i \in 1..Len(outbox'), outbox'[i].say = "accept",
                          outbox'[i].id = cur'
                   PROVE  blessed'
        OBVIOUS
      <4>1. outbox'[i] = l  BY <2>7
      <4>2. say = "accept" /\ id = cur  BY <2>1, <4>1
      <4> QED BY <2>1, <2>5, <4>2
    <3> QED BY <2>1, <2>2, <2>3, <3>1 DEF AcceptIsBlessed
  <2> QED BY <2>8, <2>9, <2>10
<1>16. CASE SideExit
  BY <1>16 DEF SideExit, TypeOK, NoLateAnswer, AcceptIsBlessed, pipes
<1>17. CASE Ended \/ UNCHANGED vars
  BY <1>17 DEF Ended, vars, TypeOK, NoLateAnswer, AcceptIsBlessed
<1> QED
  BY <1>1, <1>2, <1>3, <1>4, <1>5, <1>6, <1>7, <1>8, <1>9, <1>10, <1>11, <1>12,
     <1>13, <1>14, <1>15, <1>16, <1>17 DEF Next, PluginStep

-----------------------------------------------------------------------------
(* No late answer: in every reachable state, whatever the sidecar did, all   *)
(* that is in the buffers between it and the plugin belongs to the asking in *)
(* hand, and an accept among it was given to that asking (DirGate.ask,       *)
(* DirGate._stop).                                                           *)
THEOREM Invariance == Spec => [](TypeOK /\ NoLateAnswer /\ AcceptIsBlessed)
<1>1. Init => IInv  BY InitInv, BridgeAssumption
<1>2. IInv /\ [Next]_vars => IInv'  BY NextInv, BridgeAssumption
<1>3. IInv => TypeOK /\ NoLateAnswer /\ AcceptIsBlessed  BY DEF IInv
<1> QED BY <1>1, <1>2, <1>3, PTL DEF Spec

-----------------------------------------------------------------------------
(* The plugin as an implementation of the write gate.                        *)

(* The initial state maps to the abstract one.                               *)
LEMMA InitRefines == Init => Gate!Init
BY DEF Init, Gate!Init, Unanswered, Gate!Unanswered

(* A refusal of the event in hand is the abstract Refuse.                    *)
LEMMA RefusalRefines == ASSUME cur # None, NEW why, Answer("reject", why)
                        PROVE  Gate!Refuse
BY DEF Answer, Gate!Refuse, Gate!Reply

(* So is a step of the sidecar the abstract Bless, or nothing, and every     *)
(* other step an abstract step or a stutter.                                 *)
LEMMA StepRefines == IInv /\ [Next]_vars => [Gate!Next]_(Gate!vars)
<1> SUFFICES ASSUME IInv, [Next]_vars PROVE [Gate!Next]_(Gate!vars)
  OBVIOUS
<1> DEFINE quiet == cur' = cur /\ blessed' = blessed /\ verdict' = verdict
<1>0. quiet => UNCHANGED Gate!vars  BY DEF Gate!vars
<1>1. ASSUME NEW e \in Events, Receive(e) PROVE Gate!Next
  <2>1. cur = None  BY <1>1 DEF Receive, IInv, TypeOK
  <2>2. Gate!Take(e)  BY <1>1, <2>1 DEF Receive, Gate!Take
  <2> QED BY <2>2 DEF Gate!Next
<1>2. ASSUME Fail, pc # "idle", pc # "ended" PROVE Gate!Next
  <2>1. cur # None  BY <1>2 DEF IInv, TypeOK
  <2>2. Gate!Refuse  BY <1>2, <2>1, RefusalRefines DEF Fail
  <2> QED BY <2>2 DEF Gate!Next
<1>3. CASE OverLimit \/ NotFamily
  <2>1. cur # None  BY <1>3 DEF OverLimit, NotFamily, IInv, TypeOK
  <2>2. Gate!Refuse  BY <1>3, <2>1, RefusalRefines DEF OverLimit, NotFamily
  <2> QED BY <2>2 DEF Gate!Next
<1>4. CASE Ungated
  <2>1. Gate!Admit  BY <1>4 DEF Ungated, Answer, Gate!Admit, Gate!Reply
  <2> QED BY <2>1 DEF Gate!Next
<1>5. CASE Heed
  <2>1. cur \in Family \cap Gated /\ cur # None
    BY <1>5, BridgeAssumption DEF Heed, IInv, AcceptIsBlessed
  <2>2. CASE Head(buf).say = "accept" /\ Answer("accept", "ok")
    <3>1. Len(buf) > 0  BY <1>5, NoLines DEF Heed, IInv, TypeOK
    <3>2. 1 \in 1..Len(buf) /\ Head(buf) = buf[1]  BY <3>1 DEF IInv, TypeOK
    <3>3. buf[1].say = "accept" /\ buf[1].id = cur  BY <1>5, <2>2, <3>2 DEF Heed, ForThis
    <3>4. blessed  BY <3>2, <3>3 DEF IInv, AcceptIsBlessed
    <3>5. Gate!Admit  BY <2>1, <2>2, <3>4 DEF Answer, Gate!Admit, Gate!Reply
    <3> QED BY <3>5 DEF Gate!Next
  <2>3. CASE Answer("reject", Head(buf).say)
    <3>1. Gate!Refuse  BY <2>1, <2>3, RefusalRefines
    <3> QED BY <3>1 DEF Gate!Next
  <2> QED BY <1>5, <2>2, <2>3 DEF Heed
<1>6. ASSUME NEW id \in Events \cup {None}, NEW say \in Says, SideAnswer(id, say)
      PROVE  [Gate!Next]_(Gate!vars)
  <2>1. pc = "wait"  BY <1>6 DEF SideAnswer, IInv, NoLateAnswer
  <2>2. cur \in Family \cap Gated  BY <2>1 DEF IInv, AcceptIsBlessed
  <2>3. cur' = cur /\ verdict' = verdict  BY <1>6 DEF SideAnswer
  <2>4. CASE blessed' = blessed  BY <1>0, <2>3, <2>4
  <2>5. CASE blessed' # blessed
    <3>1. blessed' = TRUE
      BY <1>6, <2>5 DEF SideAnswer, IInv, TypeOK
    <3>2. Gate!Bless  BY <2>2, <2>3, <3>1 DEF Gate!Bless
    <3> QED BY <3>2 DEF Gate!Next
  <2> QED BY <2>4, <2>5
<1>7. CASE Ask \/ Write \/ WriteDrained \/ Read \/ Skip \/ Close \/ Ended \/ SideExit
  <2>1. quiet
    BY <1>7 DEF Ask, Write, WriteDrained, Deliver, Read, Skip, Close, Ended, SideExit, vars
  <2> QED BY <1>0, <2>1
<1>8. CASE UNCHANGED vars
  <2>1. quiet  BY <1>8 DEF vars
  <2> QED BY <1>0, <2>1
<1>9. CASE SpawnFails \/ WriteBroken \/ Garbled \/ Timeout \/ Eof
  BY <1>2, <1>9 DEF SpawnFails, WriteBroken, Garbled, Timeout, Eof
<1> QED
  BY <1>1, <1>3, <1>4, <1>5, <1>6, <1>7, <1>8, <1>9 DEF Next, PluginStep

(* An event is admitted only as WriteGate allows: once, while it is the      *)
(* event in hand, after the prefix gate, and if it is gated only on the      *)
(* sidecar's accept of this very asking.                                     *)
THEOREM Refinement == Spec => ImplementsWriteGate
<1>1. Init => IInv  BY InitInv, BridgeAssumption
<1>2. IInv /\ [Next]_vars => IInv'  BY NextInv, BridgeAssumption
<1> QED BY <1>1, <1>2, InitRefines, StepRefines, PTL DEF Spec, ImplementsWriteGate, Gate!Spec
=============================================================================
