----------------------------- MODULE Supervisor -----------------------------
(***************************************************************************)
(* Run and stop of the front (front/main.go): strfry as its child, the      *)
(* listener, the stop signal, and which of them ends the process.  strfry   *)
(* may exit at any time, and may take no notice of a signal it can refuse.  *)
(***************************************************************************)
EXTENDS Integers

VARIABLES
    run,        \* where Run is; over when it has returned, dead when it was killed
    child,      \* strfry: none, up, exited, reaped (cmd.Wait has returned)
    served,     \* the listener has stopped
    sig,        \* a stop signal waits in the channel
    asked,      \* strfry was sent a signal it may refuse
    killed,     \* strfry was sent one it cannot
    code,       \* the code Run returns
    signalled   \* history: Run was sent a stop signal while it watched for one

runVars == <<run, child, served, sig, asked, killed, code, signalled>>
watched == <<child, served, sig, asked, killed, signalled>>

Ended == {"over", "dead"}
Alive == run \notin Ended
Stopping == {"shutdown", "signal", "await", "kill"}

RunInit == /\ run = "begin" /\ child = "none" /\ served = FALSE /\ sig = FALSE
           /\ asked = FALSE /\ killed = FALSE /\ code = 0 /\ signalled = FALSE

Return(n) == run' = "over" /\ code' = n /\ UNCHANGED watched

-----------------------------------------------------------------------------
(* Starting.                                                                *)

NoCommand == run = "begin" /\ Return(2)
Saltless == run = "begin" /\ Return(1)
Salted == /\ run = "begin"
          /\ run' = "spawn"
          /\ UNCHANGED <<watched, code>>

SpawnFails == run = "spawn" /\ Return(1)
Spawn == /\ run = "spawn"
         /\ run' = "started" /\ child' = "up"
         /\ UNCHANGED <<served, sig, asked, killed, code, signalled>>

\* signal.Notify: until here a signal ends the process.
Notify == /\ run = "started"
          /\ run' = "watch"
          /\ UNCHANGED <<watched, code>>

-----------------------------------------------------------------------------
(* The select: whichever of three is ready, any of them if several are.     *)

\* Seeded fault: strfry's exit is passed on as a success.
StrfryExitedFine == /\ run = "watch" /\ child = "reaped"
                    /\ Return(0)

StrfryExited == /\ run = "watch" /\ child = "reaped"
                /\ Return(1)

ListenerStopped == /\ run = "watch" /\ served
                   /\ run' = "signal" /\ code' = 1
                   /\ UNCHANGED watched

Signalled == /\ run = "watch" /\ sig
             /\ run' = "shutdown" /\ code' = 0 /\ sig' = FALSE
             /\ UNCHANGED <<child, served, asked, killed, signalled>>

\* srv.Shutdown returns, after 5 seconds at most.
Shutdown == /\ run = "shutdown"
            /\ run' = "signal"
            /\ UNCHANGED <<watched, code>>

-----------------------------------------------------------------------------
(* stop.                                                                    *)

Ask == /\ run = "signal"
       /\ run' = "await" /\ asked' = TRUE
       /\ UNCHANGED <<child, served, sig, killed, code, signalled>>

\* Seeded fault: stop does not wait for strfry to be gone.
AwaitNothing == run = "await" /\ Return(code)

Await == run = "await" /\ child = "reaped" /\ Return(code)

\* Seeded fault: strfry is given all the time it likes.
AwaitForEver == FALSE /\ UNCHANGED runVars

\* 10 seconds are over.
AwaitTimeout == /\ run = "await"
                /\ run' = "kill" /\ killed' = TRUE
                /\ UNCHANGED <<child, served, sig, asked, code, signalled>>

AwaitKilled == run = "kill" /\ child = "reaped" /\ Return(code)

-----------------------------------------------------------------------------
(* Around Run.                                                              *)

\* The goroutine on cmd.Wait.
Reap == /\ Alive /\ child = "exited"
        /\ child' = "reaped"
        /\ UNCHANGED <<run, served, sig, asked, killed, code, signalled>>

\* The system ends a killed process.
KillTakes == /\ child = "up" /\ killed
             /\ child' = "exited"
             /\ UNCHANGED <<run, served, sig, asked, killed, code, signalled>>

\* strfry exits: asked to or not.
Exit == /\ child = "up"
        /\ child' = "exited"
        /\ UNCHANGED <<run, served, sig, asked, killed, code, signalled>>

\* ListenAndServe returns an error, or was never able to listen.
ListenFails == /\ run \in {"started", "watch"} /\ ~served
               /\ served' = TRUE
               /\ UNCHANGED <<run, child, sig, asked, killed, code, signalled>>

\* SIGTERM or SIGINT; one that comes later waits in the channel unread.
Signal == /\ run = "watch" /\ ~sig
          /\ sig' = TRUE /\ signalled' = TRUE
          /\ UNCHANGED <<run, child, served, asked, killed, code>>

\* A signal before Notify, or the process is killed: Pdeathsig asks strfry.
Die == /\ Alive
       /\ run' = "dead" /\ asked' = (asked \/ child = "up")
       /\ UNCHANGED <<child, served, sig, killed, code, signalled>>

\* Run's own steps, its deadlines among them, but for Salted, which draws a salt.
RunStep == \/ NoCommand \/ Saltless \/ SpawnFails \/ Spawn \/ Notify
           \/ StrfryExited \/ ListenerStopped \/ Signalled \/ Shutdown
           \/ Ask \/ Await \/ AwaitTimeout \/ AwaitKilled

Around == Exit \/ ListenFails \/ Signal \/ Die

-----------------------------------------------------------------------------
(* "If this process dies, so does strfry", and "returns when either stops":  *)
(* when Run returns, strfry is gone and no process of it is left (stop).     *)
GoneOnReturn == run = "over" => child \in {"none", "reaped"}

(* "1 when one of them failed or exited, 0 on SIGTERM or SIGINT": success is *)
(* reported only by a front that was told to stop, whatever raced with it.   *)
SuccessOnlyWhenTold == run = "over" /\ code = 0 => signalled

(* Run returns in the end when strfry exits, the listener stops or a signal  *)
(* comes, though strfry may refuse every signal it can (Run, stop).          *)
RunReturns == (child = "exited" \/ served \/ signalled) ~> ~Alive
=============================================================================
