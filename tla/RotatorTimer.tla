---------------------------- MODULE RotatorTimer ----------------------------
(***************************************************************************)
(* The WandererRotatorLite driver (src/unnamed/part_000): the goto, home   *)
(* and abort commands and the TimerHit polling chain that reports the end *)
(* of a move.                                                               *)
(*                                                                         *)
(* All of them run on the driver's single event loop, so each handler is  *)
(* one step.  A timer armed by SetTimer is a pending callback: timers      *)
(* counts them, and every SetTimer call, wherever it is made, adds one.    *)
(* TimerHit consumes one and re-arms it only on the paths that call        *)
(* SetTimer again.  Angles are abstracted to the number of whole degrees  *)
(* a move covers (positioncount); the serial exchange of a handler is     *)
(* abstracted to its outcome, "ok" or a failed write or read ("timeout"). *)
(***************************************************************************)
EXTENDS Naturals

CONSTANTS
    MaxSteps,    \* largest positioncount a command sets
    MaxTimers,   \* bound on pending timer callbacks
    MaxCmds,     \* bound on the commands a client issues
    Serial       \* outcomes a serial exchange may have

ASSUME MaxSteps \in Nat /\ MaxTimers \in Nat \ {0} /\ MaxCmds \in Nat
ASSUME Serial \subseteq {"ok", "timeout"} /\ "ok" \in Serial

IPStates == {"idle", "ok", "busy", "alert"}

VARIABLES
    connected,     \* isConnected()
    timers,        \* pending TimerHit callbacks
    haltcommand,   \* WandererRotatorLite::haltcommand
    positioncount, \* WandererRotatorLite::positioncount
    gotoState,     \* GotoRotatorNP.s
    homeState,     \* HomeRotatorSP.s
    lastHit,       \* history: the branch the last TimerHit took
    cmds           \* commands issued so far

vars == <<connected, timers, haltcommand, positioncount, gotoState, homeState,
          lastHit, cmds>>

Branches == {"none", "offline", "halt", "step", "done", "read_failed", "poll"}

TypeOK ==
    /\ connected \in BOOLEAN
    /\ timers \in 0..MaxTimers
    /\ haltcommand \in BOOLEAN
    /\ positioncount \in 0..MaxSteps
    /\ gotoState \in IPStates
    /\ homeState \in IPStates
    /\ lastHit \in Branches
    /\ cmds \in 0..MaxCmds

\* initProperties: both vectors IPS_IDLE, nothing pending, not connected.
Init ==
    /\ connected = FALSE
    /\ timers = 0
    /\ haltcommand = FALSE
    /\ positioncount = 0
    /\ gotoState = "idle"
    /\ homeState = "idle"
    /\ lastHit = "none"
    /\ cmds = 0

\* SetTimer(...): one more pending callback.
Arm == timers' = timers + 1

\* A client request reaches a handler; the client issues at most MaxCmds.
Issue == cmds < MaxCmds /\ cmds' = cmds + 1

(***************************************************************************)
(* Connect: Handshake writes "1500001" and reads three replies; any failed *)
(* exchange returns false.  On success the device is connected and the    *)
(* base class starts the polling timer.                                   *)
(***************************************************************************)
Connect(io) ==
    /\ Issue
    /\ ~connected
    /\ io = "ok"
    /\ timers < MaxTimers
    /\ connected' = TRUE
    /\ Arm
    /\ UNCHANGED <<haltcommand, positioncount, gotoState, homeState, lastHit>>

\* Disconnect: pending timers stay armed.
Disconnect ==
    /\ Issue
    /\ connected
    /\ connected' = FALSE
    /\ UNCHANGED <<timers, haltcommand, positioncount, gotoState, homeState, lastHit>>

(***************************************************************************)
(* Move(cmd): positioncount = |steps| from the command, write the command, *)
(* and only if the write succeeds sleep and SetTimer(150).                 *)
(***************************************************************************)
Move(steps, io) ==
    /\ positioncount' = steps
    /\ IF io = "ok" THEN Arm ELSE UNCHANGED timers

(***************************************************************************)
(* MoveRotator (a GOTO request): backlash and sign handling, then Move;   *)
(* it returns IPS_BUSY whatever Move did, and the base class stores that  *)
(* in GotoRotatorNP.s.                                                     *)
(***************************************************************************)
MoveRotator(steps, io) ==
    /\ Issue
    /\ connected
    /\ timers < MaxTimers
    /\ Move(steps, io)
    /\ gotoState' = "busy"
    /\ UNCHANGED <<connected, haltcommand, homeState, lastHit>>

\* ISNewSwitch ROTATOR_HOME: HomeRotatorSP.s = HomeRotator(), i.e. Move, IPS_BUSY.
HomeRotator(steps, io) ==
    /\ Issue
    /\ connected
    /\ timers < MaxTimers
    /\ Move(steps, io)
    /\ homeState' = "busy"
    /\ UNCHANGED <<connected, haltcommand, gotoState, lastHit>>

(***************************************************************************)
(* AbortRotator: haltcommand = true, positioncount = 0 and SetTimer(10)   *)
(* before any I/O; "Stop" is written and two replies read, and only when  *)
(* the last read succeeds is haltcommand cleared again.                    *)
(***************************************************************************)
AbortRotator(io) ==
    /\ Issue
    /\ connected
    /\ timers < MaxTimers
    /\ haltcommand' = (io # "ok")
    /\ positioncount' = 0
    /\ Arm
    /\ UNCHANGED <<connected, gotoState, homeState, lastHit>>

\* A TimerHit whose Done branch reports only HomeRotatorSP.
TimerHitKeepsBusy(io) ==
    /\ timers > 0
    /\ connected /\ ~haltcommand /\ positioncount = 0
    /\ gotoState = "busy" \/ homeState = "busy"
    /\ io = "ok"
    /\ homeState' = "ok"
    /\ lastHit' = "done"
    /\ UNCHANGED <<connected, timers, haltcommand, positioncount, gotoState, cmds>>

\* A TimerHit that counts positioncount down without its "> 0" test.
TimerHitPastZero(io) ==
    /\ timers > 0
    /\ connected /\ ~haltcommand
    /\ io = "ok"
    /\ positioncount' = positioncount - 1
    /\ lastHit' = "step"
    /\ UNCHANGED <<connected, timers, haltcommand, gotoState, homeState, cmds>>

(***************************************************************************)
(* TimerHit: one pending callback runs.  Not connected: re-arm.           *)
(* haltcommand: both vectors IPS_OK, haltcommand and positioncount reset, *)
(* and return without SetTimer.  positioncount > 0: one degree of         *)
(* progress, SetTimer(150).  A busy vector: read two replies; a failed    *)
(* read returns without SetTimer, else both vectors IPS_OK.  Then         *)
(* SetTimer(polling period).                                               *)
(***************************************************************************)
TimerHit(io) ==
    /\ timers > 0
    /\ \/ /\ ~connected
          /\ lastHit' = "offline"
          /\ UNCHANGED <<timers, haltcommand, positioncount, gotoState, homeState>>
       \/ /\ connected /\ haltcommand
          /\ gotoState' = "ok" /\ homeState' = "ok"
          /\ haltcommand' = FALSE /\ positioncount' = 0
          /\ timers' = timers - 1
          /\ lastHit' = "halt"
       \/ /\ connected /\ ~haltcommand /\ positioncount > 0
          /\ positioncount' = positioncount - 1
          /\ lastHit' = "step"
          /\ UNCHANGED <<timers, haltcommand, gotoState, homeState>>
       \/ /\ connected /\ ~haltcommand /\ positioncount = 0
          /\ gotoState = "busy" \/ homeState = "busy"
          /\ \/ /\ io = "ok"
                /\ gotoState' = "ok" /\ homeState' = "ok"
                /\ lastHit' = "done"
                /\ UNCHANGED timers
             \/ /\ io = "timeout"
                /\ timers' = timers - 1
                /\ lastHit' = "read_failed"
                /\ UNCHANGED <<gotoState, homeState>>
          /\ UNCHANGED <<haltcommand, positioncount>>
       \/ /\ connected /\ ~haltcommand /\ positioncount = 0
          /\ gotoState # "busy" /\ homeState # "busy"
          /\ lastHit' = "poll"
          /\ UNCHANGED <<timers, haltcommand, positioncount, gotoState, homeState>>
    /\ UNCHANGED <<connected, cmds>>

Commands ==
    \/ \E io \in Serial : Connect(io)
    \/ Disconnect
    \/ \E s \in 0..MaxSteps, io \in Serial : MoveRotator(s, io) \/ HomeRotator(s, io)
    \/ \E io \in Serial : AbortRotator(io)

Poll == \E io \in Serial : TimerHit(io)

Next == Commands \/ Poll

\* The event loop runs every timer that is due: TimerHit is weakly fair.
Spec == Init /\ [][Next]_vars /\ WF_vars(Poll)

-----------------------------------------------------------------------------
(***************************************************************************)
(* Properties                                                              *)
(***************************************************************************)

(***************************************************************************)
(* A move or homing reported busy ends in one of three ways only: the     *)
(* TimerHit chain reports it finished (IPS_OK), the device is             *)
(* disconnected, or no timer is pending any more.  However the serial     *)
(* line behaves, the chain never spins forever on a busy vector.          *)
(***************************************************************************)
BusyEndsOrPollingStops ==
    /\ (gotoState = "busy") ~> (gotoState = "ok" \/ ~connected \/ timers = 0)
    /\ (homeState = "busy") ~> (homeState = "ok" \/ ~connected \/ timers = 0)

(***************************************************************************)
(* A connected rotator reported busy always has a TimerHit pending that   *)
(* will report the end of the move: the polling chain is never lost while *)
(* a client waits on GotoRotatorNP or HomeRotatorSP.                       *)
(***************************************************************************)
BusyHasPoller ==
    (connected /\ (gotoState = "busy" \/ homeState = "busy")) => timers > 0

=============================================================================
