------------------------------ MODULE PMC8Guide ------------------------------
(***************************************************************************)
(* The PMC8 mount driver (src/unnamed/part_001): slews, park and unpark,   *)
(* guide pulses with their IEAddTimer callbacks, Abort, and the           *)
(* ReadScopeStatus poll that reports the end of a slew or a park.         *)
(*                                                                         *)
(* Every handler runs on the driver's event loop, so each is one step.    *)
(* The two guide axes are NS (GuideNorth/GuideSouth) and WE (GuideEast/   *)
(* GuideWest); the direction within an axis changes nothing here.  A      *)
(* guide timer is a pending callback: GuideXXTID either is 0, names the   *)
(* pending timer ("live"), or names one that was removed ("stale"); a     *)
(* pending timer whose id was overwritten is an orphan, which still fires. *)
(* The mount itself is environment: it finishes a slew, and another       *)
(* client or the hand controller may start or stop tracking.  A serial    *)
(* exchange is abstracted to its outcome.                                  *)
(***************************************************************************)
EXTENDS Naturals

CONSTANTS
    MaxOrphans,  \* bound on orphaned guide timers per axis
    Serial       \* outcomes a serial exchange may have

ASSUME MaxOrphans \in Nat /\ Serial \subseteq {"ok", "timeout"} /\ "ok" \in Serial

Axes == {"NS", "WE"}
TrackStates == {"idle", "slewing", "tracking", "parking", "parked"}

VARIABLES
    trackState,  \* TrackState
    slewing,     \* the mount is moving to a target (what get_pmc8_is_scope_slewing reads)
    tracking,    \* the mount tracks (what get_pmc8_tracking_data reads)
    pulsing,     \* isPulsingNS, isPulsingWE
    guide,       \* GuideNSNP.s, GuideWENP.s
    tid,         \* GuideNSTID, GuideWETID: "zero", "live" or "stale"
    orphans      \* per axis: pending guide timers no TID names

vars == <<trackState, slewing, tracking, pulsing, guide, tid, orphans>>

\* After Handshake and getStartupData: an idle mount, nothing pending.
Init ==
    /\ trackState = "idle"
    /\ slewing = FALSE /\ tracking = FALSE
    /\ pulsing = [a \in Axes |-> FALSE]
    /\ guide = [a \in Axes |-> "idle"]
    /\ tid = [a \in Axes |-> "zero"]
    /\ orphans = [a \in Axes |-> 0]

(***************************************************************************)
(* Goto: slew_pmc8; on success TrackState = SCOPE_SLEWING, on failure      *)
(* return false.                                                          *)
(***************************************************************************)
Goto(io) ==
    /\ io = "ok"
    /\ trackState' = "slewing" /\ slewing' = TRUE
    /\ UNCHANGED <<tracking, pulsing, guide, tid, orphans>>

\* IERmTimer(GuideXXTID): removes the pending timer the id names, if any.
RmTimer(a) == IF tid[a] = "live" THEN "stale" ELSE tid[a]

(***************************************************************************)
(* Abort: with a guide pulse busy on either axis, both guide vectors go   *)
(* idle and the timers are removed; the WE branch clears GuideNSTID        *)
(* instead of GuideWETID, and isPulsingNS/WE are left as they are.  It    *)
(* returns true without stopping the mount.  Otherwise abort_pmc8.        *)
(***************************************************************************)
Abort(io) ==
    \/ /\ \E a \in Axes : guide[a] = "busy"
       /\ guide' = [a \in Axes |-> "idle"]
       /\ tid' = [tid EXCEPT !["NS"] = "zero", !["WE"] = RmTimer("WE")]
       /\ UNCHANGED <<trackState, slewing, tracking, pulsing, orphans>>
    \/ /\ \A a \in Axes : guide[a] # "busy"
       /\ io = "ok"
       /\ slewing' = FALSE
       /\ UNCHANGED <<trackState, tracking, pulsing, guide, tid, orphans>>

(***************************************************************************)
(* Park: park_pmc8; on success SCOPE_PARKING.  UnPark: unpark_pmc8; on     *)
(* success SetParked(false) and SCOPE_IDLE.  Neither checks TrackState;   *)
(* whatever INDI::Telescope checks before calling them is not in this      *)
(* repository, so a client may send them in any state.                    *)
(***************************************************************************)
Park(io) ==
    /\ io = "ok"
    /\ trackState' = "parking" /\ slewing' = TRUE
    /\ UNCHANGED <<tracking, pulsing, guide, tid, orphans>>

UnPark(io) ==
    /\ io = "ok"
    /\ trackState' = "idle"
    /\ UNCHANGED <<slewing, tracking, pulsing, guide, tid, orphans>>

(***************************************************************************)
(* GuideNorth/South/East/West on axis a: only while tracking, the old     *)
(* timer is removed, isPulsing set and the pulse started, IPS_BUSY; else  *)
(* IPS_IDLE.  Either way IEAddTimer arms a new timer whose id replaces     *)
(* GuideXXTID: a timer still pending under the old id becomes an orphan.  *)
(* The guider interface stores the result in the guide vector.            *)
(***************************************************************************)
\* A guide call that arms its timer only when it cannot guide.
GuideNoTimer(a) ==
    /\ \/ /\ trackState = "tracking"
          /\ pulsing' = [pulsing EXCEPT ![a] = TRUE]
          /\ guide' = [guide EXCEPT ![a] = "busy"]
          /\ tid' = [tid EXCEPT ![a] = "zero"]
          /\ UNCHANGED orphans
       \/ /\ trackState # "tracking"
          /\ tid[a] = "live" => orphans[a] < MaxOrphans
          /\ guide' = [guide EXCEPT ![a] = "idle"]
          /\ tid' = [tid EXCEPT ![a] = "live"]
          /\ orphans' = [orphans EXCEPT ![a] = IF tid[a] = "live" THEN @ + 1 ELSE @]
          /\ UNCHANGED pulsing
    /\ UNCHANGED <<trackState, slewing, tracking>>

Guide(a) ==
    /\ \/ /\ trackState = "tracking"
          /\ pulsing' = [pulsing EXCEPT ![a] = TRUE]
          /\ guide' = [guide EXCEPT ![a] = "busy"]
          /\ tid' = [tid EXCEPT ![a] = "live"]
          /\ UNCHANGED orphans
       \/ /\ trackState # "tracking"
          /\ tid[a] = "live" => orphans[a] < MaxOrphans
          /\ guide' = [guide EXCEPT ![a] = "idle"]
          /\ tid' = [tid EXCEPT ![a] = "live"]
          /\ orphans' = [orphans EXCEPT ![a] = IF tid[a] = "live" THEN @ + 1 ELSE @]
          /\ UNCHANGED pulsing
    /\ UNCHANGED <<trackState, slewing, tracking>>

(***************************************************************************)
(* guideTimeout(calldir): a pending guide timer of axis a fires, the one  *)
(* GuideXXTID names or an orphan.  stop_pmc8_guide, isPulsing false, the  *)
(* guide vector idle and GuideXXTID = 0, whichever timer it was: when an  *)
(* orphan fires, the timer the id named is an orphan from then on.        *)
(***************************************************************************)
guideTimeout(a) ==
    /\ \/ /\ tid[a] = "live"
          /\ UNCHANGED orphans
       \/ /\ orphans[a] > 0
          /\ orphans' = [orphans EXCEPT ![a] = IF tid[a] = "live" THEN @ ELSE @ - 1]
    /\ pulsing' = [pulsing EXCEPT ![a] = FALSE]
    /\ guide' = [guide EXCEPT ![a] = "idle"]
    /\ tid' = [tid EXCEPT ![a] = "zero"]
    /\ UNCHANGED <<trackState, slewing, tracking>>

(***************************************************************************)
(* ReadScopeStatus, from the base class's polling timer: nothing while a  *)
(* pulse is in progress.  Slewing: when the mount has stopped, TRACKING   *)
(* and SetTrackEnabled(true), whose failed write leaves the mount as it  *)
(* was.  Parking: when stopped, stop_pmc8_tracking_motion (its failure is *)
(* only logged) and SetParked(true).  Idle and tracking: on every tenth   *)
(* poll (check) the tracking rate is read and TrackState follows the      *)
(* mount.  A failed read changes nothing.                                  *)
(***************************************************************************)
ReadScopeStatus(io, check) ==
    /\ \/ /\ \E a \in Axes : pulsing[a]
          /\ UNCHANGED <<trackState, tracking>>
       \/ /\ \A a \in Axes : ~pulsing[a]
          /\ \/ /\ trackState = "slewing" /\ io = "ok" /\ ~slewing
                /\ trackState' = "tracking"
                /\ \E w \in Serial : tracking' = (w = "ok" \/ tracking)
             \/ /\ trackState = "parking" /\ io = "ok" /\ ~slewing
                /\ trackState' = "parked"
                /\ \E w \in Serial : tracking' = (w # "ok" /\ tracking)
             \/ /\ trackState = "idle" /\ io = "ok" /\ check /\ tracking
                /\ trackState' = "tracking"
                /\ UNCHANGED tracking
             \/ /\ trackState = "tracking" /\ io = "ok" /\ check /\ ~tracking
                /\ trackState' = "idle"
                /\ UNCHANGED tracking
             \/ /\ ~(io = "ok" /\ \/ trackState \in {"slewing", "parking"} /\ ~slewing
                                  \/ check /\ trackState = "idle" /\ tracking
                                  \/ check /\ trackState = "tracking" /\ ~tracking)
                /\ UNCHANGED <<trackState, tracking>>
    /\ UNCHANGED <<slewing, pulsing, guide, tid, orphans>>

\* The mount reaches its target.
mountArrives ==
    /\ slewing
    /\ slewing' = FALSE
    /\ UNCHANGED <<trackState, tracking, pulsing, guide, tid, orphans>>

\* Another client, or the hand controller, starts or stops tracking.
externalTracking(on) ==
    /\ ~slewing /\ trackState # "parked"
    /\ tracking # on
    /\ tracking' = on
    /\ UNCHANGED <<trackState, slewing, pulsing, guide, tid, orphans>>

Poll == \E io \in Serial, check \in BOOLEAN : ReadScopeStatus(io, check)

Next ==
    \/ \E io \in Serial : Goto(io) \/ Abort(io) \/ Park(io) \/ UnPark(io)
    \/ \E a \in Axes : Guide(a) \/ guideTimeout(a)
    \/ Poll
    \/ mountArrives
    \/ \E on \in BOOLEAN : externalTracking(on)

(***************************************************************************)
(* The event loop runs every timer that is due: each axis's guide timers  *)
(* and the polling timer are weakly fair, and so is a poll that reaches   *)
(* the mount and reads its tracking data (every tenth poll does).  The    *)
(* mount finishes every slew.                                              *)
(***************************************************************************)
Spec ==
    /\ Init /\ [][Next]_vars
    /\ \A a \in Axes : WF_vars(guideTimeout(a))
    /\ WF_vars(ReadScopeStatus("ok", TRUE))
    /\ WF_vars(mountArrives)

-----------------------------------------------------------------------------
(***************************************************************************)
(* Properties                                                              *)
(***************************************************************************)

(***************************************************************************)
(* A guide pulse reported busy is always reported finished: GuideNSNP or  *)
(* GuideWENP at IPS_BUSY returns to idle, by its timer's guideTimeout or  *)
(* by Abort, whatever guide calls, slews and aborts come in between.      *)
(***************************************************************************)
GuideBusyEnds ==
    \A a \in Axes : (guide[a] = "busy") ~> (guide[a] = "idle")

(***************************************************************************)
(* A set isPulsingNS/isPulsingWE always has a guide timer pending on its  *)
(* axis.  While either flag is set ReadScopeStatus returns before reading *)
(* the mount (part_001 409), and only guideTimeout clears it; Abort       *)
(* removes the guide timers (598-614) and leaves the flags.  With no      *)
(* timer pending, the status poll stays blocked, and a slew or park ends  *)
(* unreported, until a later guide call on that axis arms a new timer.    *)
(***************************************************************************)
PulseHasTimer ==
    \A a \in Axes : pulsing[a] => (tid[a] = "live" \/ orphans[a] > 0)

=============================================================================
