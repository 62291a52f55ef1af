---------------------------- MODULE ImagerBatch ----------------------------
(***************************************************************************)
(* The Imager agent (scopesim_helper.h 436-1076, agent_imager.cpp): a     *)
(* driver that is also a client of a CCD and a filter wheel, and runs a   *)
(* batch of image groups on them.  A group has an image count and a       *)
(* filter slot (0: any filter).                                            *)
(*                                                                         *)
(* The agent sends a filter slot or an exposure request and continues     *)
(* when the device's property update comes back (updateProperty).  Each   *)
(* handler (a client's BATCH or GROUPS request, a device update) is one   *)
(* step, with initiateNextFilter/initiateNextCapture inlined, as the      *)
(* code calls them.  Requests the devices have not yet answered are       *)
(* pending: wheelQ lists the slots sent to the wheel, inflight counts the *)
(* exposures the CCD still owes.  Image data is left out; a saved image   *)
(* is named by its group, image and format (IMAGE_NAME), the directory    *)
(* and prefix being fixed.                                                 *)
(***************************************************************************)
EXTENDS Naturals, Sequences

CONSTANTS
    MaxGroups,   \* MAX_GROUP_COUNT
    Count,       \* groups[g]->count(), for g in 1..MaxGroups
    Slot,        \* groups[g]->filterSlot()
    MaxPending,  \* bound on unanswered requests to one device
    Formats      \* the formats (file extensions) the CCD may deliver

ASSUME MaxGroups \in Nat \ {0} /\ MaxPending \in Nat \ {0}
ASSUME Count \in [1..MaxGroups -> Nat \ {0}] /\ Slot \in [1..MaxGroups -> Nat]

MaxImages == CHOOSE n \in {Count[g] : g \in 1..MaxGroups} :
                 \A g \in 1..MaxGroups : Count[g] <= n

IPStates == {"idle", "ok", "busy", "alert"}

VARIABLES
    progress,    \* ProgressNP.getState(); isRunning() is progress = "busy"
    group,       \* current group, 1-based (currentGroup() is groups[group - 1])
    image,       \* current image of the group
    maxGroup,    \* GROUP_COUNT
    maxImage,    \* image count of the current group
    slotSet,     \* FilterSlotN[0].value: the slot the agent last set or was told
    wheelQ,      \* slots sent to the wheel and not yet reported back
    inflight,    \* exposures requested from the CCD and not yet reported
    ccd,         \* StatusLP[CCD] state; isCCDConnected() is ccd = "ok"
    wheel,       \* StatusLP[FILTER] state
    crashed,     \* a call through the null pointer getGroup returned
    online,      \* isConnected(): the agent is connected to the INDI server
    phase,       \* per controlled device: what the server has told the agent of it
    files,       \* images on disk, as <<group, image, format>>
    format,      \* the member format: the extension of the last saved image
    download     \* DownloadNP.s

vars == <<progress, group, image, maxGroup, maxImage, slotSet, wheelQ, inflight,
          ccd, wheel, crashed, online, phase, files, format, download>>

Disk == <<files, format, download>>

Devices == {"ccd", "wheel"}

TypeOK ==
    /\ progress \in IPStates
    /\ group \in 0..MaxGroups
    /\ image \in 0..MaxImages
    /\ maxGroup \in 1..MaxGroups
    /\ maxImage \in 0..MaxImages
    /\ slotSet \in Nat
    /\ wheelQ \in Seq(Nat) /\ Len(wheelQ) <= MaxPending
    /\ inflight \in 0..MaxPending
    /\ ccd \in IPStates /\ wheel \in IPStates
    /\ crashed \in BOOLEAN /\ online \in BOOLEAN
    /\ phase \in [Devices -> {"none", "device", "defined"}]
    /\ files \subseteq (1..MaxGroups) \X (1..MaxImages) \X Formats
    /\ format \in Formats /\ download \in IPStates

(***************************************************************************)
(* initProperties: one group, ProgressNP idle at group 0 image 0, filter  *)
(* slot 1, both status lights idle; not connected to the server.          *)
(***************************************************************************)
Init ==
    /\ progress = "idle"
    /\ group = 0 /\ image = 0
    /\ maxGroup = 1 /\ maxImage = 0
    /\ slotSet = 1
    /\ wheelQ = <<>> /\ inflight = 0
    /\ ccd = "idle" /\ wheel = "idle"
    /\ crashed = FALSE /\ online = FALSE
    /\ phase = [d \in Devices |-> "none"]
    /\ files = {} /\ format \in Formats /\ download = "idle"

\* serverConnected / serverDisconnected: both status lights alert.
serverConnected == ccd' = "alert" /\ wheel' = "alert"
serverDisconnected == ccd' = "alert" /\ wheel' = "alert"

(***************************************************************************)
(* CONNECTION on: Connect() connects to the server, updateProperties then *)
(* zeroes group and image, idles ProgressNP and DownloadNP, and the       *)
(* listener's first callback is serverConnected.                           *)
(***************************************************************************)
agentConnect ==
    /\ ~crashed /\ ~online
    /\ online' = TRUE
    /\ group' = 0 /\ image' = 0 /\ progress' = "idle" /\ download' = "idle"
    /\ serverConnected
    /\ UNCHANGED <<maxGroup, maxImage, slotSet, wheelQ, inflight, crashed, phase,
                   files, format>>

(***************************************************************************)
(* CONNECTION off: Disconnect() aborts a running batch and disconnects    *)
(* from the server (serverDisconnected); no reply of a device arrives any *)
(* more, so nothing is pending.                                            *)
(***************************************************************************)
agentDisconnect ==
    /\ ~crashed /\ online
    /\ online' = FALSE
    /\ progress' = IF progress = "busy" THEN "alert" ELSE progress
    /\ wheelQ' = <<>> /\ inflight' = 0
    /\ phase' = [d \in Devices |-> "none"]
    /\ serverDisconnected
    /\ UNCHANGED <<group, image, maxGroup, maxImage, slotSet, crashed>>
    /\ UNCHANGED Disk

(***************************************************************************)
(* getGroup(index) returns groups[index] for -1 < index <= maxGroup and   *)
(* the null pointer otherwise: TRUE when it returns a group.  currentGroup *)
(* is getGroup(group - 1), nextGroup is getGroup(group).                  *)
(***************************************************************************)
getGroup(index) == index >= 0 /\ index <= maxGroup

\* The guard shared by initiateNextFilter and initiateNextCapture.
InBatch(g, i, mg, mi) == g > 0 /\ i > 0 /\ g <= mg /\ i <= mi

(***************************************************************************)
(* initiateNextCapture, on progress p and the given position: if the      *)
(* batch runs and the position is in range, alert when the CCD is not     *)
(* connected, else send binning, exposure and upload settings: one more   *)
(* exposure owed.  Returns the new progress and inflight.                 *)
(***************************************************************************)
Capture(p, g, i, mg, mi, fl) ==
    CASE p = "busy" /\ InBatch(g, i, mg, mi) /\ ccd # "ok"
             -> [progress |-> "alert", inflight |-> fl]
      [] p = "busy" /\ InBatch(g, i, mg, mi) /\ ccd = "ok"
             -> [progress |-> p, inflight |-> fl + 1]
      [] OTHER -> [progress |-> p, inflight |-> fl]

(***************************************************************************)
(* initiateNextFilter: if the batch runs and the position is in range:    *)
(* without a filter wheel, alert when the group needs a filter and capture *)
(* otherwise; with one, send the group's slot when it needs a filter the  *)
(* agent has not set, and capture otherwise.                               *)
(***************************************************************************)
Filter(p, g, i, mg, mi, fl) ==
    LET run     == p = "busy" /\ InBatch(g, i, mg, mi)
        s       == Slot[g]
        capture == Capture(p, g, i, mg, mi, fl)
        Result(pr, f, ss, q) == [progress |-> pr, inflight |-> f, slotSet |-> ss, wheelQ |-> q]
    IN
    CASE run /\ wheel # "ok" /\ s # 0
             -> Result("alert", fl, slotSet, wheelQ)
      [] run /\ wheel = "ok" /\ s # 0 /\ slotSet # s
             -> Result(p, fl, s, Append(wheelQ, s))
      [] run /\ (s = 0 \/ (wheel = "ok" /\ slotSet = s))
             -> Result(capture.progress, capture.inflight, slotSet, wheelQ)
      [] OTHER -> Result(p, fl, slotSet, wheelQ)

\* Apply the result r of Filter or Capture.
Apply(r) ==
    /\ progress' = r.progress /\ inflight' = r.inflight
    /\ slotSet' = r.slotSet /\ wheelQ' = r.wheelQ

(***************************************************************************)
(* startBatch: group 1, image 1, maxImage from the first group, ProgressNP *)
(* busy, then initiateNextFilter.                                          *)
(***************************************************************************)
StartResult == Filter("busy", 1, 1, maxGroup, Count[1], inflight)

startBatch ==
    /\ group' = 1 /\ image' = 1 /\ maxImage' = Count[1]
    /\ Apply(StartResult)

\* abortBatch: ProgressNP alert; nothing is sent to the devices.
abortBatch ==
    /\ progress' = "alert"
    /\ UNCHANGED <<group, image, maxImage, slotSet, wheelQ, inflight>>

\* startBatch immediately followed by abortBatch, in one ISNewSwitch.
startThenAbort ==
    /\ group' = 1 /\ image' = 1 /\ maxImage' = Count[1]
    /\ progress' = "alert"
    /\ inflight' = StartResult.inflight
    /\ slotSet' = StartResult.slotSet /\ wheelQ' = StartResult.wheelQ

\* The switches of a BATCH element that are ON, in the client's order.
Presses == {<<"start">>, <<"abort">>, <<"start", "abort">>, <<"abort", "start">>}

(***************************************************************************)
(* ISNewSwitch BATCH (a property defined only while connected): the loop  *)
(* meets the ON switches in the element's order.  START starts a batch    *)
(* unless one runs; ABORT aborts a running one.  So START then ABORT on a *)
(* batch not running starts and aborts it, ABORT then START on a running  *)
(* one aborts it and starts a new one at group 1, image 1.  A press that *)
(* finds nothing to do changes only BatchSP.  A client presses START      *)
(* while at most MaxPending requests are unanswered.                       *)
(***************************************************************************)
BatchSwitch(order) ==
    /\ ~crashed /\ online
    /\ LET room == inflight < MaxPending /\ Len(wheelQ) < MaxPending IN
       \/ /\ order = <<"start">> /\ progress # "busy" /\ room
          /\ startBatch
       \/ /\ order = <<"start", "abort">> /\ progress # "busy" /\ room
          /\ startThenAbort
       \/ /\ order = <<"abort", "start">> /\ room
          /\ startBatch
       \/ /\ order \in {<<"abort">>, <<"start", "abort">>} /\ progress = "busy"
          /\ abortBatch
    /\ UNCHANGED <<maxGroup, ccd, wheel, crashed, online, phase>> /\ UNCHANGED Disk

(***************************************************************************)
(* ISNewNumber GROUPS: the group count is replaced (and capped at         *)
(* MAX_GROUP_COUNT), whether or not a batch is running.                    *)
(***************************************************************************)
setGroupCount(n) ==
    /\ ~crashed
    /\ maxGroup' = n
    /\ UNCHANGED <<progress, group, image, maxImage, slotSet, wheelQ, inflight,
                   ccd, wheel, crashed, online, phase>> /\ UNCHANGED Disk

\* batchDone: ProgressNP IPS_OK.
batchDone == progress' = "ok"

\* The progression without its last-image test: always the next image.
AdvanceNoLastCheck(fl) ==
    /\ image' = image + 1
    /\ Apply(Filter(progress, group, image + 1, maxGroup, maxImage, fl))
    /\ UNCHANGED <<group, maxImage, crashed>>

(***************************************************************************)
(* The progression shared by the BLOB and CCD_FILE_PATH updates: the last *)
(* image of the last group ends the batch (batchDone); the last image of  *)
(* another group moves to nextGroup(), which is null past maxGroup;        *)
(* otherwise the next image.  Then initiateNextFilter.  fl is inflight    *)
(* after the exposure that just reported.                                  *)
(***************************************************************************)
Advance(fl) ==
    \/ /\ image = maxImage /\ group = maxGroup
       /\ batchDone
       /\ inflight' = fl
       /\ UNCHANGED <<group, image, maxImage, slotSet, wheelQ, crashed>>
    \/ /\ image = maxImage /\ group # maxGroup /\ ~getGroup(group)
       /\ crashed' = TRUE                                 \* nextGroup()->count()
       /\ UNCHANGED <<progress, group, image, maxImage, slotSet, wheelQ, inflight>>
    \/ /\ image = maxImage /\ group # maxGroup /\ getGroup(group)
       /\ group' = group + 1 /\ image' = 1 /\ maxImage' = Count[group + 1]
       /\ Apply(Filter(progress, group + 1, 1, maxGroup, Count[group + 1], fl))
       /\ UNCHANGED crashed
    \/ /\ image # maxImage
       /\ image' = image + 1
       /\ Apply(Filter(progress, group, image + 1, maxGroup, maxImage, fl))
       /\ UNCHANGED <<group, maxImage, crashed>>

(***************************************************************************)
(* Saving the reported image under the current group and image, with the  *)
(* format f it came in, which becomes the member format.                   *)
(***************************************************************************)
Save(f) ==
    /\ format' = f
    /\ files' = files \cup {<<group, image, f>>}

(***************************************************************************)
(* updateProperty CCD_FILE_PATH: the file the CCD wrote is renamed to the *)
(* current group and image, with its extension, and the batch advanced,  *)
(* whether or not ProgressNP is busy.                                      *)
(***************************************************************************)
ccdFilePath ==
    /\ ~crashed /\ online /\ inflight > 0 /\ phase["ccd"] = "defined"
    /\ \E f \in Formats : Save(f)
    /\ UNCHANGED download
    /\ Advance(inflight - 1)
    /\ UNCHANGED <<maxGroup, ccd, wheel, online, phase>>

(***************************************************************************)
(* updateProperty of a BLOB: only while ProgressNP is busy is the image   *)
(* saved (in the BLOB's format) and the batch advanced.                    *)
(***************************************************************************)
ccdBlob ==
    /\ ~crashed /\ online /\ inflight > 0 /\ phase["ccd"] = "defined"
    /\ \/ /\ progress = "busy"
          /\ \E f \in Formats : Save(f)
          /\ Advance(inflight - 1)
       \/ /\ progress # "busy"
          /\ inflight' = inflight - 1
          /\ UNCHANGED <<progress, group, image, maxImage, slotSet, wheelQ, crashed,
                         files, format>>
    /\ UNCHANGED <<maxGroup, ccd, wheel, online, phase, download>>

filterSlot ==
    /\ ~crashed /\ online /\ wheelQ # <<>> /\ phase["wheel"] = "defined"
    /\ inflight < MaxPending
    /\ slotSet' = Head(wheelQ)
    /\ wheelQ' = Tail(wheelQ)
    /\ LET r == Capture(progress, group, image, maxGroup, maxImage, inflight)
       IN progress' = r.progress /\ inflight' = r.inflight
    /\ UNCHANGED <<group, image, maxGroup, maxImage, ccd, wheel, crashed, online, phase>>
    /\ UNCHANGED Disk

\* The status light of a controlled device.
Light(dev, st) ==
    \/ dev = "ccd" /\ ccd' = st /\ UNCHANGED wheel
    \/ dev = "wheel" /\ wheel' = st /\ UNCHANGED ccd

OnlyLights == UNCHANGED <<progress, group, image, maxGroup, maxImage, slotSet, wheelQ,
                          inflight, crashed, online, files, format, download>>

\* newDevice: a controlled device appears; its light goes busy.
newDevice(dev) ==
    /\ ~crashed /\ online /\ phase[dev] = "none"
    /\ phase' = [phase EXCEPT ![dev] = "device"]
    /\ Light(dev, "busy")
    /\ OnlyLights

(***************************************************************************)
(* newProperty CONNECTION: a connected device's light goes OK; for one    *)
(* not connected the agent sends connectDevice and leaves the light.      *)
(***************************************************************************)
connectionDefined(dev, on) ==
    /\ ~crashed /\ online /\ phase[dev] = "device"
    /\ phase' = [phase EXCEPT ![dev] = "defined"]
    /\ IF on THEN Light(dev, "ok") ELSE UNCHANGED <<ccd, wheel>>
    /\ OnlyLights

\* updateProperty CONNECTION: the light goes OK when connected, else busy.
connectionUpdated(dev, on) ==
    /\ ~crashed /\ online /\ phase[dev] = "defined"
    /\ UNCHANGED phase
    /\ Light(dev, IF on THEN "ok" ELSE "busy")
    /\ OnlyLights

(***************************************************************************)
(* ISNewNumber DOWNLOAD (defined only while connected), then               *)
(* initiateDownload: a request for group or image 0 does nothing; else   *)
(* the file named with the requested group and image and the member       *)
(* format is read, removed and sent (DownloadNP OK), or, not found,      *)
(* DownloadNP is alert.                                                    *)
(***************************************************************************)
initiateDownload(g, i) ==
    /\ ~crashed /\ online
    /\ g # 0 /\ i # 0
    /\ \/ /\ <<g, i, format>> \in files
          /\ files' = files \ {<<g, i, format>>}
          /\ download' = "ok"
       \/ /\ <<g, i, format>> \notin files
          /\ download' = "alert"
          /\ UNCHANGED files
    /\ UNCHANGED format
    /\ UNCHANGED <<progress, group, image, maxGroup, maxImage, slotSet, wheelQ,
                   inflight, ccd, wheel, crashed, online, phase>>

Next ==
    \/ \E g \in 0..MaxGroups, i \in 0..MaxImages : initiateDownload(g, i)
    \/ \E order \in Presses : BatchSwitch(order)
    \/ \E n \in 1..MaxGroups : setGroupCount(n)
    \/ ccdBlob
    \/ ccdFilePath
    \/ filterSlot
    \/ agentConnect
    \/ agentDisconnect
    \/ \E dev \in Devices : newDevice(dev)
    \/ \E dev \in Devices, on \in BOOLEAN :
           connectionDefined(dev, on) \/ connectionUpdated(dev, on)

(***************************************************************************)
(* The CCD and the filter wheel answer what they are sent: a pending       *)
(* exposure is eventually reported (as a BLOB or as CCD_FILE_PATH) and a  *)
(* pending slot is eventually reached.  The client is not fair: it may    *)
(* press nothing more, ever.                                               *)
(***************************************************************************)
Fairness ==
    /\ WF_vars(ccdBlob \/ ccdFilePath)
    /\ WF_vars(filterSlot)

Spec == Init /\ [][Next]_vars /\ Fairness

-----------------------------------------------------------------------------
(***************************************************************************)
(* Properties                                                              *)
(***************************************************************************)

(***************************************************************************)
(* An aborted batch is never reported done: once ProgressNP is alert (an  *)
(* abort, or a device missing), batchDone does not turn it to IPS_OK; only *)
(* a new START (busy) or a reconnect (idle) leaves alert.                  *)
(***************************************************************************)
AbortedStaysAborted ==
    [][progress = "alert" => progress' # "ok"]_vars

=============================================================================
