--------------------------- MODULE PropertyUpdate ---------------------------
(***************************************************************************)
(* BaseDevice::setValue (basedevice.cpp) for the non-BLOB kinds: one      *)
(* set*Vector element applied to an existing property by the connection's *)
(* reader thread, while an application thread reads the same property     *)
(* through the object getProperty handed out.                              *)
(*                                                                         *)
(* The writer takes d->m_Lock only inside getProperty; the state, the      *)
(* timeout and every widget are then written with no lock held, one       *)
(* widget per iteration of for_property, and the mediator is called after *)
(* emitUpdate.  A widget's value is abstracted to the generation of the   *)
(* element that wrote it.                                                  *)
(***************************************************************************)
EXTENDS Integers, FiniteSets

CONSTANTS
    Widgets,     \* widget names of the property
    IPStates,    \* IPS_IDLE, IPS_OK, IPS_BUSY, IPS_ALERT
    Timeouts,    \* a few timeout values
    Elements     \* the sets of widgets a set*Vector element may name

ASSUME Widgets # {} /\ Elements \subseteq SUBSET Widgets /\ Elements # {}
ASSUME IPStates # {} /\ Timeouts # {}

\* What the state and timeout attributes of an element may carry.
StateAttr   == IPStates \cup {"absent", "bogus"}
TimeoutAttr == Timeouts \cup {"absent"}

VARIABLES
    state,       \* property.getState()
    timeout,     \* property.getTimeout()
    value,       \* per widget: generation of the element that last wrote it
    gen,         \* generation of the element being (or last) applied
    writing,     \* writer: inside setValue, between the state and the mediator
    wpc,         \* writer: the widgets of the element still to write
    observed,    \* history: widget values the mediator was last handed
    reading,     \* reader: holds the property and is reading its widgets
    rpc,         \* reader: the widgets still to read
    snapshot     \* reader: the values read so far

vars == <<state, timeout, value, gen, writing, wpc, observed, reading, rpc, snapshot>>

Gens == {0, 1, 2}

TypeOK ==
    /\ state \in IPStates
    /\ timeout \in Timeouts
    /\ value \in [Widgets -> Gens]
    /\ gen \in Gens
    /\ writing \in BOOLEAN /\ wpc \in SUBSET Widgets
    /\ observed \in [Widgets -> Gens]
    /\ reading \in BOOLEAN /\ rpc \in SUBSET Widgets
    /\ snapshot \in [Widgets -> Gens \cup {-1}]

\* A property as buildProp defined it: every widget from the definition.
Init ==
    /\ state \in IPStates
    /\ timeout \in Timeouts
    /\ value = [w \in Widgets |-> 0]
    /\ gen = 0
    /\ writing = FALSE /\ wpc = {}
    /\ observed = [w \in Widgets |-> 0]
    /\ reading = FALSE /\ rpc = {}
    /\ snapshot = [w \in Widgets |-> -1]

\* The next element's generation: 1 and 2 alternate after the definition's 0.
NextGen == IF gen = 1 THEN 2 ELSE 1

(***************************************************************************)
(* setValue up to the widget loop: the property is found; "1." sets the   *)
(* state to what toIPState returned and only then tests ok, returning -1  *)
(* for a missing or bogus state; "2." sets the timeout when it parses.     *)
(* A state attribute that does not parse gives toIPState's fallback,       *)
(* whatever it is.                                                         *)
(***************************************************************************)
\* setValue storing the state attribute as received when it does not parse.
setValueRawState(sa, ta, members) ==
    /\ ~writing
    /\ \/ /\ sa \in {"absent", "bogus"}
          /\ state' = sa
          /\ UNCHANGED <<timeout, writing, wpc, gen>>
       \/ /\ sa \in IPStates
          /\ state' = sa
          /\ timeout' = IF ta = "absent" THEN timeout ELSE ta
          /\ writing' = TRUE /\ wpc' = members
          /\ gen' = NextGen
    /\ UNCHANGED <<value, observed, reading, rpc, snapshot>>

setValue(sa, ta, members) ==
    /\ ~writing
    /\ \/ /\ sa \in {"absent", "bogus"}
          /\ \E s \in IPStates : state' = s            \* setState(toIPState(&ok))
          /\ UNCHANGED <<timeout, writing, wpc, gen>>  \* return -1
       \/ /\ sa \in IPStates
          /\ state' = sa
          /\ timeout' = IF ta = "absent" THEN timeout ELSE ta
          /\ writing' = TRUE /\ wpc' = members
          /\ gen' = NextGen
    /\ UNCHANGED <<value, observed, reading, rpc, snapshot>>

(***************************************************************************)
(* for_property: one child element; findWidgetByName, and setValue /      *)
(* setState / setText on the widget (a name the property lacks is         *)
(* skipped, so an element only ever names existing widgets here).         *)
(***************************************************************************)
applyWidget(w) ==
    /\ writing /\ w \in wpc
    /\ value' = [value EXCEPT ![w] = gen]
    /\ wpc' = wpc \ {w}
    /\ UNCHANGED <<state, timeout, gen, writing, observed, reading, rpc, snapshot>>

\* emitUpdate, then mediator->newNumber/newSwitch/...(property); return 0.
mediate ==
    /\ writing /\ wpc = {}
    /\ observed' = value
    /\ writing' = FALSE
    /\ UNCHANGED <<state, timeout, value, gen, wpc, reading, rpc, snapshot>>

\* The application thread fetches the property (getProperty, under the lock).
readStart ==
    /\ ~reading
    /\ reading' = TRUE /\ rpc' = Widgets
    /\ snapshot' = [w \in Widgets |-> -1]
    /\ UNCHANGED <<state, timeout, value, gen, writing, wpc, observed>>

\* ... and reads its widgets one after the other, with no lock held.
readWidget(w) ==
    /\ reading /\ w \in rpc
    /\ snapshot' = [snapshot EXCEPT ![w] = value[w]]
    /\ rpc' = rpc \ {w}
    /\ reading' = (rpc' # {})
    /\ UNCHANGED <<state, timeout, value, gen, writing, wpc, observed>>

\* An element names some of the property's widgets (for_property applies
\* the children it finds and skips the rest).
Next ==
    \/ \E sa \in StateAttr, ta \in TimeoutAttr, m \in Elements : setValue(sa, ta, m)
    \/ \E w \in Widgets : applyWidget(w)
    \/ mediate
    \/ readStart
    \/ \E w \in Widgets : readWidget(w)

Spec == Init /\ [][Next]_vars

-----------------------------------------------------------------------------
(***************************************************************************)
(* Properties                                                              *)
(***************************************************************************)

(***************************************************************************)
(* The spec's locking discipline: widget updates are guarded so that a   *)
(* reader on another thread never observes a torn update.  An application *)
(* thread that reads every widget of the property sees them all from one  *)
(* element (checked where every element names every widget, as drivers   *)
(* send them: then a mix of generations is a torn read).                 *)
(***************************************************************************)
ReaderSeesWholeUpdate ==
    (~reading /\ \A w \in Widgets : snapshot[w] # -1)
        => \A w1, w2 \in Widgets : snapshot[w1] = snapshot[w2]

=============================================================================
