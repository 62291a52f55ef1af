--------------------------- MODULE DeviceRegistry ---------------------------
(***************************************************************************)
(* The property registry of one INDI::BaseDevice (basedevice.cpp,         *)
(* basedevice_p.h): the ordered property list pAll, the per-name watch     *)
(* map, the message log, and the threads that call into them.             *)
(*                                                                         *)
(* d->m_Lock is held only inside getProperty, removeProperty, the          *)
(* push_back of BaseDevicePrivate::addProperty and the push_back of        *)
(* addMessage; none of these critical sections calls out, so each one is  *)
(* a single atomic step here and the lock itself needs no variable.  A     *)
(* call that takes the lock twice, or reads shared state after releasing   *)
(* it, is split into one step per critical section: that is where another  *)
(* thread can interleave.                                                  *)
(***************************************************************************)
EXTENDS Integers, Sequences, SequencesExt, FiniteSets

CONSTANTS
    Threads,     \* threads calling into the device (network reader, driver)
    Names,       \* property names
    Kinds,       \* INDI_NUMBER, INDI_SWITCH, ... (a small subset suffices)
    MaxProps,    \* bound on the length of pAll
    MaxMsgs,     \* bound on the length of the message log
    Skeletons    \* skeleton files a driver may load: sequences of definitions

ASSUME Threads # {} /\ Names # {} /\ Kinds # {}
ASSUME MaxProps \in Nat /\ MaxMsgs \in Nat

VARIABLES
    pAll,        \* BaseDevicePrivate::pAll, in insertion order
    watch,       \* names with an entry in watchPropertyMap
    msgs,        \* messageLog.size()
    pc,          \* where each thread is inside its current call
    cur,         \* the arguments of each thread's current call
    gen,         \* per thread, flips with every property object it builds
    skel         \* per thread, the skeleton definitions buildSkeleton has still to build

vars == <<pAll, watch, msgs, pc, cur, gen, skel>>

PCs == {"idle", "bp_add", "bp_watch", "bp_notify", "rp_add", "rp_watch",
        "msg_notify"}

\* A property object is identified by the thread that built it and its gen.
Id == Threads \X {0, 1}

Entry == [id : Id, name : Names, kind : Kinds, reg : BOOLEAN]

Call == [name : Names, kind : Kinds, id : Id]

\* A definition element of a skeleton file: name, type, and whether its
\* widgets all lack a name.
Def == [name : Names, kind : Kinds, empty : BOOLEAN]

ASSUME Skeletons \subseteq Seq(Def)

NoCall(t) == [name |-> CHOOSE n \in Names : TRUE,
              kind |-> CHOOSE k \in Kinds : TRUE, id |-> <<t, 0>>]

TypeOK ==
    /\ pAll \in Seq(Entry)
    /\ watch \subseteq Names
    /\ msgs \in 0..MaxMsgs
    /\ pc \in [Threads -> PCs]
    /\ cur \in [Threads -> Call]
    /\ gen \in [Threads -> {0, 1}]
    /\ skel \in [Threads -> Seq(Def)]

Init ==
    /\ pAll = <<>>
    /\ watch = {}
    /\ msgs = 0
    /\ pc = [t \in Threads |-> "idle"]
    /\ cur = [t \in Threads |-> NoCall(t)]
    /\ gen = [t \in Threads |-> 0]
    /\ skel = [t \in Threads |-> <<>>]

(***************************************************************************)
(* getProperty(name, type): the first entry of pAll that is registered,    *)
(* has the name, and has the type unless the type is INDI_UNKNOWN (here    *)
(* "any").  0 when there is none.                                          *)
(***************************************************************************)
GetProperty(n, k) ==
    SelectInSeq(pAll, LAMBDA e : /\ e.reg
                                 /\ e.name = n
                                 /\ k \in {e.kind, "any"})

\* A thread is between calls, and not inside buildSkeleton's loop.
Idle(t) == pc[t] = "idle" /\ skel[t] = <<>>

\* t builds a new property object for (n, k) and carries it to addProperty.
NewObject(t, n, k) ==
    /\ gen' = [gen EXCEPT ![t] = 1 - @]
    /\ cur' = [cur EXCEPT ![t] = [name |-> n, kind |-> k, id |-> <<t, 1 - gen[t]>>]]

Goto(t, where) == pc' = [pc EXCEPT ![t] = where]

(***************************************************************************)
(* BaseDevice::buildProp up to d->addProperty: the duplicate check is a    *)
(* getProperty(name) of its own (one critical section); an element whose  *)
(* widgets all have empty names is dropped after it.  The list cannot     *)
(* grow past MaxProps.                                                     *)
(***************************************************************************)
ParseDefinition(t, n, k, empty) ==
    \/ /\ GetProperty(n, "any") # 0               \* INDI_PROPERTY_DUPLICATED
          /\ UNCHANGED <<pc, cur, gen>>
       \/ /\ GetProperty(n, "any") = 0
          /\ empty                                  \* "with no valid members"
          /\ UNCHANGED <<pc, cur, gen>>
       \/ /\ GetProperty(n, "any") = 0
          /\ ~empty
          /\ Goto(t, "bp_add")
          /\ NewObject(t, n, k)

buildProp(t, n, k, empty) ==
    /\ Idle(t)
    /\ Len(pAll) < MaxProps
    /\ ParseDefinition(t, n, k, empty)
    /\ UNCHANGED <<pAll, watch, msgs, skel>>

(***************************************************************************)
(* BaseDevice::buildSkeleton: the file is found and parsed (file I/O, not *)
(* modelled; an unreadable file returns false and changes nothing), then   *)
(* buildProp runs for each root element in turn, its result ignored.  A   *)
(* skeleton is loaded only while pAll has room for all of it.              *)
(***************************************************************************)
buildSkeleton(t, doc) ==
    /\ Idle(t)
    /\ doc # <<>>
    /\ Len(pAll) + Len(doc) <= MaxProps
    /\ skel' = [skel EXCEPT ![t] = doc]
    /\ UNCHANGED <<pAll, watch, msgs, pc, cur, gen>>

\* The loop's next iteration: buildProp(element, errmsg, true).
skeletonElement(t) ==
    /\ pc[t] = "idle" /\ skel[t] # <<>>
    /\ LET e == Head(skel[t]) IN ParseDefinition(t, e.name, e.kind, e.empty)
    /\ skel' = [skel EXCEPT ![t] = Tail(@)]
    /\ UNCHANGED <<pAll, watch, msgs>>

\* registerProperty without the early return for INDI_UNKNOWN.
registerPropertyAnyType(t, n, k) ==
    /\ Idle(t)
    /\ Len(pAll) < MaxProps
    /\ \/ /\ GetProperty(n, k) # 0
          /\ pAll' = [pAll EXCEPT ![GetProperty(n, k)].reg = TRUE]
          /\ UNCHANGED <<pc, cur, gen>>
       \/ /\ GetProperty(n, k) = 0
          /\ Goto(t, "rp_add")
          /\ NewObject(t, n, k)
          /\ UNCHANGED pAll
    /\ UNCHANGED <<watch, msgs, skel>>

(***************************************************************************)
(* BaseDevice::registerProperty(Property&): a property of type            *)
(* INDI_UNKNOWN ("any") is refused; otherwise getProperty(name, type) in   *)
(* one critical section, a registered match gets setRegistered(true), and *)
(* anything else is handed to d->addProperty.                              *)
(***************************************************************************)
registerProperty(t, n, k) ==
    /\ Idle(t)
    /\ k # "any"
    /\ Len(pAll) < MaxProps
    /\ \/ /\ GetProperty(n, k) # 0
          /\ pAll' = [pAll EXCEPT ![GetProperty(n, k)].reg = TRUE]
          /\ UNCHANGED <<pc, cur, gen>>
       \/ /\ GetProperty(n, k) = 0
          /\ Goto(t, "rp_add")
          /\ NewObject(t, n, k)
          /\ UNCHANGED pAll
    /\ UNCHANGED <<watch, msgs, skel>>

(***************************************************************************)
(* BaseDevicePrivate::addProperty, first half: push_back under m_Lock.     *)
(* The property built by buildProp and one a driver registers are both     *)
(* registered objects.                                                     *)
(***************************************************************************)
addPropertyPush(t) ==
    /\ pc[t] \in {"bp_add", "rp_add"}
    /\ pAll' = Append(pAll, [id |-> cur[t].id, name |-> cur[t].name,
                             kind |-> cur[t].kind, reg |-> TRUE])
    /\ Goto(t, IF pc[t] = "bp_add" THEN "bp_watch" ELSE "rp_watch")
    /\ UNCHANGED <<watch, msgs, cur, gen, skel>>

(***************************************************************************)
(* BaseDevicePrivate::addProperty, second half, after the lock is         *)
(* released: look the name up in watchPropertyMap and call the callback.   *)
(* buildProp then goes on to the mediator; registerProperty returns.       *)
(***************************************************************************)
addPropertyWatch(t) ==
    /\ pc[t] \in {"bp_watch", "rp_watch"}
    /\ Goto(t, IF pc[t] = "bp_watch" THEN "bp_notify" ELSE "idle")
    /\ UNCHANGED <<pAll, watch, msgs, cur, gen, skel>>

\* buildProp's last step: d->mediator->newProperty(property); return 0.
newPropertyNotify(t) ==
    /\ pc[t] = "bp_notify"
    /\ Goto(t, "idle")
    /\ UNCHANGED <<pAll, watch, msgs, cur, gen, skel>>

\* BaseDevice::removeProperty: erase_if removes every entry with the name.
removeProperty(t, n) ==
    /\ Idle(t)
    /\ \E i \in DOMAIN pAll : pAll[i].name = n          \* else "not found", -1
    /\ pAll' = SelectSeq(pAll, LAMBDA e : e.name # n)
    /\ UNCHANGED <<watch, msgs, pc, cur, gen, skel>>

\* BaseDevice::watchProperty: watchPropertyMap[name] = callback.
watchProperty(t, n) ==
    /\ Idle(t)
    /\ n \notin watch                     \* replacing a callback changes nothing here
    /\ watch' = watch \cup {n}
    /\ UNCHANGED <<pAll, msgs, pc, cur, gen, skel>>

(***************************************************************************)
(* A collaborator keeps a property in the list but marks it unregistered   *)
(* (Property::setRegistered(false), outside src/): the "ghost" entry that  *)
(* registerProperty is meant to revive.                                    *)
(***************************************************************************)
unregisterProperty(t, n) ==
    /\ Idle(t)
    /\ GetProperty(n, "any") # 0
    /\ pAll' = [pAll EXCEPT ![GetProperty(n, "any")].reg = FALSE]
    /\ UNCHANGED <<watch, msgs, pc, cur, gen, skel>>

(***************************************************************************)
(* BaseDevice::addMessage (reached from checkMessage/doMessage): push_back *)
(* under m_Lock, unlock, then newMessage(this, messageLog.size() - 1) with *)
(* the size read after the unlock.  The log cannot grow past MaxMsgs.     *)
(***************************************************************************)
addMessagePush(t) ==
    /\ Idle(t)
    /\ msgs < MaxMsgs
    /\ msgs' = msgs + 1
    /\ Goto(t, "msg_notify")
    /\ UNCHANGED <<pAll, watch, cur, gen, skel>>

addMessageNotify(t) ==
    /\ pc[t] = "msg_notify"
    /\ Goto(t, "idle")
    /\ UNCHANGED <<pAll, watch, msgs, cur, gen, skel>>

CallStep(t) ==
    \/ \E n \in Names, k \in Kinds, empty \in BOOLEAN : buildProp(t, n, k, empty)
    \/ \E n \in Names, k \in Kinds \cup {"any"} : registerProperty(t, n, k)
    \/ addPropertyPush(t)
    \/ addPropertyWatch(t)
    \/ newPropertyNotify(t)
    \/ \E n \in Names : removeProperty(t, n)
    \/ \E n \in Names : watchProperty(t, n)
    \/ \E n \in Names : unregisterProperty(t, n)
    \/ addMessagePush(t)
    \/ addMessageNotify(t)

Step(t) ==
    \/ \E doc \in Skeletons : buildSkeleton(t, doc)
    \/ skeletonElement(t)
    \/ CallStep(t)

Next == \E t \in Threads : Step(t)

Spec == Init /\ [][Next]_vars

-----------------------------------------------------------------------------
(***************************************************************************)
(* Properties                                                              *)
(***************************************************************************)

(***************************************************************************)
(* At most one registered property per name: buildProp answers a second  *)
(* definition of a name with INDI_PROPERTY_DUPLICATED and registerProperty *)
(* revives the existing entry instead of adding one, so getProperty(name)  *)
(* and a later removeProperty(name) mean a single property.               *)
(***************************************************************************)
UniqueRegisteredNames ==
    \A i, j \in DOMAIN pAll :
        (i # j /\ pAll[i].reg /\ pAll[j].reg) => pAll[i].name # pAll[j].name

=============================================================================
