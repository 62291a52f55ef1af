---------------------------- MODULE BlobPipeline ----------------------------
(***************************************************************************)
(* BaseDevicePrivate::setBLOB (basedevice.cpp): the loop over the         *)
(* <oneBLOB> children of a setBLOBVector element, and what it does to the *)
(* buffers of the property's BLOB widgets.                                 *)
(*                                                                         *)
(* A buffer is an id from a small pool; the pool records whether an id is *)
(* free, a heap block (malloc/realloc) or a shared-memory block handed out *)
(* by attachBlobByUid.  The bytes a widget holds are abstracted to what   *)
(* they are ("plain" or "deflated"); lengths are left out.  One <oneBLOB>  *)
(* is one step: the loop runs on the                                       *)
(* connection's reader thread and calls nothing that blocks, and a        *)
(* temporary buffer never outlives its iteration.                          *)
(***************************************************************************)
EXTENDS Integers, FiniteSets

CONSTANTS
    Widgets,     \* names of the BLOB widgets of the property
    Unknown,     \* a <oneBLOB> name that is not a widget of the property
    BufIds,      \* pool of buffer addresses
    Null         \* the null pointer

ASSUME Unknown \notin Widgets /\ Null \notin BufIds
ASSUME Cardinality(BufIds) >= Cardinality(Widgets) + 2

VARIABLES
    blob,        \* widget->getBlob()
    data,        \* what the bytes at blob are
    format,      \* widget->getFormat(): "plain" or "z" (ends in ".z")
    heap,        \* allocation state of every address
    inElem,      \* the loop over an element's <oneBLOB> children is running
    faults       \* history: invalid memory operations the code performed

vars == <<blob, data, format, heap, inElem, faults>>

Modes    == {"inline", "copy", "direct"}   \* base64 text, attached copy, attached direct
Outcomes == {"ok", "no_memory", "inflate_error"}
Faults   == {"double_free", "realloc_shared", "null_widget"}

TypeOK ==
    /\ blob \in [Widgets -> BufIds \cup {Null}]
    /\ data \in [Widgets -> {"none", "plain", "deflated"}]
    /\ format \in [Widgets -> {"plain", "z"}]
    /\ heap \in [BufIds -> {"free", "heap", "shared"}]
    /\ inElem \in BOOLEAN
    /\ faults \subseteq Faults

\* A freshly defined BLOB property (buildProp): no buffer, format from defBLOB.
Init ==
    /\ blob = [w \in Widgets |-> Null]
    /\ data = [w \in Widgets |-> "none"]
    /\ format = [w \in Widgets |-> "plain"]
    /\ heap = [b \in BufIds |-> "free"]
    /\ inElem = FALSE
    /\ faults = {}

\* realloc() of a block it did not allocate, or a member call on nullptr, aborts.
Crashed == faults \cap {"realloc_shared", "null_widget"} # {}

\* The reader thread is inside setBLOB's loop.
Looping == inElem /\ ~Crashed

\* The lowest free address: what the next malloc or attach returns.
Fresh(h) == CHOOSE b \in BufIds : h[b] = "free" /\ \A c \in BufIds : h[c] = "free" => b <= c

\* free() / IDSharedBlobFree() of an address; freeing a free one is a double free.
\* IDSharedBlobFree that releases nothing.
FreeBufLeak(h, b) == h
FreeBuf(h, b) == [h EXCEPT ![b] = "free"]
FreeFault(h, b) == IF h[b] = "free" THEN {"double_free"} ELSE {}

(***************************************************************************)
(* realloc(widget->getBlob(), n): realloc(NULL) allocates, a heap block    *)
(* stays where it is (a move is the same to every property here); a        *)
(* shared-memory block is not a malloc block at all.                      *)
(***************************************************************************)
Realloc(h, b) ==
    IF b = Null THEN [h EXCEPT ![Fresh(h)] = "heap"] ELSE h
ReallocAddr(h, b) == IF b = Null THEN Fresh(h) ELSE b

\* setValue hands a setBLOBVector element to setBLOB.
receiveElement ==
    /\ ~inElem /\ ~Crashed
    /\ inElem' = TRUE
    /\ UNCHANGED <<blob, data, format, heap, faults>>

\* The loop ends after the last <oneBLOB>; setBLOB returns 0.
endElement ==
    /\ Looping
    /\ inElem' = FALSE
    /\ UNCHANGED <<blob, data, format, heap, faults>>

\* A <oneBLOB> without name, format or size: "No valid members", return -1.
missingAttributes ==
    /\ Looping
    /\ inElem' = FALSE
    /\ UNCHANGED <<blob, data, format, heap, faults>>

\* A non-empty <oneBLOB> naming no widget: widget->setSize(size) on nullptr.
unknownWidget ==
    /\ Looping
    /\ faults' = faults \cup {"null_widget"}
    /\ UNCHANGED <<blob, data, format, heap, inElem>>

(***************************************************************************)
(* A non-empty <oneBLOB> for widget w, carried in mode m, with a format   *)
(* ending in ".z" iff z, and the outcome of the inflate step when z.  (A   *)
(* <oneBLOB> with size 0 only calls newBLOB and continues: a step that     *)
(* changes nothing.)                                                       *)
(***************************************************************************)
oneBLOB(w, m, z, outcome) ==
    LET old     == blob[w]
        payload == IF z THEN "deflated" ELSE "plain"
        \* the direct attachment: free the old buffer, take the shared one
        hD      == IF old # Null THEN FreeBuf(heap, old) ELSE heap
        bD      == Fresh(hD)
        \* copy and inline: realloc the widget's buffer (copy also attaches
        \* a shared block, copies it, and frees it again)
        bR      == ReallocAddr(heap, old)
        hR      == Realloc(heap, old)
        b1      == IF m = "direct" THEN bD ELSE bR
        h1      == IF m = "direct" THEN [hD EXCEPT ![bD] = "shared"] ELSE hR
        f1      == IF m = "direct" /\ old # Null THEN FreeFault(heap, old) ELSE {}
        \* uncompress into a fresh malloc(size) block
        dBuf    == Fresh(h1)
    IN
    /\ Looping
    /\ \/ /\ m \in {"copy", "inline"}
          /\ old # Null /\ heap[old] = "shared"
          /\ faults' = faults \cup {"realloc_shared"}
          /\ UNCHANGED <<blob, data, format, heap, inElem>>
       \/ /\ ~(m \in {"copy", "inline"} /\ old # Null /\ heap[old] = "shared")
          /\ format' = [format EXCEPT ![w] = "plain"]
          /\ \/ /\ ~z                                      \* setFormat(format)
                /\ blob' = [blob EXCEPT ![w] = b1]
                /\ data' = [data EXCEPT ![w] = payload]
                /\ heap' = h1
                /\ faults' = faults \cup f1
                /\ UNCHANGED inElem
             \/ /\ z /\ outcome \in {"no_memory", "inflate_error"}
                /\ blob' = [blob EXCEPT ![w] = b1]     \* the compressed bytes stay
                /\ data' = [data EXCEPT ![w] = payload]
                /\ heap' = h1                           \* dataBuffer, if any, freed
                /\ faults' = faults \cup f1
                /\ inElem' = FALSE                      \* return -1
             \/ /\ z /\ outcome = "ok"
                /\ blob' = [blob EXCEPT ![w] = dBuf]
                /\ data' = [data EXCEPT ![w] = "plain"]
                /\ heap' = [FreeBuf(h1, b1) EXCEPT ![dBuf] = "heap"]
                /\ faults' = faults \cup f1 \cup FreeFault(h1, b1)
                /\ UNCHANGED inElem

Next ==
    \/ receiveElement
    \/ endElement
    \/ missingAttributes
    \/ unknownWidget
    \/ \E w \in Widgets, m \in Modes, z \in BOOLEAN, o \in Outcomes :
           /\ ~z => o = "ok"
           /\ oneBLOB(w, m, z, o)

Spec == Init /\ [][Next]_vars

-----------------------------------------------------------------------------
(***************************************************************************)
(* Properties                                                              *)
(***************************************************************************)

(***************************************************************************)
(* Every BLOB buffer has exactly one owner (spec, BLOB pipeline): each     *)
(* allocated block, heap or shared, is the buffer of exactly one widget,  *)
(* no widget points at a freed block, and no block was freed twice,       *)
(* across any sequence of direct, copied, base64 and compressed payloads. *)
(***************************************************************************)
BuffersOwned ==
    /\ "double_free" \notin faults
    /\ \A b \in BufIds : heap[b] # "free" <=> \E w \in Widgets : blob[w] = b
    /\ \A w1, w2 \in Widgets : (w1 # w2 /\ blob[w1] # Null) => blob[w1] # blob[w2]

(***************************************************************************)
(* setBLOB only realloc()s heap blocks: a widget buffer that came from a  *)
(* direct attachment (shared memory) is never passed to realloc by a later *)
(* copied or base64 payload.                                              *)
(***************************************************************************)
NoReallocOfShared == "realloc_shared" \notin faults

=============================================================================
