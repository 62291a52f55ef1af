-------------------------- MODULE MC_BlobPipeline --------------------------
(***************************************************************************)
(* Instances of BlobPipeline for TLC: a BLOB property with two widgets, a *)
(* name that is not one of them, and four addresses: two widget buffers,  *)
(* the attachment or inflate buffer of the current <oneBLOB>, and one      *)
(* spare so that "the lowest free address" is never forced.                *)
(***************************************************************************)
EXTENDS BlobPipeline

CONSTANTS w1, w2, u, null

TwoWidgets == {w1, w2}
Addresses  == 1..4

=============================================================================
