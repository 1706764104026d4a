----------------------------- MODULE MCFakeDNS -----------------------------
(* FakeDNS on instances for TLC.                                           *)
EXTENDS FakeDNSRefinement

CONSTANTS a, b, c, ptr, h1, h2

(* The PTR name stands for the first address the search finds.             *)
MCPtrTarget == [n \in PtrName |-> 2]

=============================================================================
