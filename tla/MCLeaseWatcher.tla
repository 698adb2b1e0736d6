--------------------------- MODULE MCLeaseWatcher ---------------------------
(***************************************************************************)
(* Symmetry for LeaseWatcher: handles and callers are interchangeable.     *)
(***************************************************************************)
EXTENDS LeaseWatcher, TLC

Interchangeable == Permutations(Hold) \cup Permutations(Caller)

=============================================================================
