---------------------------- MODULE MCSmuMailbox ----------------------------
(***************************************************************************)
(* Small instances of SmuMailbox.  Processes are interchangeable wherever  *)
(* LockProcs, RawProcs and PciProcs are each all of them or none.          *)
(***************************************************************************)
EXTENDS SmuMailbox, TLC

Symmetry == Permutations(Procs)

=============================================================================
