----------------------------- MODULE MCSmnAccess -----------------------------
(***************************************************************************)
(* Two processes that contend for the PCI bus, and one without the lock    *)
(* that has ryzen_smu to itself.                                           *)
(***************************************************************************)
EXTENDS SmnAccess, TLC

CONSTANTS p1, p2, p3

Symmetry == Permutations({p1, p2})

=============================================================================
