----------------------------- MODULE MCPmTable -----------------------------
(***************************************************************************)
(* Instances of PmTable and Getters, with the versions, the sizes and the  *)
(* offsets of the source, in bytes.                                        *)
(***************************************************************************)
EXTENDS Getters

\* Every version that the size switch or a getter knows, and one that none knows.
AllVersions == DOMAIN VersionSizes \cup Unsized \cup {\h700001}

=============================================================================
