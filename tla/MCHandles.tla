----------------------------- MODULE MCHandles -----------------------------
(***************************************************************************)
(* The processors of every family, and neighbours that are not supported.  *)
(***************************************************************************)
EXTENDS Handles

Processor(amd, ext_family, ext_model, base_model) ==
    [amd |-> amd, base_family |-> 15, ext_family |-> ext_family,
     ext_model |-> ext_model, base_model |-> base_model]

SomeProcessors ==
    {Processor(TRUE, 8, m[1], m[2]) :
        m \in {<<1, 1>>, <<1, 8>>, <<2, 0>>, <<6, 0>>, <<6, 8>>, <<9, 0>>, <<9, 1>>,
               <<10, 0>>, <<7, 1>>}}
    \cup {Processor(TRUE, 10, m[1], m[2]) :
        m \in {<<5, 0>>, <<4, 0>>, <<4, 4>>, <<6, 1>>, <<7, 4>>, <<7, 8>>, <<7, 5>>,
               <<2, 1>>}}
    \cup {Processor(TRUE, 11, m[1], m[2]) :
        m \in {<<2, 0>>, <<2, 4>>, <<4, 4>>, <<6, 0>>, <<7, 0>>}}
    \cup {Processor(FALSE, 8, 1, 1), Processor(TRUE, 9, 1, 1)}

=============================================================================
