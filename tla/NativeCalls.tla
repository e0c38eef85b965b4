----------------------------- MODULE NativeCalls -----------------------------
(***************************************************************************)
(* The native firewall as a sequence of whole Backend calls: the view of   *)
(* the kernel from which the writer (module Engine) is modelled.           *)
(***************************************************************************)
EXTENDS Kernel

Call ==
    \E ok \in BOOLEAN, g, h \in Gen \cup {NoGen} :
        BackendApply(g, h, ok) \/ BackendRetire(g, h, ok)

CleanupCall == \E ok \in BOOLEAN, G \in SUBSET Gen : G # {} /\ BackendCleanup(G, ok)

Spec ==
    KernelInit /\ faults = 0
    /\ [][Call \/ CleanupCall \/ (LoseKernel /\ NoFault)]_<<kernelVars, faults>>
=============================================================================
