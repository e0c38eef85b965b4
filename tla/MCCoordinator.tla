--------------------------- MODULE MCCoordinator ---------------------------
(***************************************************************************)
(* Coordinator with two configurations, of which one asks for a metrics    *)
(* listener.  No one set of bounds is small and reaches everything, so     *)
(* part, chosen in Init, says which of two sets a behaviour is under: one  *)
(* with refreshes and several faults around a single reload, one in which  *)
(* a reload supersedes another.                                            *)
(***************************************************************************)
EXTENDS Coordinator, TLC

CONSTANTS d1, d2, addr

VARIABLE part       \* "refreshes" or "reloads"

MCListen == d1 :> addr @@ d2 :> None

\* The first start, and a restart on a refreshed revision.
FirstStart == {None}
Restart == {[epoch |-> 1, refresh |-> 1, cfg |-> d1]}
AnyStart == FirstStart \cup Restart

\* The startup takes the first epoch, a reload the second and a hangup, or the
\* other way round, the third.
Reloads == INSTANCE Coordinator WITH
    Recovered <- FirstStart, MaxEpoch <- 3, MaxRefresh <- 0, MaxFaults <- 1

MCInit == \/ part = "refreshes" /\ Init
          \/ part = "reloads" /\ Reloads!Init

MCNext == /\ UNCHANGED part
          /\ \/ part = "refreshes" /\ Next
             \/ part = "reloads" /\ Reloads!Next

\* A step of the part that moves.
Either(A, B) == UNCHANGED part /\ ((part = "refreshes" /\ A) \/ (part = "reloads" /\ B))

MCFairSpec ==
    /\ MCInit /\ [][MCNext]_<<part, vars>>
    /\ WF_<<part, vars>>(Either(Boot, Reloads!Boot))
    /\ WF_<<part, vars>>(Either(Loop, Reloads!Loop))
    /\ WF_<<part, vars>>(Either(Producer, Reloads!Producer))
    /\ WF_<<part, vars>>(Either(Handlers, Reloads!Handlers))

=============================================================================
