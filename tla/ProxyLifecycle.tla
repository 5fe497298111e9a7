--------------------------- MODULE ProxyLifecycle ---------------------------
(***************************************************************************)
(* What Proxy Mode promises about its runs, whatever tasks, locks and      *)
(* channels deliver it: runs are opened one after the other, at most one   *)
(* is open, the address that is shown is the open run's, and a run that is *)
(* being stopped sooner or later releases its port, without disturbing the *)
(* run that may have been opened since.                                    *)
(***************************************************************************)
EXTENDS Integers

CONSTANT Runs      \* run numbers, 1 .. some bound

VARIABLES
  phase,           \* of each run
  shown            \* the run whose address is shown, or 0

lifecycleVars == <<phase, shown>>

LifecycleTypeOK ==
  /\ phase \in [Runs -> {"unused", "open", "stopping", "released"}]
  /\ shown \in Runs \cup {0}

Init ==
  /\ phase = [g \in Runs |-> "unused"]
  /\ shown = 0

Open(g) ==
  /\ shown = 0
  /\ phase[g] = "unused"
  /\ \A h \in Runs : h < g => phase[h] # "unused"
  /\ phase' = [phase EXCEPT ![g] = "open"]
  /\ shown' = g

Stop(g) ==
  /\ shown = g
  /\ phase[g] = "open"
  /\ phase' = [phase EXCEPT ![g] = "stopping"]
  /\ shown' = 0

Release(g) ==
  /\ phase[g] = "stopping"
  /\ phase' = [phase EXCEPT ![g] = "released"]
  /\ UNCHANGED shown

Next == \E g \in Runs : Open(g) \/ Stop(g) \/ Release(g)

SafeSpec == Init /\ [][Next]_lifecycleVars

Spec == SafeSpec /\ \A g \in Runs : WF_lifecycleVars(Release(g))

=============================================================================
