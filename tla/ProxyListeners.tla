--------------------------- MODULE ProxyListeners ---------------------------
(***************************************************************************)
(* The registration of the proxy's event listeners (lib/proxy-events.ts)   *)
(* and the effect of App.tsx that asks for it.  Each run of the effect is  *)
(* a registration with its own number, the generation.  Registering means  *)
(* awaiting one listen() per event; meanwhile the effect may be cleaned up *)
(* and run again.                                                          *)
(***************************************************************************)
EXTENDS Naturals

CONSTANTS
  Events,     \* kinds of event listened to
  MaxRegs     \* bound: registrations

ASSUME RegsAssumption == MaxRegs \in Nat

VARIABLES
  generation,  \* activeProxyListenerGeneration
  holder,      \* whose cleanup is activeProxyListenerCleanup, or NoReg
  mounted,     \* registration of the effect that is in force, or NoReg
  phase,       \* phase[r]: how far registration r got
  subs,        \* subscriptions that deliver, as pairs <<r, e>>
  nativeError  \* nativeBackendState was set to "error" by a failed registration

listenerVars == <<generation, holder, mounted, phase, subs, nativeError>>

Regs  == 1 .. MaxRegs
NoReg == 0

Phases == {"none", "listening", "resolved", "settled", "failed"}

TypeOK ==
  /\ generation \in 0 .. MaxRegs
  /\ holder \in Regs \cup {NoReg}
  /\ mounted \in Regs \cup {NoReg}
  /\ phase \in [Regs -> Phases]
  /\ subs \subseteq Regs \X Events
  /\ nativeError \in BOOLEAN

Init ==
  /\ generation = 0
  /\ holder = NoReg
  /\ mounted = NoReg
  /\ phase = [r \in Regs |-> "none"]
  /\ subs = {}
  /\ nativeError = FALSE

SubsOf(r) == {r} \X Events

UnlistenAnyway(r) ==          \* faulty: an overtaken registration clears its successor
  /\ r \in Regs
  /\ holder' = NoReg
  /\ subs' = subs \ SubsOf(holder)

(***************************************************************************)
(* The function that a registration resolves to: it acts only while no     *)
(* later registration has begun.                                           *)
(***************************************************************************)
Unlisten(r) ==
  IF r = generation
  THEN holder' = NoReg /\ subs' = subs \ SubsOf(holder)
  ELSE UNCHANGED <<holder, subs>>

----------------------------------------------------------------------------
(* The effect *)

(***************************************************************************)
(* registerProxyEventListeners up to its await, called by the effect.      *)
(***************************************************************************)
Register(oldSubs) ==
  /\ generation < MaxRegs
  /\ generation' = generation + 1
  /\ mounted' = generation + 1
  /\ subs' = oldSubs \ SubsOf(holder)
  /\ holder' = NoReg

Mount ==
  /\ mounted = NoReg
  /\ Register(subs)
  /\ phase' = [phase EXCEPT ![generation + 1] = "listening"]
  /\ UNCHANGED nativeError

(***************************************************************************)
(* The effect's cleanup: `cleanup` is set only once the promise settled.   *)
(***************************************************************************)
Unmount ==
  /\ mounted # NoReg
  /\ mounted' = NoReg
  /\ IF phase[mounted] = "settled" THEN Unlisten(mounted) ELSE UNCHANGED <<holder, subs>>
  /\ UNCHANGED <<generation, phase, nativeError>>

(***************************************************************************)
(* A changed dependency (the language): cleanup and effect in one go.      *)
(***************************************************************************)
Rerun ==
  /\ mounted # NoReg
  /\ Register(IF phase[mounted] = "settled" /\ mounted = generation
              THEN subs \ SubsOf(holder) ELSE subs)
  /\ phase' = [phase EXCEPT ![generation + 1] = "listening"]
  /\ UNCHANGED nativeError

----------------------------------------------------------------------------
(* The promises *)

(***************************************************************************)
(* One listen() is done.  After another one failed nobody will ever remove *)
(* it: Promise.all has rejected and its results are gone.                  *)
(***************************************************************************)
Listened(r, e) ==
  /\ phase[r] \in {"listening", "failed"}
  /\ <<r, e>> \notin subs
  /\ subs' = subs \cup {<<r, e>>}
  /\ UNCHANGED <<generation, holder, mounted, phase, nativeError>>

ListenFails(r) ==
  /\ phase[r] = "listening"
  /\ \E e \in Events : <<r, e>> \notin subs
  /\ phase' = [phase EXCEPT ![r] = "failed"]
  /\ nativeError' = (nativeError \/ mounted = r)
  /\ UNCHANGED <<generation, holder, mounted, subs>>

ResolvedUnchecked(r) ==       \* faulty: does not look for a later registration
  /\ phase[r] = "listening"
  /\ SubsOf(r) \subseteq subs
  /\ phase' = [phase EXCEPT ![r] = "resolved"]
  /\ holder' = r
  /\ UNCHANGED <<generation, mounted, subs, nativeError>>

(***************************************************************************)
(* All four are listening: a registration overtaken by a later one takes   *)
(* its listeners back.                                                     *)
(***************************************************************************)
Resolved(r) ==
  /\ phase[r] = "listening"
  /\ SubsOf(r) \subseteq subs
  /\ phase' = [phase EXCEPT ![r] = "resolved"]
  /\ IF r = generation
     THEN holder' = r /\ UNCHANGED subs
     ELSE subs' = subs \ SubsOf(r) /\ UNCHANGED holder
  /\ UNCHANGED <<generation, mounted, nativeError>>

(***************************************************************************)
(* .then in the effect: unlisten at once if the effect was disposed.       *)
(***************************************************************************)
Settled(r) ==
  /\ phase[r] = "resolved"
  /\ phase' = [phase EXCEPT ![r] = "settled"]
  /\ IF r # mounted THEN Unlisten(r) ELSE UNCHANGED <<holder, subs>>
  /\ UNCHANGED <<generation, mounted, nativeError>>

PromiseSteps(r) ==
  \/ \E e \in Events : Listened(r, e)
  \/ Resolved(r)
  \/ Settled(r)

Next ==
  \/ Mount
  \/ Unmount
  \/ Rerun
  \/ \E r \in Regs : PromiseSteps(r) \/ ListenFails(r)

Spec == Init /\ [][Next]_listenerVars /\ \A r \in Regs : WF_listenerVars(PromiseSteps(r))

----------------------------------------------------------------------------
(* Properties *)

Pending(r) == phase[r] \in {"listening", "resolved"}

(***************************************************************************)
(* lib/proxy-events.ts: whatever the overlap of registrations and          *)
(* cleanups, when no promise is outstanding the listeners are those of the *)
(* effect in force, one per event, and those of failed registrations.      *)
(***************************************************************************)
ListenersMatchMount ==
  (\A r \in Regs : ~Pending(r)) =>
    {s \in subs : phase[s[1]] # "failed"} =
      IF mounted # NoReg /\ phase[mounted] = "settled" THEN SubsOf(mounted) ELSE {}

(***************************************************************************)
(* Why: every listener can still be removed.  It belongs to the holder of  *)
(* the cleanup, to a registration that awaits the others, or it leaked     *)
(* from one that failed; and the holder is the latest registration.        *)
(***************************************************************************)
ListenersAreOwned ==
  /\ \A s \in subs : s[1] = holder \/ phase[s[1]] \in {"listening", "failed"}
  /\ holder # NoReg => holder = generation /\ SubsOf(holder) \subseteq subs

(***************************************************************************)
(* Unless listen() fails, the effect in force ends up with all its         *)
(* listeners.                                                              *)
(***************************************************************************)
MountedEndsUpListening ==
  <>[](mounted # NoReg /\ phase[mounted] # "failed" => SubsOf(mounted) \subseteq subs)

=============================================================================
