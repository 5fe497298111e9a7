------------------------------ MODULE Capture ------------------------------
(***************************************************************************)
(* The capture pipeline of the frontend: PacketStore and SessionStore as   *)
(* the rest of the program drives them.  A captured packet goes to both    *)
(* stores in one event handler (connection-store.ts, demo-stream.ts, and   *)
(* App.tsx for proxy events), and each store batches it on a timer of its  *)
(* own; files are imported, frames cleared and limits changed in between.  *)
(*                                                                         *)
(* JavaScript runs each handler and timer callback to its end, so each is  *)
(* one action.                                                             *)
(***************************************************************************)
EXTENDS Integers, Sequences, SequencesExt

CONSTANTS
  Sessions, Times, PacketBatchMax, StatsBatchMax, Limits, SessionCap, AllSessions,
  MaxPackets   \* bound: packets that arrive

ASSUME TimesAssumption      == Times \subseteq Int
ASSUME AllAssumption        == AllSessions \notin Sessions
ASSUME BatchesAssumption    == PacketBatchMax \in Nat \ {0} /\ StatsBatchMax \in Nat \ {0}
ASSUME LimitsAssumption     == Limits \subseteq Nat /\ Limits # {}
ASSUME SessionCapAssumption == SessionCap \in Nat \ {0}
ASSUME MaxPacketsAssumption == MaxPackets \in Nat

VARIABLES
  packets, pending, timer, limit,
  sessions, status, count, uncounted, statsTimer,
  arrived,      \* number of packets that have arrived
  clearedUpTo,  \* history: the last arrival a clear covered, of each session
  recorded      \* history: packets recorded for each session since it was listed

Timeline == INSTANCE PacketStore WITH BatchMax <- PacketBatchMax
Ledger   == INSTANCE SessionStore WITH BatchMax <- StatsBatchMax

timelineVars == <<packets, pending, timer, limit>>
ledgerVars   == <<sessions, status, count, uncounted, statsTimer>>
historyVars  == <<arrived, clearedUpTo, recorded>>
vars         == <<timelineVars, ledgerVars, historyVars>>

TypeOK ==
  /\ Timeline!TypeOK
  /\ Ledger!TypeOK
  /\ arrived \in 0 .. MaxPackets
  /\ clearedUpTo \in [Sessions -> 0 .. MaxPackets]
  /\ recorded \in [Sessions -> 0 .. MaxPackets]

Init ==
  /\ Timeline!Init
  /\ Ledger!Init
  /\ arrived = 0
  /\ clearedUpTo = [s \in Sessions |-> 0]
  /\ recorded = [s \in Sessions |-> 0]

(***************************************************************************)
(* Sessions whose source is still sending; one pushed off the list by      *)
(* newer ones may be among them.                                           *)
(***************************************************************************)
Started == Ledger!Listed \cup {s \in Sessions : recorded[s] > 0}
Live    == {s \in Started : status[s] # "closed"}

Arrivals(s, ts) == [k \in DOMAIN ts |-> [n |-> arrived + k, s |-> s, t |-> ts[k]]]

SomeTimes == {ts \in UNION {[1 .. k -> Times] : k \in 0 .. 2} : arrived + Len(ts) <= MaxPackets}

(***************************************************************************)
(* addPacket(p); recordPacket(p) in one handler.                           *)
(***************************************************************************)
CapturePacket(s, t) ==
  /\ s \in Live
  /\ arrived < MaxPackets
  /\ Timeline!AddPacket([n |-> arrived + 1, s |-> s, t |-> t])
  /\ Ledger!Record(<<s>>)
  /\ arrived' = arrived + 1
  /\ recorded' = [recorded EXCEPT ![s] = @ + 1]
  /\ UNCHANGED clearedUpTo

(***************************************************************************)
(* addPackets(ps); recordPackets(ps): the guided demo's steps.             *)
(***************************************************************************)
CaptureBurst(s, ts) ==
  /\ s \in Live
  /\ Timeline!AddPackets(Arrivals(s, ts))
  /\ Ledger!Record([k \in DOMAIN ts |-> s])
  /\ arrived' = arrived + Len(ts)
  /\ recorded' = [recorded EXCEPT ![s] = @ + Len(ts)]
  /\ UNCHANGED clearedUpTo

StartSession(s) ==
  /\ s \notin Started
  /\ Ledger!StartSession(s)
  /\ UNCHANGED <<timelineVars, historyVars>>

(***************************************************************************)
(* A proxy session announced by the backend: imported open and empty.      *)
(***************************************************************************)
ProxySessionStarted(s) ==
  /\ s \notin Started
  /\ Ledger!ImportSession(s, "open", 0)
  /\ UNCHANGED <<timelineVars, historyVars>>

(***************************************************************************)
(* importSocketLensFile: importSession, then addPackets.  The imported     *)
(* session is closed and brings its counters along.                        *)
(***************************************************************************)
ImportFile(s, ts) ==
  /\ s \notin Started
  /\ Ledger!ImportSession(s, "closed", Len(ts))
  /\ Timeline!AddPackets(Arrivals(s, ts))
  /\ arrived' = arrived + Len(ts)
  /\ recorded' = [recorded EXCEPT ![s] = Len(ts)]
  /\ UNCHANGED clearedUpTo

ChangeStatus(s, st) ==
  /\ s \in Live
  /\ Ledger!UpdateSessionStatus(s, st)
  /\ UNCHANGED <<timelineVars, historyVars>>

ClearFrames(s) ==            \* handleClearCapturedFrames
  /\ Timeline!ClearPackets(s)
  /\ clearedUpTo' = [x \in Sessions |-> IF s \in {x, AllSessions} THEN arrived ELSE clearedUpTo[x]]
  /\ UNCHANGED <<ledgerVars, arrived, recorded>>

ForgetSession(s) ==          \* resetInvestorDemo: clearPackets, then removeSession
  /\ s \in Ledger!Listed
  /\ status[s] = "closed"
  /\ Timeline!ClearPackets(s)
  /\ Ledger!RemoveSession(s)
  /\ clearedUpTo' = [clearedUpTo EXCEPT ![s] = arrived]
  /\ UNCHANGED <<arrived, recorded>>

ChangeLimit(l) == Timeline!ChangeLimit(l) /\ UNCHANGED <<ledgerVars, historyVars>>
Annotate       == Timeline!UpdateAnnotations /\ UNCHANGED <<ledgerVars, historyVars>>
Rename         == Ledger!RenameSession /\ UNCHANGED <<timelineVars, historyVars>>
PacketTimer    == Timeline!TimerFires /\ UNCHANGED <<ledgerVars, historyVars>>
StatsTimer     == Ledger!TimerFires /\ UNCHANGED <<timelineVars, historyVars>>

Next ==
  \/ \E s \in Sessions :
       \/ \E t \in Times : CapturePacket(s, t)
       \/ \E ts \in SomeTimes : CaptureBurst(s, ts) \/ ImportFile(s, ts)
       \/ StartSession(s)
       \/ ProxySessionStarted(s)
       \/ \E st \in {"open", "closed"} : ChangeStatus(s, st)
       \/ ForgetSession(s)
  \/ \E s \in Sessions \cup {AllSessions} : ClearFrames(s)
  \/ \E l \in Limits : ChangeLimit(l)
  \/ Annotate
  \/ Rename
  \/ PacketTimer
  \/ StatsTimer

Spec == Init /\ [][Next]_vars

----------------------------------------------------------------------------

TimelineOrderedAndBounded == Timeline!TimelineOrderedAndBounded

(***************************************************************************)
(* Neither store holds data back without a timer that will publish it.     *)
(***************************************************************************)
BatchesAreScheduled == Timeline!BatchIsScheduled /\ Ledger!StatsAreScheduled

(***************************************************************************)
(* Flushes, merges and imports never show a packet twice, and a packet     *)
(* that was cleared, on the timeline or still in the batch, stays away.    *)
(***************************************************************************)
Held == packets \o pending

EachPacketOnceUntilCleared ==
  /\ \A i, j \in DOMAIN Held : Held[i].n = Held[j].n => i = j
  /\ \A i \in DOMAIN Held : Held[i].n > clearedUpTo[Held[i].s]

(***************************************************************************)
(* A packet leaves the timeline or the batch for one of two reasons only:  *)
(* the user cleared its session, or the limit is reached and every packet  *)
(* that stays is at least as new.                                          *)
(***************************************************************************)
RetentionDropsOldest ==
  [][ \A p \in Range(Held) \ Range(Held)' :
        \/ p.n <= clearedUpTo'[p.s]
        \/ /\ \A q \in Range(Held)' : q.t >= p.t
           /\ clearedUpTo' = clearedUpTo => Len(packets') = limit'
    ]_vars

(***************************************************************************)
(* The counters a session shows, plus what waits to be counted, are the    *)
(* packets recorded for it: nothing is lost between the two timers, nor    *)
(* when a session is started, imported, renamed or closed meanwhile.       *)
(***************************************************************************)
CountersMatchRecorded ==
  \A s \in Ledger!Listed :
    count[s] + Ledger!Occurrences(s, uncounted) = recorded[s]

=============================================================================
