---------------------------- MODULE SessionStore ----------------------------
(***************************************************************************)
(* The session list (src/store/session-store.ts): sessions newest first,   *)
(* at most SessionCap of them, each with packet counters that are brought  *)
(* up to date in batches, by a timer of their own.                         *)
(*                                                                         *)
(* The four counters of a session (packets and bytes, in and out) are one  *)
(* counter here; names, endpoints and close reasons are left out, and so   *)
(* are endedAt and the differences between statuses that treat it alike.   *)
(***************************************************************************)
EXTENDS Integers, Sequences, FiniteSets, SequencesExt

CONSTANTS
  Sessions,     \* ids createEntityId, the proxy or an import can hand out
  BatchMax,     \* maxSessionBatchSize
  SessionCap    \* the 20 of slice(0, 20)

Statuses == {"open", "closed"}   \* open: connecting or connected; closed: closed or error

VARIABLES
  sessions,       \* ids, newest first
  status,         \* of each session that was ever listed
  count,          \* packets counted for a session
  uncounted,      \* pendingSessionPackets, as session ids
  statsTimer      \* sessionBatchTimer is set

ledgerVars == <<sessions, status, count, uncounted, statsTimer>>

TypeOK ==
  /\ sessions \in Seq(Sessions)
  /\ status \in [Sessions -> Statuses]
  /\ count \in [Sessions -> Nat]
  /\ uncounted \in Seq(Sessions)
  /\ statsTimer \in BOOLEAN

Init ==
  /\ sessions = <<>>
  /\ status = [s \in Sessions |-> "open"]
  /\ count = [s \in Sessions |-> 0]
  /\ uncounted = <<>>
  /\ statsTimer = FALSE

Listed == Range(sessions)

Occurrences(s, list) == Cardinality({i \in DOMAIN list : list[i] = s})

(***************************************************************************)
(* flushPendingPacketStats: every listed session gets the packets of the   *)
(* batch that are its own; packets of sessions not listed are forgotten.   *)
(***************************************************************************)
CountEachSessionOnce(batch) ==   \* faulty: one packet per session and flush
  [s \in Sessions |-> count[s] + IF s \in Listed /\ s \in Range(batch) THEN 1 ELSE 0]

Counted(batch) ==
  [s \in Sessions |-> count[s] + IF s \in Listed THEN Occurrences(s, batch) ELSE 0]

BatchGone == uncounted' = <<>> /\ statsTimer' = FALSE

Flush == count' = Counted(uncounted) /\ BatchGone

Record(ss) ==                \* recordPacket and recordPackets
  LET batch == uncounted \o ss IN
  /\ \/ ss = <<>> /\ UNCHANGED <<count, uncounted, statsTimer>>
     \/ ss # <<>> /\ Len(batch) >= BatchMax /\ count' = Counted(batch) /\ BatchGone
     \/ /\ ss # <<>> /\ Len(batch) < BatchMax
        /\ uncounted' = batch
        /\ statsTimer' = TRUE
        /\ UNCHANGED count
  /\ UNCHANGED <<sessions, status>>

(***************************************************************************)
(* startSession and importSession: a session with a new id goes to the     *)
(* front and may push the last one off the list.  (importSession filters   *)
(* the id out of the list first, in which a new one is not to be found.)   *)
(***************************************************************************)
PutFirst(s) ==
  sessions' = SubSeq(<<s>> \o sessions, 1,
                     IF Len(sessions) < SessionCap THEN Len(sessions) + 1 ELSE SessionCap)

StartSession(s) ==
  /\ s \notin Listed
  /\ PutFirst(s)
  /\ status' = [status EXCEPT ![s] = "open"]
  /\ count' = [Counted(uncounted) EXCEPT ![s] = 0]
  /\ BatchGone

ImportSession(s, st, k) ==   \* with the counters the session brings along
  /\ s \notin Listed
  /\ PutFirst(s)
  /\ status' = [status EXCEPT ![s] = st]
  /\ count' = [Counted(uncounted) EXCEPT ![s] = k]
  /\ BatchGone

RemoveSession(s) ==          \* of a session that is listed, which it is once
  /\ Flush
  /\ \E i \in DOMAIN sessions : sessions[i] = s /\ sessions' = RemoveAt(sessions, i)
  /\ UNCHANGED status

RenameSession ==             \* flushes; the name is not represented
  /\ Flush
  /\ UNCHANGED <<sessions, status>>

UpdateSessionStatus(s, st) ==
  /\ Flush
  /\ status' = IF s \in Listed THEN [status EXCEPT ![s] = st] ELSE status
  /\ UNCHANGED sessions

TimerFires ==
  /\ statsTimer
  /\ Flush
  /\ UNCHANGED <<sessions, status>>

----------------------------------------------------------------------------

(***************************************************************************)
(* Packets waiting to be counted have a timer coming for them.             *)
(***************************************************************************)
StatsAreScheduled == statsTimer <=> uncounted # <<>>

=============================================================================
