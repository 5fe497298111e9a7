--------------------------- MODULE CaptureProofs ---------------------------
(***************************************************************************)
(* Theorems about Capture, for any sessions, limits, batch sizes and any   *)
(* number of packets.                                                      *)
(***************************************************************************)
EXTENDS Capture, ArrangementProofs

LedgerTypeOK ==
  /\ sessions \in Seq(Sessions)
  /\ uncounted \in Seq(Sessions)
  /\ count \in [Sessions -> Nat]
  /\ recorded \in [Sessions -> Nat]

LedgerInv == LedgerTypeOK /\ CountersMatchRecorded /\ Ledger!StatsAreScheduled

(***************************************************************************)
(* Of the packets on the timeline nothing needs to be known.               *)
(***************************************************************************)
BatchInv ==
  /\ arrived \in Nat
  /\ pending \in Seq(Timeline!Packet)
  /\ Timeline!BatchIsScheduled

----------------------------------------------------------------------------
(* Occurrences in a batch *)

LEMMA SameCardinality == \A S : Ledger!Cardinality(S) = Cardinality(S)
BY DEF Ledger!Cardinality, Cardinality

LEMMA OccurrencesOfNone == \A x : Ledger!Occurrences(x, <<>>) = 0
<1>1. \A x : {i \in DOMAIN <<>> : <<>>[i] = x} = {}
  OBVIOUS
<1> QED
  BY <1>1, FS_EmptySet, SameCardinality DEF Ledger!Occurrences

LEMMA OccurrencesOfOne ==
  ASSUME NEW x, NEW s
  PROVE  Ledger!Occurrences(x, <<s>>) = IF x = s THEN 1 ELSE 0
<1>1. {i \in DOMAIN <<s>> : <<s>>[i] = x} = IF x = s THEN {1} ELSE {}
  OBVIOUS
<1> QED
  BY <1>1, FS_EmptySet, FS_Singleton, SameCardinality DEF Ledger!Occurrences

LEMMA OccurrencesOfMany ==
  ASSUME NEW x, NEW s, NEW n \in Nat, NEW ss, DOMAIN ss = 1 .. n, \A k \in 1 .. n : ss[k] = s
  PROVE  Ledger!Occurrences(x, ss) = IF x = s THEN n ELSE 0
<1>1. {i \in DOMAIN ss : ss[i] = x} = IF x = s THEN 1 .. n ELSE {}
  OBVIOUS
<1>2. Cardinality(1 .. n) = n
  BY FS_Interval
<1> QED
  BY <1>1, <1>2, FS_EmptySet, SameCardinality DEF Ledger!Occurrences

(***************************************************************************)
(* The occurrences in a concatenation are those of its parts: the places   *)
(* of the second part, moved behind the first, are as many as they were.   *)
(***************************************************************************)
LEMMA OccurrencesAdd ==
  ASSUME NEW S, NEW a \in Seq(S), NEW b \in Seq(S), NEW x
  PROVE  /\ Ledger!Occurrences(x, a \o b) = Ledger!Occurrences(x, a) + Ledger!Occurrences(x, b)
         /\ Ledger!Occurrences(x, a) \in Nat
         /\ Ledger!Occurrences(x, b) \in Nat
<1> DEFINE A == {i \in 1 .. Len(a) : a[i] = x}
           B == {i \in 1 .. Len(b) : b[i] = x}
           M == {i \in Len(a) + 1 .. Len(a) + Len(b) : b[i - Len(a)] = x}
           C == {i \in 1 .. Len(a) + Len(b) : (a \o b)[i] = x}
           move == [i \in B |-> i + Len(a)]
<1>1. Len(a) \in Nat /\ Len(b) \in Nat /\ DOMAIN a = 1 .. Len(a) /\ DOMAIN b = 1 .. Len(b)
  BY LenProperties
<1>2. /\ a \o b \in Seq(S) /\ Len(a \o b) = Len(a) + Len(b)
      /\ \A i \in 1 .. Len(a) + Len(b) : (a \o b)[i] = IF i <= Len(a) THEN a[i] ELSE b[i - Len(a)]
  BY ConcatProperties
<1>3. DOMAIN (a \o b) = 1 .. Len(a) + Len(b)
  BY <1>2, LenProperties
<1>4. /\ Ledger!Occurrences(x, a) = Cardinality(A) /\ Ledger!Occurrences(x, b) = Cardinality(B)
      /\ Ledger!Occurrences(x, a \o b) = Cardinality(C)
  BY <1>1, <1>3, SameCardinality DEF Ledger!Occurrences
<1>5. C = A \cup M /\ A \cap M = {}
  BY <1>1, <1>2
<1>6. IsFiniteSet(A) /\ IsFiniteSet(B) /\ IsFiniteSet(M)
  <2>1. IsFiniteSet(1 .. Len(a)) /\ IsFiniteSet(1 .. Len(b)) /\ IsFiniteSet(Len(a) + 1 .. Len(a) + Len(b))
    BY <1>1, FS_Interval
  <2>2. A \in SUBSET (1 .. Len(a)) /\ B \in SUBSET (1 .. Len(b)) /\ M \in SUBSET (Len(a) + 1 .. Len(a) + Len(b))
    OBVIOUS
  <2> QED
    BY <2>1, <2>2, FS_Subset
<1>7. Cardinality(M) = Cardinality(B)
  <2>1. move \in [B -> M]
    BY <1>1
  <2>2. \A i, j \in B : move[i] = move[j] => i = j
    BY <1>1
  <2>3. \A m \in M : m - Len(a) \in B /\ move[m - Len(a)] = m
    BY <1>1
  <2>4. move \in Bijection(B, M)
    BY <2>1, <2>2, <2>3 DEF Bijection, Injection, Surjection, IsInjective
  <2>5. ExistsBijection(B, M)
    BY <2>4 DEF ExistsBijection
  <2> QED
    BY <1>6, <2>5, FS_Bijection
<1>8. Cardinality(A) \in Nat /\ Cardinality(B) \in Nat
  BY <1>6, FS_CardinalityType
<1>9. Cardinality(C) = Cardinality(A) + Cardinality(M) - 0
  <2> HIDE DEF A, M, C
  <2> QED
    BY <1>5, <1>6, FS_Union, FS_EmptySet
<1> HIDE DEF A, B, M, C
<1> QED
  BY <1>4, <1>7, <1>8, <1>9

----------------------------------------------------------------------------
(* The session store *)

(***************************************************************************)
(* A flush moves what waits into the counters.                             *)
(***************************************************************************)
LEMMA FlushCounts ==
  ASSUME LedgerTypeOK
  PROVE  /\ Ledger!Counted(uncounted) \in [Sessions -> Nat]
         /\ \A s \in Ledger!Listed :
              s \in Sessions /\ Ledger!Counted(uncounted)[s] = count[s] + Ledger!Occurrences(s, uncounted)
<1>1. \A s : Ledger!Occurrences(s, uncounted) \in Nat
  BY OccurrencesAdd DEF LedgerTypeOK
<1>2. Ledger!Counted(uncounted) \in [Sessions -> Nat]
  BY <1>1 DEF LedgerTypeOK, Ledger!Counted
<1>3. Ledger!Listed \subseteq Sessions
  BY LenProperties DEF LedgerTypeOK, Ledger!Listed, Ledger!Range
<1> QED
  BY <1>2, <1>3 DEF Ledger!Counted

LEMMA FlushKeeps ==
  ASSUME LedgerInv, Ledger!Flush, sessions' \in Seq(Sessions), Ledger!Listed' \subseteq Ledger!Listed,
         UNCHANGED recorded
  PROVE  LedgerInv'
<1>1. LedgerTypeOK /\ count' = Ledger!Counted(uncounted) /\ uncounted' = <<>> /\ statsTimer' = FALSE
  BY DEF LedgerInv, Ledger!Flush, Ledger!BatchGone
<1>2. LedgerTypeOK'
  BY <1>1, FlushCounts, EmptySeq DEF LedgerTypeOK
<1>3. ASSUME NEW s \in Ledger!Listed'
      PROVE  count'[s] + Ledger!Occurrences(s, uncounted)' = recorded'[s]
  <2>1. s \in Ledger!Listed /\ s \in Sessions
    BY <1>1, FlushCounts
  <2>2. count[s] + Ledger!Occurrences(s, uncounted) = recorded[s]
    BY <2>1 DEF LedgerInv, CountersMatchRecorded
  <2>3. Ledger!Occurrences(s, uncounted)' = 0
    BY <1>1, OccurrencesOfNone DEF Ledger!Occurrences
  <2>4. recorded[s] \in Nat
    BY <2>1, <1>1 DEF LedgerTypeOK
  <2> QED
    BY <1>1, <2>1, <2>2, <2>3, <2>4, FlushCounts
<1>4. CountersMatchRecorded'
  BY <1>3 DEF CountersMatchRecorded
<1>5. Ledger!StatsAreScheduled'
  BY <1>1 DEF Ledger!StatsAreScheduled
<1> QED
  BY <1>2, <1>4, <1>5 DEF LedgerInv

(***************************************************************************)
(* Recording the packets ss keeps the ledger right if the history takes    *)
(* them in, too.                                                           *)
(***************************************************************************)
LEMMA RecordKeeps ==
  ASSUME LedgerInv, NEW ss \in Seq(Sessions), Ledger!Record(ss),
         recorded' \in [Sessions -> Nat],
         \A s \in Sessions : recorded'[s] = recorded[s] + Ledger!Occurrences(s, ss)
  PROVE  LedgerInv'
<1> DEFINE batch == uncounted \o ss
<1>1. LedgerTypeOK /\ UNCHANGED sessions
  BY DEF LedgerInv, Ledger!Record
<1>2. batch \in Seq(Sessions)
  BY <1>1, ConcatProperties DEF LedgerTypeOK
<1>3. \A s : /\ Ledger!Occurrences(s, batch) = Ledger!Occurrences(s, uncounted) + Ledger!Occurrences(s, ss)
             /\ Ledger!Occurrences(s, batch) \in Nat /\ Ledger!Occurrences(s, uncounted) \in Nat
             /\ Ledger!Occurrences(s, ss) \in Nat
  BY <1>1, <1>2, OccurrencesAdd DEF LedgerTypeOK
<1>4. ss # <<>> => batch # <<>>
  BY <1>1, ConcatSimplifications!concIsEmpty DEF LedgerTypeOK
<1>5. Ledger!Listed' = Ledger!Listed /\ Ledger!Listed \subseteq Sessions
  BY <1>1, LenProperties DEF LedgerTypeOK, Ledger!Listed, Ledger!Range
<1>6. \A s \in Ledger!Listed : count[s] + Ledger!Occurrences(s, uncounted) = recorded[s]
  BY DEF LedgerInv, CountersMatchRecorded
<1> HIDE DEF batch
<1>7. CASE ss = <<>> /\ UNCHANGED <<count, uncounted, statsTimer>>
  <2>1. LedgerTypeOK'
    BY <1>1, <1>7 DEF LedgerTypeOK
  <2>2. \A s \in Ledger!Listed' : count'[s] + Ledger!Occurrences(s, uncounted)' = recorded'[s]
    BY <1>1, <1>5, <1>6, <1>7, OccurrencesOfNone DEF LedgerTypeOK, Ledger!Occurrences
  <2>3. Ledger!StatsAreScheduled'
    BY <1>7 DEF LedgerInv, Ledger!StatsAreScheduled
  <2> QED
    BY <2>1, <2>2, <2>3 DEF LedgerInv, CountersMatchRecorded
<1>8. CASE count' = Ledger!Counted(batch) /\ Ledger!BatchGone
  <2>1. uncounted' = <<>> /\ statsTimer' = FALSE
    BY <1>8 DEF Ledger!BatchGone
  <2>2. count' \in [Sessions -> Nat] /\ \A s \in Ledger!Listed : count'[s] = count[s] + Ledger!Occurrences(s, batch)
    BY <1>1, <1>3, <1>5, <1>8 DEF LedgerTypeOK, Ledger!Counted
  <2>3. LedgerTypeOK'
    BY <1>1, <2>1, <2>2, EmptySeq DEF LedgerTypeOK
  <2>4. ASSUME NEW s \in Ledger!Listed'
        PROVE  count'[s] + Ledger!Occurrences(s, uncounted)' = recorded'[s]
    <3>1. s \in Ledger!Listed /\ s \in Sessions /\ count[s] \in Nat
      BY <1>1, <1>5 DEF LedgerTypeOK
    <3>2. Ledger!Occurrences(s, uncounted)' = 0
      BY <2>1, OccurrencesOfNone DEF Ledger!Occurrences
    <3> QED
      BY <1>3, <1>6, <2>2, <3>1, <3>2
  <2>5. Ledger!StatsAreScheduled'
    BY <2>1 DEF Ledger!StatsAreScheduled
  <2> QED
    BY <2>3, <2>4, <2>5 DEF LedgerInv, CountersMatchRecorded
<1>9. CASE ss # <<>> /\ uncounted' = batch /\ statsTimer' = TRUE /\ UNCHANGED count
  <2>1. LedgerTypeOK'
    BY <1>1, <1>2, <1>9 DEF LedgerTypeOK
  <2>2. ASSUME NEW s \in Ledger!Listed'
        PROVE  count'[s] + Ledger!Occurrences(s, uncounted)' = recorded'[s]
    <3>1. s \in Ledger!Listed /\ s \in Sessions /\ count[s] \in Nat
      BY <1>1, <1>5 DEF LedgerTypeOK
    <3>2. Ledger!Occurrences(s, uncounted)' = Ledger!Occurrences(s, batch)
      BY <1>9 DEF Ledger!Occurrences
    <3>3. count'[s] = count[s] /\ count[s] + Ledger!Occurrences(s, uncounted) = recorded[s]
      BY <1>6, <1>9, <3>1
    <3>4. recorded'[s] = recorded[s] + Ledger!Occurrences(s, ss)
      BY <3>1
    <3> QED
      BY <1>3, <3>1, <3>2, <3>3, <3>4
  <2>3. Ledger!StatsAreScheduled'
    BY <1>4, <1>9 DEF Ledger!StatsAreScheduled
  <2> QED
    BY <2>1, <2>2, <2>3 DEF LedgerInv, CountersMatchRecorded
<1> QED
  BY <1>7, <1>8, <1>9 DEF Ledger!Record, batch

(***************************************************************************)
(* A new session starts with the k packets that are recorded for it.       *)
(***************************************************************************)
LEMMA FirstKeeps ==
  ASSUME LedgerInv, NEW s \in Sessions, NEW k \in Nat,
         Ledger!PutFirst(s), count' = [Ledger!Counted(uncounted) EXCEPT ![s] = k], Ledger!BatchGone,
         recorded' = [recorded EXCEPT ![s] = k]
  PROVE  LedgerInv'
<1>1. LedgerTypeOK /\ uncounted' = <<>> /\ statsTimer' = FALSE
  BY DEF LedgerInv, Ledger!BatchGone
<1>2. sessions' \in Seq(Sessions) /\ Ledger!Listed' \subseteq Ledger!Listed \cup {s}
  <2> DEFINE all == <<s>> \o sessions
             kept == IF Len(sessions) < SessionCap THEN Len(sessions) + 1 ELSE SessionCap
  <2>1. <<s>> \in Seq(Sessions) /\ Len(<<s>>) = 1 /\ <<s>>[1] = s
    OBVIOUS
  <2>2. /\ Len(sessions) \in Nat /\ Len(all) = Len(sessions) + 1
        /\ \A i \in 1 .. Len(sessions) + 1 : all[i] = IF i <= 1 THEN s ELSE sessions[i - 1]
    <3> HIDE DEF all
    <3>1. Len(sessions) \in Nat
      BY <1>1, LenProperties DEF LedgerTypeOK
    <3>2. /\ Len(all) = 1 + Len(sessions)
          /\ \A i \in 1 .. 1 + Len(sessions) : all[i] = IF i <= 1 THEN <<s>>[i] ELSE sessions[i - 1]
      BY <1>1, <2>1, ConcatProperties DEF LedgerTypeOK, all
    <3> QED
      BY <2>1, <3>1, <3>2
  <2>3. kept \in Nat /\ kept <= Len(sessions) + 1
    BY <2>2, SessionCapAssumption
  <2>4. Ledger!Listed = {sessions[i] : i \in 1 .. Len(sessions)} /\ Ledger!Listed \subseteq Sessions
    BY <1>1, LenProperties DEF LedgerTypeOK, Ledger!Listed, Ledger!Range
  <2>5. sessions' = SubSeq(all, 1, kept)
    BY DEF Ledger!PutFirst
  <2> HIDE DEF all, kept
  <2>6. \A i \in 1 .. kept : all[i] \in Ledger!Listed \cup {s}
    BY <2>2, <2>3, <2>4
  <2>7. sessions' \in Seq(Ledger!Listed \cup {s})
    BY <2>3, <2>5, <2>6, SubSeqProperties
  <2>8. sessions' \in Seq(Sessions)
    BY <2>4, <2>7, SeqMonotonic
  <2>9. Ledger!Listed' \subseteq Ledger!Listed \cup {s}
    BY <2>7, LenProperties DEF Ledger!Listed, Ledger!Range
  <2> QED
    BY <2>8, <2>9
<1>3. LedgerTypeOK'
  BY <1>1, <1>2, FlushCounts, EmptySeq DEF LedgerTypeOK
<1>4. ASSUME NEW x \in Ledger!Listed'
      PROVE  count'[x] + Ledger!Occurrences(x, uncounted)' = recorded'[x]
  <2>1. Ledger!Occurrences(x, uncounted)' = 0
    BY <1>1, OccurrencesOfNone DEF Ledger!Occurrences
  <2>2. CASE x = s
    BY <1>1, <2>1, <2>2, FlushCounts DEF LedgerTypeOK
  <2>3. CASE x # s
    <3>1. x \in Ledger!Listed /\ x \in Sessions /\ recorded[x] \in Nat
      BY <1>1, <1>2, <2>3, FlushCounts DEF LedgerTypeOK
    <3>2. count[x] + Ledger!Occurrences(x, uncounted) = recorded[x]
      BY <3>1 DEF LedgerInv, CountersMatchRecorded
    <3>3. count'[x] = recorded[x] /\ recorded'[x] = recorded[x]
      BY <1>1, <2>3, <3>1, <3>2, FlushCounts DEF LedgerTypeOK
    <3> QED
      BY <2>1, <3>1, <3>3
  <2> QED
    BY <2>2, <2>3
<1>5. Ledger!StatsAreScheduled'
  BY <1>1 DEF Ledger!StatsAreScheduled
<1> QED
  BY <1>3, <1>4, <1>5 DEF LedgerInv, CountersMatchRecorded

LEMMA RemoveKeeps ==
  ASSUME LedgerInv, NEW s, Ledger!RemoveSession(s), UNCHANGED recorded
  PROVE  LedgerInv'
<1>1. PICK i \in DOMAIN sessions :
        sessions' = SubSeq(sessions, 1, i - 1) \o SubSeq(sessions, i + 1, Len(sessions))
  BY DEF Ledger!RemoveSession, Ledger!RemoveAt
<1>2. /\ Len(sessions) \in Nat /\ i \in 1 .. Len(sessions) /\ Ledger!Listed \subseteq Sessions
      /\ \A j \in 1 .. Len(sessions) : sessions[j] \in Ledger!Listed
  <2>1. Len(sessions) \in Nat /\ DOMAIN sessions = 1 .. Len(sessions) /\ sessions \in [1 .. Len(sessions) -> Sessions]
    BY LenProperties DEF LedgerInv, LedgerTypeOK
  <2> QED
    BY <1>1, <2>1 DEF Ledger!Listed, Ledger!Range
<1>3. SubSeq(sessions, 1, i - 1) \in Seq(Ledger!Listed)
  BY <1>2, SubSeqProperties
<1>4. SubSeq(sessions, i + 1, Len(sessions)) \in Seq(Ledger!Listed)
  BY <1>2, SubSeqProperties
<1>5. sessions' \in Seq(Ledger!Listed)
  BY <1>1, <1>3, <1>4, ConcatProperties
<1>6. sessions' \in Seq(Sessions)
  BY <1>2, <1>5, SeqMonotonic
<1>7. Ledger!Listed' \subseteq Ledger!Listed
  BY <1>5, LenProperties DEF Ledger!Listed, Ledger!Range
<1>8. Ledger!Flush
  BY DEF Ledger!RemoveSession
<1> QED
  BY <1>6, <1>7, <1>8, FlushKeeps

(***************************************************************************)
(* Renaming, status changes and the timer only flush.                      *)
(***************************************************************************)
LEMMA PlainFlushKeeps ==
  ASSUME LedgerInv, Ledger!Flush, UNCHANGED <<sessions, recorded>>
  PROVE  LedgerInv'
<1>1. sessions' \in Seq(Sessions) /\ Ledger!Listed' \subseteq Ledger!Listed
  BY DEF LedgerInv, LedgerTypeOK, Ledger!Listed, Ledger!Range
<1> QED
  BY <1>1, FlushKeeps

LEMMA LedgerUnchanged == LedgerInv /\ UNCHANGED <<ledgerVars, recorded>> => LedgerInv'
<1> SUFFICES ASSUME LedgerInv, UNCHANGED <<ledgerVars, recorded>> PROVE LedgerInv'
  OBVIOUS
<1>1. UNCHANGED <<sessions, uncounted, count, recorded, statsTimer>>
  BY DEF ledgerVars
<1>2. LedgerTypeOK' /\ Ledger!StatsAreScheduled'
  BY <1>1 DEF LedgerInv, LedgerTypeOK, Ledger!StatsAreScheduled
<1>3. ASSUME NEW s \in Ledger!Listed'
      PROVE  count'[s] + Ledger!Occurrences(s, uncounted)' = recorded'[s]
  <2>1. s \in Ledger!Listed
    BY <1>1 DEF Ledger!Listed, Ledger!Range
  <2>2. Ledger!Occurrences(s, uncounted)' = Ledger!Occurrences(s, uncounted)
    BY <1>1 DEF Ledger!Occurrences
  <2>3. count[s] + Ledger!Occurrences(s, uncounted) = recorded[s]
    BY <2>1 DEF LedgerInv, CountersMatchRecorded
  <2> QED
    BY <1>1, <2>2, <2>3
<1> QED
  BY <1>2, <1>3 DEF LedgerInv, CountersMatchRecorded

----------------------------------------------------------------------------
(* Lists of packets *)

Packets == Seq(Timeline!Packet)

Sorted(ps) == \A i, j \in DOMAIN ps : i < j => ps[i].t >= ps[j].t

Once(ps) == \A i, j \in DOMAIN ps : ps[i].n = ps[j].n => i = j

Apart(ps, qs) == \A p \in Range(ps), q \in Range(qs) : p.n # q.n

LEMMA PacketFields ==
  ASSUME NEW p \in Timeline!Packet
  PROVE  p.n \in Nat /\ p.s \in Sessions /\ p.t \in Int
BY TimesAssumption DEF Timeline!Packet

LEMMA ListFacts ==
  ASSUME NEW ps \in Packets
  PROVE  /\ Len(ps) \in Nat /\ DOMAIN ps = 1 .. Len(ps)
         /\ \A i \in 1 .. Len(ps) : /\ ps[i] \in Timeline!Packet /\ ps[i] \in Range(ps)
                                    /\ ps[i].n \in Nat /\ ps[i].s \in Sessions /\ ps[i].t \in Int
         /\ \A p \in Range(ps) : p \in Timeline!Packet /\ \E i \in 1 .. Len(ps) : p = ps[i]
<1>1. Len(ps) \in Nat /\ DOMAIN ps = 1 .. Len(ps) /\ \A i \in 1 .. Len(ps) : ps[i] \in Timeline!Packet
  BY LenProperties, ElementOfSeq DEF Packets
<1> QED
  BY <1>1, PacketFields DEF Range

(***************************************************************************)
(* Induction, in the form the provers can use: a set of numbers that holds *)
(* 0, and with a number below n the next one, holds all of 0 .. n.         *)
(***************************************************************************)
LEMMA UpTo ==
  ASSUME NEW n \in Nat, NEW A, 0 \in A, \A i \in 0 .. n : i \in A /\ i < n => i + 1 \in A
  PROVE  0 .. n \subseteq A
<1> DEFINE B == {i \in 0 .. n : \A j \in 0 .. i : j \in A}
           f == [i \in B |-> i + 1]
<1>1. SUFFICES ASSUME n \notin B PROVE FALSE
  OBVIOUS
<1>2. 0 \in B
  OBVIOUS
<1>3. ASSUME NEW i \in B PROVE i + 1 \in B
  <2>1. i \in 0 .. n /\ i < n /\ i \in A
    BY <1>1
  <2>2. i + 1 \in A
    BY <2>1
  <2>3. \A j \in 0 .. i + 1 : j \in 0 .. i \/ j = i + 1
    BY <2>1
  <2> QED
    BY <2>1, <2>2, <2>3
<1>4. IsFiniteSet(B) /\ Cardinality(B) \in Nat
  <2>1. IsFiniteSet(0 .. n) /\ B \subseteq 0 .. n
    BY FS_Interval
  <2> QED
    BY <2>1, FS_Subset, FS_CardinalityType
<1>5. IsFiniteSet(B \ {0}) /\ Cardinality(B \ {0}) = Cardinality(B) - 1
  <2> HIDE DEF B
  <2> QED
    BY <1>2, <1>4, FS_RemoveElement
<1>6. f \in Injection(B, B \ {0})
  <2>1. f \in [B -> B \ {0}]
    BY <1>3
  <2>2. \A i, j \in B : f[i] = f[j] => i = j
    OBVIOUS
  <2> HIDE DEF B, f
  <2> QED
    BY <2>1, <2>2 DEF Injection, IsInjective
<1>7. Cardinality(B) <= Cardinality(B \ {0})
  BY <1>5, <1>6, FS_Injection
<1> QED
  BY <1>4, <1>5, <1>7

----------------------------------------------------------------------------
(* Sorting, filtering and cutting off a list *)

(***************************************************************************)
(* The store's own sort and filter are those of Arrangements.              *)
(***************************************************************************)
LEMMA SameArrangement == \A S, R : Timeline!Arranged(S, R) = Arranged(S, R)
<1>1. \A S : Timeline!Cardinality(S) = Cardinality(S)
  BY DEF Timeline!Cardinality, Cardinality
<1>2. \A S, R : Timeline!Places(S, R) = Places(S, R)
  BY <1>1 DEF Timeline!Places, Places
<1> QED
  BY <1>1, <1>2 DEF Timeline!Arranged, Arranged

LEMMA SameSort == \A ps : Timeline!SortByTimestamp(ps) = NewestFirst(ps)
BY SameArrangement DEF Timeline!SortByTimestamp, Timeline!NewestFirst, NewestFirst, Timeline!NewerFirst, NewerFirst

LEMMA SameFilter == \A ps, s : Timeline!OfOthers(ps, s) = Kept(ps, {i \in DOMAIN ps : ps[i].s # s})
<1>1. \A S : Timeline!Cardinality(S) = Cardinality(S)
  BY DEF Timeline!Cardinality, Cardinality
<1> QED
  BY <1>1, SameArrangement DEF Timeline!OfOthers, Timeline!Kept, Kept

LEMMA SortFacts ==
  ASSUME NEW ps \in Packets
  PROVE  LET qs == Timeline!SortByTimestamp(ps)
         IN  /\ qs \in Packets /\ Len(qs) = Len(ps) /\ Range(qs) = Range(ps)
             /\ Sorted(qs)
             /\ Once(ps) => Once(qs)
<1> DEFINE N == Len(ps)
           qs == Timeline!SortByTimestamp(ps)
<1>1. /\ N \in Nat /\ DOMAIN ps = 1 .. N
      /\ \A i \in 1 .. N : ps[i] \in Timeline!Packet /\ ps[i].t \in Int
  BY ListFacts
<1>2. qs \in Seq(Timeline!Packet) /\ Len(qs) = N /\ IsSorting(qs, ps)
  <2>1. ps \in Seq(Timeline!Packet)
    BY DEF Packets
  <2>2. \A p \in Timeline!Packet : p.t \in Int
    BY PacketFields
  <2>3. qs = NewestFirst(ps)
    BY SameSort
  <2> HIDE DEF qs
  <2> QED
    BY <2>1, <2>2, <2>3, NewestFirstFacts
<1> HIDE DEF N, qs
<1>3. PICK o \in [1 .. N -> 1 .. N] :
        /\ \A k \in 1 .. N : qs[k] = ps[o[k]]
        /\ \A k, l \in 1 .. N : o[k] = o[l] => k = l
        /\ \A i \in 1 .. N : \E k \in 1 .. N : o[k] = i
        /\ \A k, l \in 1 .. N : k < l => qs[k].t >= qs[l].t
  BY <1>2 DEF IsSorting, N
<1>4. qs \in Packets /\ DOMAIN qs = 1 .. N
  BY <1>2, LenProperties DEF Packets
<1>8. \A k \in 1 .. N : qs[k] = ps[o[k]] /\ o[k] \in 1 .. N
  BY <1>3
<1>5. Sorted(qs)
  BY <1>3, <1>4 DEF Sorted
<1>6. Range(qs) = Range(ps)
  <2>1. \A i \in 1 .. N : \E k \in 1 .. N : qs[k] = ps[i]
    BY <1>3
  <2>2. Range(ps) = {ps[i] : i \in 1 .. N} /\ Range(qs) = {qs[k] : k \in 1 .. N}
    BY <1>1, <1>4 DEF Range
  <2>3. \A i \in 1 .. N : ps[i] \in Range(qs)
    BY <2>1, <2>2
  <2>4. \A k \in 1 .. N : qs[k] \in Range(ps)
    BY <1>8, <2>2
  <2> QED
    BY <2>2, <2>3, <2>4
<1>7. Once(ps) => Once(qs)
  <2>1. ASSUME Once(ps), NEW k \in 1 .. N, NEW l \in 1 .. N, qs[k].n = qs[l].n PROVE k = l
    <3>1. o[k] = o[l]
      BY <1>1, <1>8, <2>1 DEF Once
    <3> QED
      BY <1>3, <3>1
  <2> QED
    BY <1>4, <2>1 DEF Once
<1> QED
  BY <1>2, <1>4, <1>5, <1>6, <1>7 DEF qs, N

LEMMA FilterFacts ==
  ASSUME NEW ps \in Packets, NEW s
  PROVE  LET qs == Timeline!OfOthers(ps, s)
         IN  /\ qs \in Packets /\ Len(qs) <= Len(ps)
             /\ Range(qs) = {p \in Range(ps) : p.s # s}
             /\ Sorted(ps) => Sorted(qs)
             /\ Once(ps) => Once(qs)
             /\ (\A p \in Range(ps) : p.s # s) => Len(qs) = Len(ps)
<1> DEFINE left == {i \in DOMAIN ps : ps[i].s # s}
           qs == Timeline!OfOthers(ps, s)
           N == Len(qs)
<1>1. /\ Len(ps) \in Nat /\ DOMAIN ps = 1 .. Len(ps)
      /\ \A i \in 1 .. Len(ps) : ps[i] \in Timeline!Packet
  BY ListFacts
<1>2. /\ \A i \in left : i \in 1 .. Len(ps) /\ ps[i].s # s
      /\ \A i \in 1 .. Len(ps) : ps[i].s # s => i \in left
  BY <1>1
<1>3. (\A p \in Range(ps) : p.s # s) => left = DOMAIN ps
  BY <1>1 DEF Range
<1>4. /\ qs \in Seq(Timeline!Packet) /\ Len(qs) <= Len(ps)
      /\ left = DOMAIN ps => Len(qs) = Len(ps)
      /\ IsFiltering(qs, ps, left)
  <2>1. ps \in Seq(Timeline!Packet) /\ left \subseteq DOMAIN ps
    BY DEF Packets
  <2>2. qs = Kept(ps, left)
    BY SameFilter
  <2> HIDE DEF qs, left
  <2> QED
    BY <2>1, <2>2, KeptFacts
<1> HIDE DEF left, N, qs
<1>5. PICK o \in [1 .. N -> left] :
        /\ \A k \in 1 .. N : qs[k] = ps[o[k]]
        /\ \A k, l \in 1 .. N : k < l => o[k] < o[l]
        /\ \A k, l \in 1 .. N : o[k] = o[l] => k = l
        /\ \A i \in left : \E k \in 1 .. N : o[k] = i
  BY <1>4 DEF IsFiltering, N
<1>6. qs \in Packets /\ DOMAIN qs = 1 .. N
  BY <1>4, LenProperties DEF Packets, N
<1>7. \A k \in 1 .. N : qs[k] = ps[o[k]] /\ o[k] \in left /\ o[k] \in 1 .. Len(ps)
  BY <1>2, <1>5
<1>8. Sorted(ps) => Sorted(qs)
  <2>1. ASSUME Sorted(ps), NEW k \in 1 .. N, NEW l \in 1 .. N, k < l PROVE qs[k].t >= qs[l].t
    <3>1. o[k] < o[l]
      BY <1>5, <2>1
    <3> QED
      BY <1>1, <1>7, <2>1, <3>1 DEF Sorted
  <2> QED
    BY <1>6, <2>1 DEF Sorted
<1>9. Range(qs) = {p \in Range(ps) : p.s # s}
  <2>1. \A i \in 1 .. Len(ps) : ps[i].s # s => \E k \in 1 .. N : qs[k] = ps[i]
    BY <1>2, <1>5, <1>7
  <2>2. \A k \in 1 .. N : qs[k].s # s
    BY <1>2, <1>7
  <2>3. Range(ps) = {ps[i] : i \in 1 .. Len(ps)} /\ Range(qs) = {qs[k] : k \in 1 .. N}
    BY <1>1, <1>6 DEF Range
  <2> QED
    BY <1>7, <2>1, <2>2, <2>3
<1>10. Once(ps) => Once(qs)
  <2>1. ASSUME Once(ps), NEW k \in 1 .. N, NEW l \in 1 .. N, qs[k].n = qs[l].n PROVE k = l
    <3>1. o[k] = o[l]
      BY <1>1, <1>7, <2>1 DEF Once
    <3> QED
      BY <1>5, <3>1
  <2> QED
    BY <1>6, <2>1 DEF Once
<1> QED
  BY <1>3, <1>4, <1>6, <1>8, <1>9, <1>10 DEF qs, N

LEMMA RetainFacts ==
  ASSUME NEW ps \in Packets, NEW max \in Nat
  PROVE  LET qs == Timeline!RetainNewest(ps, max)
         IN  /\ qs \in Packets /\ Len(qs) = (IF Len(ps) <= max THEN Len(ps) ELSE max)
             /\ \A i \in 1 .. Len(qs) : i \in 1 .. Len(ps) /\ qs[i] = ps[i]
             /\ Range(qs) \subseteq Range(ps)
             /\ Sorted(ps) => Sorted(qs)
             /\ Once(ps) => Once(qs)
<1> DEFINE m == IF Len(ps) <= max THEN Len(ps) ELSE max
           qs == Timeline!RetainNewest(ps, max)
<1>1. /\ Len(ps) \in Nat /\ DOMAIN ps = 1 .. Len(ps)
      /\ \A i \in 1 .. Len(ps) : ps[i] \in Timeline!Packet
  BY ListFacts
<1>2. m \in Nat /\ m <= Len(ps) /\ 1 \in 1 .. Len(ps) + 1
  BY <1>1
<1>3. qs = SubSeq(ps, 1, m)
  BY DEF Timeline!RetainNewest
<1>4. \A i \in 1 .. m : ps[i] \in Timeline!Packet
  BY <1>1, <1>2
<1> HIDE DEF m, qs
<1>5. qs \in Packets
  BY <1>2, <1>3, <1>4, SubSeqProperties DEF Packets
<1>6. Len(qs) = m /\ \A i \in 1 .. m : qs[i] = ps[i]
  BY <1>1, <1>2, <1>3, SubSeqProperties DEF Packets
<1>7. DOMAIN qs = 1 .. m /\ \A i \in 1 .. m : i \in 1 .. Len(ps)
  BY <1>1, <1>2, <1>5, <1>6, ListFacts
<1>8. Range(qs) \subseteq Range(ps) /\ (Sorted(ps) => Sorted(qs)) /\ (Once(ps) => Once(qs))
  BY <1>1, <1>6, <1>7 DEF Range, Sorted, Once
<1> QED
  BY <1>5, <1>6, <1>7, <1>8 DEF m, qs

----------------------------------------------------------------------------
(* Merging two lists *)

(***************************************************************************)
(* leftIndex after the k-th turn of the loop, from what it was before.     *)
(***************************************************************************)
Turn(left, right, index, k) ==
  IF Timeline!LeftGoesFirst(left, right, index[k - 1], k - 1 - index[k - 1])
  THEN index[k - 1] + 1 ELSE index[k - 1]

(***************************************************************************)
(* The loop's index exists: what it is after n turns extends to n + 1.     *)
(***************************************************************************)
LEMMA LeftIndexTurns ==
  ASSUME NEW left \in Packets, NEW right \in Packets
  PROVE  LET N == Len(left) + Len(right)
             index == Timeline!LeftIndex(left, right)
         IN  index[0] = 0 /\ \A k \in 1 .. N : index[k] = Turn(left, right, index, k)
<1> DEFINE N == Len(left) + Len(right)
           Run(n, g) == g = [k \in 0 .. n |-> IF k = 0 THEN 0 ELSE Turn(left, right, g, k)]
           A == {n \in 0 .. N : \E g : Run(n, g)}
           index == Timeline!LeftIndex(left, right)
<1>1. N \in Nat
  BY ListFacts
<1>2. 0 \in A
  <2> DEFINE g == [k \in 0 .. 0 |-> 0]
  <2>1. g = [k \in 0 .. 0 |-> IF k = 0 THEN 0 ELSE Turn(left, right, g, k)]
    OBVIOUS
  <2> HIDE DEF g
  <2> QED
    BY <1>1, <2>1
<1>3. ASSUME NEW n \in 0 .. N, n \in A, n < N PROVE n + 1 \in A
  <2>1. PICK g : Run(n, g)
    BY <1>3
  <2> DEFINE h == [k \in 0 .. n + 1 |-> IF k = n + 1 THEN Turn(left, right, g, n + 1) ELSE g[k]]
  <2>2. \A k \in 0 .. n : h[k] = g[k]
    BY <1>1
  <2>3. \A k \in 1 .. n + 1 : Turn(left, right, h, k) = Turn(left, right, g, k)
    <3>1. \A k \in 1 .. n + 1 : h[k - 1] = g[k - 1]
      BY <1>1, <2>2
    <3> QED
      BY <3>1 DEF Turn
  <2>4. \A k \in 0 .. n + 1 : h[k] = IF k = 0 THEN 0 ELSE Turn(left, right, h, k)
    <3>1. CASE n + 1 \in 0 .. n + 1
      <4>1. h[n + 1] = Turn(left, right, g, n + 1)
        OBVIOUS
      <4>2. \A k \in 0 .. n : g[k] = IF k = 0 THEN 0 ELSE Turn(left, right, g, k)
        BY <2>1
      <4>3. \A k \in 0 .. n + 1 : k \in 0 .. n \/ k = n + 1
        BY <1>1
      <4> HIDE DEF h
      <4> QED
        BY <1>1, <2>2, <2>3, <4>1, <4>2, <4>3
    <3> QED
      BY <1>1, <3>1
  <2>5. Run(n + 1, h)
    <3>1. h = [k \in 0 .. n + 1 |-> h[k]]
      OBVIOUS
    <3> HIDE DEF h
    <3> QED
      BY <2>4, <3>1
  <2> HIDE DEF h
  <2> QED
    BY <1>1, <1>3, <2>5
<1>4. N \in A
  <2> HIDE DEF A, N
  <2> QED
    BY <1>1, <1>2, <1>3, UpTo
<1>5. \E g : Run(N, g)
  BY <1>4
<1>6. Run(N, index)
  BY <1>5 DEF Timeline!LeftIndex, Turn
<1>7. \A k \in 0 .. N : index[k] = IF k = 0 THEN 0 ELSE Turn(left, right, index, k)
  <2> HIDE DEF index, N
  <2> QED
    BY <1>6
<1> HIDE DEF N, index
<1>8. index[0] = 0 /\ \A k \in 1 .. N : index[k] = Turn(left, right, index, k)
  BY <1>1, <1>7
<1> QED
  BY <1>8 DEF N, index

(***************************************************************************)
(* Both indexes stay in their lists, and neither ever goes back.           *)
(***************************************************************************)
LEMMA LeftIndexBounds ==
  ASSUME NEW left \in Packets, NEW right \in Packets
  PROVE  LET N == Len(left) + Len(right)
             index == Timeline!LeftIndex(left, right)
         IN  \A k \in 0 .. N : index[k] \in 0 .. Len(left) /\ k - index[k] \in 0 .. Len(right)
<1> DEFINE N == Len(left) + Len(right)
           index == Timeline!LeftIndex(left, right)
           A == {k \in 0 .. N : index[k] \in 0 .. Len(left) /\ k - index[k] \in 0 .. Len(right)}
<1>1. Len(left) \in Nat /\ Len(right) \in Nat /\ N \in Nat
  BY ListFacts
<1>2. index[0] = 0 /\ \A k \in 1 .. N : index[k] = Turn(left, right, index, k)
  BY LeftIndexTurns
<1> HIDE DEF index
<1>3. 0 \in A
  BY <1>1, <1>2
<1>4. ASSUME NEW k \in 0 .. N, k \in A, k < N PROVE k + 1 \in A
  <2>1. k + 1 \in 1 .. N /\ (k + 1) - 1 = k
    BY <1>1, <1>4
  <2>2. index[k + 1] = Turn(left, right, index, k + 1)
    BY <1>2, <2>1
  <2>3. index[k + 1] = IF Timeline!LeftGoesFirst(left, right, index[k], k - index[k])
                       THEN index[k] + 1 ELSE index[k]
    BY <2>1, <2>2 DEF Turn
  <2>4. /\ Timeline!LeftGoesFirst(left, right, index[k], k - index[k]) => index[k] < Len(left)
        /\ ~ Timeline!LeftGoesFirst(left, right, index[k], k - index[k]) =>
             index[k] >= Len(left) \/ k - index[k] < Len(right)
    BY <1>1, <1>4 DEF Timeline!LeftGoesFirst
  <2>5. index[k] \in 0 .. Len(left) /\ k - index[k] \in 0 .. Len(right) /\ k < Len(left) + Len(right)
    BY <1>4
  <2> HIDE DEF N
  <2>6. index[k + 1] \in 0 .. Len(left) /\ k + 1 - index[k + 1] \in 0 .. Len(right)
    <3>1. CASE Timeline!LeftGoesFirst(left, right, index[k], k - index[k])
      BY <1>1, <2>3, <2>4, <2>5, <3>1
    <3>2. CASE ~ Timeline!LeftGoesFirst(left, right, index[k], k - index[k])
      BY <1>1, <2>3, <2>4, <2>5, <3>2
    <3> QED
      BY <3>1, <3>2
  <2> QED
    BY <1>1, <2>1, <2>6
<1>5. 0 .. N \subseteq A
  <2> HIDE DEF A, N
  <2> QED
    BY <1>1, <1>3, <1>4, UpTo
<1> QED
  BY <1>5 DEF index

(***************************************************************************)
(* The turn k moves the left or the right packet, whichever goes first.    *)
(***************************************************************************)
LEMMA LeftIndexSteps ==
  ASSUME NEW left \in Packets, NEW right \in Packets,
         NEW k \in 1 .. Len(left) + Len(right)
  PROVE  LET index == Timeline!LeftIndex(left, right)
         IN  \/ /\ index[k] = index[k - 1] + 1
                /\ Timeline!LeftGoesFirst(left, right, index[k] - 1, k - index[k])
             \/ /\ index[k] = index[k - 1]
                /\ ~ Timeline!LeftGoesFirst(left, right, index[k], k - 1 - index[k])
<1> DEFINE index == Timeline!LeftIndex(left, right)
<1>1. Len(left) \in Nat /\ Len(right) \in Nat /\ k - 1 \in 0 .. Len(left) + Len(right)
  BY ListFacts
<1>2. index[k] = Turn(left, right, index, k)
  BY LeftIndexTurns
<1>3. index[k - 1] \in Int
  BY <1>1, LeftIndexBounds
<1> HIDE DEF index
<1>4. CASE Timeline!LeftGoesFirst(left, right, index[k - 1], k - 1 - index[k - 1])
  <2>1. index[k] = index[k - 1] + 1
    BY <1>2, <1>4 DEF Turn
  <2>2. index[k] - 1 = index[k - 1] /\ k - index[k] = k - 1 - index[k - 1]
    BY <1>3, <2>1
  <2>3. Timeline!LeftGoesFirst(left, right, index[k] - 1, k - index[k])
    BY <1>4, <2>2
  <2> QED
    BY <2>1, <2>3 DEF index
<1>5. CASE ~ Timeline!LeftGoesFirst(left, right, index[k - 1], k - 1 - index[k - 1])
  <2>1. index[k] = index[k - 1]
    BY <1>2, <1>5 DEF Turn
  <2> QED
    BY <1>5, <2>1 DEF index
<1> QED
  BY <1>4, <1>5

LEMMA LeftIndexMonotone ==
  ASSUME NEW left \in Packets, NEW right \in Packets,
         NEW l \in 0 .. Len(left) + Len(right), NEW k \in 0 .. l
  PROVE  LET index == Timeline!LeftIndex(left, right)
         IN  index[k] <= index[l] /\ k - index[k] <= l - index[l]
<1> DEFINE N == Len(left) + Len(right)
           index == Timeline!LeftIndex(left, right)
           A == {d \in 0 .. N - k : index[k] <= index[k + d] /\ k - index[k] <= (k + d) - index[k + d]}
<1>1. N \in Nat /\ N - k \in Nat /\ l - k \in 0 .. N - k /\ k \in 0 .. N
  BY ListFacts
<1>2. \A j \in 0 .. N : index[j] \in Nat
  BY LeftIndexBounds, ListFacts
<1>3. \A j \in 1 .. N : index[j] = index[j - 1] + 1 \/ index[j] = index[j - 1]
  BY LeftIndexSteps
<1> HIDE DEF index, N
<1>4. 0 \in A
  <2>1. index[k] \in Nat /\ k + 0 = k
    BY <1>1, <1>2
  <2> QED
    BY <1>1, <2>1
<1>5. ASSUME NEW d \in 0 .. N - k, d \in A, d < N - k PROVE d + 1 \in A
  <2>1. /\ k + (d + 1) \in 1 .. N /\ k + (d + 1) \in 0 .. N /\ k + (d + 1) - 1 = k + d
        /\ k + d \in 0 .. N
    BY <1>1, <1>5
  <2>2. index[k + (d + 1)] = index[k + d] + 1 \/ index[k + (d + 1)] = index[k + d]
    BY <1>3, <2>1
  <2>3. index[k] \in Nat /\ index[k + d] \in Nat /\ index[k + (d + 1)] \in Nat
    BY <1>1, <1>2, <2>1
  <2>4. index[k] <= index[k + d] /\ k - index[k] <= (k + d) - index[k + d]
    BY <1>5
  <2>5. index[k] <= index[k + (d + 1)] /\ k - index[k] <= (k + (d + 1)) - index[k + (d + 1)]
    BY <1>1, <2>2, <2>3, <2>4
  <2> QED
    BY <1>1, <1>5, <2>5
<1>6. l - k \in A
  <2> HIDE DEF A
  <2>1. 0 .. N - k \subseteq A
    BY <1>1, <1>4, <1>5, UpTo
  <2> QED
    BY <1>1, <2>1
<1>7. k + (l - k) = l
  BY <1>1
<1>8. index[k] <= index[l] /\ k - index[k] <= l - index[l]
  <2> DEFINE d == l - k
  <2>1. index[k] <= index[k + d] /\ k - index[k] <= (k + d) - index[k + d]
    BY <1>6
  <2>2. k + d = l
    BY <1>7
  <2> HIDE DEF d, A
  <2> QED
    BY <2>1, <2>2
<1> QED
  BY <1>8 DEF index

(***************************************************************************)
(* What stands at place k of the merged list, and that it goes before      *)
(* whatever of the other list was not moved yet.                           *)
(***************************************************************************)
FromLeft(left, right, k) ==
  LET index == Timeline!LeftIndex(left, right)
  IN  /\ index[k] = index[k - 1] + 1
      /\ index[k] \in 1 .. Len(left)
      /\ k - index[k] \in 0 .. Len(right)
      /\ Timeline!Merge(left, right)[k] = left[index[k]]
      /\ k - index[k] < Len(right) => left[index[k]].t >= right[(k - index[k]) + 1].t

FromRight(left, right, k) ==
  LET index == Timeline!LeftIndex(left, right)
  IN  /\ index[k] = index[k - 1]
      /\ index[k] \in 0 .. Len(left)
      /\ k - index[k] \in 1 .. Len(right)
      /\ Timeline!Merge(left, right)[k] = right[k - index[k]]
      /\ index[k] < Len(left) => ~ (left[index[k] + 1].t >= right[k - index[k]].t)

LEMMA MergePlaces ==
  ASSUME NEW left \in Packets, NEW right \in Packets
  PROVE  \A k \in 1 .. Len(left) + Len(right) : FromLeft(left, right, k) \/ FromRight(left, right, k)
<1> SUFFICES ASSUME NEW k \in 1 .. Len(left) + Len(right)
             PROVE  FromLeft(left, right, k) \/ FromRight(left, right, k)
  OBVIOUS
<1> DEFINE index == Timeline!LeftIndex(left, right)
           i == index[k]
           h == index[k - 1]
<1>1. Len(left) \in Nat /\ Len(right) \in Nat /\ k \in Nat /\ k - 1 \in 0 .. Len(left) + Len(right)
      /\ k \in 0 .. Len(left) + Len(right)
  BY ListFacts
<1>2. /\ i \in 0 .. Len(left) /\ k - i \in 0 .. Len(right)
      /\ h \in 0 .. Len(left) /\ (k - 1) - h \in 0 .. Len(right)
  BY <1>1, LeftIndexBounds
<1>3. Timeline!Merge(left, right)[k] = IF i > h THEN left[i] ELSE right[k - i]
  BY DEF Timeline!Merge
<1>4. \/ i = h + 1 /\ Timeline!LeftGoesFirst(left, right, i - 1, k - i)
      \/ i = h /\ ~ Timeline!LeftGoesFirst(left, right, i, k - 1 - i)
  BY LeftIndexSteps
<1> HIDE DEF index, i, h
<1>5. CASE i = h + 1 /\ Timeline!LeftGoesFirst(left, right, i - 1, k - i)
  <2>1. i > h /\ i \in 1 .. Len(left) /\ (i - 1) + 1 = i
    BY <1>1, <1>2, <1>5
  <2>2. k - i < Len(right) => left[i].t >= right[(k - i) + 1].t
    BY <1>5, <2>1 DEF Timeline!LeftGoesFirst
  <2>3. FromLeft(left, right, k)
    BY <1>2, <1>3, <1>5, <2>1, <2>2 DEF FromLeft, index, i, h
  <2> QED
    BY <2>3
<1>6. CASE i = h /\ ~ Timeline!LeftGoesFirst(left, right, i, k - 1 - i)
  <2>1. ~ (i > h) /\ k - i \in 1 .. Len(right) /\ (k - 1 - i) + 1 = k - i
    BY <1>1, <1>2, <1>6
  <2>2. i < Len(left) => ~ (left[i + 1].t >= right[k - i].t)
    BY <1>6, <2>1 DEF Timeline!LeftGoesFirst
  <2>3. FromRight(left, right, k)
    BY <1>2, <1>3, <1>6, <2>1, <2>2 DEF FromRight, index, i, h
  <2> QED
    BY <2>3
<1> QED
  BY <1>4, <1>5, <1>6

LEMMA MergeIsList ==
  ASSUME NEW left \in Packets, NEW right \in Packets
  PROVE  LET both == Timeline!Merge(left, right)
         IN  /\ both \in Packets
             /\ Len(both) = Len(left) + Len(right)
             /\ DOMAIN both = 1 .. Len(left) + Len(right)
<1> DEFINE N == Len(left) + Len(right)
           both == Timeline!Merge(left, right)
<1>1. N \in Nat
  BY ListFacts
<1>2. ASSUME NEW k \in 1 .. N
      PROVE  both[k] \in Timeline!Packet
  <2>1. CASE FromLeft(left, right, k)
    BY <2>1, ListFacts DEF FromLeft
  <2>2. CASE FromRight(left, right, k)
    BY <2>2, ListFacts DEF FromRight
  <2> QED
    BY <2>1, <2>2, MergePlaces
<1>3. both = [k \in 1 .. N |-> both[k]]
  BY DEF Timeline!Merge
<1> HIDE DEF both, N
<1>4. both \in [1 .. N -> Timeline!Packet]
  BY <1>2, <1>3
<1>5. both \in Packets /\ Len(both) = N /\ DOMAIN both = 1 .. N
  BY <1>1, <1>4, SeqDef, LenProperties DEF Packets
<1> QED
  BY <1>5 DEF both, N

LEMMA MergeIsSorted ==
  ASSUME NEW left \in Packets, NEW right \in Packets, Sorted(left), Sorted(right)
  PROVE  Sorted(Timeline!Merge(left, right))
<1> DEFINE N == Len(left) + Len(right)
           both == Timeline!Merge(left, right)
           index == Timeline!LeftIndex(left, right)
<1>1. /\ Len(left) \in Nat /\ DOMAIN left = 1 .. Len(left)
      /\ Len(right) \in Nat /\ DOMAIN right = 1 .. Len(right)
      /\ \A i \in 1 .. Len(left) : left[i].t \in Int
      /\ \A j \in 1 .. Len(right) : right[j].t \in Int
  BY ListFacts
<1>2. /\ \A i, j \in 1 .. Len(left) : i <= j => left[i].t >= left[j].t
      /\ \A i, j \in 1 .. Len(right) : i <= j => right[i].t >= right[j].t
  <2>1. ASSUME NEW i \in 1 .. Len(left), NEW j \in 1 .. Len(left), i <= j
        PROVE  left[i].t >= left[j].t
    <3>1. i = j \/ i < j
      BY <1>1, <2>1
    <3>2. left[i].t >= left[i].t
      BY <1>1
    <3> QED
      BY <1>1, <3>1, <3>2 DEF Sorted
  <2>2. ASSUME NEW i \in 1 .. Len(right), NEW j \in 1 .. Len(right), i <= j
        PROVE  right[i].t >= right[j].t
    <3>1. i = j \/ i < j
      BY <1>1, <2>2
    <3>2. right[i].t >= right[i].t
      BY <1>1
    <3> QED
      BY <1>1, <3>1, <3>2 DEF Sorted
  <2> QED
    BY <2>1, <2>2
<1>3. ASSUME NEW k \in 1 .. N, NEW l \in 1 .. N, k < l
      PROVE  both[k].t >= both[l].t
  <2>1. FromLeft(left, right, k) \/ FromRight(left, right, k)
    BY MergePlaces
  <2>2. FromLeft(left, right, l) \/ FromRight(left, right, l)
    BY MergePlaces
  <2>3. k \in 0 .. l - 1 /\ l - 1 \in 0 .. N
    BY <1>1, <1>3
  <2>4. index[k] <= index[l - 1] /\ k - index[k] <= (l - 1) - index[l - 1]
    BY <2>3, LeftIndexMonotone
  <2>5. k \in Nat /\ l \in Nat /\ index[l - 1] \in Int
    BY <1>1, <2>3, LeftIndexBounds
  <2> HIDE DEF N, both, index
  <2>6. CASE FromLeft(left, right, k)
    <3>1. /\ index[k] \in 1 .. Len(left) /\ k - index[k] \in 0 .. Len(right) /\ both[k] = left[index[k]]
          /\ k - index[k] < Len(right) => left[index[k]].t >= right[(k - index[k]) + 1].t
      BY <2>6 DEF FromLeft, both, index
    <3>2. CASE FromLeft(left, right, l)
      <4>1. /\ index[l] = index[l - 1] + 1 /\ index[l] \in 1 .. Len(left)
            /\ both[l] = left[index[l]]
        BY <3>2 DEF FromLeft, both, index
      <4>2. index[k] <= index[l]
        BY <2>4, <2>5, <3>1, <4>1
      <4> QED
        BY <1>2, <3>1, <4>1, <4>2
    <3>3. CASE FromRight(left, right, l)
      <4>1. /\ index[l] = index[l - 1] /\ l - index[l] \in 1 .. Len(right) /\ index[l] \in 0 .. Len(left)
            /\ both[l] = right[l - index[l]]
        BY <3>3 DEF FromRight, both, index
      <4>2. (k - index[k]) + 1 \in 1 .. Len(right) /\ (k - index[k]) + 1 <= l - index[l] /\ k - index[k] < Len(right)
        <5>1. k - index[k] <= (l - 1) - index[l] /\ index[l] \in Int /\ k - index[k] \in Int
          BY <1>1, <2>4, <3>1, <4>1
        <5>2. (k - index[k]) + 1 <= l - index[l] /\ l - index[l] <= Len(right)
          BY <1>1, <2>5, <4>1, <5>1
        <5>3. k - index[k] >= 0 /\ l - index[l] \in Int
          BY <3>1, <4>1
        <5> DEFINE a == k - index[k]
                   b == l - index[l]
        <5>4. /\ a + 1 <= b /\ b <= Len(right) /\ a >= 0
              /\ a \in Int /\ b \in Int /\ Len(right) \in Nat
          BY <1>1, <5>1, <5>2, <5>3
        <5> HIDE DEF a, b
        <5>5. a + 1 \in 1 .. Len(right) /\ a + 1 <= b /\ a < Len(right)
          BY <5>4
        <5> QED
          BY <5>5 DEF a, b
      <4>3. right[(k - index[k]) + 1].t >= right[l - index[l]].t
        BY <1>2, <4>1, <4>2
      <4>4. left[index[k]].t >= right[(k - index[k]) + 1].t
        BY <3>1, <4>2
      <4>5. /\ left[index[k]].t \in Int /\ right[(k - index[k]) + 1].t \in Int
            /\ right[l - index[l]].t \in Int
        BY <1>1, <3>1, <4>1, <4>2
      <4>6. left[index[k]].t >= right[l - index[l]].t
        BY <4>3, <4>4, <4>5
      <4> QED
        BY <3>1, <4>1, <4>6
    <3> QED
      BY <2>2, <3>2, <3>3
  <2>7. CASE FromRight(left, right, k)
    <3>1. /\ index[k] \in 0 .. Len(left) /\ k - index[k] \in 1 .. Len(right) /\ both[k] = right[k - index[k]]
          /\ index[k] < Len(left) => ~ (left[index[k] + 1].t >= right[k - index[k]].t)
      BY <2>7 DEF FromRight, both, index
    <3>2. CASE FromLeft(left, right, l)
      <4>1. /\ index[l] = index[l - 1] + 1 /\ index[l] \in 1 .. Len(left)
            /\ both[l] = left[index[l]]
        BY <3>2 DEF FromLeft, both, index
      <4>2. index[k] + 1 \in 1 .. Len(left) /\ index[k] + 1 <= index[l] /\ index[k] < Len(left)
        <5>1. index[k] \in Nat /\ index[l] \in Nat /\ index[l] <= Len(left)
          BY <1>1, <3>1, <4>1
        <5>2. index[k] + 1 <= index[l]
          BY <2>4, <2>5, <4>1, <5>1
        <5> QED
          BY <1>1, <5>1, <5>2
      <4>3. left[index[k] + 1].t >= left[index[l]].t
        BY <1>2, <4>1, <4>2
      <4>4. ~ (left[index[k] + 1].t >= right[k - index[k]].t)
        BY <3>1, <4>2
      <4>5. /\ left[index[k] + 1].t \in Int /\ right[k - index[k]].t \in Int
            /\ left[index[l]].t \in Int
        BY <1>1, <3>1, <4>1, <4>2
      <4>6. right[k - index[k]].t >= left[index[l]].t
        BY <4>3, <4>4, <4>5
      <4> QED
        BY <3>1, <4>1, <4>6
    <3>3. CASE FromRight(left, right, l)
      <4>1. /\ index[l] = index[l - 1] /\ l - index[l] \in 1 .. Len(right) /\ index[l] \in 0 .. Len(left)
            /\ both[l] = right[l - index[l]]
        BY <3>3 DEF FromRight, both, index
      <4>2. k - index[k] <= l - index[l]
        BY <2>4, <2>5, <3>1, <4>1
      <4> QED
        BY <1>2, <3>1, <4>1, <4>2
    <3> QED
      BY <2>2, <3>2, <3>3
  <2> QED
    BY <2>1, <2>6, <2>7
<1>4. DOMAIN both = 1 .. N
  BY MergeIsList
<1> QED
  BY <1>3, <1>4 DEF Sorted

(***************************************************************************)
(* The merged list has the packets of both lists: an index that starts at  *)
(* 0 and ends at the length of its list steps onto every place between.    *)
(***************************************************************************)
LEMMA MergeHasBoth ==
  ASSUME NEW left \in Packets, NEW right \in Packets
  PROVE  Range(Timeline!Merge(left, right)) = Range(left) \cup Range(right)
<1> DEFINE N == Len(left) + Len(right)
           both == Timeline!Merge(left, right)
           index == Timeline!LeftIndex(left, right)
<1>1. /\ Len(left) \in Nat /\ DOMAIN left = 1 .. Len(left)
      /\ Len(right) \in Nat /\ DOMAIN right = 1 .. Len(right)
      /\ DOMAIN both = 1 .. N /\ N \in Nat
  BY ListFacts, MergeIsList
<1>2. \A k \in 1 .. N : FromLeft(left, right, k) \/ FromRight(left, right, k)
  BY MergePlaces
<1>3. /\ index[0] = 0
      /\ \A k \in 0 .. N : index[k] \in 0 .. Len(left) /\ k - index[k] \in 0 .. Len(right)
  BY LeftIndexTurns, LeftIndexBounds
<1> HIDE DEF both, index
<1>4. index[N] = Len(left) /\ N - index[N] = Len(right)
  <2>1. index[N] \in 0 .. Len(left) /\ N - index[N] \in 0 .. Len(right)
    BY <1>1, <1>3
  <2> QED
    BY <1>1, <2>1
<1>5. ASSUME NEW k \in 1 .. N PROVE both[k] \in Range(left) \cup Range(right)
  <2>1. CASE FromLeft(left, right, k)
    BY <1>1, <2>1, ListFacts DEF FromLeft, both
  <2>2. CASE FromRight(left, right, k)
    BY <1>1, <2>2, ListFacts DEF FromRight, both
  <2> QED
    BY <1>2, <2>1, <2>2
<1>6. ASSUME NEW i \in 1 .. Len(left) PROVE \E k \in 1 .. N : both[k] = left[i]
  <2> SUFFICES ASSUME \A k \in 1 .. N : both[k] # left[i] PROVE FALSE
    OBVIOUS
  <2> DEFINE A == {k \in 0 .. N : index[k] < i}
  <2>1. 0 \in A
    BY <1>1, <1>3
  <2>2. ASSUME NEW k \in 0 .. N, k \in A, k < N PROVE k + 1 \in A
    <3>1. k + 1 \in 1 .. N /\ (k + 1) - 1 = k /\ index[k] \in Int /\ index[k] < i
      BY <1>1, <1>3, <2>2
    <3>2. CASE FromLeft(left, right, k + 1)
      <4>1. index[k + 1] = index[k] + 1 /\ both[k + 1] = left[index[k + 1]]
        BY <3>1, <3>2 DEF FromLeft, both, index
      <4>2. index[k + 1] # i
        BY <3>1, <4>1
      <4> QED
        BY <3>1, <4>1, <4>2
    <3>3. CASE FromRight(left, right, k + 1)
      BY <3>1, <3>3 DEF FromRight, index
    <3> QED
      BY <1>2, <3>1, <3>2, <3>3
  <2>3. 0 .. N \subseteq A
    <3> HIDE DEF A, N
    <3> QED
      BY <1>1, <2>1, <2>2, UpTo
  <2>4. N \in A
    BY <1>1, <2>3
  <2> QED
    BY <1>1, <1>4, <2>4
<1>7. ASSUME NEW j \in 1 .. Len(right) PROVE \E k \in 1 .. N : both[k] = right[j]
  <2> SUFFICES ASSUME \A k \in 1 .. N : both[k] # right[j] PROVE FALSE
    OBVIOUS
  <2> DEFINE A == {k \in 0 .. N : k - index[k] < j}
  <2>1. 0 \in A
    BY <1>1, <1>3
  <2>2. ASSUME NEW k \in 0 .. N, k \in A, k < N PROVE k + 1 \in A
    <3>1. /\ k + 1 \in 1 .. N /\ (k + 1) - 1 = k /\ index[k] \in Int /\ k - index[k] < j
          /\ k + 1 \in 0 .. N
      BY <1>1, <1>3, <2>2
    <3>2. CASE FromLeft(left, right, k + 1)
      <4>1. index[k + 1] = index[k] + 1
        BY <3>1, <3>2 DEF FromLeft, index
      <4> QED
        BY <3>1, <4>1
    <3>3. CASE FromRight(left, right, k + 1)
      <4>1. index[k + 1] = index[k] /\ both[k + 1] = right[(k + 1) - index[k + 1]]
        BY <3>1, <3>3 DEF FromRight, both, index
      <4>2. (k + 1) - index[k + 1] # j
        BY <3>1, <4>1
      <4> QED
        BY <3>1, <4>1, <4>2
    <3> QED
      BY <1>2, <3>1, <3>2, <3>3
  <2>3. 0 .. N \subseteq A
    <3> HIDE DEF A, N
    <3> QED
      BY <1>1, <2>1, <2>2, UpTo
  <2>4. N \in A
    BY <1>1, <2>3
  <2> QED
    BY <1>1, <1>4, <2>4
<1>8. /\ Range(left) = {left[i] : i \in 1 .. Len(left)}
      /\ Range(right) = {right[j] : j \in 1 .. Len(right)}
      /\ Range(both) = {both[k] : k \in 1 .. N}
  BY <1>1 DEF Range
<1> HIDE DEF N
<1>9. Range(both) = Range(left) \cup Range(right)
  BY <1>5, <1>6, <1>7, <1>8
<1> QED
  BY <1>9 DEF both

(***************************************************************************)
(* No packet comes twice.                                                  *)
(***************************************************************************)
LEMMA MergeIsOnce ==
  ASSUME NEW left \in Packets, NEW right \in Packets, Once(left), Once(right), Apart(left, right)
  PROVE  Once(Timeline!Merge(left, right))
<1> DEFINE N == Len(left) + Len(right)
           both == Timeline!Merge(left, right)
           index == Timeline!LeftIndex(left, right)
<1>1. /\ Len(left) \in Nat /\ DOMAIN left = 1 .. Len(left)
      /\ Len(right) \in Nat /\ DOMAIN right = 1 .. Len(right)
      /\ DOMAIN both = 1 .. N /\ N \in Nat
  BY ListFacts, MergeIsList
<1>2. \A i \in 1 .. Len(left), j \in 1 .. Len(right) : left[i].n # right[j].n
  BY <1>1 DEF Apart, Range
<1>3. ASSUME NEW k \in 1 .. N, NEW l \in 1 .. N, k < l
      PROVE  both[k].n # both[l].n
  <2>1. FromLeft(left, right, k) \/ FromRight(left, right, k)
    BY MergePlaces
  <2>2. FromLeft(left, right, l) \/ FromRight(left, right, l)
    BY MergePlaces
  <2>3. k \in 0 .. l - 1 /\ l - 1 \in 0 .. N
    BY <1>1, <1>3
  <2>4. index[k] <= index[l - 1] /\ k - index[k] <= (l - 1) - index[l - 1]
    BY <2>3, LeftIndexMonotone
  <2>5. k \in Nat /\ l \in Nat /\ index[l - 1] \in Int
    BY <1>1, <2>3, LeftIndexBounds
  <2> HIDE DEF N, both, index
  <2>6. CASE FromLeft(left, right, k)
    <3>1. index[k] \in 1 .. Len(left) /\ both[k] = left[index[k]]
      BY <2>6 DEF FromLeft, both, index
    <3>2. CASE FromLeft(left, right, l)
      <4>1. index[l] = index[l - 1] + 1 /\ index[l] \in 1 .. Len(left) /\ both[l] = left[index[l]]
        BY <3>2 DEF FromLeft, both, index
      <4>2. index[k] # index[l]
        BY <2>4, <2>5, <3>1, <4>1
      <4> QED
        BY <1>1, <3>1, <4>1, <4>2 DEF Once
    <3>3. CASE FromRight(left, right, l)
      BY <1>2, <3>1, <3>3 DEF FromRight, both, index
    <3> QED
      BY <2>2, <3>2, <3>3
  <2>7. CASE FromRight(left, right, k)
    <3>1. /\ k - index[k] \in 1 .. Len(right) /\ both[k] = right[k - index[k]]
      BY <2>7 DEF FromRight, both, index
    <3>2. CASE FromLeft(left, right, l)
      BY <1>2, <3>1, <3>2 DEF FromLeft, both, index
    <3>3. CASE FromRight(left, right, l)
      <4>1. /\ index[l] = index[l - 1] /\ l - index[l] \in 1 .. Len(right)
            /\ both[l] = right[l - index[l]]
        BY <3>3 DEF FromRight, both, index
      <4>2. k - index[k] # l - index[l]
        BY <2>4, <2>5, <3>1, <4>1
      <4> QED
        BY <1>1, <3>1, <4>1, <4>2 DEF Once
    <3> QED
      BY <2>2, <3>2, <3>3
  <2> QED
    BY <2>1, <2>6, <2>7
<1>4. \A k, l \in 1 .. N : k = l \/ k < l \/ l < k
  BY <1>1
<1> HIDE DEF N, both
<1> QED
  BY <1>1, <1>3, <1>4 DEF Once, both

(***************************************************************************)
(* Merging packets into a list only moves newer ones in front: no place    *)
(* of the merged list has an older packet than that place of the list.     *)
(***************************************************************************)
LEMMA MergeIsNewer ==
  ASSUME NEW left \in Packets, NEW right \in Packets, Sorted(right), NEW k \in 1 .. Len(right)
  PROVE  k \in 1 .. Len(left) + Len(right) /\ Timeline!Merge(left, right)[k].t >= right[k].t
<1> DEFINE both == Timeline!Merge(left, right)
           index == Timeline!LeftIndex(left, right)
<1>1. /\ Len(left) \in Nat /\ Len(right) \in Nat /\ DOMAIN right = 1 .. Len(right)
      /\ \A i \in 1 .. Len(left) : left[i].t \in Int
      /\ \A j \in 1 .. Len(right) : right[j].t \in Int
  BY ListFacts
<1>2. ASSUME NEW i \in 1 .. Len(right), NEW j \in 1 .. Len(right), i <= j
      PROVE  right[i].t >= right[j].t
  <2>1. i = j \/ i < j
    BY <1>1, <1>2
  <2>2. right[i].t >= right[i].t
    BY <1>1
  <2> QED
    BY <1>1, <2>1, <2>2 DEF Sorted
<1>3. k \in 1 .. Len(left) + Len(right)
  BY <1>1
<1>4. FromLeft(left, right, k) \/ FromRight(left, right, k)
  BY <1>3, MergePlaces
<1> HIDE DEF both, index
<1>5. CASE FromLeft(left, right, k)
  <2>1. /\ index[k] \in 1 .. Len(left) /\ k - index[k] \in 0 .. Len(right) /\ both[k] = left[index[k]]
        /\ k - index[k] < Len(right) => left[index[k]].t >= right[(k - index[k]) + 1].t
    BY <1>5 DEF FromLeft, both, index
  <2>2. k - index[k] < Len(right) /\ (k - index[k]) + 1 \in 1 .. Len(right) /\ (k - index[k]) + 1 <= k
    BY <1>1, <2>1
  <2>3. right[(k - index[k]) + 1].t >= right[k].t /\ left[index[k]].t >= right[(k - index[k]) + 1].t
    BY <1>2, <2>1, <2>2
  <2>4. left[index[k]].t \in Int /\ right[(k - index[k]) + 1].t \in Int /\ right[k].t \in Int
    BY <1>1, <2>1, <2>2
  <2>5. left[index[k]].t >= right[k].t
    BY <2>3, <2>4
  <2> QED
    BY <1>3, <2>1, <2>5 DEF both
<1>6. CASE FromRight(left, right, k)
  <2>1. /\ index[k] \in 0 .. Len(left) /\ k - index[k] \in 1 .. Len(right) /\ both[k] = right[k - index[k]]
    BY <1>6 DEF FromRight, both, index
  <2>2. k - index[k] <= k
    BY <1>1, <2>1
  <2> QED
    BY <1>2, <1>3, <2>1, <2>2 DEF both
<1> QED
  BY <1>4, <1>5, <1>6

----------------------------------------------------------------------------
(* What a flush keeps and what it drops *)

(***************************************************************************)
(* Of the packets in all, ps lacks only some that are no newer than any it *)
(* has, and none unless it has max packets.                                *)
(***************************************************************************)
DropsOldest(all, ps, max) ==
  \A p \in all \ Range(ps) : Len(ps) = max /\ \A q \in Range(ps) : q.t >= p.t

LEMMA RetainDropsOldest ==
  ASSUME NEW ps \in Packets, NEW max \in Nat, Sorted(ps)
  PROVE  DropsOldest(Range(ps), Timeline!RetainNewest(ps, max), max)
<1> DEFINE qs == Timeline!RetainNewest(ps, max)
<1>1. /\ qs \in Packets /\ Len(qs) = (IF Len(ps) <= max THEN Len(ps) ELSE max)
      /\ \A i \in 1 .. Len(qs) : i \in 1 .. Len(ps) /\ qs[i] = ps[i]
  BY RetainFacts
<1> HIDE DEF qs
<1>2. /\ Len(ps) \in Nat /\ DOMAIN ps = 1 .. Len(ps)
      /\ Len(qs) \in Nat /\ DOMAIN qs = 1 .. Len(qs)
  BY <1>1, ListFacts
<1>3. ASSUME NEW p \in Range(ps) \ Range(qs)
      PROVE  Len(qs) = max /\ \A q \in Range(qs) : q.t >= p.t
  <2>1. PICK i \in 1 .. Len(ps) : p = ps[i]
    BY ListFacts
  <2>2. i \notin 1 .. Len(qs)
    BY <1>1, <1>2, <2>1 DEF Range
  <2>3. Len(qs) = max /\ Len(qs) < i
    <3>1. Len(qs) # Len(ps)
      BY <2>1, <2>2
    <3>2. Len(qs) = max
      BY <1>1, <3>1
    <3> QED
      BY <1>2, <2>1, <2>2, <3>2
  <2>4. ASSUME NEW q \in Range(qs) PROVE q.t >= p.t
    <3>1. PICK j \in 1 .. Len(qs) : q = qs[j]
      BY <1>1, ListFacts
    <3>2. j \in 1 .. Len(ps) /\ q = ps[j] /\ j < i
      BY <1>1, <1>2, <2>1, <2>3, <3>1
    <3> QED
      BY <1>2, <2>1, <3>2 DEF Sorted
  <2> QED
    BY <2>3, <2>4
<1> QED
  BY <1>3 DEF DropsOldest, qs

(***************************************************************************)
(* A batch merged into a list ps that has already dropped some of all.     *)
(***************************************************************************)
LEMMA MergeDropsOldest ==
  ASSUME NEW left \in Packets, Sorted(left), Once(left),
         NEW ps \in Packets, Sorted(ps), Once(ps), Apart(left, ps),
         NEW max \in Nat, NEW all, all \subseteq Timeline!Packet, DropsOldest(all, ps, max)
  PROVE  LET qs == Timeline!RetainNewest(Timeline!Merge(left, ps), max)
         IN  /\ qs \in Packets /\ Sorted(qs) /\ Once(qs) /\ Len(qs) <= max
             /\ Range(qs) \subseteq Range(left) \cup Range(ps)
             /\ DropsOldest(all \cup Range(left) \cup Range(ps), qs, max)
<1> DEFINE both == Timeline!Merge(left, ps)
           qs == Timeline!RetainNewest(both, max)
<1>1. /\ both \in Packets /\ Len(both) = Len(left) + Len(ps) /\ Sorted(both) /\ Once(both)
      /\ Range(both) = Range(left) \cup Range(ps)
  BY MergeIsList, MergeIsSorted, MergeIsOnce, MergeHasBoth
<1>2. \A k \in 1 .. Len(ps) : both[k].t >= ps[k].t
  BY MergeIsNewer
<1> HIDE DEF both
<1>3. /\ qs \in Packets /\ Sorted(qs) /\ Once(qs) /\ Range(qs) \subseteq Range(both)
      /\ Len(qs) = (IF Len(both) <= max THEN Len(both) ELSE max)
      /\ \A i \in 1 .. Len(qs) : i \in 1 .. Len(both) /\ qs[i] = both[i]
      /\ DropsOldest(Range(both), qs, max)
  BY <1>1, RetainFacts, RetainDropsOldest
<1> HIDE DEF qs
<1>4. Len(left) \in Nat /\ Len(ps) \in Nat /\ Len(qs) <= max
  BY <1>1, <1>3, ListFacts
<1>5. ASSUME NEW p \in all, p \notin Range(qs), p \notin Range(ps)
      PROVE  Len(qs) = max /\ \A q \in Range(qs) : q.t >= p.t
  <2>1. Len(ps) = max /\ \A q \in Range(ps) : q.t >= p.t
    BY <1>5 DEF DropsOldest
  <2>2. Len(qs) = max
    BY <1>1, <1>3, <1>4, <2>1
  <2>3. ASSUME NEW q \in Range(qs) PROVE q.t >= p.t
    <3>1. PICK k \in 1 .. Len(qs) : q = qs[k]
      BY <1>3, ListFacts
    <3>2. k \in 1 .. Len(ps) /\ q = both[k]
      BY <1>3, <2>1, <2>2, <3>1
    <3>3. q.t >= ps[k].t /\ ps[k].t >= p.t
      BY <1>2, <2>1, <3>2, ListFacts
    <3>4. q \in Timeline!Packet /\ ps[k] \in Timeline!Packet /\ p \in Timeline!Packet
      BY <1>3, <3>2, ListFacts
    <3> QED
      BY <3>3, <3>4, PacketFields
  <2> QED
    BY <2>2, <2>3
<1>6. DropsOldest(all \cup Range(left) \cup Range(ps), qs, max)
  BY <1>1, <1>3, <1>5 DEF DropsOldest
<1> QED
  BY <1>1, <1>3, <1>4, <1>6 DEF qs, both

LEMMA AllThere == ASSUME NEW ps, NEW max PROVE DropsOldest(Range(ps), ps, max)
BY DEF DropsOldest

(***************************************************************************)
(* The batch b, or an array of packets, flushed into the list ps.          *)
(***************************************************************************)
LEMMA BatchDropsOldest ==
  ASSUME NEW b \in Packets, Once(b),
         NEW ps \in Packets, Sorted(ps), Once(ps), Apart(b, ps), NEW max \in Nat,
         NEW all, all \subseteq Timeline!Packet, DropsOldest(all, ps, max)
  PROVE  LET qs == Timeline!RetainNewest(Timeline!Merge(Timeline!SortByTimestamp(b), ps), max)
         IN  /\ qs \in Packets /\ Sorted(qs) /\ Once(qs) /\ Len(qs) <= max
             /\ Range(qs) \subseteq Range(b) \cup Range(ps)
             /\ DropsOldest(all \cup Range(b) \cup Range(ps), qs, max)
<1> DEFINE left == Timeline!SortByTimestamp(b)
<1>1. left \in Packets /\ Sorted(left) /\ Once(left) /\ Range(left) = Range(b)
  BY SortFacts
<1> HIDE DEF left
<1>2. Apart(left, ps)
  BY <1>1 DEF Apart
<1>3. LET qs == Timeline!RetainNewest(Timeline!Merge(left, ps), max)
      IN  /\ qs \in Packets /\ Sorted(qs) /\ Once(qs) /\ Len(qs) <= max
          /\ Range(qs) \subseteq Range(left) \cup Range(ps)
          /\ DropsOldest(all \cup Range(left) \cup Range(ps), qs, max)
  BY <1>1, <1>2, MergeDropsOldest
<1> QED
  BY <1>1, <1>3 DEF left

LEMMA WithBatchDropsOldest ==
  ASSUME packets \in Packets, Sorted(packets), Once(packets), NEW b \in Packets, Once(b),
         Apart(b, packets), NEW max \in Nat
  PROVE  LET qs == Timeline!WithBatch(b, max)
         IN  /\ qs \in Packets /\ Sorted(qs) /\ Once(qs)
             /\ Len(packets) <= max => Len(qs) <= max
             /\ Range(qs) \subseteq Range(b) \cup Range(packets)
             /\ DropsOldest(Range(packets) \cup Range(b), qs, max)
<1>1. CASE b = <<>>
  <2>1. Range(b) = {}
    BY <1>1 DEF Range
  <2> QED
    BY <1>1, <2>1, AllThere DEF Timeline!WithBatch
<1>2. CASE b # <<>>
  <2>1. Range(packets) \subseteq Timeline!Packet
    BY ListFacts
  <2>2. LET qs == Timeline!RetainNewest(Timeline!Merge(Timeline!SortByTimestamp(b), packets), max)
        IN  /\ qs \in Packets /\ Sorted(qs) /\ Once(qs) /\ Len(qs) <= max
            /\ Range(qs) \subseteq Range(b) \cup Range(packets)
            /\ DropsOldest(Range(packets) \cup Range(b) \cup Range(packets), qs, max)
    BY <2>1, AllThere, BatchDropsOldest
  <2>3. Range(packets) \cup Range(b) \cup Range(packets) = Range(packets) \cup Range(b)
    OBVIOUS
  <2> QED
    BY <1>2, <2>2, <2>3 DEF Timeline!WithBatch
<1> QED
  BY <1>1, <1>2

----------------------------------------------------------------------------
(* The packet store *)

LEMMA AddPacketKeeps ==
  ASSUME BatchInv, NEW p \in Timeline!Packet, Timeline!AddPacket(p), arrived' \in Nat
  PROVE  BatchInv'
<1> DEFINE batch == Append(pending, p)
<1>1. batch \in Seq(Timeline!Packet) /\ Len(batch) = Len(pending) + 1 /\ Len(pending) \in Nat
  BY LenProperties DEF BatchInv
<1>2. batch # <<>>
  BY <1>1, EmptySeq
<1>3. \/ pending' = <<>> /\ timer' = FALSE
      \/ pending' = batch /\ timer' = TRUE
  BY DEF Timeline!AddPacket, Timeline!FlushTo, Timeline!BatchGone
<1> HIDE DEF batch
<1> QED
  BY <1>1, <1>2, <1>3, EmptySeq DEF BatchInv, Timeline!BatchIsScheduled

LEMMA FlushedKeeps ==
  ASSUME BatchInv, Timeline!BatchGone, arrived' \in Nat
  PROVE  BatchInv'
BY EmptySeq DEF BatchInv, Timeline!BatchGone, Timeline!BatchIsScheduled

LEMMA BatchUnchanged == BatchInv /\ UNCHANGED timelineVars /\ arrived' \in Nat => BatchInv'
BY DEF timelineVars, BatchInv, Timeline!BatchIsScheduled

----------------------------------------------------------------------------
(* The two together *)

CaptureInv == LedgerInv /\ BatchInv

LEMMA InitHolds == Init => CaptureInv
<1> SUFFICES ASSUME Init PROVE CaptureInv
  OBVIOUS
<1>1. LedgerTypeOK
  BY EmptySeq DEF Init, Ledger!Init, LedgerTypeOK
<1>2. Ledger!Listed = {}
  BY DEF Init, Ledger!Init, Ledger!Listed, Ledger!Range
<1>3. CountersMatchRecorded
  BY <1>2 DEF CountersMatchRecorded
<1>4. Ledger!StatsAreScheduled
  BY DEF Init, Ledger!Init, Ledger!StatsAreScheduled
<1>5. BatchInv
  BY EmptySeq DEF Init, Timeline!Init, BatchInv, Timeline!BatchIsScheduled
<1> QED
  BY <1>1, <1>3, <1>4, <1>5 DEF CaptureInv, LedgerInv

LEMMA CapturePacketKeeps ==
  ASSUME CaptureInv, NEW s \in Sessions, NEW t \in Times, CapturePacket(s, t)
  PROVE  CaptureInv'
<1>1. <<s>> \in Seq(Sessions)
  OBVIOUS
<1>2. /\ recorded' \in [Sessions -> Nat]
      /\ \A x \in Sessions : recorded'[x] = recorded[x] + Ledger!Occurrences(x, <<s>>)
  BY OccurrencesOfOne DEF CapturePacket, CaptureInv, LedgerInv, LedgerTypeOK
<1>3. LedgerInv'
  BY <1>1, <1>2, RecordKeeps DEF CapturePacket, CaptureInv
<1>4. arrived' \in Nat /\ [n |-> arrived + 1, s |-> s, t |-> t] \in Timeline!Packet
  BY DEF CapturePacket, CaptureInv, BatchInv, Timeline!Packet
<1>5. BatchInv'
  BY <1>4, AddPacketKeeps DEF CapturePacket, CaptureInv
<1> QED
  BY <1>3, <1>5 DEF CaptureInv

LEMMA TimesAreListed ==
  ASSUME NEW ts \in SomeTimes
  PROVE  ts \in Seq(Times) /\ Len(ts) \in Nat /\ DOMAIN ts = 1 .. Len(ts)
<1>1. PICK k \in 0 .. 2 : ts \in [1 .. k -> Times]
  BY DEF SomeTimes
<1>2. ts \in Seq(Times)
  BY <1>1
<1> QED
  BY <1>2, LenProperties

LEMMA CaptureBurstKeeps ==
  ASSUME CaptureInv, NEW s \in Sessions, NEW ts \in SomeTimes, CaptureBurst(s, ts)
  PROVE  CaptureInv'
<1> DEFINE ss == [k \in 1 .. Len(ts) |-> s]
<1>1. Len(ts) \in Nat /\ DOMAIN ts = 1 .. Len(ts)
  BY TimesAreListed
<1>2. ss \in Seq(Sessions)
  BY <1>1
<1>3. /\ recorded' \in [Sessions -> Nat]
      /\ \A x \in Sessions : recorded'[x] = recorded[x] + Ledger!Occurrences(x, ss)
  <2>1. recorded' = [recorded EXCEPT ![s] = @ + Len(ts)] /\ recorded \in [Sessions -> Nat]
    BY DEF CaptureBurst, CaptureInv, LedgerInv, LedgerTypeOK
  <2>2. ASSUME NEW x \in Sessions
        PROVE  Ledger!Occurrences(x, ss) = IF x = s THEN Len(ts) ELSE 0
    <3>1. DOMAIN ss = 1 .. Len(ts) /\ \A k \in 1 .. Len(ts) : ss[k] = s
      OBVIOUS
    <3> HIDE DEF ss
    <3> QED
      BY <1>1, <3>1, OccurrencesOfMany
  <2> HIDE DEF ss
  <2> QED
    BY <1>1, <2>1, <2>2
<1>4. Ledger!Record(ss)
  BY <1>1 DEF CaptureBurst
<1> HIDE DEF ss
<1>5. LedgerInv'
  BY <1>2, <1>3, <1>4, RecordKeeps DEF CaptureInv
<1>6. arrived' \in Nat /\ Timeline!BatchGone
  BY <1>1 DEF CaptureBurst, CaptureInv, BatchInv, Timeline!AddPackets, Timeline!FlushTo
<1>7. BatchInv'
  BY <1>6, FlushedKeeps DEF CaptureInv
<1> QED
  BY <1>5, <1>7 DEF CaptureInv

(***************************************************************************)
(* A session that is new has nothing recorded yet.                         *)
(***************************************************************************)
LEMMA NewSessionKeeps ==
  ASSUME CaptureInv, NEW s \in Sessions, StartSession(s) \/ ProxySessionStarted(s)
  PROVE  CaptureInv'
<1>1. recorded[s] = 0 /\ recorded' = recorded /\ UNCHANGED timelineVars /\ arrived' = arrived
  BY DEF StartSession, ProxySessionStarted, Started, historyVars, CaptureInv, LedgerInv, LedgerTypeOK
<1>2. recorded' = [recorded EXCEPT ![s] = 0]
  BY <1>1 DEF CaptureInv, LedgerInv, LedgerTypeOK
<1>3. /\ Ledger!PutFirst(s) /\ Ledger!BatchGone
      /\ count' = [Ledger!Counted(uncounted) EXCEPT ![s] = 0]
  BY DEF StartSession, ProxySessionStarted, Ledger!StartSession, Ledger!ImportSession
<1>4. LedgerInv'
  BY <1>2, <1>3, FirstKeeps DEF CaptureInv
<1>5. BatchInv'
  BY <1>1, BatchUnchanged DEF CaptureInv, BatchInv
<1> QED
  BY <1>4, <1>5 DEF CaptureInv

LEMMA ImportFileKeeps ==
  ASSUME CaptureInv, NEW s \in Sessions, NEW ts \in SomeTimes, ImportFile(s, ts)
  PROVE  CaptureInv'
<1>1. Len(ts) \in Nat
  BY TimesAreListed
<1>2. /\ Ledger!PutFirst(s) /\ Ledger!BatchGone
      /\ count' = [Ledger!Counted(uncounted) EXCEPT ![s] = Len(ts)]
      /\ recorded' = [recorded EXCEPT ![s] = Len(ts)]
  BY DEF ImportFile, Ledger!ImportSession
<1>3. LedgerInv'
  BY <1>1, <1>2, FirstKeeps DEF CaptureInv
<1>4. arrived' \in Nat /\ Timeline!BatchGone
  BY <1>1 DEF ImportFile, CaptureInv, BatchInv, Timeline!AddPackets, Timeline!FlushTo
<1>5. BatchInv'
  BY <1>4, FlushedKeeps DEF CaptureInv
<1> QED
  BY <1>3, <1>5 DEF CaptureInv

LEMMA LedgerStepsKeep ==
  ASSUME CaptureInv, Rename \/ StatsTimer \/ \E s \in Sessions, st \in {"open", "closed"} : ChangeStatus(s, st)
  PROVE  CaptureInv'
<1>1. Ledger!Flush /\ UNCHANGED <<sessions, recorded, arrived, timelineVars>>
  BY DEF Rename, StatsTimer, ChangeStatus, historyVars, Ledger!RenameSession, Ledger!TimerFires,
         Ledger!UpdateSessionStatus
<1>2. LedgerInv'
  BY <1>1, PlainFlushKeeps DEF CaptureInv
<1>3. BatchInv'
  BY <1>1, BatchUnchanged DEF CaptureInv, BatchInv
<1> QED
  BY <1>2, <1>3 DEF CaptureInv

LEMMA TimelineStepsKeep ==
  ASSUME CaptureInv,
         \/ Annotate \/ PacketTimer
         \/ \E l \in Limits : ChangeLimit(l)
         \/ \E s \in Sessions \cup {AllSessions} : ClearFrames(s)
  PROVE  CaptureInv'
<1>1. Timeline!BatchGone /\ UNCHANGED <<ledgerVars, recorded, arrived>>
  BY DEF Annotate, PacketTimer, ChangeLimit, ClearFrames, historyVars, Timeline!UpdateAnnotations,
         Timeline!TimerFires, Timeline!ChangeLimit, Timeline!ClearPackets, Timeline!FlushTo
<1>2. LedgerInv'
  BY <1>1, LedgerUnchanged DEF CaptureInv
<1>3. BatchInv'
  BY <1>1, FlushedKeeps DEF CaptureInv, BatchInv
<1> QED
  BY <1>2, <1>3 DEF CaptureInv

LEMMA ForgetSessionKeeps ==
  ASSUME CaptureInv, NEW s \in Sessions, ForgetSession(s)
  PROVE  CaptureInv'
<1>1. Ledger!RemoveSession(s) /\ Timeline!BatchGone /\ UNCHANGED <<arrived, recorded>>
  BY DEF ForgetSession, Timeline!ClearPackets, Timeline!FlushTo
<1>2. LedgerInv'
  BY <1>1, RemoveKeeps DEF CaptureInv
<1>3. BatchInv'
  BY <1>1, FlushedKeeps DEF CaptureInv, BatchInv
<1> QED
  BY <1>2, <1>3 DEF CaptureInv

LEMMA NextKeeps == CaptureInv /\ [Next]_vars => CaptureInv'
<1> SUFFICES ASSUME CaptureInv, [Next]_vars PROVE CaptureInv'
  OBVIOUS
<1>1. CASE UNCHANGED vars
  <2>1. UNCHANGED <<ledgerVars, recorded, timelineVars, arrived>>
    BY <1>1 DEF vars, historyVars
  <2> QED
    BY <2>1, LedgerUnchanged, BatchUnchanged DEF CaptureInv, BatchInv
<1>2. ASSUME NEW s \in Sessions, NEW ts \in SomeTimes, CaptureBurst(s, ts) \/ ImportFile(s, ts)
      PROVE  CaptureInv'
  BY <1>2, CaptureBurstKeeps, ImportFileKeeps
<1>3. ASSUME NEW s \in Sessions,
             \/ \E t \in Times : CapturePacket(s, t)
             \/ StartSession(s) \/ ProxySessionStarted(s) \/ ForgetSession(s)
             \/ \E st \in {"open", "closed"} : ChangeStatus(s, st)
      PROVE  CaptureInv'
  BY <1>3, CapturePacketKeeps, NewSessionKeeps, ForgetSessionKeeps, LedgerStepsKeep
<1> QED
  BY <1>1, <1>2, <1>3, LedgerStepsKeep, TimelineStepsKeep DEF Next

LEMMA InvariantHolds == Spec => []CaptureInv
BY InitHolds, NextKeeps, PTL DEF Spec

----------------------------------------------------------------------------
(* The timeline *)

(***************************************************************************)
(* Why the timeline stays in order: the list it is merged into is in       *)
(* order.  Why no packet is there twice: an arrival has a number above all *)
(* numbers given before, the numbers cleared included.                     *)
(***************************************************************************)
TimelineInv ==
  /\ packets \in Packets /\ pending \in Packets
  /\ limit \in Limits
  /\ arrived \in Nat
  /\ clearedUpTo \in [Sessions -> Nat]
  /\ \A s \in Sessions : clearedUpTo[s] <= arrived
  /\ Sorted(packets) /\ Len(packets) <= limit
  /\ Once(packets) /\ Once(pending) /\ Apart(pending, packets)
  /\ \A p \in Range(packets) \cup Range(pending) : clearedUpTo[p.s] < p.n /\ p.n <= arrived

(***************************************************************************)
(* RetentionDropsOldest, of one step.                                      *)
(***************************************************************************)
OldestLeave ==
  \A p \in Range(Held) \ Range(Held)' :
     \/ p.n <= clearedUpTo'[p.s]
     \/ /\ \A q \in Range(Held)' : q.t >= p.t
        /\ clearedUpTo' = clearedUpTo => Len(packets') = limit'

LEMMA RangeOfBoth ==
  ASSUME NEW ps \in Packets, NEW qs \in Packets
  PROVE  Range(ps \o qs) = Range(ps) \cup Range(qs)
<1> DEFINE all == ps \o qs
<1>1. /\ Len(ps) \in Nat /\ DOMAIN ps = 1 .. Len(ps)
      /\ Len(qs) \in Nat /\ DOMAIN qs = 1 .. Len(qs)
  BY ListFacts
<1>2. /\ all \in Packets /\ Len(all) = Len(ps) + Len(qs)
      /\ \A i \in 1 .. Len(ps) + Len(qs) : all[i] = IF i <= Len(ps) THEN ps[i] ELSE qs[i - Len(ps)]
  BY ConcatProperties DEF Packets
<1> HIDE DEF all
<1>3. DOMAIN all = 1 .. Len(ps) + Len(qs)
  BY <1>2, ListFacts
<1>4. \A i \in 1 .. Len(ps) : i \in 1 .. Len(ps) + Len(qs) /\ all[i] = ps[i]
  BY <1>1, <1>2
<1>5. \A i \in 1 .. Len(qs) : Len(ps) + i \in 1 .. Len(ps) + Len(qs) /\ all[Len(ps) + i] = qs[i]
  BY <1>1, <1>2
<1>6. \A i \in 1 .. Len(ps) + Len(qs) : all[i] \in Range(ps) \cup Range(qs)
  BY <1>1, <1>2 DEF Range
<1>7. Range(all) = {all[i] : i \in 1 .. Len(ps) + Len(qs)}
  BY <1>3 DEF Range
<1>8. \A p \in Range(ps) : p \in Range(all)
  BY <1>1, <1>4, <1>7 DEF Range
<1>9. \A p \in Range(qs) : p \in Range(all)
  BY <1>1, <1>5, <1>7 DEF Range
<1>10. Range(all) = Range(ps) \cup Range(qs)
  BY <1>6, <1>7, <1>8, <1>9
<1> QED
  BY <1>10 DEF all

LEMMA NoPackets == <<>> \in Packets /\ Range(<<>>) = {} /\ Once(<<>>) /\ Sorted(<<>>) /\ Len(<<>>) = 0
BY EmptySeq DEF Packets, Range, Once, Sorted

(***************************************************************************)
(* A flush into the list qs, whatever else the step does.                  *)
(***************************************************************************)
LEMMA FlushedTimeline ==
  ASSUME TimelineInv, Timeline!FlushTo(packets'),
         packets' \in Packets, Sorted(packets'), Once(packets'), limit' \in Limits, Len(packets') <= limit',
         arrived' \in Nat, clearedUpTo' \in [Sessions -> Nat],
         \A s \in Sessions : clearedUpTo'[s] <= arrived',
         \A p \in Range(packets') : clearedUpTo'[p.s] < p.n /\ p.n <= arrived'
  PROVE  TimelineInv' /\ Range(Held)' = Range(packets')
<1>1. pending' = <<>>
  BY DEF Timeline!FlushTo, Timeline!BatchGone
<1>2. pending' \in Packets /\ Range(pending') = {} /\ Once(pending')
  BY <1>1, NoPackets
<1>3. Apart(pending', packets')
  BY <1>2 DEF Apart
<1>4. Range(Held)' = Range(packets')
  <2>1. Range(packets' \o pending') = Range(packets') \cup Range(pending')
    BY <1>2, RangeOfBoth
  <2> QED
    BY <1>2, <2>1 DEF Held, Range
<1>5. TimelineInv'
  BY <1>2, <1>3 DEF TimelineInv, Sorted, Once, Apart, Range
<1> QED
  BY <1>4, <1>5

LEMMA HeldPackets ==
  ASSUME TimelineInv
  PROVE  /\ Range(Held) = Range(packets) \cup Range(pending)
         /\ Range(Held) \subseteq Timeline!Packet
         /\ limit \in Nat
<1>1. Range(Held) = Range(packets) \cup Range(pending)
  BY RangeOfBoth DEF TimelineInv, Held
<1> QED
  BY <1>1, ListFacts, LimitsAssumption DEF TimelineInv

(***************************************************************************)
(* The batch flushed, with the limit in force or a new one.                *)
(***************************************************************************)
LEMMA FlushOfPending ==
  ASSUME TimelineInv, NEW max \in Nat
  PROVE  LET qs == Timeline!WithBatch(pending, max)
         IN  /\ qs \in Packets /\ Sorted(qs) /\ Once(qs)
             /\ max = limit => Len(qs) <= max
             /\ Range(qs) \subseteq Range(Held)
             /\ DropsOldest(Range(Held), qs, max)
<1>1. Range(Held) = Range(packets) \cup Range(pending)
  BY HeldPackets
<1>2. LET qs == Timeline!WithBatch(pending, max)
      IN  /\ qs \in Packets /\ Sorted(qs) /\ Once(qs)
          /\ Len(packets) <= max => Len(qs) <= max
          /\ Range(qs) \subseteq Range(pending) \cup Range(packets)
          /\ DropsOldest(Range(packets) \cup Range(pending), qs, max)
  BY WithBatchDropsOldest DEF TimelineInv
<1>3. Len(packets) <= limit
  BY DEF TimelineInv
<1> QED
  BY <1>1, <1>2, <1>3

LEMMA DroppedOldest ==
  ASSUME Range(Held)' = Range(packets'), NEW all, Range(Held) \subseteq all,
         DropsOldest(all, packets', limit')
  PROVE  OldestLeave
BY DEF OldestLeave, DropsOldest

LEMMA PlainFlushOfTimeline ==
  ASSUME TimelineInv, Annotate \/ PacketTimer
  PROVE  TimelineInv' /\ OldestLeave
<1> DEFINE qs == Timeline!WithBatch(pending, limit)
<1>1. /\ Timeline!FlushTo(qs) /\ packets' = qs
      /\ UNCHANGED <<limit, arrived, clearedUpTo>>
  BY DEF Annotate, PacketTimer, historyVars, Timeline!UpdateAnnotations, Timeline!TimerFires, Timeline!FlushTo
<1>2. /\ Range(Held) = Range(packets) \cup Range(pending) /\ limit \in Nat
      /\ qs \in Packets /\ Sorted(qs) /\ Once(qs) /\ Len(qs) <= limit
      /\ Range(qs) \subseteq Range(Held)
      /\ DropsOldest(Range(Held), qs, limit)
  BY HeldPackets, FlushOfPending
<1> HIDE DEF qs
<1>3. TimelineInv' /\ Range(Held)' = Range(packets')
  <2>1. \A p \in Range(qs) : clearedUpTo[p.s] < p.n /\ p.n <= arrived
    BY <1>2 DEF TimelineInv
  <2>2. /\ limit' \in Limits /\ arrived' \in Nat /\ clearedUpTo' \in [Sessions -> Nat]
        /\ \A s \in Sessions : clearedUpTo'[s] <= arrived'
    BY <1>1 DEF TimelineInv
  <2> QED
    BY <1>1, <1>2, <2>1, <2>2, FlushedTimeline
<1>4. OldestLeave
  BY <1>1, <1>2, <1>3, DroppedOldest
<1> QED
  BY <1>3, <1>4

LEMMA ChangeLimitOfTimeline ==
  ASSUME TimelineInv, NEW l \in Limits, ChangeLimit(l)
  PROVE  TimelineInv' /\ OldestLeave
<1> DEFINE b == Timeline!WithBatch(pending, l)
           qs == Timeline!RetainNewest(b, l)
<1>1. /\ Timeline!FlushTo(qs) /\ packets' = qs /\ limit' = l
      /\ UNCHANGED <<arrived, clearedUpTo>>
  BY DEF ChangeLimit, historyVars, Timeline!ChangeLimit, Timeline!FlushTo
<1>2. /\ Range(Held) = Range(packets) \cup Range(pending) /\ Range(Held) \subseteq Timeline!Packet
      /\ l \in Nat
  BY HeldPackets, LimitsAssumption
<1>3. /\ b \in Packets /\ Sorted(b) /\ Once(b)
      /\ Range(b) \subseteq Range(Held)
      /\ DropsOldest(Range(Held), b, l)
  BY <1>2, FlushOfPending
<1> HIDE DEF b
<1>4. /\ qs \in Packets /\ Sorted(qs) /\ Once(qs) /\ Len(qs) = (IF Len(b) <= l THEN Len(b) ELSE l)
      /\ Range(qs) \subseteq Range(b)
      /\ \A i \in 1 .. Len(qs) : i \in 1 .. Len(b) /\ qs[i] = b[i]
      /\ DropsOldest(Range(b), qs, l)
  BY <1>2, <1>3, RetainFacts, RetainDropsOldest
<1> HIDE DEF qs
<1>5. Len(b) \in Nat /\ Len(qs) \in Nat /\ Len(qs) <= l
  BY <1>2, <1>3, <1>4, ListFacts
<1>6. ASSUME NEW p \in Range(Held) \ Range(qs)
      PROVE  Len(qs) = l /\ \A q \in Range(qs) : q.t >= p.t
  <2>1. CASE p \in Range(b)
    BY <1>4, <1>6, <2>1 DEF DropsOldest
  <2>2. CASE p \notin Range(b)
    <3>1. Len(b) = l /\ \A q \in Range(b) : q.t >= p.t
      BY <1>3, <1>6, <2>2 DEF DropsOldest
    <3>2. Len(qs) = l
      BY <1>2, <1>4, <1>5, <3>1
    <3> QED
      BY <1>4, <3>1, <3>2
  <2> QED
    BY <2>1, <2>2
<1>7. TimelineInv' /\ Range(Held)' = Range(packets')
  <2>1. \A p \in Range(qs) : clearedUpTo[p.s] < p.n /\ p.n <= arrived
    BY <1>2, <1>3, <1>4 DEF TimelineInv
  <2>2. /\ limit' \in Limits /\ arrived' \in Nat /\ clearedUpTo' \in [Sessions -> Nat]
        /\ \A s \in Sessions : clearedUpTo'[s] <= arrived'
    BY <1>1 DEF TimelineInv
  <2> QED
    BY <1>1, <1>4, <1>5, <2>1, <2>2, FlushedTimeline
<1>8. DropsOldest(Range(Held), qs, l)
  BY <1>6 DEF DropsOldest
<1>9. OldestLeave
  BY <1>1, <1>7, <1>8, DroppedOldest
<1> QED
  BY <1>7, <1>9

(***************************************************************************)
(* Clearing one session, or all.  What the flush before it drops is the    *)
(* oldest; what the filter drops was cleared.  When the clear covers no    *)
(* packet that an earlier one did not, the filter drops none.              *)
(***************************************************************************)
LEMMA ClearOfTimeline ==
  ASSUME TimelineInv, NEW s \in Sessions \cup {AllSessions}, Timeline!ClearPackets(s),
         clearedUpTo' = [x \in Sessions |-> IF s \in {x, AllSessions} THEN arrived ELSE clearedUpTo[x]],
         UNCHANGED arrived
  PROVE  TimelineInv' /\ OldestLeave
<1> DEFINE b == Timeline!WithBatch(pending, limit)
           qs == IF s = AllSessions THEN <<>> ELSE Timeline!OfOthers(b, s)
<1>1. Timeline!FlushTo(qs) /\ packets' = qs /\ UNCHANGED limit
  BY DEF Timeline!ClearPackets, Timeline!FlushTo
<1>2. /\ Range(Held) = Range(packets) \cup Range(pending) /\ Range(Held) \subseteq Timeline!Packet
      /\ limit \in Nat
      /\ b \in Packets /\ Sorted(b) /\ Once(b) /\ Len(b) <= limit
      /\ Range(b) \subseteq Range(Held)
      /\ DropsOldest(Range(Held), b, limit)
  BY HeldPackets, FlushOfPending
<1> HIDE DEF b
<1>3. /\ qs \in Packets /\ Sorted(qs) /\ Once(qs) /\ Len(qs) <= limit
      /\ Range(qs) = (IF s = AllSessions THEN {} ELSE {p \in Range(b) : p.s # s})
      /\ s # AllSessions /\ (\A p \in Range(b) : p.s # s) => Len(qs) = Len(b)
  <2>1. CASE s = AllSessions
    BY <1>2, <2>1, NoPackets
  <2>2. CASE s # AllSessions
    BY <1>2, <2>2, FilterFacts, ListFacts
  <2> QED
    BY <2>1, <2>2
<1> HIDE DEF qs
<1>4. \A p \in Range(Held) : p.s \in Sessions /\ clearedUpTo[p.s] < p.n /\ p.n <= arrived /\ p.n \in Nat
  BY <1>2, PacketFields DEF TimelineInv
<1>5. \A x \in Sessions : clearedUpTo[x] \in Nat /\ clearedUpTo[x] <= arrived /\ arrived \in Nat
  BY DEF TimelineInv
<1>6. \A x \in Sessions : clearedUpTo'[x] = IF s \in {x, AllSessions} THEN arrived ELSE clearedUpTo[x]
  OBVIOUS
<1>7. TimelineInv' /\ Range(Held)' = Range(packets')
  <2>1. ASSUME NEW p \in Range(qs) PROVE clearedUpTo'[p.s] < p.n /\ p.n <= arrived'
    <3>1. s # AllSessions /\ p \in Range(b) /\ p.s # s
      BY <1>3
    <3>2. clearedUpTo'[p.s] = clearedUpTo[p.s]
      BY <1>2, <1>4, <1>6, <3>1
    <3> QED
      BY <1>2, <1>4, <3>1, <3>2
  <2>2. /\ limit' \in Limits /\ arrived' \in Nat /\ clearedUpTo' \in [Sessions -> Nat]
        /\ \A x \in Sessions : clearedUpTo'[x] <= arrived'
    <3>1. limit' \in Limits /\ arrived' \in Nat
      BY <1>1 DEF TimelineInv
    <3>2. clearedUpTo' \in [Sessions -> Nat]
      BY <1>5
    <3> QED
      BY <1>5, <1>6, <3>1, <3>2
  <2> QED
    BY <1>1, <1>3, <2>1, <2>2, FlushedTimeline
<1>8. ASSUME NEW p \in Range(Held) \ Range(qs), ~ (p.n <= clearedUpTo'[p.s])
      PROVE  /\ \A q \in Range(qs) : q.t >= p.t
             /\ clearedUpTo' = clearedUpTo => Len(qs) = limit
  <2>1. s # AllSessions /\ p.s # s
    BY <1>4, <1>6, <1>8
  <2>2. p \notin Range(b)
    BY <1>3, <1>8, <2>1
  <2>3. Len(b) = limit /\ \A q \in Range(b) : q.t >= p.t
    BY <1>2, <1>8, <2>2 DEF DropsOldest
  <2>4. ASSUME clearedUpTo' = clearedUpTo PROVE Len(qs) = limit
    <3>1. ASSUME NEW q \in Range(b), q.s = s PROVE FALSE
      <4>1. q \in Range(Held) /\ s \in Sessions
        BY <1>2, <2>1
      <4>2. clearedUpTo[s] = arrived
        BY <1>6, <2>4, <4>1
      <4> QED
        BY <1>4, <1>5, <3>1, <4>1, <4>2
    <3> QED
      BY <1>3, <2>1, <2>3, <3>1
  <2> QED
    BY <1>3, <2>3, <2>4
<1>9. OldestLeave
  BY <1>1, <1>7, <1>8 DEF OldestLeave
<1> QED
  BY <1>7, <1>9

(***************************************************************************)
(* An array of packets, numbered from the next arrival on.                 *)
(***************************************************************************)
LEMMA ArrivalsAreNew ==
  ASSUME TimelineInv, NEW s \in Sessions, NEW ts \in SomeTimes
  PROVE  /\ Arrivals(s, ts) \in Packets /\ Once(Arrivals(s, ts))
         /\ \A p \in Range(Arrivals(s, ts)) : p.s = s /\ arrived < p.n /\ p.n <= arrived + Len(ts)
         /\ Len(ts) \in Nat
         /\ (Arrivals(s, ts) = <<>>) <=> (ts = <<>>)
<1> DEFINE new == Arrivals(s, ts)
<1>1. ts \in Seq(Times) /\ Len(ts) \in Nat /\ DOMAIN ts = 1 .. Len(ts) /\ arrived \in Nat
  BY TimesAreListed DEF TimelineInv
<1>2. \A k \in 1 .. Len(ts) : new[k] = [n |-> arrived + k, s |-> s, t |-> ts[k]] /\ ts[k] \in Times
  BY <1>1, ElementOfSeq DEF Arrivals
<1>3. new = [k \in 1 .. Len(ts) |-> new[k]]
  BY <1>1 DEF Arrivals
<1>4. ASSUME NEW k \in 1 .. Len(ts) PROVE new[k] \in Timeline!Packet
  <2>1. arrived + k \in Nat
    BY <1>1
  <2>2. new[k] = [n |-> arrived + k, s |-> s, t |-> ts[k]] /\ ts[k] \in Times
    BY <1>2
  <2> HIDE DEF new
  <2> QED
    BY <2>1, <2>2 DEF Timeline!Packet
<1> HIDE DEF new
<1>5. new \in [1 .. Len(ts) -> Timeline!Packet]
  BY <1>3, <1>4
<1>6. new \in Packets /\ Len(new) = Len(ts) /\ DOMAIN new = 1 .. Len(ts)
  BY <1>1, <1>5, SeqDef, LenProperties DEF Packets
<1>7. Once(new)
  BY <1>1, <1>2, <1>6 DEF Once
<1>8. \A p \in Range(new) : p.s = s /\ arrived < p.n /\ p.n <= arrived + Len(ts)
  BY <1>1, <1>2, <1>6 DEF Range
<1>9. new = <<>> <=> ts = <<>>
  BY <1>1, <1>6, EmptySeq DEF Packets
<1> QED
  BY <1>1, <1>6, <1>7, <1>8, <1>9 DEF new

LEMMA BurstOnTimeline ==
  ASSUME TimelineInv, NEW s \in Sessions, NEW ts \in SomeTimes, CaptureBurst(s, ts) \/ ImportFile(s, ts)
  PROVE  TimelineInv' /\ OldestLeave
<1> DEFINE b == Timeline!WithBatch(pending, limit)
           new == Arrivals(s, ts)
           qs == IF new = <<>> THEN b
                 ELSE Timeline!RetainNewest(Timeline!Merge(Timeline!SortByTimestamp(new), b), limit)
<1>1. /\ Timeline!FlushTo(qs) /\ packets' = qs /\ UNCHANGED limit
      /\ arrived' = arrived + Len(ts) /\ UNCHANGED clearedUpTo
  BY DEF CaptureBurst, ImportFile, Timeline!AddPackets, Timeline!FlushTo
<1>2. /\ Range(Held) = Range(packets) \cup Range(pending) /\ Range(Held) \subseteq Timeline!Packet
      /\ limit \in Nat
      /\ b \in Packets /\ Sorted(b) /\ Once(b) /\ Len(b) <= limit
      /\ Range(b) \subseteq Range(Held)
      /\ DropsOldest(Range(Held), b, limit)
  BY HeldPackets, FlushOfPending
<1>3. /\ new \in Packets /\ Once(new) /\ Len(ts) \in Nat
      /\ \A p \in Range(new) : p.s = s /\ arrived < p.n /\ p.n <= arrived + Len(ts)
  BY ArrivalsAreNew
<1> HIDE DEF b, new
<1>4. \A p \in Range(Held) : p.s \in Sessions /\ clearedUpTo[p.s] < p.n /\ p.n <= arrived /\ p.n \in Nat
  BY <1>2, PacketFields DEF TimelineInv
<1>5. arrived \in Nat /\ \A x \in Sessions : clearedUpTo[x] \in Nat /\ clearedUpTo[x] <= arrived
  BY DEF TimelineInv
<1>6. \A p \in Range(new) : p.n \in Nat
  BY <1>3, ListFacts
<1>7. Apart(new, b)
  BY <1>2, <1>3, <1>4, <1>5, <1>6 DEF Apart
<1>8. /\ qs \in Packets /\ Sorted(qs) /\ Once(qs) /\ Len(qs) <= limit
      /\ Range(qs) \subseteq Range(new) \cup Range(b)
      /\ \E all : Range(Held) \subseteq all /\ DropsOldest(all, qs, limit)
  <2>1. CASE new = <<>>
    BY <1>2, <2>1
  <2>2. CASE new # <<>>
    <3> DEFINE rs == Timeline!RetainNewest(Timeline!Merge(Timeline!SortByTimestamp(new), b), limit)
    <3>1. /\ rs \in Packets /\ Sorted(rs) /\ Once(rs) /\ Len(rs) <= limit
          /\ Range(rs) \subseteq Range(new) \cup Range(b)
          /\ DropsOldest(Range(Held) \cup Range(new) \cup Range(b), rs, limit)
      BY <1>2, <1>3, <1>7, BatchDropsOldest
    <3>2. qs = rs
      BY <2>2
    <3> HIDE DEF qs, rs
    <3>3. Range(Held) \subseteq Range(Held) \cup Range(new) \cup Range(b)
      OBVIOUS
    <3> QED
      BY <3>1, <3>2, <3>3
  <2> QED
    BY <2>1, <2>2
<1> HIDE DEF qs
<1>9. TimelineInv' /\ Range(Held)' = Range(packets')
  <2>1. ASSUME NEW p \in Range(qs) PROVE clearedUpTo'[p.s] < p.n /\ p.n <= arrived'
    <3>1. CASE p \in Range(new)
      BY <1>1, <1>3, <1>5, <1>6, <3>1
    <3>2. CASE p \in Range(b)
      BY <1>1, <1>2, <1>3, <1>4, <1>5, <3>2
    <3> QED
      BY <1>8, <3>1, <3>2
  <2>2. /\ limit' \in Limits /\ clearedUpTo' \in [Sessions -> Nat]
    BY <1>1 DEF TimelineInv
  <2>3. arrived' \in Nat /\ \A x \in Sessions : clearedUpTo'[x] <= arrived'
    BY <1>1, <1>3, <1>5
  <2> QED
    BY <1>1, <1>8, <2>1, <2>2, <2>3, FlushedTimeline
<1>10. OldestLeave
  BY <1>1, <1>8, <1>9, DroppedOldest
<1> QED
  BY <1>9, <1>10

(***************************************************************************)
(* One more packet in the batch.                                           *)
(***************************************************************************)
LEMMA BatchWithOneMore ==
  ASSUME TimelineInv, NEW s \in Sessions, NEW t \in Times
  PROVE  LET p == [n |-> arrived + 1, s |-> s, t |-> t]
             b == Append(pending, p)
         IN  /\ p \in Timeline!Packet
             /\ b \in Packets /\ Once(b) /\ Range(b) = Range(pending) \cup {p} /\ Apart(b, packets)
<1> DEFINE p == [n |-> arrived + 1, s |-> s, t |-> t]
           b == Append(pending, p)
<1>1. arrived \in Nat
  BY DEF TimelineInv
<1>2. p \in Timeline!Packet /\ p.n = arrived + 1
  BY <1>1 DEF Timeline!Packet
<1>3. /\ pending \in Packets /\ Len(pending) \in Nat /\ DOMAIN pending = 1 .. Len(pending)
      /\ Once(pending) /\ Apart(pending, packets)
  BY ListFacts DEF TimelineInv
<1> HIDE DEF p
<1>4. /\ b \in Packets /\ Len(b) = Len(pending) + 1 /\ b[Len(pending) + 1] = p
      /\ \A i \in 1 .. Len(pending) : b[i] = pending[i]
  BY <1>2, <1>3, AppendProperties DEF Packets
<1> HIDE DEF b
<1>5. DOMAIN b = 1 .. Len(pending) + 1
  BY <1>4, ListFacts
<1>6. \A q \in Range(packets) \cup Range(pending) : q.n # p.n
  <2>1. \A q \in Range(packets) \cup Range(pending) : q.n <= arrived /\ q.n \in Nat
    BY ListFacts DEF TimelineInv
  <2> QED
    BY <1>1, <1>2, <2>1
<1>7. \A i \in 1 .. Len(pending) + 1 : i \in 1 .. Len(pending) \/ i = Len(pending) + 1
  BY <1>3
<1>8. Once(b)
  <2>1. ASSUME NEW i \in 1 .. Len(pending), NEW j \in 1 .. Len(pending), b[i].n = b[j].n PROVE i = j
    BY <1>3, <1>4, <2>1 DEF Once
  <2>2. ASSUME NEW i \in 1 .. Len(pending) PROVE b[i].n # b[Len(pending) + 1].n
    BY <1>3, <1>4, <1>6 DEF Range
  <2> QED
    BY <1>5, <1>7, <2>1, <2>2 DEF Once
<1>9. Range(b) = Range(pending) \cup {p}
  <2>1. Range(b) = {b[i] : i \in 1 .. Len(pending) + 1} /\ Range(pending) = {pending[i] : i \in 1 .. Len(pending)}
    BY <1>3, <1>5 DEF Range
  <2>2. Len(pending) + 1 \in 1 .. Len(pending) + 1 /\ \A i \in 1 .. Len(pending) : i \in 1 .. Len(pending) + 1
    BY <1>3
  <2> QED
    BY <1>4, <1>7, <2>1, <2>2
<1>10. Apart(b, packets)
  BY <1>3, <1>6, <1>9 DEF Apart
<1> QED
  BY <1>2, <1>4, <1>8, <1>9, <1>10 DEF p, b

LEMMA CapturePacketOnTimeline ==
  ASSUME TimelineInv, NEW s \in Sessions, NEW t \in Times, CapturePacket(s, t)
  PROVE  TimelineInv' /\ OldestLeave
<1> DEFINE p == [n |-> arrived + 1, s |-> s, t |-> t]
           b == Append(pending, p)
           qs == Timeline!WithBatch(b, limit)
<1>1. /\ \/ Timeline!FlushTo(qs) /\ packets' = qs
         \/ pending' = b /\ UNCHANGED packets
      /\ UNCHANGED limit /\ arrived' = arrived + 1 /\ UNCHANGED clearedUpTo
  BY DEF CapturePacket, Timeline!AddPacket, Timeline!FlushTo
<1>2. /\ p \in Timeline!Packet /\ p.n = arrived + 1 /\ p.s = s
      /\ b \in Packets /\ Once(b) /\ Range(b) = Range(pending) \cup {p} /\ Apart(b, packets)
  BY BatchWithOneMore
<1> HIDE DEF p, b
<1>3. /\ Range(Held) = Range(packets) \cup Range(pending) /\ Range(Held) \subseteq Timeline!Packet
      /\ limit \in Nat
  BY HeldPackets
<1>4. arrived \in Nat /\ \A x \in Sessions : clearedUpTo[x] \in Nat /\ clearedUpTo[x] <= arrived
  BY DEF TimelineInv
<1>5. \A q \in Range(Held) \cup {p} : clearedUpTo[q.s] < q.n /\ q.n <= arrived + 1
  <2>1. \A q \in Range(Held) : clearedUpTo[q.s] < q.n /\ q.n <= arrived /\ q.n \in Nat
    BY <1>3, PacketFields DEF TimelineInv
  <2> QED
    BY <1>2, <1>4, <2>1
<1>6. /\ limit' \in Limits /\ clearedUpTo' \in [Sessions -> Nat] /\ arrived' \in Nat
      /\ \A x \in Sessions : clearedUpTo'[x] <= arrived'
  BY <1>1, <1>4 DEF TimelineInv
<1>7. CASE Timeline!FlushTo(qs) /\ packets' = qs
  <2>1. /\ packets \in Packets /\ Sorted(packets) /\ Once(packets) /\ Len(packets) <= limit
    BY DEF TimelineInv
  <2>2. /\ qs \in Packets /\ Sorted(qs) /\ Once(qs) /\ Len(qs) <= limit
        /\ Range(qs) \subseteq Range(b) \cup Range(packets)
        /\ DropsOldest(Range(packets) \cup Range(b), qs, limit)
    BY <1>2, <1>3, <2>1, WithBatchDropsOldest
  <2> HIDE DEF qs
  <2>3. \A q \in Range(qs) : clearedUpTo'[q.s] < q.n /\ q.n <= arrived'
    BY <1>1, <1>2, <1>3, <1>5, <2>2
  <2>4. TimelineInv' /\ Range(Held)' = Range(packets')
    BY <1>1, <1>6, <1>7, <2>2, <2>3, FlushedTimeline
  <2>5. Range(Held) \subseteq Range(packets) \cup Range(b)
    BY <1>2, <1>3
  <2>6. OldestLeave
    BY <1>1, <1>7, <2>2, <2>4, <2>5, DroppedOldest
  <2> QED
    BY <2>4, <2>6
<1>8. CASE pending' = b /\ UNCHANGED packets
  <2>1. TimelineInv'
    <3>1. \A q \in Range(packets) \cup Range(b) : clearedUpTo'[q.s] < q.n /\ q.n <= arrived'
      BY <1>1, <1>2, <1>3, <1>5
    <3>2. packets' = packets /\ pending' = b /\ limit' = limit
      BY <1>1, <1>8
    <3> QED
      BY <1>2, <1>6, <3>1, <3>2 DEF TimelineInv, Sorted, Once, Apart, Range
  <2>2. Range(Held) \subseteq Range(Held)'
    <3>1. Range(packets \o b) = Range(packets) \cup Range(b)
      BY <1>2, RangeOfBoth DEF TimelineInv
    <3>2. Range(Held)' = Range(packets \o b)
      BY <1>8 DEF Held, Range
    <3> QED
      BY <1>2, <1>3, <3>1, <3>2
  <2>3. OldestLeave
    BY <2>2 DEF OldestLeave
  <2> QED
    BY <2>1, <2>3
<1> QED
  BY <1>1, <1>7, <1>8

LEMMA TimelineUntouched ==
  ASSUME TimelineInv, UNCHANGED <<timelineVars, arrived, clearedUpTo>>
  PROVE  TimelineInv' /\ OldestLeave
<1>1. TimelineInv'
  BY DEF timelineVars, TimelineInv, Sorted, Once, Apart, Range
<1>2. Range(Held)' = Range(Held)
  BY DEF timelineVars, Held, Range
<1>3. OldestLeave
  BY <1>2 DEF OldestLeave
<1> QED
  BY <1>1, <1>3

LEMMA TimelineInit == Init => TimelineInv
<1> SUFFICES ASSUME Init PROVE TimelineInv
  OBVIOUS
<1>1. /\ packets = <<>> /\ pending = <<>> /\ limit \in Limits /\ arrived = 0
      /\ clearedUpTo = [s \in Sessions |-> 0]
  BY DEF Init, Timeline!Init
<1>2. limit \in Nat
  BY <1>1, LimitsAssumption
<1>3. Apart(pending, packets) /\ Sorted(packets) /\ Once(packets) /\ Len(packets) = 0 /\ Range(packets) = {}
  BY <1>1, NoPackets DEF Apart
<1> QED
  BY <1>1, <1>2, <1>3, NoPackets DEF TimelineInv

LEMMA TimelineStep ==
  ASSUME TimelineInv, [Next]_vars
  PROVE  TimelineInv' /\ OldestLeave
<1>1. CASE UNCHANGED vars
  BY <1>1, TimelineUntouched DEF vars, historyVars
<1>2. ASSUME NEW s \in Sessions, NEW t \in Times, CapturePacket(s, t)
      PROVE  TimelineInv' /\ OldestLeave
  BY <1>2, CapturePacketOnTimeline
<1>3. ASSUME NEW s \in Sessions, NEW ts \in SomeTimes, CaptureBurst(s, ts) \/ ImportFile(s, ts)
      PROVE  TimelineInv' /\ OldestLeave
  BY <1>3, BurstOnTimeline
<1>4. ASSUME NEW s \in Sessions,
             \/ StartSession(s) \/ ProxySessionStarted(s)
             \/ \E st \in {"open", "closed"} : ChangeStatus(s, st)
      PROVE  TimelineInv' /\ OldestLeave
  <2>1. UNCHANGED <<timelineVars, arrived, clearedUpTo>>
    BY <1>4 DEF StartSession, ProxySessionStarted, ChangeStatus, historyVars
  <2> QED
    BY <2>1, TimelineUntouched
<1>5. CASE Rename \/ StatsTimer
  <2>1. UNCHANGED <<timelineVars, arrived, clearedUpTo>>
    BY <1>5 DEF Rename, StatsTimer, historyVars
  <2> QED
    BY <2>1, TimelineUntouched
<1>6. ASSUME NEW s \in Sessions, ForgetSession(s)
      PROVE  TimelineInv' /\ OldestLeave
  <2>1. Timeline!ClearPackets(s) /\ UNCHANGED arrived /\ clearedUpTo' = [clearedUpTo EXCEPT ![s] = arrived]
    BY <1>6 DEF ForgetSession
  <2>2. clearedUpTo' = [x \in Sessions |-> IF s \in {x, AllSessions} THEN arrived ELSE clearedUpTo[x]]
    <3>1. clearedUpTo \in [Sessions -> Nat] /\ s # AllSessions
      BY AllAssumption DEF TimelineInv
    <3> QED
      BY <2>1, <3>1
  <2> QED
    BY <2>1, <2>2, ClearOfTimeline
<1>7. ASSUME NEW s \in Sessions \cup {AllSessions}, ClearFrames(s)
      PROVE  TimelineInv' /\ OldestLeave
  BY <1>7, ClearOfTimeline DEF ClearFrames
<1>8. ASSUME NEW l \in Limits, ChangeLimit(l)
      PROVE  TimelineInv' /\ OldestLeave
  BY <1>8, ChangeLimitOfTimeline
<1>9. CASE Annotate \/ PacketTimer
  BY <1>9, PlainFlushOfTimeline
<1> QED
  BY <1>1, <1>2, <1>3, <1>4, <1>5, <1>6, <1>7, <1>8, <1>9 DEF Next

LEMMA TimelineHolds == Spec => []TimelineInv
BY TimelineInit, TimelineStep, PTL DEF Spec

----------------------------------------------------------------------------
(* Theorems *)

(***************************************************************************)
(* A session's counter and what waits to be counted are exactly the        *)
(* packets recorded for it, whatever starts, imports, renames and removals *)
(* flush the batch in between (session-store.ts).                          *)
(***************************************************************************)
THEOREM CountersCorrect == Spec => []CountersMatchRecorded
<1>1. CaptureInv => CountersMatchRecorded
  BY DEF CaptureInv, LedgerInv
<1> QED
  BY <1>1, InvariantHolds, PTL

(***************************************************************************)
(* Neither store ever holds packets back without a timer that will publish *)
(* them, nor keeps a timer for nothing (packet-store.ts, session-store.ts).*)
(***************************************************************************)
THEOREM BatchesCorrect == Spec => []BatchesAreScheduled
<1>1. CaptureInv => BatchesAreScheduled
  BY DEF CaptureInv, LedgerInv, BatchInv, BatchesAreScheduled
<1> QED
  BY <1>1, InvariantHolds, PTL

(***************************************************************************)
(* The timeline shows the newest packet first and no more than the limit,  *)
(* however late packets, bursts, imports and changes of the limit are      *)
(* interleaved with the flushes (packet-store.ts).                         *)
(***************************************************************************)
THEOREM TimelineCorrect == Spec => []TimelineOrderedAndBounded
<1>1. TimelineInv => TimelineOrderedAndBounded
  BY DEF TimelineInv, Sorted, TimelineOrderedAndBounded, Timeline!TimelineOrderedAndBounded
<1> QED
  BY <1>1, TimelineHolds, PTL

(***************************************************************************)
(* No packet is held twice, on the timeline and in the batch, and none     *)
(* that was cleared comes back (packet-store.ts, App.tsx).                 *)
(***************************************************************************)
THEOREM PacketsOnce == Spec => []EachPacketOnceUntilCleared
<1>1. ASSUME TimelineInv PROVE EachPacketOnceUntilCleared
  <2>1. /\ packets \in Packets /\ Len(packets) \in Nat /\ DOMAIN packets = 1 .. Len(packets)
        /\ pending \in Packets /\ Len(pending) \in Nat /\ DOMAIN pending = 1 .. Len(pending)
    BY <1>1, ListFacts DEF TimelineInv
  <2>2. /\ Held \in Packets /\ Len(Held) = Len(packets) + Len(pending)
        /\ \A i \in 1 .. Len(packets) + Len(pending) :
             Held[i] = IF i <= Len(packets) THEN packets[i] ELSE pending[i - Len(packets)]
    BY <2>1, ConcatProperties DEF Held, Packets
  <2>3. DOMAIN Held = 1 .. Len(packets) + Len(pending)
    BY <2>2, ListFacts
  <2>4. \A i \in DOMAIN Held : Held[i].n > clearedUpTo[Held[i].s]
    <3>1. ASSUME NEW p \in Range(Held) PROVE p.n > clearedUpTo[p.s]
      <4>1. p \in Range(packets) \cup Range(pending) /\ p \in Timeline!Packet
        BY <1>1, HeldPackets
      <4>2. clearedUpTo[p.s] < p.n /\ p.n \in Nat /\ clearedUpTo[p.s] \in Nat
        BY <1>1, <4>1, PacketFields DEF TimelineInv
      <4> QED
        BY <4>2
    <3> QED
      BY <3>1 DEF Range
  <2>5. ASSUME NEW i \in DOMAIN Held, NEW j \in DOMAIN Held, Held[i].n = Held[j].n
        PROVE  i = j
    <3>1. /\ Once(packets) /\ Once(pending)
          /\ \A k \in 1 .. Len(packets), l \in 1 .. Len(pending) : packets[k].n # pending[l].n
      BY <1>1, <2>1 DEF TimelineInv, Apart, Range
    <3>2. CASE i <= Len(packets) /\ j <= Len(packets)
      BY <2>1, <2>2, <2>3, <2>5, <3>1, <3>2 DEF Once
    <3>3. CASE ~ (i <= Len(packets)) /\ ~ (j <= Len(packets))
      <4>1. /\ i - Len(packets) \in DOMAIN pending /\ j - Len(packets) \in DOMAIN pending
            /\ pending[i - Len(packets)].n = pending[j - Len(packets)].n
        BY <2>1, <2>2, <2>3, <2>5, <3>3
      <4>2. i - Len(packets) = j - Len(packets)
        BY <3>1, <4>1 DEF Once
      <4> QED
        BY <2>1, <2>3, <4>2
    <3>4. CASE i <= Len(packets) /\ ~ (j <= Len(packets))
      <4>1. /\ i \in 1 .. Len(packets) /\ j - Len(packets) \in 1 .. Len(pending)
            /\ packets[i].n = pending[j - Len(packets)].n
        BY <2>1, <2>2, <2>3, <2>5, <3>4
      <4> QED
        BY <3>1, <4>1
    <3>5. CASE ~ (i <= Len(packets)) /\ j <= Len(packets)
      <4>1. /\ j \in 1 .. Len(packets) /\ i - Len(packets) \in 1 .. Len(pending)
            /\ packets[j].n = pending[i - Len(packets)].n
        BY <2>1, <2>2, <2>3, <2>5, <3>5
      <4> QED
        BY <3>1, <4>1
    <3> QED
      BY <3>2, <3>3, <3>4, <3>5
  <2> QED
    BY <2>4, <2>5 DEF EachPacketOnceUntilCleared
<1> QED
  BY <1>1, TimelineHolds, PTL

(***************************************************************************)
(* A packet leaves only because its session was cleared or because the     *)
(* limit is reached and every packet that stays is at least as new         *)
(* (packet-store.ts:190-203).                                              *)
(***************************************************************************)
THEOREM RetentionCorrect == Spec => RetentionDropsOldest
<1>1. TimelineInv /\ [Next]_vars => [OldestLeave]_vars
  BY TimelineStep
<1> QED
  BY <1>1, TimelineHolds, PTL DEF Spec, RetentionDropsOldest, OldestLeave

=============================================================================
