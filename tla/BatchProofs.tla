----------------------------- MODULE BatchProofs -----------------------------
(***************************************************************************)
(* Lemmas about the operators of Batch on the alarms and batches of        *)
(* TimerManager: what they return, which alarms the result holds, and that *)
(* the summary of every batch stays the summary of its alarms.             *)
(***************************************************************************)
EXTENDS TimerManager, SequenceTheorems, WellFoundedInduction, TLAPS

\* The summary of a batch is that of its alarms, without Max and Min.
WellFormed(b) ==
    /\ b.alarms # {}
    /\ \A a \in b.alarms : a.whenElapsed <= b.start /\ b.end <= a.maxWhenElapsed
    /\ \E a \in b.alarms : a.whenElapsed = b.start
    /\ \E a \in b.alarms : a.maxWhenElapsed = b.end
    /\ b.standalone = \E a \in b.alarms : a.prof.standalone

AllWellFormed(list) == \A i \in 1 .. Len(list) : WellFormed(list[i])

-----------------------------------------------------------------------------
(* Bounds of sets of integers *)

\* A nonempty set of natural numbers has a least element.
LEMMA NatLeast ==
    ASSUME NEW T \in SUBSET Nat, T # {}
    PROVE  \E t \in T : \A y \in T : t <= y
<1>1. PICK t \in T : \A y \in T : ~(<<y, t>> \in OpToRel(<, Nat))
  BY NatLessThanWellFounded, WFMin
<1>2. \A y \in T : ~(y < t)
  BY <1>1, Zenon DEF OpToRel
<1>3. \A y \in T : t <= y
  BY <1>2
<1> QED BY <1>3

\* A nonempty set of integers that is bounded above has a greatest element,
\* and Max is that element.
LEMMA MaxBounded ==
    ASSUME NEW S \in SUBSET Int, S # {}, NEW m \in Int, \A x \in S : x <= m
    PROVE  Max(S) \in S /\ \A x \in S : x <= Max(S)
<1> DEFINE T == {n \in Nat : m - n \in S}
<1>1. PICK x \in S : TRUE
  OBVIOUS
<1>2. m - x \in Nat /\ m - (m - x) \in S
  BY <1>1
<1>3. T # {}
  BY <1>2
<1>4. PICK t \in T : \A y \in T : t <= y
  BY <1>3, NatLeast
<1>5. m - t \in S /\ \A y \in S : m - t >= y
  <2>1. m - t \in S /\ t \in Nat
    OBVIOUS
  <2>2. ASSUME NEW y \in S PROVE m - t >= y
    <3>1. m - y \in Nat /\ m - (m - y) = y
      OBVIOUS
    <3>2. t <= m - y
      BY <3>1, <1>4
    <3> QED BY <3>2, <2>1
  <2> QED BY <2>1, <2>2
<1> QED BY <1>5 DEF Max

\* The same for Min.
LEMMA MinBounded ==
    ASSUME NEW S \in SUBSET Int, S # {}, NEW m \in Int, \A x \in S : m <= x
    PROVE  Min(S) \in S /\ \A x \in S : Min(S) <= x
<1> DEFINE T == {n \in Nat : m + n \in S}
<1>1. PICK x \in S : TRUE
  OBVIOUS
<1>2. x - m \in Nat /\ m + (x - m) \in S
  BY <1>1
<1>3. T # {}
  BY <1>2
<1>4. PICK t \in T : \A y \in T : t <= y
  BY <1>3, NatLeast
<1>5. m + t \in S /\ \A y \in S : m + t <= y
  <2>1. m + t \in S /\ t \in Nat
    OBVIOUS
  <2>2. ASSUME NEW y \in S PROVE m + t <= y
    <3>1. y - m \in Nat /\ m + (y - m) = y
      OBVIOUS
    <3>2. t <= y - m
      BY <3>1, <1>4
    <3> QED BY <3>2, <2>1
  <2> QED BY <2>1, <2>2
<1> QED BY <1>5 DEF Min

\* Max and Min of two integers.
LEMMA MaxPair ==
    ASSUME NEW x \in Int, NEW y \in Int
    PROVE  Max({x, y}) = IF x >= y THEN x ELSE y
BY DEF Max

\* The same of the smaller of two integers.
LEMMA MinPair ==
    ASSUME NEW x \in Int, NEW y \in Int
    PROVE  Min({x, y}) = IF x <= y THEN x ELSE y
BY DEF Min

-----------------------------------------------------------------------------
(* Insertion and removal in a sequence *)

\* What InsertAt puts where.
LEMMA InsertAtProperties ==
    ASSUME NEW S, NEW s \in Seq(S), NEW p \in 1 .. Len(s) + 1, NEW e \in S
    PROVE  /\ InsertAt(s, p, e) \in Seq(S)
           /\ Len(InsertAt(s, p, e)) = Len(s) + 1
           /\ \A i \in 1 .. Len(s) + 1 : InsertAt(s, p, e)[i] =
                 IF i < p THEN s[i] ELSE IF i = p THEN e ELSE s[i - 1]
<1> DEFINE l == SubSeq(s, 1, p - 1)
           r == SubSeq(s, p, Len(s))
           m == l \o <<e>>
<1>0. Len(s) \in Nat /\ \A i \in 1 .. Len(s) : s[i] \in S
  OBVIOUS
<1>1. l \in Seq(S) /\ Len(l) = p - 1 /\ \A i \in 1 .. p - 1 : l[i] = s[i]
  BY <1>0, SubSeqProperties
<1>2. r \in Seq(S) /\ Len(r) = Len(s) - p + 1
      /\ \A i \in 1 .. Len(s) - p + 1 : r[i] = s[p + i - 1]
  BY <1>0, SubSeqProperties
<1>3. <<e>> \in Seq(S) /\ Len(<<e>>) = 1 /\ <<e>>[1] = e
  OBVIOUS
<1> HIDE DEF l, r
<1>4. m \in Seq(S) /\ Len(m) = p
      /\ \A i \in 1 .. p : m[i] = IF i < p THEN s[i] ELSE e
  BY <1>0, <1>1, <1>3, ConcatProperties
<1> HIDE DEF m
<1>5. m \o r \in Seq(S) /\ Len(m \o r) = Len(s) + 1
      /\ \A i \in 1 .. Len(s) + 1 : (m \o r)[i] = IF i <= p THEN m[i] ELSE r[i - p]
  <2>1. Len(m) + Len(r) = Len(s) + 1
    BY <1>0, <1>2, <1>4
  <2> QED BY <2>1, <1>2, <1>4, ConcatProperties
<1>6. \A i \in 1 .. Len(s) + 1 : (m \o r)[i] =
          IF i < p THEN s[i] ELSE IF i = p THEN e ELSE s[i - 1]
  <2> TAKE i \in 1 .. Len(s) + 1
  <2>1. CASE i <= p
    BY <2>1, <1>0, <1>4, <1>5
  <2>2. CASE i > p
    <3>1. i - p \in 1 .. Len(s) - p + 1 /\ p + (i - p) - 1 = i - 1
      BY <2>2, <1>0
    <3>2. r[i - p] = s[p + (i - p) - 1]
      BY <3>1, <1>2
    <3>3. (m \o r)[i] = r[i - p]
      BY <2>2, <1>5, <1>0
    <3>4. (m \o r)[i] = s[i - 1]
      BY <3>1, <3>2, <3>3
    <3> QED BY <3>4, <2>2
  <2>3. i <= p \/ i > p
    BY <1>0
  <2> QED BY <2>1, <2>2, <2>3
<1> QED BY <1>5, <1>6 DEF InsertAt, m, l, r

\* What RemoveAt leaves where.
LEMMA RemoveAtProperties ==
    ASSUME NEW S, NEW s \in Seq(S), NEW p \in 1 .. Len(s)
    PROVE  /\ RemoveAt(s, p) \in Seq(S)
           /\ Len(RemoveAt(s, p)) = Len(s) - 1
           /\ \A i \in 1 .. Len(s) - 1 : RemoveAt(s, p)[i] =
                 IF i < p THEN s[i] ELSE s[i + 1]
<1> DEFINE l == SubSeq(s, 1, p - 1)
           r == SubSeq(s, p + 1, Len(s))
<1>0. Len(s) \in Nat /\ \A i \in 1 .. Len(s) : s[i] \in S
  OBVIOUS
<1>1. l \in Seq(S) /\ Len(l) = p - 1 /\ \A i \in 1 .. p - 1 : l[i] = s[i]
  BY <1>0, SubSeqProperties
<1>2. r \in Seq(S) /\ Len(r) = Len(s) - p
      /\ \A i \in 1 .. Len(s) - p : r[i] = s[p + i]
  <2>1. \A i \in p + 1 .. Len(s) : s[i] \in S
    BY <1>0
  <2>2. /\ r \in Seq(S)
        /\ Len(r) = IF p + 1 <= Len(s) THEN Len(s) - (p + 1) + 1 ELSE 0
        /\ \A i \in 1 .. Len(s) - (p + 1) + 1 : r[i] = s[(p + 1) + i - 1]
    BY <1>0, <2>1, SubSeqProperties
  <2> HIDE DEF r
  <2> QED BY <2>2, <1>0
<1> HIDE DEF l, r
<1>3. l \o r \in Seq(S) /\ Len(l \o r) = Len(s) - 1
      /\ \A i \in 1 .. Len(s) - 1 : (l \o r)[i] = IF i <= p - 1 THEN l[i] ELSE r[i - (p - 1)]
  BY <1>0, <1>1, <1>2, ConcatProperties
<1>4. \A i \in 1 .. Len(s) - 1 : (l \o r)[i] = IF i < p THEN s[i] ELSE s[i + 1]
  <2> TAKE i \in 1 .. Len(s) - 1
  <2>1. CASE i < p
    BY <2>1, <1>0, <1>1, <1>3
  <2>2. CASE i >= p
    <3>1. i - (p - 1) \in 1 .. Len(s) - p /\ p + (i - (p - 1)) = i + 1
      BY <2>2, <1>0
    <3>2. r[i - (p - 1)] = s[p + (i - (p - 1))]
      BY <3>1, <1>2
    <3>3. (l \o r)[i] = r[i - (p - 1)]
      BY <2>2, <1>3, <1>0
    <3>4. (l \o r)[i] = s[i + 1]
      BY <3>1, <3>2, <3>3
    <3> QED BY <3>4, <2>2
  <2>3. i < p \/ i >= p
    BY <1>0
  <2> QED BY <2>1, <2>2, <2>3
<1> QED BY <1>3, <1>4 DEF RemoveAt, l, r

-----------------------------------------------------------------------------
(* Alarms and batches *)

\* The fields of an alarm that the batch operators read.
LEMMA AlarmFields ==
    ASSUME NEW a \in Alarm
    PROVE  /\ a.whenElapsed \in Int /\ a.maxWhenElapsed \in Int
           /\ a.when \in Int /\ a.expected \in Int /\ a.window \in Int
           /\ a.interval \in Nat /\ a.id \in Ids /\ a.prof \in Profiles
           /\ a.prof.standalone \in BOOLEAN /\ a.prof.uid \in Uids
           /\ a.prof.rtc \in BOOLEAN
BY ConstantsAssumption DEF Alarm

\* The TimerInfo constructor makes an alarm of well-typed arguments.
LEMMA TimerInfoType ==
    ASSUME NEW r \in Nat, NEW id \in Ids, NEW p \in Profiles, NEW w \in Int,
           NEW we \in Int, NEW win \in Int, NEW mx \in Int, NEW iv \in Nat
    PROVE  /\ TimerInfo(r, id, p, w, we, win, mx, iv) \in Alarm
           /\ TimerInfo(r, id, p, w, we, win, mx, iv).id = id
BY DEF TimerInfo, Alarm

\* MaxTriggerTime of integers is an integer.
LEMMA MaxTriggerTimeType ==
    ASSUME NEW n \in Int, NEW t \in Int, NEW i \in Nat
    PROVE  MaxTriggerTime(n, t, i) \in Int
<1>1. \A f \in Int : (3 * f) \div 4 \in Int
  OBVIOUS
<1> QED BY <1>1 DEF MaxTriggerTime

\* The fields of a batch.
LEMMA BatchFields ==
    ASSUME NEW b \in BatchType
    PROVE  /\ b.start \in Int /\ b.end \in Int /\ b.standalone \in BOOLEAN
           /\ b.alarms \in SUBSET Alarm
BY DEF BatchType

\* A batch of one alarm.
LEMMA NewBatchProperties ==
    ASSUME NEW a \in Alarm
    PROVE  NewBatch(a) \in BatchType /\ WellFormed(NewBatch(a)) /\ NewBatch(a).alarms = {a}
<1> DEFINE n == NewBatch(a)
<1>1. /\ a.whenElapsed \in Int /\ a.maxWhenElapsed \in Int
      /\ a.prof.standalone \in BOOLEAN
  BY AlarmFields
<1>2. /\ n.start = a.whenElapsed /\ n.end = a.maxWhenElapsed
      /\ n.standalone = a.prof.standalone /\ n.alarms = {a}
  BY DEF NewBatch
<1>3. n \in BatchType
  BY <1>1 DEF NewBatch, BatchType
<1> HIDE DEF n
<1>4. \A c \in n.alarms : c.whenElapsed <= n.start /\ n.end <= c.maxWhenElapsed
  BY <1>1, <1>2
<1>5. n.standalone = \E c \in n.alarms : c.prof.standalone
  BY <1>1, <1>2, Zenon
<1>6. WellFormed(n)
  BY <1>2, <1>4, <1>5 DEF WellFormed
<1> QED BY <1>2, <1>3, <1>6 DEF n

\* Batch::Add keeps the summary of the batch that of its alarms.
LEMMA BatchAddProperties ==
    ASSUME NEW b \in BatchType, WellFormed(b), NEW a \in Alarm
    PROVE  /\ BatchAdd(b, a) \in BatchType
           /\ WellFormed(BatchAdd(b, a))
           /\ BatchAdd(b, a).alarms = b.alarms \cup {a}
<1> DEFINE n == BatchAdd(b, a)
<1>1. /\ a.whenElapsed \in Int /\ a.maxWhenElapsed \in Int
      /\ a.prof.standalone \in BOOLEAN
  BY AlarmFields
<1>2. /\ b.start \in Int /\ b.end \in Int /\ b.standalone \in BOOLEAN
      /\ b.alarms \in SUBSET Alarm
  BY BatchFields
<1>3. /\ n.start = IF a.whenElapsed >= b.start THEN a.whenElapsed ELSE b.start
      /\ n.end = IF a.maxWhenElapsed <= b.end THEN a.maxWhenElapsed ELSE b.end
      /\ n.standalone = (b.standalone \/ a.prof.standalone)
      /\ n.alarms = b.alarms \cup {a}
  BY <1>1, <1>2, MaxPair, MinPair DEF BatchAdd
<1>4. n \in BatchType
  <2>1. n = [start |-> n.start, end |-> n.end, standalone |-> n.standalone,
             alarms |-> n.alarms]
    BY DEF BatchAdd
  <2>2. n.start \in Int /\ n.end \in Int
    BY <1>1, <1>2, <1>3
  <2>3. n.standalone \in BOOLEAN
    BY <1>1, <1>2, <1>3
  <2>4. n.alarms \in SUBSET Alarm
    BY <1>2, <1>3
  <2> HIDE DEF n
  <2> QED BY <2>1, <2>2, <2>3, <2>4 DEF BatchType
<1>5. \A c \in n.alarms : c.whenElapsed <= n.start /\ n.end <= c.maxWhenElapsed
  <2> SUFFICES ASSUME NEW c \in n.alarms
               PROVE  c.whenElapsed <= n.start /\ n.end <= c.maxWhenElapsed
    OBVIOUS
  <2>1. c.whenElapsed \in Int /\ c.maxWhenElapsed \in Int
    BY <1>2, <1>3, AlarmFields
  <2>2. CASE c = a
    BY <2>1, <2>2, <1>1, <1>2, <1>3
  <2>3. CASE c \in b.alarms
    BY <2>1, <2>3, <1>1, <1>2, <1>3 DEF WellFormed
  <2> QED BY <2>2, <2>3, <1>3
<1>6. \E c \in n.alarms : c.whenElapsed = n.start
  BY <1>3 DEF WellFormed
<1>7. \E c \in n.alarms : c.maxWhenElapsed = n.end
  BY <1>3 DEF WellFormed
<1>8. n.standalone = \E c \in n.alarms : c.prof.standalone
  BY <1>3, Zenon DEF WellFormed
<1> HIDE DEF n
<1>9. n.alarms # {}
  BY <1>3
<1>10. WellFormed(n)
  BY <1>5, <1>6, <1>7, <1>8, <1>9 DEF WellFormed
<1> QED BY <1>3, <1>4, <1>10 DEF n

\* Batch::Remove keeps exactly the alarms of other timers, and their summary.
LEMMA BatchRemoveProperties ==
    ASSUME NEW b \in BatchType, WellFormed(b), NEW id
    PROVE  /\ BatchRemove(b, id) \in BatchType
           /\ BatchRemove(b, id).alarms = {a \in b.alarms : a.id # id}
           /\ BatchRemove(b, id).alarms # {} => WellFormed(BatchRemove(b, id))
<1> DEFINE kept == {a \in b.alarms : a.id # id}
           n == BatchRemove(b, id)
<1>1. /\ b.start \in Int /\ b.end \in Int /\ b.standalone \in BOOLEAN
      /\ b.alarms \in SUBSET Alarm
  BY BatchFields
<1>2. CASE kept \in {b.alarms, {}}
  <2>1. n = [b EXCEPT !.alarms = kept]
    BY <1>2 DEF BatchRemove
  <2>2. n \in BatchType /\ n.alarms = kept
    BY <2>1, <1>1 DEF BatchType
  <2>3. kept # {} => n = b
    BY <1>2, <2>1 DEF BatchType
  <2> QED BY <2>2, <2>3
<1>3. CASE kept \notin {b.alarms, {}}
  <2>1. n = [start |-> LatestWhen(kept), end |-> EarliestMax(kept),
             standalone |-> \E a \in kept : a.prof.standalone, alarms |-> kept]
    BY <1>3 DEF BatchRemove
  <2>2. \A a \in kept : a.whenElapsed \in Int /\ a.maxWhenElapsed \in Int
    BY <1>1, AlarmFields
  <2>3. \A a \in kept : a.whenElapsed <= b.start /\ b.end <= a.maxWhenElapsed
    BY DEF WellFormed
  <2> DEFINE W == {a.whenElapsed : a \in kept}
             M == {a.maxWhenElapsed : a \in kept}
  <2>4. W \in SUBSET Int /\ W # {} /\ \A x \in W : x <= b.start
    BY <1>3, <2>2, <2>3
  <2>5. M \in SUBSET Int /\ M # {} /\ \A x \in M : b.end <= x
    BY <1>3, <2>2, <2>3
  <2> HIDE DEF W, M
  <2>6. Max(W) \in W /\ \A x \in W : x <= Max(W)
    BY <2>4, <1>1, MaxBounded
  <2>7. Min(M) \in M /\ \A x \in M : Min(M) <= x
    BY <2>5, <1>1, MinBounded
  <2>8. n.start = Max(W) /\ n.end = Min(M) /\ n.alarms = kept
        /\ n.standalone = \E a \in kept : a.prof.standalone
    BY <2>1 DEF LatestWhen, EarliestMax, W, M
  <2>9. n.start \in Int /\ n.end \in Int /\ n.alarms \in SUBSET Alarm
    BY <2>4, <2>5, <2>6, <2>7, <2>8, <1>1
  <2>10. n \in BatchType
    <3>1. n.standalone \in BOOLEAN
      BY <2>8
    <3>2. n = [start |-> n.start, end |-> n.end, standalone |-> n.standalone,
               alarms |-> n.alarms]
      BY <2>1
    <3> HIDE DEF n
    <3> QED BY <2>9, <3>1, <3>2 DEF BatchType
  <2>11. \A a \in kept : a.whenElapsed <= n.start /\ n.end <= a.maxWhenElapsed
    BY <2>6, <2>7, <2>8 DEF W, M
  <2>12. (\E a \in kept : a.whenElapsed = n.start) /\ (\E a \in kept : a.maxWhenElapsed = n.end)
    BY <2>6, <2>7, <2>8 DEF W, M
  <2>13. WellFormed(n)
    <3> HIDE DEF n
    <3>1. n.alarms # {}
      BY <2>8, <1>3
    <3> QED BY <2>8, <2>11, <2>12, <3>1, Zenon DEF WellFormed
  <2> QED BY <2>8, <2>10, <2>13
<1> QED BY <1>2, <1>3

-----------------------------------------------------------------------------
(* Lists of batches *)

\* Membership in AlarmsOf.
LEMMA InAlarmsOf ==
    ASSUME NEW list, NEW a
    PROVE  a \in AlarmsOf(list) <=> \E i \in 1 .. Len(list) : a \in list[i].alarms
BY DEF AlarmsOf

\* The alarms of a list are alarms.
LEMMA AlarmsOfType ==
    ASSUME NEW list \in Seq(BatchType)
    PROVE  AlarmsOf(list) \in SUBSET Alarm
BY BatchFields DEF AlarmsOf

\* Erasing a batch keeps the others.
LEMMA EraseProperties ==
    ASSUME NEW list \in Seq(BatchType), AllWellFormed(list), NEW k \in 1 .. Len(list)
    PROVE  /\ RemoveAt(list, k) \in Seq(BatchType)
           /\ AllWellFormed(RemoveAt(list, k))
           /\ AlarmsOf(list) = AlarmsOf(RemoveAt(list, k)) \cup list[k].alarms
<1> DEFINE r == RemoveAt(list, k)
<1>1. /\ r \in Seq(BatchType) /\ Len(r) = Len(list) - 1 /\ Len(list) \in Nat
      /\ \A i \in 1 .. Len(list) - 1 : r[i] = IF i < k THEN list[i] ELSE list[i + 1]
  BY RemoveAtProperties
<1> HIDE DEF r
<1>2. AllWellFormed(r)
  BY <1>1 DEF AllWellFormed
<1>3. ASSUME NEW a \in AlarmsOf(r) PROVE a \in AlarmsOf(list)
  <2>1. PICK i \in 1 .. Len(r) : a \in r[i].alarms
    BY <1>3, InAlarmsOf
  <2>2. CASE i < k
    <3>1. i \in 1 .. Len(list) /\ a \in list[i].alarms
      BY <2>1, <2>2, <1>1
    <3> QED BY <3>1, InAlarmsOf
  <2>3. CASE i >= k
    <3>1. i + 1 \in 1 .. Len(list) /\ a \in list[i + 1].alarms
      BY <2>1, <2>3, <1>1
    <3> QED BY <3>1, InAlarmsOf
  <2> QED BY <2>1, <2>2, <2>3, <1>1
<1>4. ASSUME NEW a \in list[k].alarms PROVE a \in AlarmsOf(list)
  BY InAlarmsOf
<1>5. ASSUME NEW a \in AlarmsOf(list), a \notin list[k].alarms PROVE a \in AlarmsOf(r)
  <2>1. PICK i \in 1 .. Len(list) : a \in list[i].alarms
    BY <1>5, InAlarmsOf
  <2>2. CASE i < k
    <3>1. i \in 1 .. Len(r) /\ a \in r[i].alarms
      BY <2>1, <2>2, <1>1
    <3> QED BY <3>1, InAlarmsOf
  <2>3. CASE i > k
    <3>1. i - 1 \in 1 .. Len(list) - 1 /\ ~(i - 1 < k) /\ (i - 1) + 1 = i
      BY <2>1, <2>3, <1>1
    <3>2. r[i - 1] = list[(i - 1) + 1]
      BY <3>1, <1>1
    <3>3. i - 1 \in 1 .. Len(r) /\ a \in r[i - 1].alarms
      BY <3>1, <3>2, <2>1, <1>1
    <3> QED BY <3>3, InAlarmsOf
  <2>4. i < k \/ i > k
    BY <2>1, <1>5, <1>1
  <2> QED BY <2>2, <2>3, <2>4
<1> QED BY <1>1, <1>2, <1>3, <1>4, <1>5 DEF r

\* AddBatchLocked adds one batch.
LEMMA AddBatchProperties ==
    ASSUME NEW list \in Seq(BatchType), AllWellFormed(list),
           NEW b \in BatchType, WellFormed(b), NEW r \in AddBatchLocked(list, b)
    PROVE  /\ r \in Seq(BatchType)
           /\ AllWellFormed(r)
           /\ AlarmsOf(r) = AlarmsOf(list) \cup b.alarms
<1>1. PICK p \in 1 .. Len(list) + 1 : r = InsertAt(list, p, b)
  BY DEF AddBatchLocked, UpperBound
<1>2. /\ r \in Seq(BatchType) /\ Len(r) = Len(list) + 1 /\ Len(list) \in Nat
      /\ \A i \in 1 .. Len(list) + 1 :
            r[i] = IF i < p THEN list[i] ELSE IF i = p THEN b ELSE list[i - 1]
  <2> DEFINE s == InsertAt(list, p, b)
  <2>1. /\ s \in Seq(BatchType) /\ Len(s) = Len(list) + 1
        /\ \A i \in 1 .. Len(list) + 1 :
              s[i] = IF i < p THEN list[i] ELSE IF i = p THEN b ELSE list[i - 1]
    BY InsertAtProperties
  <2>2. Len(list) \in Nat
    OBVIOUS
  <2> HIDE DEF s
  <2> QED BY <1>1, <2>1, <2>2 DEF s
<1>3. AllWellFormed(r)
  <2> SUFFICES ASSUME NEW i \in 1 .. Len(r) PROVE WellFormed(r[i])
    BY DEF AllWellFormed
  <2>1. i \in 1 .. Len(list) + 1
    BY <1>2
  <2>2. CASE i < p
    <3>1. r[i] = list[i] /\ i \in 1 .. Len(list)
      BY <2>1, <2>2, <1>2
    <3> QED BY <3>1 DEF AllWellFormed
  <2>3. CASE i = p
    BY <2>1, <2>3, <1>2
  <2>4. CASE i > p
    <3>1. i - 1 \in 1 .. Len(list)
      BY <2>1, <2>4, <1>2
    <3>2. r[i] = list[i - 1]
      BY <2>1, <2>4, <1>2
    <3> QED BY <3>1, <3>2 DEF AllWellFormed
  <2>5. i < p \/ i = p \/ i > p
    BY <2>1, <1>2
  <2> QED BY <2>2, <2>3, <2>4, <2>5
<1>4. ASSUME NEW a \in AlarmsOf(r) PROVE a \in AlarmsOf(list) \cup b.alarms
  <2>1. PICK i \in 1 .. Len(r) : a \in r[i].alarms
    BY <1>4, InAlarmsOf
  <2>2. CASE i < p
    <3>1. i \in 1 .. Len(list) /\ a \in list[i].alarms
      BY <2>1, <2>2, <1>2
    <3> QED BY <3>1, InAlarmsOf
  <2>3. CASE i = p
    BY <2>1, <2>3, <1>2
  <2>4. CASE i > p
    <3>1. i - 1 \in 1 .. Len(list) /\ a \in list[i - 1].alarms
      BY <2>1, <2>4, <1>2
    <3> QED BY <3>1, InAlarmsOf
  <2>5. i < p \/ i = p \/ i > p
    BY <2>1, <1>2
  <2> QED BY <2>2, <2>3, <2>4, <2>5
<1>5. ASSUME NEW a \in b.alarms PROVE a \in AlarmsOf(r)
  <2>1. p \in 1 .. Len(r) /\ r[p] = b
    BY <1>2
  <2> QED BY <2>1, InAlarmsOf
<1>6. ASSUME NEW a \in AlarmsOf(list) PROVE a \in AlarmsOf(r)
  <2>1. PICK i \in 1 .. Len(list) : a \in list[i].alarms
    BY <1>6, InAlarmsOf
  <2>2. CASE i < p
    <3>1. i \in 1 .. Len(r) /\ a \in r[i].alarms
      BY <2>1, <2>2, <1>2
    <3> QED BY <3>1, InAlarmsOf
  <2>3. CASE i >= p
    <3>1. i + 1 \in 1 .. Len(list) + 1 /\ ~(i + 1 < p) /\ i + 1 # p /\ (i + 1) - 1 = i
      BY <2>1, <2>3, <1>2
    <3>2. r[i + 1] = list[(i + 1) - 1]
      BY <3>1, <1>2
    <3>3. i + 1 \in 1 .. Len(r) /\ a \in r[i + 1].alarms
      BY <3>1, <3>2, <2>1, <1>2
    <3> QED BY <3>3, InAlarmsOf
  <2>4. i < p \/ i >= p
    BY <2>1, <1>2
  <2> QED BY <2>2, <2>3, <2>4
<1> QED BY <1>2, <1>3, <1>4, <1>5, <1>6

\* InsertAndBatchTimerLocked adds the alarm and loses none, whichever batch it
\* coalesces with.
LEMMA InsertProperties ==
    ASSUME NEW list \in Seq(BatchType), AllWellFormed(list),
           NEW a \in Alarm, NEW r \in InsertAndBatchTimerLocked(list, a)
    PROVE  /\ r \in Seq(BatchType)
           /\ AllWellFormed(r)
           /\ AlarmsOf(r) = AlarmsOf(list) \cup {a}
<1> DEFINE which == IF a.prof.standalone THEN 0
                    ELSE AttemptCoalesceLocked(list, a.whenElapsed, a.maxWhenElapsed)
           b == BatchAdd(list[which], a)
<1>1. CASE which = 0
  <2>1. r \in AddBatchLocked(list, NewBatch(a))
    BY <1>1 DEF InsertAndBatchTimerLocked
  <2> QED BY <2>1, NewBatchProperties, AddBatchProperties
<1>2. CASE which # 0
  <2>1. which = 1 /\ 1 \in 1 .. Len(list)
    BY <1>2 DEF AttemptCoalesceLocked
  <2> HIDE DEF which
  <2>2. list[which] \in BatchType /\ WellFormed(list[which])
    BY <2>1 DEF AllWellFormed
  <2>3. b \in BatchType /\ WellFormed(b) /\ b.alarms = list[which].alarms \cup {a}
    BY <2>2, BatchAddProperties
  <2>4. r \in IF b.start > list[which].start
              THEN AddBatchLocked(RemoveAt(list, which), b)
              ELSE {[list EXCEPT ![which] = b]}
    BY <1>2 DEF InsertAndBatchTimerLocked, which
  <2> HIDE DEF b
  <2>5. CASE b.start > list[which].start
    <3>1. /\ RemoveAt(list, which) \in Seq(BatchType)
          /\ AllWellFormed(RemoveAt(list, which))
          /\ AlarmsOf(list) = AlarmsOf(RemoveAt(list, which)) \cup list[which].alarms
      BY <2>1, EraseProperties
    <3>2. r \in AddBatchLocked(RemoveAt(list, which), b)
      BY <2>4, <2>5
    <3>3. /\ r \in Seq(BatchType) /\ AllWellFormed(r)
          /\ AlarmsOf(r) = AlarmsOf(RemoveAt(list, which)) \cup b.alarms
      BY <3>1, <3>2, <2>3, AddBatchProperties
    <3> QED BY <3>1, <3>3, <2>3
  <2>6. CASE ~(b.start > list[which].start)
    <3>1. r = [list EXCEPT ![which] = b]
      BY <2>4, <2>6
    <3>2. /\ r \in Seq(BatchType) /\ AllWellFormed(r) /\ Len(r) = Len(list)
          /\ \A i \in 1 .. Len(list) : r[i] = IF i = which THEN b ELSE list[i]
      <4>1. which \in 1 .. Len(list)
        BY <2>1
      <4> QED BY <4>1, <3>1, <2>3 DEF AllWellFormed
    <3>3. AlarmsOf(r) = AlarmsOf(list) \cup {a}
      <4>1. ASSUME NEW c \in AlarmsOf(r) PROVE c \in AlarmsOf(list) \cup {a}
        <5>1. PICK i \in 1 .. Len(list) : c \in r[i].alarms
          BY <4>1, <3>2, InAlarmsOf
        <5>2. c \in list[i].alarms \cup {a}
          BY <5>1, <3>2, <2>3
        <5> QED BY <5>2, InAlarmsOf
      <4>2. ASSUME NEW c \in AlarmsOf(list) PROVE c \in AlarmsOf(r)
        <5>1. PICK i \in 1 .. Len(list) : c \in list[i].alarms
          BY <4>2, InAlarmsOf
        <5>2. c \in r[i].alarms
          BY <5>1, <3>2, <2>3
        <5> QED BY <5>2, <3>2, InAlarmsOf
      <4>3. a \in AlarmsOf(r)
        <5>1. which \in 1 .. Len(r) /\ a \in r[which].alarms
          BY <3>2, <2>1, <2>3
        <5> QED BY <5>1, InAlarmsOf
      <4> QED BY <4>1, <4>2, <4>3
    <3> QED BY <3>2, <3>3
  <2> QED BY <2>5, <2>6
<1> QED BY <1>1, <1>2

\* RescheduleKernelTimerLocked leaves times, or nothing, in the descriptors.
LEMMA RescheduleType ==
    ASSUME fd \in [Fds -> Int \cup {None}], NEW list \in Seq(BatchType)
    PROVE  RescheduleKernelTimerLocked(list) \in [Fds -> Int \cup {None}]
<1>1. \A old \in Int \cup {None}, when \in Int : Set(old, when) \in Int \cup {None}
  BY DEF Set
<1>2. \A i \in 1 .. Len(list) : list[i].start \in Int
  BY BatchFields
<1>3. FindFirstWakeupBatchLocked(list) \subseteq 1 .. Len(list)
  BY DEF FindFirstWakeupBatchLocked
<1>4. list # <<>> => 1 \in 1 .. Len(list)
  BY EmptySeq, LenProperties
<1> DEFINE first == FindFirstWakeupBatchLocked(list)
           i == CHOOSE i \in first : TRUE
<1>5. first # {} => list[i].start \in Int
  BY <1>2, <1>3
<1> HIDE DEF first, i
<1> SUFFICES ASSUME NEW f \in Fds
             PROVE  (IF f = "WAKE" /\ first # {} THEN Set(fd[f], list[i].start)
                     ELSE IF f = "ELAPSED" /\ list # <<>> /\ 1 \notin first
                     THEN Set(fd[f], list[1].start) ELSE fd[f]) \in Int \cup {None}
  BY DEF RescheduleKernelTimerLocked, first, i
<1> QED BY <1>1, <1>2, <1>4, <1>5
=============================================================================
