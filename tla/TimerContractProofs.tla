------------------------ MODULE TimerContractProofs -------------------------
(***************************************************************************)
(* The identity of alarms, for every value of the constants: an alarm is   *)
(* in one place at a time, so that its callback runs once, and every step  *)
(* of TimerManager is a step of TimerContract.  A repeating timer on the   *)
(* boot clock that is started once has one callback in a pass.             *)
(***************************************************************************)
EXTENDS TimerImplements, TimerManagerProofs

\* Two alarms of a list with the same number are one alarm of one batch.
Apart(list) ==
    \A i, j \in 1 .. Len(list) : \A x \in list[i].alarms, y \in list[j].alarms :
        x.ref = y.ref => i = j /\ x = y

Single(S) == \A x, y \in S : x.ref = y.ref => x = y

-----------------------------------------------------------------------------
(* The batch list keeps its alarms apart *)

\* A list whose batches come from different batches of another one.
LEMMA ApartEmbedded ==
    ASSUME NEW list, NEW r, Apart(list), NEW g,
           \A i \in 1 .. Len(r) : g[i] \in 1 .. Len(list) /\ r[i].alarms \subseteq list[g[i]].alarms,
           \A i, j \in 1 .. Len(r) : g[i] = g[j] => i = j
    PROVE  Apart(r)
<1> SUFFICES ASSUME NEW i \in 1 .. Len(r), NEW j \in 1 .. Len(r),
                    NEW x \in r[i].alarms, NEW y \in r[j].alarms, x.ref = y.ref
             PROVE  i = j /\ x = y
  BY DEF Apart
<1>1. /\ g[i] \in 1 .. Len(list) /\ x \in list[g[i]].alarms
      /\ g[j] \in 1 .. Len(list) /\ y \in list[g[j]].alarms
  OBVIOUS
<1>2. g[i] = g[j] /\ x = y
  BY <1>1 DEF Apart
<1> QED BY <1>2

\* Erasing a batch.
LEMMA ApartErased ==
    ASSUME NEW list \in Seq(BatchType), Apart(list), NEW k \in 1 .. Len(list)
    PROVE  Apart(RemoveAt(list, k))
<1> DEFINE r == RemoveAt(list, k)
           g == [i \in 1 .. Len(list) - 1 |-> IF i < k THEN i ELSE i + 1]
<1>1. /\ Len(r) = Len(list) - 1
      /\ \A i \in 1 .. Len(list) - 1 : r[i] = IF i < k THEN list[i] ELSE list[i + 1]
  BY RemoveAtProperties
<1>2. Len(list) \in Nat
  OBVIOUS
<1> HIDE DEF r
<1>3. \A i \in 1 .. Len(r) : g[i] \in 1 .. Len(list) /\ r[i] = list[g[i]]
  BY <1>1, <1>2
<1>4. \A i, j \in 1 .. Len(r) : g[i] = g[j] => i = j
  BY <1>1, <1>2
<1> HIDE DEF g
<1>5. \A i \in 1 .. Len(r) : r[i].alarms \subseteq list[g[i]].alarms
  BY <1>3
<1>6. Apart(r)
  BY <1>3, <1>4, <1>5, ApartEmbedded
<1> QED BY <1>6 DEF r

\* Replacing a batch by some of its alarms.
LEMMA ApartReduced ==
    ASSUME NEW list \in Seq(BatchType), Apart(list), NEW k \in 1 .. Len(list),
           NEW b \in BatchType, b.alarms \subseteq list[k].alarms
    PROVE  Apart([list EXCEPT ![k] = b])
<1> DEFINE r == [list EXCEPT ![k] = b]
           g == [i \in 1 .. Len(list) |-> i]
<1>1. Len(r) = Len(list) /\ \A i \in 1 .. Len(list) : r[i] = IF i = k THEN b ELSE list[i]
  OBVIOUS
<1> HIDE DEF r
<1>2. \A i \in 1 .. Len(r) : g[i] \in 1 .. Len(list) /\ r[i].alarms \subseteq list[g[i]].alarms
  BY <1>1
<1>3. \A i, j \in 1 .. Len(r) : g[i] = g[j] => i = j
  BY <1>1
<1> HIDE DEF g
<1>4. Apart(r)
  BY <1>2, <1>3, ApartEmbedded
<1> QED BY <1>4 DEF r

\* AddBatchLocked with a batch of other alarms.
LEMMA ApartAdded ==
    ASSUME NEW list \in Seq(BatchType), Apart(list), NEW b \in BatchType, Single(b.alarms),
           NEW r \in AddBatchLocked(list, b),
           \A x \in AlarmsOf(list), y \in b.alarms : x.ref # y.ref
    PROVE  Apart(r)
<1>1. PICK p \in 1 .. Len(list) + 1 : r = InsertAt(list, p, b)
  BY DEF AddBatchLocked, UpperBound
<1>2. /\ Len(r) = Len(list) + 1 /\ Len(list) \in Nat
      /\ \A i \in 1 .. Len(list) + 1 :
            r[i] = IF i < p THEN list[i] ELSE IF i = p THEN b ELSE list[i - 1]
  <2> DEFINE s == InsertAt(list, p, b)
  <2>1. /\ Len(s) = Len(list) + 1
        /\ \A i \in 1 .. Len(list) + 1 :
              s[i] = IF i < p THEN list[i] ELSE IF i = p THEN b ELSE list[i - 1]
    BY InsertAtProperties
  <2>2. Len(list) \in Nat
    OBVIOUS
  <2> HIDE DEF s
  <2> QED BY <1>1, <2>1, <2>2 DEF s
<1> DEFINE g == [i \in 1 .. Len(list) + 1 |-> IF i < p THEN i ELSE i - 1]
<1>3. \A i \in 1 .. Len(r) : i # p => g[i] \in 1 .. Len(list) /\ r[i] = list[g[i]]
  BY <1>2
<1>4. \A i, j \in 1 .. Len(r) : i # p /\ j # p /\ g[i] = g[j] => i = j
  BY <1>2
<1>5. r[p] = b
  BY <1>2
<1> HIDE DEF g
<1> SUFFICES ASSUME NEW i \in 1 .. Len(r), NEW j \in 1 .. Len(r),
                    NEW x \in r[i].alarms, NEW y \in r[j].alarms, x.ref = y.ref
             PROVE  i = j /\ x = y
  BY DEF Apart
<1>6. CASE i # p /\ j # p
  <2>1. g[i] = g[j] /\ x = y
    BY <1>3, <1>6 DEF Apart
  <2> QED BY <2>1, <1>4, <1>6
<1>7. CASE i = p /\ j = p
  BY <1>5, <1>7 DEF Single
<1>8. CASE i = p /\ j # p
  <2>1. y \in AlarmsOf(list)
    BY <1>3, <1>8, InAlarmsOf
  <2> QED BY <2>1, <1>5, <1>8
<1>9. CASE i # p /\ j = p
  <2>1. x \in AlarmsOf(list)
    BY <1>3, <1>9, InAlarmsOf
  <2> QED BY <2>1, <1>5, <1>9
<1> QED BY <1>6, <1>7, <1>8, <1>9

\* InsertAndBatchTimerLocked with a new alarm, whichever batch it joins.
LEMMA ApartInserted ==
    ASSUME NEW list \in Seq(BatchType), AllWellFormed(list), Apart(list), NEW a \in Alarm,
           \A x \in AlarmsOf(list) : x.ref # a.ref,
           NEW r \in InsertAndBatchTimerLocked(list, a)
    PROVE  Apart(r)
<1> DEFINE which == IF a.prof.standalone THEN 0
                    ELSE AttemptCoalesceLocked(list, a.whenElapsed, a.maxWhenElapsed)
           b == BatchAdd(list[which], a)
<1>1. CASE which = 0
  <2>1. r \in AddBatchLocked(list, NewBatch(a))
    BY <1>1 DEF InsertAndBatchTimerLocked
  <2>2. NewBatch(a) \in BatchType /\ NewBatch(a).alarms = {a}
    BY NewBatchProperties
  <2>3. Single(NewBatch(a).alarms)
    BY <2>2 DEF Single
  <2> QED BY <2>1, <2>2, <2>3, ApartAdded
<1>2. CASE which # 0
  <2>1. which = 1 /\ which \in 1 .. Len(list) /\ Len(list) \in Nat
    BY <1>2 DEF AttemptCoalesceLocked
  <2> HIDE DEF which
  <2>2. list[which] \in BatchType /\ WellFormed(list[which])
    BY <2>1 DEF AllWellFormed
  <2>3. b \in BatchType /\ b.alarms = list[which].alarms \cup {a}
    BY <2>2, BatchAddProperties
  <2>4. r \in IF b.start > list[which].start
              THEN AddBatchLocked(RemoveAt(list, which), b)
              ELSE {[list EXCEPT ![which] = b]}
    BY <1>2 DEF InsertAndBatchTimerLocked, which
  <2> HIDE DEF b
  <2>5. \A i \in 1 .. Len(list) : \A x \in list[i].alarms : x.ref # a.ref
    BY InAlarmsOf
  <2>6. Single(b.alarms)
    BY <2>1, <2>3, <2>5 DEF Single, Apart
  <2>7. CASE b.start > list[which].start
    <3> DEFINE e == RemoveAt(list, which)
    <3>1. /\ e \in Seq(BatchType) /\ Len(e) = Len(list) - 1
          /\ \A i \in 1 .. Len(list) - 1 : e[i] = IF i < which THEN list[i] ELSE list[i + 1]
      BY <2>1, RemoveAtProperties
    <3>2. Apart(e)
      BY <2>1, ApartErased
    <3>3. r \in AddBatchLocked(e, b)
      BY <2>4, <2>7
    <3> HIDE DEF e
    <3>4. ASSUME NEW x \in AlarmsOf(e), NEW y \in b.alarms PROVE x.ref # y.ref
      <4>1. PICK i \in 1 .. Len(e) : x \in e[i].alarms
        BY <3>4, InAlarmsOf
      <4>2. i + 1 \in 1 .. Len(list) /\ x \in list[i + 1].alarms /\ i + 1 # which
        BY <4>1, <3>1, <2>1
      <4>3. CASE y = a
        BY <4>2, <4>3, <2>5
      <4>4. CASE y \in list[which].alarms
        BY <4>2, <4>4, <2>1 DEF Apart
      <4> QED BY <4>3, <4>4, <2>3, <3>4
    <3> QED BY <3>1, <3>2, <3>3, <3>4, <2>3, <2>6, ApartAdded
  <2>8. CASE ~(b.start > list[which].start)
    <3>1. r = [list EXCEPT ![which] = b]
      BY <2>4, <2>8
    <3>2. /\ Len(r) = Len(list)
          /\ \A i \in 1 .. Len(list) : r[i] = IF i = which THEN b ELSE list[i]
      BY <3>1, <2>1
    <3> HIDE <3>1
    <3> SUFFICES ASSUME NEW i \in 1 .. Len(list), NEW j \in 1 .. Len(list),
                        NEW x \in r[i].alarms, NEW y \in r[j].alarms, x.ref = y.ref
                 PROVE  i = j /\ x = y
      BY <3>2 DEF Apart
    <3>3. /\ x \in list[i].alarms \/ (x = a /\ i = which)
          /\ y \in list[j].alarms \/ (y = a /\ j = which)
      BY <3>2, <2>3
    <3> QED BY <3>3, <2>5 DEF Apart
  <2> QED BY <2>7, <2>8
<1> QED BY <1>1, <1>2

\* The first batch, and the rest of the list.
LEMMA ApartTail ==
    ASSUME NEW list \in Seq(BatchType), list # <<>>, Apart(list)
    PROVE  /\ Apart(Tail(list)) /\ Single(list[1].alarms)
           /\ \A x \in AlarmsOf(Tail(list)), y \in list[1].alarms : x.ref # y.ref
<1> DEFINE r == Tail(list)
           g == [i \in 1 .. Len(list) |-> i + 1]
<1>1. Len(list) \in Nat /\ Len(list) >= 1 /\ 1 \in 1 .. Len(list)
  BY EmptySeq, LenProperties
<1>2. Len(r) = Len(list) - 1 /\ \A i \in 1 .. Len(list) - 1 : r[i] = list[i + 1]
  BY <1>1, HeadTailProperties
<1> HIDE DEF r
<1>3. \A i \in 1 .. Len(r) : g[i] \in 1 .. Len(list) /\ r[i] = list[g[i]] /\ g[i] # 1
  BY <1>1, <1>2
<1>4. \A i, j \in 1 .. Len(r) : g[i] = g[j] => i = j
  BY <1>1, <1>2
<1> HIDE DEF g
<1>5. Apart(r)
  BY <1>3, <1>4, ApartEmbedded
<1>6. Single(list[1].alarms)
  BY <1>1 DEF Single, Apart
<1>7. ASSUME NEW x \in AlarmsOf(r), NEW y \in list[1].alarms PROVE x.ref # y.ref
  <2>1. PICK i \in 1 .. Len(r) : x \in r[i].alarms
    BY <1>7, InAlarmsOf
  <2>2. g[i] \in 1 .. Len(list) /\ x \in list[g[i]].alarms /\ g[i] # 1
    BY <2>1, <1>3
  <2> QED BY <2>2, <1>1, <1>7 DEF Apart
<1> QED BY <1>5, <1>6, <1>7 DEF r

\* What is still to be re-added once an alarm was taken out.
LEMMA ApartDropped ==
    ASSUME NEW list \in Seq(BatchType), list # <<>>, Apart(list), NEW a \in list[1].alarms
    PROVE  /\ Apart(DropFirst(list, a))
           /\ \A x \in AlarmsOf(DropFirst(list, a)) : x.ref # a.ref
<1>1. Len(list) \in Nat /\ 1 \in 1 .. Len(list) /\ list[1] \in BatchType
  BY EmptySeq, LenProperties
<1>2. CASE list[1].alarms = {a}
  <2>1. DropFirst(list, a) = Tail(list)
    BY <1>2 DEF DropFirst
  <2> QED BY <2>1, <1>2, ApartTail
<1>3. CASE list[1].alarms # {a}
  <2> DEFINE b == [list[1] EXCEPT !.alarms = @ \ {a}]
             r == [list EXCEPT ![1] = b]
  <2>1. b \in BatchType /\ b.alarms = list[1].alarms \ {a}
    BY <1>1, BatchFields DEF BatchType
  <2>2. DropFirst(list, a) = r
    BY <1>3 DEF DropFirst
  <2> HIDE DEF b
  <2>3. Apart(r)
    BY <1>1, <2>1, ApartReduced
  <2>4. Len(r) = Len(list) /\ \A i \in 1 .. Len(list) : r[i] = IF i = 1 THEN b ELSE list[i]
    BY <1>1
  <2> HIDE DEF r
  <2>5. ASSUME NEW x \in AlarmsOf(r) PROVE x.ref # a.ref
    <3>1. PICK i \in 1 .. Len(list) : x \in r[i].alarms
      BY <2>4, <2>5, InAlarmsOf
    <3>2. x \in list[i].alarms /\ (i = 1 => x # a)
      BY <2>1, <2>4, <3>1
    <3> QED BY <3>2, <1>1 DEF Apart
  <2> QED BY <2>2, <2>3, <2>5
<1> QED BY <1>2, <1>3

-----------------------------------------------------------------------------
(* An alarm is in one place *)

\* Every alarm with the place it is in: a list, a looper variable, what is held
\* for a uid, or the callbacks that have just run.
At(place, S) == {<<place, a>> : a \in S}

Places ==
    At("batches", AlarmsOf(batches)) \cup At("readd", AlarmsOf(readd)) \cup At("pending", pending)
    \cup At("popped", popped) \cup At("triggerList", triggerList) \cup At("held", Held)
    \cup At("called", called)

Unique(P) == \A l, m \in P : l[2].ref = m[2].ref => l = m

\* An alarm has the number of a TimerInfo that was built, and no other place
\* has an alarm of that number.
UniqueInv ==
    /\ Apart(batches) /\ Apart(readd)
    /\ Unique(Places)
    /\ \A l \in Places : l[2].ref < made

\* Nothing is left twice when alarms disappear.
LEMMA UniqueSubset ==
    ASSUME NEW P, NEW Q, Unique(P), Q \subseteq P
    PROVE  Unique(Q)
BY DEF Unique

\* One alarm goes to another place, where it may be recomputed.
LEMMA UniqueMove ==
    ASSUME NEW P, NEW Q, Unique(P), NEW l \in P, NEW m, m[2].ref = l[2].ref,
           Q \subseteq (P \ {l}) \cup {m}
    PROVE  Unique(Q)
BY DEF Unique

\* An alarm with a new number appears.
LEMMA UniqueAdd ==
    ASSUME NEW P, NEW Q, Unique(P), NEW m, \A l \in P : l[2].ref # m[2].ref,
           Q \subseteq P \cup {m}
    PROVE  Unique(Q)
BY DEF Unique

\* All alarms of a set go to another place.
LEMMA UniqueMoveAll ==
    ASSUME NEW P, NEW Q, Unique(P), NEW p, NEW q, NEW S, At(p, S) \subseteq P,
           Q \subseteq (P \ At(p, S)) \cup At(q, S)
    PROVE  Unique(Q)
<1> SUFFICES ASSUME NEW l \in Q, NEW m \in Q, l[2].ref = m[2].ref PROVE l = m
  BY DEF Unique
<1>1. ASSUME NEW k \in Q, k \notin P \ At(p, S)
      PROVE  k = <<q, k[2]>> /\ <<p, k[2]>> \in At(p, S) /\ k[2] \in S
  <2>1. k \in At(q, S)
    BY <1>1
  <2>2. PICK a \in S : k = <<q, a>>
    BY <2>1 DEF At
  <2>3. <<p, a>> \in At(p, S) /\ k[2] = a
    BY <2>2 DEF At
  <2> QED BY <2>2, <2>3
<1>2. CASE l \in P \ At(p, S) /\ m \in P \ At(p, S)
  BY <1>2 DEF Unique
<1>3. CASE l \notin P \ At(p, S) /\ m \notin P \ At(p, S)
  <2> DEFINE a == l[2]
             b == m[2]
  <2>1. l = <<q, a>> /\ m = <<q, b>> /\ <<p, a>> \in P /\ <<p, b>> \in P
    BY <1>1, <1>3
  <2>2. a.ref = b.ref
    OBVIOUS
  <2> HIDE DEF a, b
  <2>3. <<p, a>> = <<p, b>>
    <3>1. <<p, a>>[2] = a /\ <<p, b>>[2] = b
      OBVIOUS
    <3> QED BY <2>1, <2>2, <3>1 DEF Unique
  <2>4. a = b
    BY <2>3
  <2> QED BY <2>1, <2>4
<1>4. CASE l \in P \ At(p, S) /\ m \notin P \ At(p, S)
  <2>1. l = <<p, m[2]>>
    BY <1>1, <1>4 DEF Unique
  <2> QED BY <2>1, <1>1, <1>4
<1>5. CASE l \notin P \ At(p, S) /\ m \in P \ At(p, S)
  <2>1. m = <<p, l[2]>>
    BY <1>1, <1>5 DEF Unique
  <2> QED BY <2>1, <1>1, <1>5
<1> QED BY <1>2, <1>3, <1>4, <1>5

\* The places, one by one.
LEMMA InPlaces ==
    ASSUME NEW l
    PROVE  l \in Places <=>
              /\ l = <<l[1], l[2]>>
              /\ \/ l[1] = "batches" /\ l[2] \in AlarmsOf(batches)
                 \/ l[1] = "readd" /\ l[2] \in AlarmsOf(readd)
                 \/ l[1] = "pending" /\ l[2] \in pending
                 \/ l[1] = "popped" /\ l[2] \in popped
                 \/ l[1] = "triggerList" /\ l[2] \in triggerList
                 \/ l[1] = "held" /\ l[2] \in Held
                 \/ l[1] = "called" /\ l[2] \in called
BY DEF Places, At

\* The same after a step.
LEMMA InPlacesNext ==
    ASSUME NEW l
    PROVE  l \in Places' <=>
              /\ l = <<l[1], l[2]>>
              /\ \/ l[1] = "batches" /\ l[2] \in AlarmsOf(batches')
                 \/ l[1] = "readd" /\ l[2] \in AlarmsOf(readd')
                 \/ l[1] = "pending" /\ l[2] \in pending'
                 \/ l[1] = "popped" /\ l[2] \in popped'
                 \/ l[1] = "triggerList" /\ l[2] \in triggerList'
                 \/ l[1] = "held" /\ l[2] \in Held'
                 \/ l[1] = "called" /\ l[2] \in called'
BY DEF Places, At

\* A place and an alarm in it.
LEMMA InAt ==
    ASSUME NEW l, NEW p, NEW S
    PROVE  l \in At(p, S) <=> l = <<l[1], l[2]>> /\ l[1] = p /\ l[2] \in S
BY DEF At

\* What is in a place is an alarm.
LEMMA PlacesType ==
    ASSUME TypeOK, NEW l \in Places
    PROVE  l[2] \in Alarm /\ l[2].ref \in Nat
<1>1. /\ AlarmsOf(batches) \subseteq Alarm /\ AlarmsOf(readd) \subseteq Alarm
      /\ pending \subseteq Alarm /\ popped \subseteq Alarm /\ triggerList \subseteq Alarm
      /\ called \subseteq Alarm
  BY AlarmsOfType DEF TypeOK
<1>2. Held \subseteq Alarm
  BY DEF Held, TypeOK
<1>3. l[2] \in Alarm
  BY <1>1, <1>2, InPlaces
<1> QED BY <1>3 DEF Alarm

\* A step that makes no alarm and leaves no number in a place where there was
\* none keeps the numbers below made.
LEMMA NumbersKept ==
    ASSUME UniqueInv, made' = made,
           \A m \in Places' : \E l \in Places : l[2].ref = m[2].ref
    PROVE  \A m \in Places' : m[2].ref < made'
BY DEF UniqueInv

\* A step that only takes alarms away.
LEMMA UniqueShrink ==
    ASSUME UniqueInv, made' = made, Apart(batches'), Apart(readd'), Places' \subseteq Places
    PROVE  UniqueInv'
<1>1. \A m \in Places' : m[2].ref < made'
  BY NumbersKept
<1>2. Unique(Places')
  BY UniqueSubset DEF UniqueInv
<1> QED BY <1>1, <1>2 DEF UniqueInv

\* A step that leaves every list as it is.
LEMMA UniqueQuiet ==
    ASSUME UniqueInv, called' \in {called, {}},
           UNCHANGED <<batches, readd, pending, popped, triggerList, proxyMap, made>>
    PROVE  UniqueInv'
<1>1. Held' = Held
  BY DEF Held
<1>2. Places' \subseteq Places
  BY <1>1, InPlaces, InPlacesNext
<1> QED BY <1>2, UniqueShrink DEF UniqueInv

\* A step that moves one alarm.
LEMMA UniqueStepMove ==
    ASSUME UniqueInv, made' = made, Apart(batches'), Apart(readd'), NEW l \in Places, NEW m,
           m[2].ref = l[2].ref, Places' \subseteq (Places \ {l}) \cup {m}
    PROVE  UniqueInv'
<1>1. \A k \in Places' : k[2].ref < made'
  BY NumbersKept
<1>2. Unique(Places')
  BY UniqueMove DEF UniqueInv
<1> QED BY <1>1, <1>2 DEF UniqueInv

\* A step that moves all alarms of one place, or some.
LEMMA UniqueStepMoveAll ==
    ASSUME UniqueInv, made' = made, Apart(batches'), Apart(readd'), NEW p, NEW q, NEW S,
           At(p, S) \subseteq Places, Places' \subseteq (Places \ At(p, S)) \cup At(q, S)
    PROVE  UniqueInv'
<1>1. ASSUME NEW m \in Places' PROVE \E l \in Places : l[2].ref = m[2].ref
  <2>1. CASE m \in At(q, S)
    <3>1. m[2] \in S
      BY <2>1, InAt
    <3>2. <<p, m[2]>> \in At(p, S)
      BY <3>1 DEF At
    <3> QED BY <3>2
  <2> QED BY <2>1, <1>1
<1>2. \A k \in Places' : k[2].ref < made'
  BY <1>1, NumbersKept
<1>3. Unique(Places')
  BY UniqueMoveAll DEF UniqueInv
<1> QED BY <1>2, <1>3 DEF UniqueInv

\* A step that makes one alarm with the next number.
LEMMA UniqueStepAdd ==
    ASSUME TypeOK, UniqueInv, made' = made + 1, Apart(batches'), Apart(readd'), NEW P,
           Unique(P), \A k \in P : \E l \in Places : l[2].ref = k[2].ref,
           NEW m, m[2].ref = made, Places' \subseteq P \cup {m}
    PROVE  UniqueInv'
<1>1. \A k \in P : k[2].ref \in Nat /\ k[2].ref < made
  BY PlacesType DEF UniqueInv
<1>2. made \in Nat
  BY DEF TypeOK
<1>3. \A k \in P : k[2].ref # m[2].ref
  BY <1>1, <1>2
<1>4. Unique(Places')
  BY <1>3, UniqueAdd
<1>5. \A k \in Places' : k[2].ref < made'
  BY <1>1, <1>2
<1> QED BY <1>4, <1>5 DEF UniqueInv

\* A TimerInfo that is built has the number made.
LEMMA NewNumbers ==
    /\ \A id, prof, when, si, sf : NewAlarm(id, prof, when, si, sf).ref = made
    /\ \A a : NextPeriod(a).ref = made
BY DEF NewAlarm, NextPeriod, TimerInfo

\* One turn of RemoveLocked keeps the alarms apart.
LEMMA ApartRemoved ==
    ASSUME TypeInv, RemoveLocked, Apart(batches)
    PROVE  Apart(batches')
<1> DEFINE b    == batches[call.pos]
           kept == BatchRemove(b, call.id)
<1>1. /\ batches \in Seq(BatchType) /\ AllWellFormed(batches)
      /\ call.pos \in 1 .. Len(batches)
  BY DEF TypeInv, TypeOK, ControlOK, RemoveLocked
<1>2. b \in BatchType /\ WellFormed(b)
  BY <1>1 DEF AllWellFormed
<1>3. kept \in BatchType /\ kept.alarms \subseteq b.alarms
  BY <1>2, BatchRemoveProperties
<1>4. \/ batches' = RemoveAt(batches, call.pos)
      \/ batches' = [batches EXCEPT ![call.pos] = kept]
  BY DEF RemoveLocked
<1> HIDE DEF kept
<1> QED BY <1>1, <1>3, <1>4, ApartErased, ApartReduced

\* What is held after one uid is erased.
LEMMA HeldErased ==
    ASSUME TypeOK, ProxyInv, NEW uid \in Uids, proxyMap' = Erased(proxyMap, uid)
    PROVE  Held' = Held \ proxyMap[uid]
<1>1. \A u \in Uids : proxyMap'[u] = IF u = uid THEN {} ELSE proxyMap[u]
  BY DEF Erased, TypeOK
<1>2. ASSUME NEW a \in Held' PROVE a \in Held /\ a \notin proxyMap[uid]
  BY <1>1, <1>2 DEF Held, ProxyInv
<1>3. ASSUME NEW a \in Held, a \notin proxyMap[uid] PROVE a \in Held'
  BY <1>1, <1>3 DEF Held
<1> QED BY <1>2, <1>3

\* What is held after one alarm is added.
LEMMA HeldAdded ==
    ASSUME TypeOK, NEW a \in Alarm,
           proxyMap' = [proxyMap EXCEPT ![a.prof.uid] = @ \cup {a}]
    PROVE  Held' = Held \cup {a}
<1>1. a.prof.uid \in Uids
  BY AlarmFields
<1>2. \A u \in Uids : proxyMap'[u] = IF u = a.prof.uid THEN proxyMap[u] \cup {a} ELSE proxyMap[u]
  BY DEF TypeOK
<1>3. ASSUME NEW c \in Held' PROVE c \in Held \cup {a}
  BY <1>2, <1>3 DEF Held
<1>4. ASSUME NEW c \in Held \cup {a} PROVE c \in Held'
  BY <1>1, <1>2, <1>4 DEF Held
<1> QED BY <1>3, <1>4

\* Every step keeps each alarm in one place.
LEMMA UniqueStep == TypeInv /\ ProxyInv /\ UniqueInv /\ [Next]_vars => UniqueInv'
<1> SUFFICES ASSUME TypeInv, ProxyInv, UniqueInv, [Next]_vars PROVE UniqueInv'
  OBVIOUS
<1> USE DEF clockVars, callVars, readdVars, looperVars, proxyVars, ghostVars
<1>0. TypeOK /\ ControlOK /\ AllWellFormed(batches) /\ batches \in Seq(BatchType)
      /\ readd \in Seq(BatchType) /\ Apart(batches) /\ Apart(readd) /\ Unique(Places)
  BY DEF TypeInv, TypeOK, UniqueInv
<1>1. CASE (\E id \in Ids, prof \in Profiles : CreateTimer(id, prof))
           \/ (\E id \in Ids, needDestroy \in BOOLEAN : StopTimerInner(id, needDestroy))
           \/ ReBatchDone \/ EpollWait \/ Interrupted \/ (\E f \in Events : ReadFd(f))
           \/ SampleRtc \/ SampleElapsed \/ BeginTrigger \/ DeliverDone
           \/ (\E uid \in Proxied : ProxyTimerOn(uid)) \/ Tick
           \/ (\E off \in Offsets : SetTime(off)) \/ UNCHANGED vars
  BY <1>1, UniqueQuiet
  DEF CreateTimer, StopTimerInner, ReBatchDone, EpollWait, Interrupted, ReadFd, SampleRtc,
      SampleElapsed,
      BeginTrigger, DeliverDone, ProxyTimerOn, Tick, SetTime, vars
<1>2. ASSUME NEW id \in Ids, NEW delay \in Delays, StartTimer(id, delay) PROVE UniqueInv'
  <2>1. /\ UNCHANGED <<batches, readd, popped, triggerList, proxyMap>> /\ called' = {}
        /\ Held' = Held /\ apc = "idle"
    BY <1>2 DEF StartTimer, Held
  <2>2. CASE UNCHANGED <<pending, made>>
    BY <2>1, <2>2, UniqueQuiet
  <2>3. CASE \E prof, when, si, sf : /\ pending' = {NewAlarm(id, prof, when, si, sf)}
                                    /\ made' = made + 1
    <3>1. PICK a : pending' = {a} /\ a.ref = made /\ made' = made + 1
      BY <2>3, NewNumbers
    <3> DEFINE m == <<"pending", a>>
    <3>2. Places' \subseteq Places \cup {m}
      BY <2>1, <3>1, InPlaces, InPlacesNext
    <3>3. m[2].ref = made
      BY <3>1
    <3> HIDE DEF m
    <3> QED BY <1>0, <2>1, <3>1, <3>2, <3>3, UniqueStepAdd
  <2> QED BY <1>2, <2>2, <2>3 DEF StartTimer
<1>3. CASE CommitTimer
  <2>1. PICK a \in pending : SetHandlerLocked(a)
    BY <1>3 DEF CommitTimer
  <2>2. a \in Alarm /\ <<"pending", a>> \in Places
    BY <1>0, <2>1, InPlaces DEF TypeOK
  <2>3. AlarmsOf(batches') = AlarmsOf(batches) \cup {a}
    BY <1>0, <2>1, <2>2, SetHandlerProperties
  <2>4. batches' \in InsertAndBatchTimerLocked(batches, a)
    BY <2>1 DEF SetHandlerLocked
  <2>5. \A x \in AlarmsOf(batches) : x.ref # a.ref
    <3> SUFFICES ASSUME NEW x \in AlarmsOf(batches) PROVE x.ref # a.ref
      OBVIOUS
    <3>1. <<"batches", x>> \in Places
      BY InPlaces
    <3> QED BY <1>0, <2>2, <3>1 DEF Unique
  <2>6. Apart(batches')
    BY <1>0, <2>2, <2>4, <2>5, ApartInserted
  <2>7. /\ pending' = {} /\ called' = {} /\ Held' = Held
        /\ UNCHANGED <<readd, popped, triggerList, made>>
    BY <1>3 DEF CommitTimer, Held
  <2>8. Places' \subseteq (Places \ {<<"pending", a>>}) \cup {<<"batches", a>>}
    BY <2>3, <2>7, InPlaces, InPlacesNext
  <2> QED BY <1>0, <2>2, <2>6, <2>7, <2>8, UniqueStepMove
<1>4. CASE RemoveLocked
  <2>1. AlarmsOf(batches') \subseteq AlarmsOf(batches) /\ Apart(batches')
    BY <1>0, <1>4, RemoveLockedProperties, ApartRemoved
  <2>2. /\ called' = {} /\ Held' = Held
        /\ UNCHANGED <<readd, pending, popped, triggerList, made>>
    BY <1>4 DEF RemoveLocked, Held
  <2>3. Places' \subseteq Places
    BY <2>1, <2>2, InPlaces, InPlacesNext
  <2> QED BY <1>0, <2>1, <2>2, <2>3, UniqueShrink
<1>5. CASE RemoveDone \/ TimeChanged
  <2>1. /\ called' = {} /\ Held' = Held /\ readd = <<>>
        /\ UNCHANGED <<pending, popped, triggerList, made, proxyMap>>
    BY <1>0, <1>5 DEF RemoveDone, TimeChanged, Held, ControlOK
  <2>2. CASE UNCHANGED <<batches, readd>>
    BY <2>1, <2>2, UniqueQuiet
  <2>3. CASE BeginReBatch
    <3>1. batches' = <<>> /\ readd' = batches
      BY <2>3 DEF BeginReBatch
    <3>2. Apart(batches') /\ Apart(readd')
      BY <1>0, <3>1 DEF Apart
    <3> DEFINE S == AlarmsOf(batches)
    <3>3. At("batches", S) \subseteq Places
      BY DEF Places
    <3>4. AlarmsOf(batches') = {} /\ AlarmsOf(readd') = S
      BY <3>1, AlarmsOfEmpty
    <3>5. Places' \subseteq (Places \ At("batches", S)) \cup At("readd", S)
      BY <2>1, <3>4, InPlaces, InPlacesNext, InAt, AlarmsOfEmpty
    <3> QED BY <2>1, <3>2, <3>3, <3>5, UniqueStepMoveAll
  <2> QED BY <1>5, <2>2, <2>3 DEF RemoveDone, TimeChanged
<1>6. CASE RemoveProxy
  <2>1. entries[call.id].uid \in Uids
    BY <1>0, <1>6, ConstantsAssumption DEF ControlOK, RemoveProxy
  <2>2. \A u \in Uids : proxyMap'[u] \subseteq proxyMap[u]
    BY <1>0, <1>6, <2>1 DEF RemoveProxy, Erased, TypeOK
  <2>3. Held' \subseteq Held
    BY <2>2 DEF Held
  <2>4. called' = {} /\ UNCHANGED <<batches, readd, pending, popped, triggerList, made>>
    BY <1>6 DEF RemoveProxy
  <2>5. Places' \subseteq Places
    BY <2>3, <2>4, InPlaces, InPlacesNext
  <2> QED BY <1>0, <2>4, <2>5, UniqueShrink
<1>7. CASE ReAddTimerLocked
  <2>1. PICK a \in NextOf(readd[1].alarms) :
          /\ readd' = DropFirst(readd, a)
          /\ IF ConvertToElapsed(a.when, a.prof.rtc) < readdNow
             THEN UNCHANGED batches
             ELSE batches' \in InsertAndBatchTimerLocked(batches, Recomputed(a))
    BY <1>7 DEF ReAddTimerLocked
  <2>2. readd # <<>> /\ readdNow \in Int
    BY <1>0, <1>7 DEF ControlOK, ReAddTimerLocked
  <2>3. a \in readd[1].alarms
    BY <2>1 DEF NextOf
  <2>4. a \in Alarm /\ AlarmsOf(readd') \subseteq AlarmsOf(readd)
    BY <1>0, <2>1, <2>2, <2>3, DropFirstProperties
  <2>5. Apart(readd') /\ \A x \in AlarmsOf(readd') : x.ref # a.ref
    BY <1>0, <2>1, <2>2, <2>3, ApartDropped
  <2>6. <<"readd", a>> \in Places
    <3>1. 1 \in 1 .. Len(readd)
      BY <1>0, <2>2, EmptySeq, LenProperties
    <3>2. a \in AlarmsOf(readd)
      BY <3>1, <2>3, InAlarmsOf
    <3> QED BY <3>2, InPlaces
  <2>7. /\ called' = {} /\ Held' = Held
        /\ UNCHANGED <<pending, popped, triggerList, made>>
    BY <1>7 DEF ReAddTimerLocked, Held
  <2>8. CASE ConvertToElapsed(a.when, a.prof.rtc) < readdNow
    <3>1. batches' = batches
      BY <2>1, <2>8
    <3>2. Places' \subseteq Places
      BY <2>4, <2>7, <3>1, InPlaces, InPlacesNext
    <3> QED BY <1>0, <2>5, <2>7, <3>1, <3>2, UniqueShrink
  <2>9. CASE ~(ConvertToElapsed(a.when, a.prof.rtc) < readdNow)
    <3> DEFINE c == Recomputed(a)
    <3>1. c \in Alarm /\ c.ref = a.ref
      BY <1>0, <2>2, <2>4, RecomputedType
    <3>2. batches' \in InsertAndBatchTimerLocked(batches, c)
      BY <2>1, <2>9
    <3> HIDE DEF c
    <3>3. AlarmsOf(batches') = AlarmsOf(batches) \cup {c}
      BY <1>0, <3>1, <3>2, InsertProperties
    <3>4. \A x \in AlarmsOf(batches) : x.ref # c.ref
      <4> SUFFICES ASSUME NEW x \in AlarmsOf(batches) PROVE x.ref # c.ref
        OBVIOUS
      <4>1. <<"batches", x>> \in Places
        BY InPlaces
      <4> QED BY <1>0, <2>6, <3>1, <4>1 DEF Unique
    <3>5. Apart(batches')
      BY <1>0, <3>1, <3>2, <3>4, ApartInserted
    <3>6. Places' \subseteq (Places \ {<<"readd", a>>}) \cup {<<"batches", c>>}
      BY <2>4, <2>5, <2>7, <3>3, InPlaces, InPlacesNext
    <3> QED BY <2>5, <2>6, <2>7, <3>1, <3>5, <3>6, UniqueStepMove
  <2> QED BY <2>8, <2>9
<1>8. CASE PopBatch
  <2>1. /\ called' = {} /\ Held' = Held /\ popped = {}
        /\ UNCHANGED <<readd, pending, triggerList, made, proxyMap>>
    BY <1>8 DEF PopBatch, Held
  <2>2. CASE HeadIsDue
    <3> DEFINE S == batches[1].alarms
    <3>1. batches # <<>> /\ batches' = Tail(batches) /\ popped' = S
      BY <1>8, <2>2 DEF PopBatch, HeadIsDue
    <3>2. AlarmsOf(batches') \cup S = AlarmsOf(batches)
      BY <1>0, <3>1, TailProperties
    <3>3. Apart(batches') /\ \A x \in AlarmsOf(batches'), y \in S : x.ref # y.ref
      BY <1>0, <3>1, ApartTail
    <3> HIDE DEF S
    <3>4. At("batches", S) \subseteq Places
      BY <3>2, InPlaces, InAt
    <3>5. Places' \subseteq (Places \ At("batches", S)) \cup At("popped", S)
      BY <2>1, <3>1, <3>2, <3>3, InPlaces, InPlacesNext, InAt
    <3> QED BY <1>0, <2>1, <3>3, <3>4, <3>5, UniqueStepMoveAll
  <2>3. CASE ~HeadIsDue
    BY <1>8, <2>1, <2>3, UniqueQuiet DEF PopBatch
  <2> QED BY <2>2, <2>3
<1>9. CASE TriggerTimersLocked
  <2>1. PICK a \in NextOf(popped) :
          /\ popped' = popped \ {a}
          /\ triggerList' = triggerList \cup {a}
          /\ IF a.interval > 0
             THEN SetHandlerLocked(NextPeriod(a)) /\ made' = made + 1
             ELSE UNCHANGED <<batches, fd, made>>
    BY <1>9 DEF TriggerTimersLocked
  <2>2. a \in Alarm /\ now \in Int /\ a \in popped
    BY <1>0, <1>9, <2>1 DEF NextOf, TypeOK, ControlOK, TriggerTimersLocked
  <2>3. called' = {} /\ Held' = Held /\ UNCHANGED <<readd, pending>>
    BY <1>9 DEF TriggerTimersLocked, Held
  <2> DEFINE l == <<"popped", a>>
             m == <<"triggerList", a>>
             P == (Places \ {l}) \cup {m}
  <2>4. l \in Places /\ m[2].ref = l[2].ref
    BY <2>2, InPlaces
  <2>5. Unique(P)
    BY <1>0, <2>4, UniqueMove
  <2>6. CASE a.interval > 0
    <3> DEFINE n == NextPeriod(a)
    <3>1. n \in Alarm /\ n.ref = made
      BY <1>0, <2>2, <2>6, NextPeriodType, NewNumbers
    <3>2. SetHandlerLocked(n) /\ made' = made + 1
      BY <2>1, <2>6
    <3> HIDE DEF n
    <3>3. AlarmsOf(batches') = AlarmsOf(batches) \cup {n}
      BY <1>0, <3>1, <3>2, SetHandlerProperties
    <3>4. batches' \in InsertAndBatchTimerLocked(batches, n)
      BY <3>2 DEF SetHandlerLocked
    <3>5. \A x \in AlarmsOf(batches) : x.ref # n.ref
      <4> SUFFICES ASSUME NEW x \in AlarmsOf(batches) PROVE x.ref # n.ref
        OBVIOUS
      <4>1. <<"batches", x>> \in Places
        BY InPlaces
      <4>2. x.ref \in Nat /\ x.ref < made /\ made \in Nat
        BY <1>0, <4>1, PlacesType DEF UniqueInv, TypeOK
      <4> QED BY <3>1, <4>2
    <3>6. Apart(batches')
      BY <1>0, <3>1, <3>4, <3>5, ApartInserted
    <3>7. Places' \subseteq P \cup {<<"batches", n>>}
      BY <2>1, <2>3, <3>3, InPlaces, InPlacesNext
    <3>8. \A k \in P : \E j \in Places : j[2].ref = k[2].ref
      BY <2>4
    <3> HIDE DEF P
    <3> QED BY <1>0, <2>3, <2>5, <3>1, <3>2, <3>6, <3>7, <3>8, UniqueStepAdd
  <2>7. CASE ~(a.interval > 0)
    <3>1. UNCHANGED <<batches, made>>
      BY <2>1, <2>7
    <3>2. Places' \subseteq P
      BY <2>1, <2>3, <3>1, InPlaces, InPlacesNext
    <3> HIDE DEF l, m
    <3> QED BY <1>0, <2>3, <2>4, <3>1, <3>2, UniqueStepMove
  <2> QED BY <2>6, <2>7
<1>10. CASE DeliverTimersLocked
  <2>1. PICK a \in triggerList :
          /\ triggerList' = triggerList \ {a}
          /\ IF IsProxied(a)
             THEN /\ proxyMap' = [proxyMap EXCEPT ![a.prof.uid] = @ \cup {a}]
                  /\ called' = {}
             ELSE /\ called' = {a}
                  /\ UNCHANGED proxyMap
    BY <1>10 DEF DeliverTimersLocked, NextOf
  <2>2. a \in Alarm /\ UNCHANGED <<batches, readd, pending, popped, made>>
    BY <1>0, <1>10, <2>1 DEF DeliverTimersLocked, TypeOK
  <2> DEFINE l == <<"triggerList", a>>
  <2>3. l \in Places
    BY <2>1, InPlaces
  <2>4. CASE IsProxied(a)
    <3>1. Held' = Held \cup {a}
      BY <1>0, <2>1, <2>2, <2>4, HeldAdded
    <3>2. Places' \subseteq (Places \ {l}) \cup {<<"held", a>>}
      BY <2>1, <2>2, <2>4, <3>1, InPlaces, InPlacesNext
    <3> QED BY <1>0, <2>2, <2>3, <3>2, UniqueStepMove
  <2>5. CASE ~IsProxied(a)
    <3>1. Held' = Held /\ called' = {a}
      BY <2>1, <2>5 DEF Held
    <3>2. Places' \subseteq (Places \ {l}) \cup {<<"called", a>>}
      BY <2>1, <2>2, <3>1, InPlaces, InPlacesNext
    <3> QED BY <1>0, <2>2, <2>3, <3>2, UniqueStepMove
  <2> QED BY <2>4, <2>5
<1>11. ASSUME NEW uid \in Proxied, NEW needRetrigger \in BOOLEAN,
              ProxyTimerOff(uid, needRetrigger)
       PROVE  UniqueInv'
  <2> DEFINE S == proxyMap[uid]
  <2>1. uid \in Uids /\ S \subseteq Held
    BY ConstantsAssumption DEF Held
  <2>2. Held' = Held \ S
    BY <1>0, <1>11, <2>1, HeldErased DEF ProxyTimerOff
  <2>3. /\ called' \subseteq S
        /\ UNCHANGED <<batches, readd, pending, popped, triggerList, made>>
    BY <1>11 DEF ProxyTimerOff
  <2> HIDE DEF S
  <2>4. At("held", S) \subseteq Places
    BY <2>1, InPlaces, InAt
  <2>5. Places' \subseteq (Places \ At("held", S)) \cup At("called", S)
    BY <2>2, <2>3, InPlaces, InPlacesNext, InAt
  <2> QED BY <1>0, <2>3, <2>4, <2>5, UniqueStepMoveAll
<1>12. CASE ResetAllProxy
  <2>1. Held' = {} /\ called' = Held
    BY <1>12 DEF ResetAllProxy, Held
  <2>2. UNCHANGED <<batches, readd, pending, popped, triggerList, made>>
    BY <1>12 DEF ResetAllProxy
  <2>3. At("held", Held) \subseteq Places
    BY DEF Places
  <2>4. Places' \subseteq (Places \ At("held", Held)) \cup At("called", Held)
    BY <2>1, <2>2, InPlaces, InPlacesNext, InAt
  <2> QED BY <1>0, <2>2, <2>3, <2>4, UniqueStepMoveAll
<1> QED
  BY <1>1, <1>2, <1>3, <1>4, <1>5, <1>6, <1>7, <1>8, <1>9, <1>10, <1>11, <1>12
  DEF Next, Client, ApiStep, LooperStep, Proxy, Environment

\* The invariants hold at first, when there is no alarm.
LEMMA UniqueInit == Init => TypeInv /\ ProxyInv /\ UniqueInv
<1> SUFFICES ASSUME Init PROVE ProxyInv /\ UniqueInv
  BY TypeInit
<1>1. ProxyInv
  BY DEF Init, ProxyInv, ProxyHolds
<1>2. Apart(batches) /\ Apart(readd)
  BY DEF Init, Apart
<1>3. /\ AlarmsOf(batches) = {} /\ AlarmsOf(readd) = {} /\ pending = {} /\ popped = {}
      /\ triggerList = {} /\ Held = {} /\ called = {}
  BY AlarmsOfEmpty DEF Init, Held
<1>4. \A l : l \notin Places
  BY <1>3, InPlaces
<1> QED BY <1>1, <1>2, <1>4 DEF UniqueInv, Unique

\* What has just been called back is in no other place.
LEMMA UniqueCalled == UniqueInv => CalledOnce
<1> SUFFICES ASSUME UniqueInv, NEW a \in called, NEW b \in Queued \cup Held, a.ref = b.ref
             PROVE  FALSE
  BY DEF CalledOnce
<1>1. <<"called", a>> \in Places
  BY InPlaces
<1>2. PICK p \in {"batches", "readd", "pending", "popped", "triggerList", "held"} :
         <<p, b>> \in Places
  BY InQueued, InPlaces
<1> QED BY <1>1, <1>2 DEF UniqueInv, Unique

\* CalledOnce for every value of the constants: the callback of a TimerInfo runs
\* at most once, on the looper (DeliverTimersLocked) or when a proxy is lifted.
THEOREM CallbacksRunOnce == Spec => []CalledOnce
BY UniqueInit, UniqueCalled, TypeStep, ProxyStep, UniqueStep, PTL DEF Spec

-----------------------------------------------------------------------------
(* TimerManager implements TimerContract *)

\* The contract's variables as the manager's state gives them.
Alarms == Queued \cup Held
Alive == {id \in Ids : entries[id] \in Profiles}
Pool == Numbered(Alarms)

\* Alarms or timers may disappear.
LEMMA ContractDrop ==
    ASSUME called' = {}, made' = made, Pool' \subseteq Pool, Alive' \subseteq Alive
    PROVE  Contract!Next
<1> DEFINE S == Pool \ Pool'
           gone == Alive \ Alive'
<1>1. S \in SUBSET Pool /\ gone \in SUBSET Alive /\ Pool' = Pool \ S /\ Alive' = Alive \ gone
  OBVIOUS
<1>2. Numbered(called') = {}
  BY DEF Numbered
<1> HIDE DEF S, gone
<1>3. \E T \in SUBSET Pool, g \in SUBSET Alive :
         /\ Pool' = Pool \ T /\ Alive' = Alive \ g
         /\ Numbered(called') = {} /\ UNCHANGED made
  BY <1>1, <1>2
<1> QED BY <1>3 DEF Contract!Next, Contract!Drop, Pool, Alive, Alarms

\* A step that touches neither timers nor alarms is such a step.
LEMMA ContractQuiet ==
    ASSUME called' = {}, UNCHANGED <<made, entries, batches, readd, pending, popped,
                                     triggerList, proxyMap>>
    PROVE  Contract!Next
<1>1. Alarms' = Alarms /\ Alive' = Alive
  BY DEF Alarms, Queued, Held, Alive, AlarmsOf
<1>2. Pool' = Pool
  BY <1>1 DEF Pool, Numbered
<1> QED BY <1>1, <1>2, ContractDrop

\* Some alarms leave all lists.
LEMMA ContractShrink ==
    ASSUME called' = {}, made' = made, Alarms' \subseteq Alarms, Alive' \subseteq Alive
    PROVE  Contract!Next
<1>1. Pool' \subseteq Pool
  BY DEF Pool, Numbered
<1> QED BY <1>1, ContractDrop

\* An alarm is made, for a timer that exists or after another alarm.
LEMMA ContractNew ==
    ASSUME called' = {}, made' = made + 1, NEW a, a.ref = made,
           Alarms' = Alarms \cup {a}, Alive' = Alive,
           a.id \in Alive \/ \E b \in Alarms : b.id = a.id
    PROVE  Contract!Next
<1>1. Pool' = Pool \cup {<<made, a.id>>}
  BY DEF Pool, Numbered
<1>2. Numbered(called') = {}
  BY DEF Numbered
<1>3. Contract!NewAlarm(a.id)
  BY <1>1, <1>2 DEF Contract!NewAlarm, Pool, Alive, Alarms
<1>4. CASE a.id \in Alive
  <2>1. a.id \in Ids
    BY <1>4 DEF Alive
  <2>2. Contract!Start(a.id)
    BY <1>3, <1>4 DEF Contract!Start, Alive
  <2> QED BY <2>1, <2>2 DEF Contract!Next
<1>5. CASE \E b \in Alarms : b.id = a.id
  <2>1. PICK b \in Alarms : b.id = a.id
    BY <1>5
  <2> DEFINE c == <<b.ref, b.id>>
  <2>2. c \in Pool /\ c[2] = a.id
    BY <2>1 DEF Pool, Numbered
  <2> HIDE DEF c
  <2>3. Contract!Renew(c)
    BY <1>3, <2>2 DEF Contract!Renew, Pool, Alarms
  <2> QED BY <2>2, <2>3 DEF Contract!Next, Pool, Alarms
<1> QED BY <1>4, <1>5

\* Alarms are called back: they were in a list and are in none afterwards.
LEMMA ContractFire ==
    ASSUME CalledOnce', called' # {}, called' \subseteq Alarms, made' = made, Alive' = Alive,
           Alarms' \subseteq Alarms, Alarms \subseteq Alarms' \cup called'
    PROVE  Contract!Next
<1> DEFINE S == Numbered(called')
<1>1. S \in SUBSET Pool /\ S # {}
  BY DEF Pool, Numbered
<1>2. ASSUME NEW n \in Pool' PROVE n \in Pool \ S
  <2>1. PICK a \in Alarms' : n = <<a.ref, a.id>>
    BY <1>2 DEF Pool, Numbered
  <2>2. \A c \in called' : c.ref # a.ref
    BY <2>1 DEF CalledOnce, Alarms
  <2>3. n \notin S
    BY <2>1, <2>2 DEF Numbered
  <2> QED BY <2>1, <2>3 DEF Pool, Numbered
<1>3. ASSUME NEW n \in Pool \ S PROVE n \in Pool'
  <2>1. PICK a \in Alarms : n = <<a.ref, a.id>>
    BY <1>3 DEF Pool, Numbered
  <2>2. a \in Alarms'
    BY <1>3, <2>1 DEF Numbered
  <2> QED BY <2>1, <2>2 DEF Pool, Numbered
<1>4. Pool' = Pool \ S
  BY <1>2, <1>3
<1>5. Contract!Fire(S)
  BY <1>1, <1>4 DEF Contract!Fire, Pool, Alive, Alarms
<1> QED BY <1>1, <1>5 DEF Contract!Next, Pool, Alarms

\* Every step of the manager is a step of the contract.
LEMMA ContractStep ==
    TypeInv /\ ProxyInv /\ CalledOnce' /\ [Next]_vars => [Contract!Next]_(Contract!vars)
<1> SUFFICES ASSUME TypeInv, ProxyInv, CalledOnce', [Next]_vars
             PROVE  Contract!Next \/ UNCHANGED Contract!vars
  OBVIOUS
<1> USE DEF clockVars, callVars, readdVars, looperVars, proxyVars, ghostVars
<1>0. TypeOK /\ ControlOK /\ AllWellFormed(batches) /\ batches \in Seq(BatchType)
      /\ readd \in Seq(BatchType)
  BY DEF TypeInv, TypeOK
<1> DEFINE InAlarms(a) == \/ a \in AlarmsOf(batches) \/ a \in AlarmsOf(readd) \/ a \in pending
                          \/ a \in popped \/ a \in triggerList \/ a \in Held
           InAlarmsNext(a) == \/ a \in AlarmsOf(batches') \/ a \in AlarmsOf(readd') \/ a \in pending'
                              \/ a \in popped' \/ a \in triggerList' \/ a \in Held'
<1>a. \A a : (a \in Alarms <=> InAlarms(a)) /\ (a \in Alarms' <=> InAlarmsNext(a))
  BY DEF Alarms, Queued
<1>1. CASE (\E id \in Ids, needDestroy \in BOOLEAN : StopTimerInner(id, needDestroy))
           \/ ReBatchDone \/ EpollWait \/ Interrupted \/ (\E f \in Events : ReadFd(f))
           \/ SampleRtc \/ SampleElapsed \/ BeginTrigger \/ DeliverDone
           \/ (\E uid \in Proxied : ProxyTimerOn(uid)) \/ Tick
           \/ (\E off \in Offsets : SetTime(off))
  BY <1>1, ContractQuiet
  DEF StopTimerInner, ReBatchDone, EpollWait, Interrupted, ReadFd, SampleRtc, SampleElapsed,
      BeginTrigger, DeliverDone, ProxyTimerOn, Tick, SetTime
<1>2. ASSUME NEW id \in Ids, NEW prof \in Profiles, CreateTimer(id, prof) PROVE Contract!Next
  <2>1. /\ entries[id] = None /\ entries' = [entries EXCEPT ![id] = prof] /\ called' = {}
        /\ UNCHANGED <<batches, readd, pending, popped, triggerList, proxyMap, made>>
    BY <1>2 DEF CreateTimer
  <2>2. id \notin Alive /\ Alive' = Alive \cup {id}
    BY <1>0, <2>1, ConstantsAssumption DEF Alive, TypeOK
  <2>3. Alarms' = Alarms
    BY <2>1 DEF Alarms, Queued, Held, AlarmsOf
  <2>4. Pool' = Pool /\ Numbered(called') = {}
    BY <2>1, <2>3 DEF Pool, Numbered
  <2>5. Contract!Create(id)
    BY <2>1, <2>2, <2>4 DEF Contract!Create, Pool, Alive, Alarms
  <2> QED BY <2>5 DEF Contract!Next
<1>3. ASSUME NEW id \in Ids, NEW delay \in Delays, StartTimer(id, delay) PROVE Contract!Next
  <2>1. /\ UNCHANGED <<batches, readd, popped, triggerList, proxyMap, entries>> /\ called' = {}
        /\ Held' = Held /\ pending = {} /\ entries[id] \in Profiles
    BY <1>0, <1>3 DEF StartTimer, Held, ControlOK
  <2>2. CASE UNCHANGED <<pending, made>>
    BY <2>1, <2>2, ContractQuiet
  <2>3. CASE \E prof, when, si, sf : /\ pending' = {NewAlarm(id, prof, when, si, sf)}
                                    /\ made' = made + 1
    <3>1. PICK a : pending' = {a} /\ a.ref = made /\ a.id = id /\ made' = made + 1
      <4>1. \A prof, when, si, sf : NewAlarm(id, prof, when, si, sf).id = id
        BY DEF NewAlarm, TimerInfo
      <4> QED BY <2>3, <4>1, NewNumbers
    <3>2. Alarms' = Alarms \cup {a}
      BY <1>a, <2>1, <3>1
    <3>3. id \in Alive /\ Alive' = Alive
      BY <2>1 DEF Alive
    <3> QED BY <2>1, <3>1, <3>2, <3>3, ContractNew
  <2> QED BY <1>3, <2>2, <2>3 DEF StartTimer
<1>4. CASE CommitTimer
  <2>1. PICK a \in pending : SetHandlerLocked(a)
    BY <1>4 DEF CommitTimer
  <2>2. a \in Alarm
    BY <1>0, <2>1 DEF TypeOK
  <2>3. AlarmsOf(batches') = AlarmsOf(batches) \cup {a}
    BY <1>0, <2>1, <2>2, SetHandlerProperties
  <2>4. /\ pending' = {} /\ called' = {} /\ Held' = Held /\ Alive' = Alive
        /\ UNCHANGED <<readd, popped, triggerList, made>>
    BY <1>4 DEF CommitTimer, Held, Alive
  <2>5. Alarms' \subseteq Alarms
    BY <1>a, <2>1, <2>3, <2>4
  <2> QED BY <2>4, <2>5, ContractShrink
<1>5. CASE RemoveLocked
  <2>1. AlarmsOf(batches') \subseteq AlarmsOf(batches)
    BY <1>0, <1>5, RemoveLockedProperties
  <2>2. /\ called' = {} /\ Held' = Held /\ Alive' = Alive
        /\ UNCHANGED <<readd, pending, popped, triggerList, made>>
    BY <1>5 DEF RemoveLocked, Held, Alive
  <2>3. Alarms' \subseteq Alarms
    BY <1>a, <2>1, <2>2
  <2> QED BY <2>2, <2>3, ContractShrink
<1>6. CASE RemoveDone \/ TimeChanged
  <2>1. /\ called' = {} /\ Held' = Held /\ readd = <<>>
        /\ UNCHANGED <<pending, popped, triggerList, made, proxyMap, entries>>
    BY <1>0, <1>6 DEF RemoveDone, TimeChanged, Held, ControlOK
  <2>2. CASE UNCHANGED <<batches, readd>>
    BY <2>1, <2>2, ContractQuiet
  <2>3. CASE BeginReBatch
    <3>1. AlarmsOf(batches') = {} /\ AlarmsOf(readd') = AlarmsOf(batches)
      BY <2>3, AlarmsOfEmpty DEF BeginReBatch
    <3>2. Alarms' \subseteq Alarms
      BY <1>a, <2>1, <3>1
    <3>3. Alive' = Alive
      BY <2>1 DEF Alive
    <3> QED BY <2>1, <3>2, <3>3, ContractShrink
  <2> QED BY <1>6, <2>2, <2>3 DEF RemoveDone, TimeChanged
<1>7. CASE RemoveProxy
  <2>1. entries[call.id].uid \in Uids /\ call.id \in Ids
    BY <1>0, <1>7, ConstantsAssumption DEF ControlOK, RemoveProxy
  <2>2. \A u \in Uids : proxyMap'[u] \subseteq proxyMap[u]
    BY <1>0, <1>7, <2>1 DEF RemoveProxy, Erased, TypeOK
  <2>3. Held' \subseteq Held
    BY <2>2 DEF Held
  <2>4. called' = {} /\ UNCHANGED <<batches, readd, pending, popped, triggerList, made>>
    BY <1>7 DEF RemoveProxy
  <2>5. Alive' \subseteq Alive
    BY <1>0, <1>7, <2>1, ConstantsAssumption DEF RemoveProxy, Alive, TypeOK
  <2>6. Alarms' \subseteq Alarms
    BY <1>a, <2>3, <2>4
  <2> QED BY <2>4, <2>5, <2>6, ContractShrink
<1>8. CASE ReAddTimerLocked
  <2>1. PICK a \in NextOf(readd[1].alarms) :
          /\ readd' = DropFirst(readd, a)
          /\ IF ConvertToElapsed(a.when, a.prof.rtc) < readdNow
             THEN UNCHANGED batches
             ELSE batches' \in InsertAndBatchTimerLocked(batches, Recomputed(a))
    BY <1>8 DEF ReAddTimerLocked
  <2>2. readd # <<>> /\ readdNow \in Int
    BY <1>0, <1>8 DEF ControlOK, ReAddTimerLocked
  <2>3. a \in readd[1].alarms
    BY <2>1 DEF NextOf
  <2>4. a \in Alarm /\ AlarmsOf(readd') \subseteq AlarmsOf(readd)
    BY <1>0, <2>1, <2>2, <2>3, DropFirstProperties
  <2>5. a \in Alarms
    <3>1. 1 \in 1 .. Len(readd)
      BY <1>0, <2>2, EmptySeq, LenProperties
    <3>2. a \in AlarmsOf(readd)
      BY <3>1, <2>3, InAlarmsOf
    <3> QED BY <3>2, <1>a
  <2>6. /\ called' = {} /\ Held' = Held /\ Alive' = Alive
        /\ UNCHANGED <<pending, popped, triggerList, made>>
    BY <1>8 DEF ReAddTimerLocked, Held, Alive
  <2>7. CASE ConvertToElapsed(a.when, a.prof.rtc) < readdNow
    <3>1. batches' = batches
      BY <2>1, <2>7
    <3>2. Alarms' \subseteq Alarms
      BY <1>a, <2>4, <2>6, <3>1
    <3> QED BY <2>6, <3>2, ContractShrink
  <2>8. CASE ~(ConvertToElapsed(a.when, a.prof.rtc) < readdNow)
    <3> DEFINE c == Recomputed(a)
    <3>1. c \in Alarm /\ c.ref = a.ref /\ c.id = a.id
      BY <1>0, <2>2, <2>4, RecomputedType
    <3>2. batches' \in InsertAndBatchTimerLocked(batches, c)
      BY <2>1, <2>8
    <3> HIDE DEF c
    <3>3. AlarmsOf(batches') = AlarmsOf(batches) \cup {c}
      BY <1>0, <3>1, <3>2, InsertProperties
    <3>4. Alarms' \subseteq Alarms \cup {c}
      BY <1>a, <2>4, <2>6, <3>3
    <3>5. Pool' \subseteq Pool
      BY <2>5, <3>1, <3>4 DEF Pool, Numbered
    <3> QED BY <2>6, <3>5, ContractDrop
  <2> QED BY <2>7, <2>8
<1>9. CASE PopBatch
  <2>1. /\ called' = {} /\ Held' = Held /\ popped = {}
        /\ UNCHANGED <<readd, pending, triggerList, made, proxyMap, entries>>
    BY <1>9 DEF PopBatch, Held
  <2>2. CASE HeadIsDue
    <3>1. batches # <<>> /\ batches' = Tail(batches) /\ popped' = batches[1].alarms
      BY <1>9, <2>2 DEF PopBatch, HeadIsDue
    <3>2. AlarmsOf(batches') \cup popped' = AlarmsOf(batches)
      BY <1>0, <3>1, TailProperties
    <3>3. Alarms' \subseteq Alarms
      BY <1>a, <2>1, <3>2
    <3>4. Alive' = Alive
      BY <2>1 DEF Alive
    <3> QED BY <2>1, <3>3, <3>4, ContractShrink
  <2>3. CASE ~HeadIsDue
    BY <1>9, <2>1, <2>3, ContractQuiet DEF PopBatch
  <2> QED BY <2>2, <2>3
<1>10. CASE TriggerTimersLocked
  <2>1. PICK a \in popped :
          /\ popped' = popped \ {a}
          /\ triggerList' = triggerList \cup {a}
          /\ IF a.interval > 0
             THEN SetHandlerLocked(NextPeriod(a)) /\ made' = made + 1
             ELSE UNCHANGED <<batches, fd, made>>
    BY <1>10 DEF TriggerTimersLocked, NextOf
  <2>2. a \in Alarm /\ now \in Int
    BY <1>0, <1>10, <2>1 DEF TypeOK, ControlOK, TriggerTimersLocked
  <2>3. called' = {} /\ Held' = Held /\ Alive' = Alive /\ UNCHANGED <<readd, pending>>
    BY <1>10 DEF TriggerTimersLocked, Held, Alive
  <2>4. CASE a.interval > 0
    <3> DEFINE n == NextPeriod(a)
    <3>1. n \in Alarm /\ n.ref = made /\ n.id = a.id
      BY <1>0, <2>2, <2>4, NextPeriodType, NewNumbers
    <3>2. SetHandlerLocked(n) /\ made' = made + 1
      BY <2>1, <2>4
    <3> HIDE DEF n
    <3>3. AlarmsOf(batches') = AlarmsOf(batches) \cup {n}
      BY <1>0, <3>1, <3>2, SetHandlerProperties
    <3>4. Alarms' = Alarms \cup {n} /\ a \in Alarms
      BY <1>a, <2>1, <2>3, <3>3
    <3> QED BY <2>3, <3>1, <3>2, <3>4, ContractNew
  <2>5. CASE ~(a.interval > 0)
    <3>1. UNCHANGED <<batches, made>>
      BY <2>1, <2>5
    <3>2. Alarms' \subseteq Alarms
      BY <1>a, <2>1, <2>3, <3>1
    <3> QED BY <2>3, <3>1, <3>2, ContractShrink
  <2> QED BY <2>4, <2>5
<1>11. CASE DeliverTimersLocked
  <2>1. PICK a \in triggerList :
          /\ triggerList' = triggerList \ {a}
          /\ IF IsProxied(a)
             THEN /\ proxyMap' = [proxyMap EXCEPT ![a.prof.uid] = @ \cup {a}]
                  /\ called' = {}
             ELSE /\ called' = {a}
                  /\ UNCHANGED proxyMap
    BY <1>11 DEF DeliverTimersLocked, NextOf
  <2>2. a \in Alarm /\ Alive' = Alive /\ UNCHANGED <<batches, readd, pending, popped, made>>
    BY <1>0, <1>11, <2>1 DEF DeliverTimersLocked, TypeOK, Alive
  <2>3. CASE IsProxied(a)
    <3>1. Held' = Held \cup {a}
      BY <1>0, <2>1, <2>2, <2>3, HeldAdded
    <3>2. Alarms' \subseteq Alarms
      BY <1>a, <2>1, <2>2, <3>1
    <3> QED BY <2>1, <2>2, <2>3, <3>2, ContractShrink
  <2>4. CASE ~IsProxied(a)
    <3>1. Held' = Held /\ called' = {a}
      BY <2>1, <2>4 DEF Held
    <3>2. /\ Alarms' \subseteq Alarms /\ Alarms \subseteq Alarms' \cup {a} /\ a \in Alarms
      BY <1>a, <2>1, <2>2, <3>1
    <3> QED BY <2>2, <3>1, <3>2, ContractFire
  <2> QED BY <2>3, <2>4
<1>12. ASSUME NEW uid \in Proxied, NEW needRetrigger \in BOOLEAN,
              ProxyTimerOff(uid, needRetrigger)
       PROVE  Contract!Next
  <2> DEFINE S == proxyMap[uid]
  <2>1. uid \in Uids /\ S \subseteq Held
    BY ConstantsAssumption DEF Held
  <2>2. Held' = Held \ S
    BY <1>0, <1>12, <2>1, HeldErased DEF ProxyTimerOff
  <2>3. /\ called' \in {S, {}} /\ Alive' = Alive
        /\ UNCHANGED <<batches, readd, pending, popped, triggerList, made>>
    BY <1>12 DEF ProxyTimerOff, Alive
  <2> HIDE DEF S
  <2>4. Alarms' \subseteq Alarms /\ Alarms \subseteq Alarms' \cup S /\ S \subseteq Alarms
    BY <1>a, <2>1, <2>2, <2>3
  <2>5. CASE called' = {}
    BY <2>3, <2>4, <2>5, ContractShrink
  <2>6. CASE called' # {}
    BY <2>3, <2>4, <2>6, ContractFire
  <2> QED BY <2>5, <2>6
<1>13. CASE ResetAllProxy
  <2>1. Held' = {} /\ called' = Held
    BY <1>13 DEF ResetAllProxy, Held
  <2>2. Alive' = Alive /\ UNCHANGED <<batches, readd, pending, popped, triggerList, made>>
    BY <1>13 DEF ResetAllProxy, Alive
  <2>3. Alarms' \subseteq Alarms /\ Alarms \subseteq Alarms' \cup Held /\ Held \subseteq Alarms
    BY <1>a, <2>1, <2>2
  <2>4. CASE called' = {}
    BY <2>2, <2>3, <2>4, ContractShrink
  <2>5. CASE called' # {}
    BY <2>1, <2>2, <2>3, <2>5, ContractFire
  <2> QED BY <2>4, <2>5
<1>14. CASE UNCHANGED vars
  <2>1. UNCHANGED <<made, entries, batches, readd, pending, popped, triggerList, proxyMap, called>>
    BY <1>14 DEF vars
  <2>2. Alarms' = Alarms /\ Alive' = Alive
    BY <2>1 DEF Alarms, Queued, Held, Alive, AlarmsOf
  <2>3. Pool' = Pool /\ Numbered(called)' = Numbered(called)
    BY <2>1, <2>2 DEF Pool, Numbered
  <2> QED BY <2>1, <2>2, <2>3 DEF Contract!vars, Pool, Alive, Alarms
<1> QED
  BY <1>1, <1>2, <1>3, <1>4, <1>5, <1>6, <1>7, <1>8, <1>9, <1>10, <1>11, <1>12, <1>13, <1>14
  DEF Next, Client, ApiStep, LooperStep, Proxy, Environment

\* The manager starts as the contract does.
LEMMA ContractInit == Init => Contract!Init
<1> SUFFICES ASSUME Init PROVE Contract!Init
  OBVIOUS
<1>1. Alive = {}
  BY ConstantsAssumption DEF Init, Alive
<1>2. Queued = {} /\ Held = {} /\ called = {} /\ made = 0
  BY AlarmsOfEmpty DEF Init, Queued, Held
<1>3. Numbered(Queued \cup Held) = {} /\ Numbered(called) = {}
  BY <1>2 DEF Numbered
<1> QED BY <1>1, <1>2, <1>3 DEF Contract!Init, Alive

\* TimerManager implements TimerContract for every value of the constants: each
\* step of StartTimer, StopTimerInner, ReBatchAllTimersLocked, TriggerTimersLocked,
\* DeliverTimersLocked and the proxy calls makes one alarm, calls back alarms that
\* are there, drops some, or is invisible to clients.
THEOREM TimerManagerImplementsContract == Spec => ContractKept
<1>1. Spec => [](TypeInv /\ ProxyInv /\ UniqueInv)
  BY UniqueInit, TypeStep, ProxyStep, UniqueStep, PTL DEF Spec
<1>2. Spec => []CalledOnce
  BY CallbacksRunOnce
<1>3. TypeInv /\ ProxyInv /\ CalledOnce' /\ [Next]_vars => [Contract!Next]_(Contract!vars)
  BY ContractStep
<1> QED BY <1>1, <1>2, <1>3, ContractInit, PTL DEF Spec, ContractKept, Contract!Spec

-----------------------------------------------------------------------------
(* A timer that waits for its callback stays queued or held *)

\* The timer a stop is removing does not wait any more, and one alarm at most is
\* about to be inserted.
WaitInv ==
    /\ apc \in {"remove", "rebatch", "unproxy"} => call.id \notin waiting
    /\ \A x, y \in pending : x = y

\* One turn of RemoveLocked takes alarms of the stopped timer only.
LEMMA RemoveLockedKeeps ==
    ASSUME TypeInv, RemoveLocked, NEW a \in AlarmsOf(batches), a.id # call.id
    PROVE  a \in AlarmsOf(batches')
<1> DEFINE kept == BatchRemove(batches[call.pos], call.id)
<1>1. /\ batches \in Seq(BatchType) /\ AllWellFormed(batches)
      /\ call.pos \in 1 .. Len(batches)
  BY DEF TypeInv, TypeOK, ControlOK, RemoveLocked
<1>2. kept.alarms = {x \in batches[call.pos].alarms : x.id # call.id}
  BY <1>1, BatchRemoveProperties DEF AllWellFormed
<1>3. \/ kept.alarms = {} /\ batches' = RemoveAt(batches, call.pos)
      \/ batches' = [batches EXCEPT ![call.pos] = kept]
  BY DEF RemoveLocked
<1> HIDE DEF kept
<1>4. CASE kept.alarms = {} /\ batches' = RemoveAt(batches, call.pos)
  <2>1. a \notin batches[call.pos].alarms
    BY <1>2, <1>4
  <2> QED BY <1>1, <1>4, <2>1, EraseProperties
<1>5. CASE batches' = [batches EXCEPT ![call.pos] = kept]
  <2>1. PICK i \in 1 .. Len(batches) : a \in batches[i].alarms
    BY InAlarmsOf
  <2>2. Len(batches') = Len(batches)
        /\ batches'[i] = IF i = call.pos THEN kept ELSE batches[i]
    BY <1>1, <1>5
  <2>3. i \in 1 .. Len(batches') /\ a \in batches'[i].alarms
    BY <1>2, <2>1, <2>2
  <2> QED BY <2>3, InAlarmsOf
<1> QED BY <1>3, <1>4, <1>5

\* The rebatch takes one alarm at a time from the old list.
LEMMA DropFirstKeeps ==
    ASSUME NEW list \in Seq(BatchType), list # <<>>, NEW a \in list[1].alarms,
           NEW c \in AlarmsOf(list), c # a
    PROVE  c \in AlarmsOf(DropFirst(list, a))
<1> DEFINE r == DropFirst(list, a)
<1>1. Len(list) \in Nat /\ Len(list) >= 1
  BY EmptySeq, LenProperties
<1>2. PICK i \in 1 .. Len(list) : c \in list[i].alarms
  BY InAlarmsOf
<1>3. CASE list[1].alarms = {a}
  <2>1. r = Tail(list)
    BY <1>3 DEF DropFirst
  <2>2. Len(r) = Len(list) - 1 /\ \A k \in 1 .. Len(list) - 1 : r[k] = list[k + 1]
    BY <2>1, <1>1, HeadTailProperties
  <2> HIDE DEF r
  <2>3. i # 1 /\ i - 1 \in 1 .. Len(list) - 1 /\ (i - 1) + 1 = i
    BY <1>1, <1>2, <1>3
  <2>4. i - 1 \in 1 .. Len(r) /\ c \in r[i - 1].alarms
    BY <1>2, <2>2, <2>3
  <2>5. c \in AlarmsOf(r)
    BY <2>4, InAlarmsOf
  <2> QED BY <2>5 DEF r
<1>4. CASE list[1].alarms # {a}
  <2>1. r = [list EXCEPT ![1].alarms = @ \ {a}]
    BY <1>4 DEF DropFirst
  <2> HIDE DEF r
  <2>2. Len(r) = Len(list) /\ i \in 1 .. Len(r)
        /\ r[i] = IF i = 1 THEN [list[1] EXCEPT !.alarms = @ \ {a}] ELSE list[i]
    BY <1>1, <1>2, <2>1
  <2>3. list[1] \in BatchType
    BY <1>1
  <2>4. c \in r[i].alarms
    BY <1>2, <2>2, <2>3 DEF BatchType
  <2>5. c \in AlarmsOf(r)
    BY <2>2, <2>4, InAlarmsOf
  <2> QED BY <2>5 DEF r
<1> QED BY <1>3, <1>4

\* The stop keeps its timer out of the waiting ones: StartTimer needs
\* entryMapMutex_, which the stop holds.
LEMMA WaitStep == TypeInv /\ WaitInv /\ [Next]_vars => WaitInv'
<1> SUFFICES ASSUME TypeInv, WaitInv, [Next]_vars PROVE WaitInv'
  OBVIOUS
<1> USE DEF clockVars, callVars, readdVars, looperVars, proxyVars, ghostVars
<1>1. CASE \E id \in Ids, needDestroy \in BOOLEAN : StopTimerInner(id, needDestroy)
  BY <1>1 DEF StopTimerInner, WaitInv
<1>2. CASE \E id \in Ids, delay \in Delays : StartTimer(id, delay)
  <2>1. apc = "idle" /\ apc' \in {"idle", "commit"} /\ (\/ pending' = pending \/ \E x : pending' = {x})
    BY <1>2 DEF StartTimer
  <2> QED BY <2>1 DEF WaitInv
<1>3. CASE RemoveLocked
  <2>1. call'.id = call.id
    BY <1>3, RemoveLockedProperties
  <2> QED BY <1>3, <2>1 DEF RemoveLocked, WaitInv
<1>4. CASE RemoveDone
  BY <1>4 DEF RemoveDone, WaitInv
<1>5. CASE CommitTimer \/ RemoveProxy
  BY <1>5 DEF CommitTimer, RemoveProxy, WaitInv
<1>6. CASE ReBatchDone
  BY <1>6 DEF ReBatchDone, WaitInv
<1>7. ASSUME UNCHANGED <<apc, call, pending>>, waiting' \subseteq waiting PROVE WaitInv'
  BY <1>7 DEF WaitInv
<1>8. CASE DeliverTimersLocked
  <2>1. UNCHANGED <<apc, call, pending>> /\ waiting' \subseteq waiting
    BY <1>8 DEF DeliverTimersLocked
  <2> QED BY <2>1, <1>7
<1>9. CASE (\E id \in Ids, prof \in Profiles : CreateTimer(id, prof)) \/ ReAddTimerLocked
           \/ EpollWait \/ Interrupted \/ (\E f \in Events : ReadFd(f)) \/ SampleRtc
           \/ SampleElapsed
           \/ TimeChanged \/ BeginTrigger \/ PopBatch \/ TriggerTimersLocked
           \/ DeliverDone \/ (\E uid \in Proxied : ProxyTimerOn(uid))
           \/ (\E uid \in Proxied, needRetrigger \in BOOLEAN : ProxyTimerOff(uid, needRetrigger))
           \/ ResetAllProxy \/ Tick \/ (\E off \in Offsets : SetTime(off)) \/ UNCHANGED vars
  BY <1>9, <1>7
  DEF CreateTimer, ReAddTimerLocked, EpollWait, Interrupted, ReadFd, SampleRtc, SampleElapsed,
      TimeChanged,
      BeginTrigger, PopBatch, TriggerTimersLocked, DeliverDone, ProxyTimerOn,
      ProxyTimerOff, ResetAllProxy, Tick, SetTime, vars
<1> QED
  BY <1>1, <1>2, <1>3, <1>4, <1>5, <1>6, <1>8, <1>9
  DEF Next, Client, ApiStep, LooperStep, Proxy, Environment

\* A waiting timer's alarm, or another one of the timer, is still there after any
\* step, unless it is due and next in a rebatch.
LEMMA WaitingKept ==
    ASSUME TypeInv, ProxyInv, WaitInv, [Next]_vars,
           NEW a \in Alarms, a.id \in waiting, a.id \in waiting'
    PROVE  \/ \E c \in Alarms' : c.id = a.id
           \/ a \in AlarmsOf(readd) /\ ConvertToElapsed(a.when, a.prof.rtc) < readdNow
<1> USE DEF clockVars, callVars, readdVars, looperVars, proxyVars, ghostVars
<1>0. TypeOK /\ ControlOK /\ AllWellFormed(batches) /\ batches \in Seq(BatchType)
      /\ readd \in Seq(BatchType)
  BY DEF TypeInv, TypeOK
<1> DEFINE InAlarms(x) == \/ x \in AlarmsOf(batches) \/ x \in AlarmsOf(readd) \/ x \in pending
                          \/ x \in popped \/ x \in triggerList \/ x \in Held
           InAlarmsNext(x) == \/ x \in AlarmsOf(batches') \/ x \in AlarmsOf(readd')
                              \/ x \in pending' \/ x \in popped' \/ x \in triggerList'
                              \/ x \in Held'
           Kept == \E c \in Alarms' : c.id = a.id
           Due == a \in AlarmsOf(readd) /\ ConvertToElapsed(a.when, a.prof.rtc) < readdNow
<1>a. \A x : (x \in Alarms <=> InAlarms(x)) /\ (x \in Alarms' <=> InAlarmsNext(x))
  BY DEF Alarms, Queued
<1>b. InAlarms(a) /\ (InAlarmsNext(a) => Kept)
  BY <1>a
<1> SUFFICES Kept \/ Due
  OBVIOUS
<1> HIDE DEF Kept, Due
<1>1. CASE UNCHANGED <<batches, readd, pending, popped, triggerList, proxyMap>>
  <2>1. Held' = Held
    BY <1>1 DEF Held
  <2> QED BY <1>1, <1>b, <2>1
<1>2. CASE \E id \in Ids, delay \in Delays : StartTimer(id, delay)
  <2>1. UNCHANGED <<batches, readd, popped, triggerList, proxyMap>> /\ apc = "idle"
    BY <1>2 DEF StartTimer
  <2>2. Held' = Held /\ pending = {}
    BY <1>0, <2>1 DEF Held, ControlOK
  <2> QED BY <1>b, <2>1, <2>2
<1>3. CASE CommitTimer
  <2>1. PICK n \in pending : SetHandlerLocked(n)
    BY <1>3 DEF CommitTimer
  <2>2. n \in Alarm /\ pending = {n}
    BY <1>0, <1>3, <2>1 DEF TypeOK, WaitInv
  <2>3. AlarmsOf(batches') = AlarmsOf(batches) \cup {n}
    BY <1>0, <2>1, <2>2, SetHandlerProperties
  <2>4. Held' = Held /\ UNCHANGED <<readd, popped, triggerList>>
    BY <1>3 DEF CommitTimer, Held
  <2> QED BY <1>b, <2>2, <2>3, <2>4
<1>4. CASE RemoveLocked
  <2>1. a.id # call.id
    BY <1>4 DEF RemoveLocked, WaitInv
  <2>2. a \in AlarmsOf(batches) => a \in AlarmsOf(batches')
    BY <1>4, <2>1, RemoveLockedKeeps
  <2>3. Held' = Held /\ UNCHANGED <<readd, pending, popped, triggerList>>
    BY <1>4 DEF RemoveLocked, Held
  <2> QED BY <1>b, <2>2, <2>3
<1>5. CASE (RemoveDone \/ TimeChanged) /\ BeginReBatch
  <2>1. Held' = Held /\ readd = <<>> /\ UNCHANGED <<pending, popped, triggerList>>
    BY <1>0, <1>5 DEF RemoveDone, TimeChanged, Held, ControlOK
  <2>2. AlarmsOf(readd) = {} /\ AlarmsOf(readd') = AlarmsOf(batches)
    BY <1>5, <2>1, AlarmsOfEmpty DEF BeginReBatch
  <2> QED BY <1>b, <2>1, <2>2
<1>6. CASE RemoveProxy
  <2>1. entries[call.id].uid \in Uids /\ a.id # call.id
    BY <1>0, <1>6, ConstantsAssumption DEF ControlOK, RemoveProxy, WaitInv
  <2>2. UNCHANGED <<batches, readd, pending, popped, triggerList>>
    BY <1>6 DEF RemoveProxy
  <2>3. ASSUME a \in Held PROVE a \in Held'
    <3> DEFINE uid == entries[call.id].uid
    <3>1. proxyMap' = IF IdsOf(proxyMap[uid]) \subseteq {call.id}
                      THEN Erased(proxyMap, uid) ELSE proxyMap
      BY <1>6 DEF RemoveProxy
    <3>2. uid \in Uids
      BY <2>1
    <3> HIDE DEF uid
    <3>3. CASE IdsOf(proxyMap[uid]) \subseteq {call.id}
      <4>1. a \notin proxyMap[uid]
        BY <2>1, <3>3 DEF IdsOf
      <4>2. Held' = Held \ proxyMap[uid]
        BY <1>0, <3>1, <3>2, <3>3, HeldErased
      <4> QED BY <2>3, <4>1, <4>2
    <3>4. CASE ~(IdsOf(proxyMap[uid]) \subseteq {call.id})
      BY <2>3, <3>1, <3>4 DEF Held
    <3> QED BY <3>3, <3>4
  <2> QED BY <1>b, <2>2, <2>3
<1>7. CASE ReAddTimerLocked
  <2>1. PICK x \in NextOf(readd[1].alarms) :
          /\ readd' = DropFirst(readd, x)
          /\ IF ConvertToElapsed(x.when, x.prof.rtc) < readdNow
             THEN UNCHANGED batches
             ELSE batches' \in InsertAndBatchTimerLocked(batches, Recomputed(x))
    BY <1>7 DEF ReAddTimerLocked
  <2>2. readd # <<>> /\ readdNow \in Int
    BY <1>0, <1>7 DEF ControlOK, ReAddTimerLocked
  <2>3. x \in readd[1].alarms
    BY <2>1 DEF NextOf
  <2>4. x \in Alarm
    BY <1>0, <2>1, <2>2, <2>3, DropFirstProperties
  <2>5. Held' = Held /\ UNCHANGED <<pending, popped, triggerList>>
    BY <1>7 DEF ReAddTimerLocked, Held
  <2>6. a \in AlarmsOf(readd) /\ a # x => a \in AlarmsOf(readd')
    BY <1>0, <2>1, <2>2, <2>3, DropFirstKeeps
  <2>7. CASE ConvertToElapsed(x.when, x.prof.rtc) < readdNow
    <3>1. batches' = batches
      BY <2>1, <2>7
    <3>2. CASE a = x /\ a \in AlarmsOf(readd)
      BY <2>7, <3>2 DEF Due
    <3>3. CASE ~(a = x /\ a \in AlarmsOf(readd))
      BY <1>b, <2>5, <2>6, <3>1, <3>3
    <3> QED BY <3>2, <3>3
  <2>8. CASE ~(ConvertToElapsed(x.when, x.prof.rtc) < readdNow)
    <3> DEFINE c == Recomputed(x)
    <3>1. c \in Alarm /\ c.id = x.id
      BY <1>0, <2>2, <2>4, RecomputedType
    <3>2. batches' \in InsertAndBatchTimerLocked(batches, c)
      BY <2>1, <2>8
    <3> HIDE DEF c
    <3>3. AlarmsOf(batches') = AlarmsOf(batches) \cup {c}
      BY <1>0, <3>1, <3>2, InsertProperties
    <3>4. CASE a = x
      <4>1. c \in Alarms' /\ c.id = a.id
        BY <1>a, <3>1, <3>3, <3>4
      <4> QED BY <4>1 DEF Kept
    <3>5. CASE a # x
      BY <1>b, <2>5, <2>6, <3>3, <3>5
    <3> QED BY <3>4, <3>5
  <2> QED BY <2>7, <2>8
<1>8. CASE PopBatch /\ HeadIsDue
  <2>1. Held' = Held /\ popped = {} /\ UNCHANGED <<readd, pending, triggerList>>
    BY <1>8 DEF PopBatch, Held
  <2>2. batches # <<>> /\ batches' = Tail(batches) /\ popped' = batches[1].alarms
    BY <1>8 DEF PopBatch, HeadIsDue
  <2>3. AlarmsOf(batches') \cup popped' = AlarmsOf(batches)
    BY <1>0, <2>2, TailProperties
  <2> QED BY <1>b, <2>1, <2>3
<1>9. CASE TriggerTimersLocked
  <2>1. PICK x \in popped :
          /\ popped' = popped \ {x}
          /\ triggerList' = triggerList \cup {x}
          /\ IF x.interval > 0 THEN SetHandlerLocked(NextPeriod(x)) ELSE UNCHANGED batches
    BY <1>9 DEF TriggerTimersLocked, NextOf
  <2>2. x \in Alarm /\ now \in Int
    BY <1>0, <1>9, <2>1 DEF TypeOK, ControlOK, TriggerTimersLocked
  <2>3. Held' = Held /\ UNCHANGED <<readd, pending>>
    BY <1>9 DEF TriggerTimersLocked, Held
  <2>4. AlarmsOf(batches) \subseteq AlarmsOf(batches')
    <3>1. CASE x.interval > 0
      <4>1. NextPeriod(x) \in Alarm /\ SetHandlerLocked(NextPeriod(x))
        BY <1>0, <2>1, <2>2, <3>1, NextPeriodType
      <4> QED BY <1>0, <4>1, SetHandlerProperties
    <3> QED BY <2>1, <3>1
  <2> QED BY <1>b, <2>1, <2>3, <2>4
<1>10. CASE DeliverTimersLocked
  <2>1. PICK x \in triggerList :
          /\ triggerList' = triggerList \ {x}
          /\ IF IsProxied(x)
             THEN proxyMap' = [proxyMap EXCEPT ![x.prof.uid] = @ \cup {x}]
             ELSE waiting' = waiting \ {x.id} /\ UNCHANGED proxyMap
    BY <1>10 DEF DeliverTimersLocked, NextOf
  <2>2. x \in Alarm /\ UNCHANGED <<batches, readd, pending, popped>>
    BY <1>0, <1>10, <2>1 DEF DeliverTimersLocked, TypeOK
  <2>3. CASE IsProxied(x)
    <3>1. Held' = Held \cup {x}
      BY <1>0, <2>1, <2>2, <2>3, HeldAdded
    <3> QED BY <1>b, <2>1, <2>2, <3>1
  <2>4. CASE ~IsProxied(x)
    <3>1. Held' = Held /\ a # x
      BY <2>1, <2>4 DEF Held
    <3> QED BY <1>b, <2>1, <2>2, <3>1
  <2> QED BY <2>3, <2>4
<1>11. CASE \E uid \in Proxied, needRetrigger \in BOOLEAN : ProxyTimerOff(uid, needRetrigger)
  <2>1. PICK uid \in Proxied, needRetrigger \in BOOLEAN : ProxyTimerOff(uid, needRetrigger)
    BY <1>11
  <2>2. uid \in Uids /\ a.id \notin IdsOf(proxyMap[uid])
    BY <2>1, ConstantsAssumption DEF ProxyTimerOff
  <2>3. Held' = Held \ proxyMap[uid] /\ a \notin proxyMap[uid]
    BY <1>0, <2>1, <2>2, HeldErased DEF ProxyTimerOff, IdsOf
  <2>4. UNCHANGED <<batches, readd, pending, popped, triggerList>>
    BY <2>1 DEF ProxyTimerOff
  <2> QED BY <1>b, <2>3, <2>4
<1>12. CASE ResetAllProxy
  <2>1. a.id \notin IdsOf(Held) /\ UNCHANGED <<batches, readd, pending, popped, triggerList>>
    BY <1>12 DEF ResetAllProxy, Held
  <2>2. a \notin Held
    BY <2>1 DEF IdsOf
  <2> QED BY <1>b, <2>1, <2>2
<1>13. CASE \/ \E id \in Ids, prof \in Profiles : CreateTimer(id, prof)
            \/ \E id \in Ids, needDestroy \in BOOLEAN : StopTimerInner(id, needDestroy)
            \/ ReBatchDone \/ EpollWait \/ Interrupted \/ (\E f \in Events : ReadFd(f))
            \/ SampleRtc \/ SampleElapsed \/ BeginTrigger \/ DeliverDone
            \/ (\E uid \in Proxied : ProxyTimerOn(uid)) \/ Tick
            \/ (\E off \in Offsets : SetTime(off)) \/ UNCHANGED vars
  BY <1>1, <1>13
  DEF CreateTimer, StopTimerInner, ReBatchDone, EpollWait, Interrupted, ReadFd, SampleRtc,
      SampleElapsed,
      BeginTrigger, DeliverDone, ProxyTimerOn, Tick, SetTime, vars
<1>14. CASE (RemoveDone \/ TimeChanged \/ PopBatch)
            /\ UNCHANGED <<batches, readd, popped>>
  BY <1>1, <1>14 DEF RemoveDone, TimeChanged, PopBatch
<1>15. CASE RemoveDone \/ TimeChanged \/ PopBatch
  BY <1>5, <1>8, <1>14, <1>15 DEF RemoveDone, TimeChanged, PopBatch
<1> QED
  BY <1>2, <1>3, <1>4, <1>6, <1>7, <1>9, <1>10, <1>11, <1>12, <1>13, <1>15
  DEF Next, Client, ApiStep, LooperStep, Proxy, Environment

\* RemoveLocked, ReBatchAllTimersLocked, TriggerTimersLocked, DeliverTimersLocked and
\* the proxy calls: only a rebatch that finds an alarm due can lose a started timer,
\* for any timers, profiles, clock changes and proxies.
THEOREM OnlyReBatchLosesTimers == Spec => OnlyReBatchLoses
<1> DEFINE Step == \A id \in waiting \cap waiting' :
        id \in IdsOf(Queued \cup Held) /\ id \notin IdsOf(Queued \cup Held)' =>
            \E a \in AlarmsOf(readd) : a.id = id /\ ConvertToElapsed(a.when, a.prof.rtc) < readdNow
<1>1. Init => WaitInv
  BY DEF Init, WaitInv
<1>2. Spec => [](TypeInv /\ ProxyInv /\ WaitInv)
  BY <1>1, UniqueInit, TypeStep, ProxyStep, WaitStep, PTL DEF Spec
<1>3. TypeInv /\ ProxyInv /\ WaitInv /\ [Next]_vars => [Step]_vars
  <2> SUFFICES ASSUME TypeInv, ProxyInv, WaitInv, [Next]_vars,
                      NEW id \in waiting \cap waiting',
                      id \in IdsOf(Alarms), id \notin IdsOf(Alarms)'
               PROVE  \E a \in AlarmsOf(readd) :
                         a.id = id /\ ConvertToElapsed(a.when, a.prof.rtc) < readdNow
    BY DEF Alarms
  <2>1. PICK a \in Alarms : a.id = id
    BY DEF IdsOf
  <2>2. ~(\E c \in Alarms' : c.id = a.id)
    BY <2>1 DEF IdsOf
  <2> QED BY <2>1, <2>2, WaitingKept
<1> HIDE DEF Step
<1>4. Spec => [][Step]_vars
  BY <1>2, <1>3, PTL DEF Spec
<1> QED BY <1>4 DEF OnlyReBatchLoses, Step

-----------------------------------------------------------------------------
(* One callback for all the periods a late looper missed *)

\* Repeating timers follow the boot clock and are started at least MIN_FUTURITY
\* ahead, so that no clamping and no rebatch moves them away from the time their
\* periods are counted from.
PeriodsAreExact ==
    /\ \A prof \in Profiles : prof.rtc => prof.interval = 0
    /\ \A delay \in Delays : delay >= MinFuturity

\* StartTimer makes an alarm only for a timer that has none on its way.
FreshStart == pending' \subseteq pending \/ \A a \in pending' : a.id \notin IdsOf(Queued)

Exact(a) == a.interval > 0 => ~a.prof.rtc /\ a.when = a.whenElapsed /\ a.expected = a.whenElapsed

\* What the looper has not put on the trigger list yet.
Waiting == AlarmsOf(batches) \cup AlarmsOf(readd) \cup pending \cup popped

\* A timer has one alarm that waits and one on the trigger list; with both, the
\* waiting one is its next period, which is not due in this pass.
OnceInv ==
    /\ \A x, y \in Waiting : x.id = y.id => x.ref = y.ref
    /\ \A x, y \in triggerList : x.id = y.id => x.ref = y.ref
    /\ \A x \in Waiting, y \in triggerList :
          x.id = y.id => x \in AlarmsOf(batches) /\ x.whenElapsed > now
    /\ \A x \in Waiting : Exact(x)

\* The periods that are skipped end after now.
LEMMA PeriodsCatchUp ==
    ASSUME NEW n \in Nat, NEW d \in Nat, d > 0
    PROVE  (1 + TruncDiv(n, d)) * d \in Int /\ (1 + TruncDiv(n, d)) * d > n
<1> DEFINE q == n \div d
<1>1. q \in Int /\ n < d * q + d
  BY SMT
<1>2. TruncDiv(n, d) = q
  BY DEF TruncDiv
<1> HIDE DEF q
<1>3. (1 + q) * d = d * q + d /\ (1 + q) * d \in Int
  BY <1>1
<1> QED BY <1>1, <1>2, <1>3

\* The alarm SetHandler builds is exact.
LEMMA ExactNew ==
    ASSUME TypeOK, PeriodsAreExact, NEW id \in Ids, NEW prof \in Profiles, NEW delay \in Delays,
           NEW si \in BOOLEAN, NEW sf \in BOOLEAN
    PROVE  Exact(NewAlarm(id, prof, delay + boot + (IF prof.rtc THEN rtcOff ELSE 0), si, sf))
<1> DEFINE when     == delay + boot + (IF prof.rtc THEN rtcOff ELSE 0)
           a        == NewAlarm(id, prof, when, si, sf)
           interval == ClampInterval(prof.interval,
                           IF si THEN MinIntervalSystem ELSE MinIntervalApp)
           nominal  == ConvertToElapsed(when, prof.rtc)
           earliest == boot + (IF sf THEN 0 ELSE MinFuturity)
           trigger  == IF nominal > earliest THEN nominal ELSE earliest
<1>1. /\ a.whenElapsed = trigger /\ a.expected = trigger /\ a.when = when
      /\ a.interval = interval /\ a.prof = prof
  BY DEF NewAlarm, TimerInfo
<1>2. /\ prof.interval \in Nat /\ prof.rtc \in BOOLEAN /\ MinFuturity \in Nat /\ boot \in Nat
      /\ delay \in Int /\ delay >= MinFuturity /\ MaxInterval \in Nat
  BY ConstantsAssumption DEF TypeOK, PeriodsAreExact
<1>3. prof.interval > 0 => ~prof.rtc
  BY DEF PeriodsAreExact
<1>4. interval > 0 => prof.interval > 0
  BY <1>2 DEF ClampInterval
<1>5. ~prof.rtc => when = delay + boot /\ nominal = when
  BY <1>2 DEF ConvertToElapsed
<1>6. earliest \in Int /\ earliest <= boot + MinFuturity
  BY <1>2
<1> HIDE DEF a, when, interval, nominal, earliest
<1>7. ~prof.rtc => trigger = when
  BY <1>2, <1>5, <1>6
<1> HIDE DEF trigger
<1>8. Exact(a)
  BY <1>1, <1>3, <1>4, <1>7 DEF Exact
<1> QED BY <1>8 DEF a, when

\* A rebatch leaves an exact alarm exact.
LEMMA ExactRecomputed ==
    ASSUME NEW a \in Alarm, Exact(a)
    PROVE  Exact(Recomputed(a))
<1> DEFINE c == Recomputed(a)
           we == ConvertToElapsed(a.when, a.prof.rtc)
<1>1. /\ c.whenElapsed = we /\ c.when = a.when /\ c.expected = a.expected
      /\ c.interval = a.interval /\ c.prof = a.prof
  BY DEF Recomputed, Alarm
<1>2. ~a.prof.rtc => we = a.when
  BY DEF ConvertToElapsed
<1> HIDE DEF c, we
<1> QED BY <1>1, <1>2 DEF Exact, c

\* The next period of an exact alarm is exact, and lies after now.
LEMMA ExactNextPeriod ==
    ASSUME now \in Int, NEW a \in Alarm, Exact(a), a.interval > 0, a.whenElapsed <= now
    PROVE  Exact(NextPeriod(a)) /\ NextPeriod(a).whenElapsed > now
<1> DEFINE c == NextPeriod(a)
           delta == (1 + TruncDiv(now - a.expected, a.interval)) * a.interval
<1>1. /\ c.whenElapsed = a.whenElapsed + delta /\ c.when = a.when + delta
      /\ c.expected = a.whenElapsed + delta /\ c.interval = a.interval /\ c.prof = a.prof
  BY DEF NextPeriod, TimerInfo
<1>2. /\ a.whenElapsed \in Int /\ a.expected \in Int /\ a.interval \in Nat
      /\ ~a.prof.rtc /\ a.when = a.whenElapsed /\ a.expected = a.whenElapsed
  BY AlarmFields DEF Exact
<1>3. now - a.expected \in Nat
  BY <1>2
<1>4. delta \in Int /\ delta > now - a.expected
  BY <1>2, <1>3, PeriodsCatchUp
<1> HIDE DEF c, delta
<1>5. a.whenElapsed + delta > now
  BY <1>2, <1>4
<1> QED BY <1>1, <1>2, <1>5 DEF Exact, c

\* A step that makes no alarm; a pass goes on with the clock it started with.
LEMMA OnceShrink ==
    ASSUME OnceInv, Waiting' \subseteq Waiting, triggerList' \subseteq triggerList,
           triggerList' = {} \/ (now' = now /\ AlarmsOf(batches) \subseteq AlarmsOf(batches'))
    PROVE  OnceInv'
BY DEF OnceInv

\* Every step keeps one alarm of a timer in a pass.
LEMMA OnceStep ==
    ASSUME PeriodsAreExact
    PROVE  TypeInv /\ UniqueInv /\ DueInv /\ OnceInv /\ [Next]_vars /\ [FreshStart]_vars => OnceInv'
<1> SUFFICES ASSUME TypeInv, UniqueInv, DueInv, OnceInv, [Next]_vars, [FreshStart]_vars
             PROVE  OnceInv'
  OBVIOUS
<1> USE DEF clockVars, callVars, readdVars, looperVars, proxyVars, ghostVars
<1>0. /\ TypeOK /\ ControlOK /\ AllWellFormed(batches) /\ batches \in Seq(BatchType)
      /\ readd \in Seq(BatchType) /\ Unique(Places)
  BY DEF TypeInv, TypeOK, UniqueInv
<1> DEFINE InWaiting(a) == \/ a \in AlarmsOf(batches) \/ a \in AlarmsOf(readd)
                           \/ a \in pending \/ a \in popped
           InWaitingNext(a) == \/ a \in AlarmsOf(batches') \/ a \in AlarmsOf(readd')
                               \/ a \in pending' \/ a \in popped'
<1>a. \A a : (a \in Waiting <=> InWaiting(a)) /\ (a \in Waiting' <=> InWaitingNext(a))
  BY DEF Waiting
<1>1. CASE (\E id \in Ids, prof \in Profiles : CreateTimer(id, prof))
           \/ (\E id \in Ids, needDestroy \in BOOLEAN : StopTimerInner(id, needDestroy))
           \/ RemoveProxy \/ ReBatchDone \/ EpollWait \/ Interrupted
           \/ (\E f \in Events : ReadFd(f))
           \/ SampleRtc \/ SampleElapsed \/ BeginTrigger \/ DeliverTimersLocked \/ DeliverDone
           \/ Proxy \/ Tick \/ (\E off \in Offsets : SetTime(off)) \/ UNCHANGED vars
  <2>1. UNCHANGED <<batches, readd, pending, popped>> /\ triggerList' \subseteq triggerList
    BY <1>1
    DEF CreateTimer, StopTimerInner, RemoveProxy, ReBatchDone, EpollWait, Interrupted, ReadFd,
        SampleRtc, SampleElapsed, BeginTrigger, DeliverTimersLocked, DeliverDone, Proxy,
        ProxyTimerOn,
        ProxyTimerOff, ResetAllProxy, Tick, SetTime, vars
  <2>2. now' = now \/ triggerList' = {}
    BY <1>0, <1>1
    DEF CreateTimer, StopTimerInner, RemoveProxy, ReBatchDone, EpollWait, Interrupted, ReadFd,
        SampleRtc, SampleElapsed, BeginTrigger, DeliverTimersLocked, DeliverDone, Proxy,
        ProxyTimerOn,
        ProxyTimerOff, ResetAllProxy, Tick, SetTime, vars, ControlOK
  <2>3. Waiting' = Waiting
    BY <2>1, <1>a
  <2> QED BY <2>1, <2>2, <2>3, OnceShrink
<1>2. ASSUME NEW id \in Ids, NEW delay \in Delays, StartTimer(id, delay) PROVE OnceInv'
  <2>1. /\ UNCHANGED <<batches, readd, popped, triggerList, now>> /\ pending = {}
        /\ entries[id] \in Profiles
    BY <1>0, <1>2 DEF StartTimer, ControlOK
  <2> DEFINE prof == entries[id]
             when == delay + boot + (IF prof.rtc THEN rtcOff ELSE 0)
  <2>2. CASE pending' = pending
    <3>1. Waiting' = Waiting
      BY <1>a, <2>1, <2>2
    <3> QED BY <2>1, <3>1, OnceShrink
  <2>3. CASE pending' # pending
    <3>1. PICK si, sf \in IsSystemUid(prof.uid) : pending' = {NewAlarm(id, prof, when, si, sf)}
      BY <1>2, <2>3 DEF StartTimer
    <3>2. si \in BOOLEAN /\ sf \in BOOLEAN
      BY <3>1 DEF IsSystemUid
    <3> DEFINE a == NewAlarm(id, prof, when, si, sf)
    <3>3. Exact(a)
      BY <1>0, <2>1, <3>2, ExactNew
    <3>4. pending' = {a}
      BY <3>1
    <3> HIDE DEF prof, when, a
    <3>5. \A x \in Queued : x.id # a.id
      <4>1. pending' # pending /\ ~(pending' \subseteq pending)
        BY <2>1, <3>4
      <4>2. FreshStart
        BY <4>1 DEF vars
      <4> QED BY <3>4, <4>1, <4>2 DEF FreshStart, IdsOf
    <3>6. \A x \in Waiting \cup triggerList : x.id # a.id
      BY <3>5, <1>a, InQueued
    <3>7. Waiting' = Waiting \cup {a}
      BY <1>a, <2>1, <3>4
    <3> QED BY <2>1, <3>3, <3>6, <3>7 DEF OnceInv
  <2> QED BY <2>2, <2>3
<1>3. CASE CommitTimer
  <2>1. PICK a \in pending : SetHandlerLocked(a)
    BY <1>3 DEF CommitTimer
  <2>2. a \in Alarm
    BY <1>0, <2>1 DEF TypeOK
  <2>3. AlarmsOf(batches') = AlarmsOf(batches) \cup {a}
    BY <1>0, <2>1, <2>2, SetHandlerProperties
  <2>4. UNCHANGED <<readd, popped, triggerList>> /\ pending' = {} /\ triggerList = {}
    BY <1>0, <1>3 DEF CommitTimer, ControlOK
  <2>5. Waiting' \subseteq Waiting
    BY <1>a, <2>1, <2>3, <2>4
  <2> QED BY <2>4, <2>5, OnceShrink
<1>4. CASE RemoveLocked
  <2>1. AlarmsOf(batches') \subseteq AlarmsOf(batches)
    BY <1>4, RemoveLockedProperties
  <2>2. UNCHANGED <<readd, pending, popped, triggerList>> /\ triggerList = {}
    BY <1>0, <1>4 DEF RemoveLocked, ControlOK
  <2>3. Waiting' \subseteq Waiting
    BY <1>a, <2>1, <2>2
  <2> QED BY <2>2, <2>3, OnceShrink
<1>5. CASE RemoveDone \/ TimeChanged
  <2>1. UNCHANGED <<pending, popped, triggerList>> /\ triggerList = {} /\ readd = <<>>
    BY <1>0, <1>5 DEF RemoveDone, TimeChanged, ControlOK
  <2>2. AlarmsOf(batches') \cup AlarmsOf(readd') \subseteq AlarmsOf(batches) \cup AlarmsOf(readd)
    <3>1. CASE BeginReBatch
      <4>1. batches' = <<>> /\ readd' = batches
        BY <3>1 DEF BeginReBatch
      <4>2. AlarmsOf(batches') = {} /\ AlarmsOf(readd') = AlarmsOf(batches)
        BY <4>1, AlarmsOfEmpty
      <4> QED BY <4>2
    <3>2. CASE ~BeginReBatch
      BY <1>5, <3>2 DEF RemoveDone, TimeChanged
    <3> QED BY <3>1, <3>2
  <2>3. Waiting' \subseteq Waiting
    BY <1>a, <2>1, <2>2
  <2> QED BY <2>1, <2>3, OnceShrink
<1>6. CASE ReAddTimerLocked
  <2>1. PICK a \in readd[1].alarms :
          /\ readd' = DropFirst(readd, a)
          /\ IF ConvertToElapsed(a.when, a.prof.rtc) < readdNow
             THEN UNCHANGED batches
             ELSE batches' \in InsertAndBatchTimerLocked(batches, Recomputed(a))
    BY <1>6 DEF ReAddTimerLocked, NextOf
  <2>2. readd # <<>> /\ readdNow \in Int
    BY <1>0, <1>6 DEF ControlOK, ReAddTimerLocked
  <2>3. a \in Alarm /\ AlarmsOf(readd') \subseteq AlarmsOf(readd)
    BY <1>0, <2>1, <2>2, DropFirstProperties
  <2>4. a \in Waiting
    <3>1. 1 \in 1 .. Len(readd)
      BY <1>0, <2>2, EmptySeq, LenProperties
    <3>2. a \in AlarmsOf(readd)
      BY <3>1, <2>1, InAlarmsOf
    <3> QED BY <3>2, <1>a
  <2>5. UNCHANGED <<pending, popped, triggerList>> /\ triggerList = {}
    BY <1>0, <1>6 DEF ReAddTimerLocked, ControlOK
  <2>6. CASE ConvertToElapsed(a.when, a.prof.rtc) < readdNow
    <3>1. batches' = batches
      BY <2>1, <2>6
    <3>2. Waiting' \subseteq Waiting
      BY <1>a, <2>3, <2>5, <3>1
    <3> QED BY <2>5, <3>2, OnceShrink
  <2>7. CASE ~(ConvertToElapsed(a.when, a.prof.rtc) < readdNow)
    <3> DEFINE c == Recomputed(a)
    <3>1. c \in Alarm /\ c.ref = a.ref /\ c.id = a.id
      BY <1>0, <2>2, <2>3, RecomputedType
    <3>2. batches' \in InsertAndBatchTimerLocked(batches, c)
      BY <2>1, <2>7
    <3>3. Exact(c)
      BY <2>3, <2>4, ExactRecomputed DEF OnceInv
    <3> HIDE DEF c
    <3>4. AlarmsOf(batches') = AlarmsOf(batches) \cup {c}
      BY <1>0, <3>1, <3>2, InsertProperties
    <3>5. Waiting' \subseteq Waiting \cup {c}
      BY <1>a, <2>3, <2>5, <3>4
    <3> QED BY <2>4, <2>5, <3>1, <3>3, <3>5 DEF OnceInv
  <2> QED BY <2>6, <2>7
<1>7. CASE PopBatch
  <2>1. /\ UNCHANGED <<readd, pending, triggerList, now>> /\ popped = {} /\ lpc = "pop"
        /\ now \in Int
    BY <1>0, <1>7 DEF PopBatch, ControlOK
  <2>2. CASE HeadIsDue
    <3> DEFINE b == batches[1]
    <3>1. batches # <<>> /\ batches' = Tail(batches) /\ popped' = b.alarms /\ b.start <= now
      BY <1>7, <2>2 DEF PopBatch, HeadIsDue
    <3>2. AlarmsOf(batches') \cup popped' = AlarmsOf(batches) /\ b \in BatchType /\ WellFormed(b)
      BY <1>0, <3>1, TailProperties
    <3> HIDE DEF b
    <3>3. ASSUME NEW x \in popped' PROVE ~(x.whenElapsed > now)
      <4>1. x \in Alarm /\ b.start \in Int /\ x.whenElapsed <= b.start
        BY <3>1, <3>2, <3>3, BatchFields DEF WellFormed
      <4>2. x.whenElapsed \in Int
        BY <4>1, AlarmFields
      <4> QED BY <2>1, <3>1, <4>1, <4>2
    <3>4. Waiting' \subseteq Waiting
      BY <1>a, <2>1, <3>2
    <3>5. ASSUME NEW x \in Waiting', NEW y \in triggerList, x.id = y.id
          PROVE  x \in AlarmsOf(batches') /\ x.whenElapsed > now
      <4>1. x \in AlarmsOf(batches) /\ x.whenElapsed > now
        BY <3>4, <3>5 DEF OnceInv
      <4>2. x \notin popped'
        BY <3>3, <4>1
      <4> QED BY <3>2, <4>1, <4>2
    <3> QED BY <2>1, <3>4, <3>5 DEF OnceInv
  <2>3. CASE ~HeadIsDue
    <3>1. UNCHANGED <<batches, popped>>
      BY <1>7, <2>3 DEF PopBatch
    <3>2. Waiting' = Waiting
      BY <1>a, <2>1, <3>1
    <3> QED BY <2>1, <3>1, <3>2, OnceShrink
  <2> QED BY <2>2, <2>3
<1>8. CASE TriggerTimersLocked
  <2>1. PICK a \in popped :
          /\ popped' = popped \ {a}
          /\ triggerList' = triggerList \cup {a}
          /\ IF a.interval > 0
             THEN SetHandlerLocked(NextPeriod(a))
             ELSE UNCHANGED batches
    BY <1>8 DEF TriggerTimersLocked, NextOf
  <2>2. a \in Alarm /\ now \in Int /\ a.whenElapsed <= now
    BY <1>0, <1>8, <2>1 DEF TypeOK, ControlOK, TriggerTimersLocked, DueInv
  <2>3. UNCHANGED <<readd, pending, now>>
    BY <1>8 DEF TriggerTimersLocked
  <2>4. a \in Waiting /\ <<"popped", a>> \in Places
    BY <1>a, <2>1, InPlaces
  <2>5. a \notin AlarmsOf(batches) /\ \A x \in Waiting : x.id = a.id => x = a
    <3>1. a \notin AlarmsOf(batches)
      <4> SUFFICES ASSUME a \in AlarmsOf(batches) PROVE FALSE
        OBVIOUS
      <4>1. <<"batches", a>> \in Places
        BY InPlaces
      <4> QED BY <1>0, <2>4, <4>1 DEF Unique
    <3>2. ASSUME NEW x \in Waiting, x.id = a.id PROVE x = a
      <4>1. x.ref = a.ref
        BY <2>4, <3>2 DEF OnceInv
      <4>2. PICK p : <<p, x>> \in Places
        BY <1>a, InPlaces
      <4>3. <<p, x>> = <<"popped", a>>
        BY <1>0, <2>4, <4>1, <4>2 DEF Unique
      <4> QED BY <4>3
    <3> QED BY <3>1, <3>2
  <2>6. a \notin AlarmsOf(readd) /\ a \notin pending
    <3>1. ASSUME NEW p \in {"readd", "pending"}, <<p, a>> \in Places PROVE FALSE
      BY <1>0, <2>4, <3>1 DEF Unique
    <3> QED BY <3>1, InPlaces
  <2>7. \A y \in triggerList : y.id # a.id
    BY <2>4, <2>5 DEF OnceInv
  <2>8. CASE ~(a.interval > 0)
    <3>1. batches' = batches
      BY <2>1, <2>8
    <3>2. Waiting' = Waiting \ {a}
      BY <1>a, <2>1, <2>3, <2>5, <2>6, <3>1
    <3>3. \A x \in Waiting' : x.id # a.id
      BY <2>5, <3>2
    <3> QED BY <2>1, <2>3, <2>7, <3>1, <3>2, <3>3 DEF OnceInv
  <2>9. CASE a.interval > 0
    <3> DEFINE n == NextPeriod(a)
    <3>1. n \in Alarm /\ n.id = a.id
      BY <1>0, <2>2, <2>9, NextPeriodType
    <3>2. SetHandlerLocked(n)
      BY <2>1, <2>9
    <3>3. Exact(n) /\ n.whenElapsed > now
      BY <2>2, <2>4, <2>9, ExactNextPeriod DEF OnceInv
    <3> HIDE DEF n
    <3>4. AlarmsOf(batches') = AlarmsOf(batches) \cup {n}
      BY <1>0, <3>1, <3>2, SetHandlerProperties
    <3>5. Waiting' = (Waiting \ {a}) \cup {n}
      BY <1>a, <2>1, <2>3, <2>5, <2>6, <3>4
    <3>6. \A x \in Waiting \ {a} : x.id # a.id
      BY <2>5
    <3>7. \A x, y \in Waiting' : x.id = y.id => x.ref = y.ref
      BY <3>1, <3>5, <3>6 DEF OnceInv
    <3>8. \A x, y \in triggerList' : x.id = y.id => x.ref = y.ref
      BY <2>1, <2>7 DEF OnceInv
    <3>9. ASSUME NEW x \in Waiting', NEW y \in triggerList', x.id = y.id
          PROVE  x \in AlarmsOf(batches') /\ x.whenElapsed > now'
      <4>1. CASE x = n
        BY <2>3, <3>3, <3>4, <4>1
      <4>2. CASE x # n
        <5>1. x \in Waiting \ {a} /\ x.id # a.id
          BY <3>5, <3>6, <3>9, <4>2
        <5>2. y \in triggerList
          BY <2>1, <3>9, <5>1
        <5> QED BY <2>3, <3>4, <3>9, <5>1, <5>2 DEF OnceInv
      <4> QED BY <4>1, <4>2
    <3>10. \A x \in Waiting' : Exact(x)
      BY <3>3, <3>5 DEF OnceInv
    <3> QED BY <3>7, <3>8, <3>9, <3>10 DEF OnceInv
  <2> QED BY <2>8, <2>9
<1> QED
  BY <1>1, <1>2, <1>3, <1>4, <1>5, <1>6, <1>7, <1>8
  DEF Next, Client, ApiStep, LooperStep, Environment

\* OneCallbackPerPass for every value of the constants: when the periods of a
\* timer are counted from the time it is due and a timer is not started while an
\* alarm of it is on its way, a pass of the looper that comes late, by any number
\* of periods, triggers each timer once.
THEOREM MissedPeriodsCollapse ==
    ASSUME PeriodsAreExact
    PROVE  Spec /\ [][FreshStart]_vars => []OneCallbackPerPass
<1>1. Init => DueInv /\ OnceInv
  <2> SUFFICES ASSUME Init PROVE DueInv /\ OnceInv
    OBVIOUS
  <2>1. DueInv
    BY DEF Init, DueInv, NeverEarly
  <2>2. Waiting = {} /\ triggerList = {}
    BY AlarmsOfEmpty DEF Init, Waiting
  <2> QED BY <2>1, <2>2 DEF OnceInv
<1>2. TypeInv /\ UniqueInv /\ DueInv /\ OnceInv /\ [Next]_vars /\ [FreshStart]_vars => OnceInv'
  BY OnceStep
<1>3. UniqueInv /\ OnceInv => OneCallbackPerPass
  <2> SUFFICES ASSUME UniqueInv, OnceInv, NEW a \in popped \cup triggerList,
                      NEW b \in popped \cup triggerList, a.id = b.id
               PROVE  a.ref = b.ref
    BY DEF OneCallbackPerPass
  <2>1. ASSUME NEW x \in popped, NEW y \in triggerList, x.id = y.id PROVE FALSE
    <3>1. x \in AlarmsOf(batches)
      BY <2>1 DEF OnceInv, Waiting
    <3>2. <<"batches", x>> \in Places /\ <<"popped", x>> \in Places
      BY <3>1, InPlaces
    <3> QED BY <3>2 DEF UniqueInv, Unique
  <2> QED BY <2>1 DEF OnceInv, Waiting
<1> QED
  BY <1>1, <1>2, <1>3, UniqueInit, TypeStep, ProxyStep, UniqueStep, DueStep, PTL DEF Spec
=============================================================================
