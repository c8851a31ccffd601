------------------------ MODULE NtpUpdateTimeProofs -------------------------
(***************************************************************************)
(* The network time update, for every set of threads, time zone, server    *)
(* delay and sequence of clock settings: every state is typed, an update   *)
(* that nothing spoiled leaves the clock accurate, the settings in memory  *)
(* are those in the file, an update gives way to the radio network's time  *)
(* for a day, and an NTP stamp is near the clock it was made from.         *)
(***************************************************************************)
EXTENDS NtpUpdateTime, TLAPS

\* The steps of SetSystemTime.
SetSteps == {"set", "request", "sent", "served", "received", "store", "read", "apply"}

\* What the program counters say of the other variables: SetSystemTime has a
\* caller to return to, an answer was cached before it is read, and settings
\* were serialized before they are written.
ControlOK ==
    \A t \in Threads :
        /\ pc[t] \in SetSteps => op[t] \in {"net", "timer", "on"}
        /\ pc[t] = "read" => cache \in Answers
        /\ pc[t] = "write" => loc[t].buf \in Settings

\* The observer is registered as long as there are attempts left.
RetriesLeft == monitor = "trying" => retryCount < RetryMax

TypeInv == TypeOK /\ ControlOK /\ RetriesLeft

-----------------------------------------------------------------------------
(* The stamps of the exchange *)

\* A truncating quotient of natural numbers and its bounds.
LEMMA Quotient ==
    ASSUME NEW a \in Nat, NEW b \in Nat \ {0}
    PROVE  /\ a \div b \in Nat
           /\ (a \div b) * b <= a /\ a < (a \div b) * b + b
OBVIOUS

\* The larger of two numbers has the larger quotient.
LEMMA QuotientMonotone ==
    ASSUME NEW a \in Nat, NEW c \in Nat, NEW b \in Nat \ {0}, a <= c
    PROVE  a \div b <= c \div b
OBVIOUS

\* A factor keeps the order of two numbers.
LEMMA ProductMonotone ==
    ASSUME NEW a \in Int, NEW b \in Int, NEW c \in Nat, a <= b
    PROVE  a * c <= b * c
OBVIOUS

\* A positive factor can be cancelled from an inequality.
LEMMA CancelFactor ==
    ASSUME NEW a \in Int, NEW b \in Int, NEW c \in Nat \ {0}, a * c < b * c
    PROVE  a < b
OBVIOUS

\* The constants of the conversions.
LEMMA StampConstants ==
    /\ Micros \in Nat \ {0} /\ Millis \in Nat \ {0} /\ TwoTo32 \in Nat \ {0}
    /\ Millis <= Micros /\ Micros <= TwoTo32
    /\ FirstEpoch \in Nat
BY StampAssumption

\* The milliseconds of a binary fraction, as ConvertNtpToStamp computes them.
InMillis(f) == (f * Millis) \div TwoTo32

\* The fraction of a microsecond is below one, and its milliseconds are those of the
\* microsecond or one more.
LEMMA FractionNear ==
    ASSUME NEW u \in Nat, u + 1 < Micros
    PROVE  LET f == ((u + 1) * TwoTo32) \div Micros
               p == (u * Millis) \div Micros
           IN  f \in 0 .. TwoTo32 - 1 /\ InMillis(f) - p \in 0 .. 1
<1> DEFINE f == ((u + 1) * TwoTo32) \div Micros
           p == (u * Millis) \div Micros
           q == InMillis(f)
<1>0. USE StampConstants
<1>1. f \in Nat /\ f * Micros <= (u + 1) * TwoTo32 /\ (u + 1) * TwoTo32 < f * Micros + Micros
  BY Quotient
<1>2. p \in Nat /\ p * Micros <= u * Millis /\ u * Millis < p * Micros + Micros
  BY Quotient
<1> HIDE DEF f, p
<1>3. q \in Nat /\ q * TwoTo32 <= f * Millis /\ f * Millis < q * TwoTo32 + TwoTo32
  BY <1>1, Quotient DEF InMillis
<1> HIDE DEF q
<1>4. f < TwoTo32
  <2>1. (u + 1) * TwoTo32 < Micros * TwoTo32
    OBVIOUS
  <2>2. f * Micros < TwoTo32 * Micros
    BY <1>1, <2>1
  <2> QED BY <1>1, <2>2, CancelFactor
<1>5. q <= p + 1
  <2>1. (q * Micros) * TwoTo32 <= (f * Millis) * Micros
    BY <1>3, <1>1, ProductMonotone, (q * TwoTo32) * Micros = (q * Micros) * TwoTo32
  <2>2. (f * Micros) * Millis <= ((u + 1) * TwoTo32) * Millis
    BY <1>1, ProductMonotone
  <2>3. (f * Millis) * Micros = (f * Micros) * Millis
    BY <1>1
  <2>4. ((u + 1) * TwoTo32) * Millis = (u * Millis + Millis) * TwoTo32
    OBVIOUS
  <2>5. u * Millis + Millis < (p + 2) * Micros
    BY <1>2
  <2>6. (q * Micros) * TwoTo32 < ((p + 2) * Micros) * TwoTo32
    BY <1>1, <1>2, <1>3, <2>1, <2>2, <2>3, <2>4, <2>5
  <2>7. q * Micros < (p + 2) * Micros
    BY <1>2, <1>3, <2>6, CancelFactor
  <2>8. q < p + 2
    BY <1>2, <1>3, <2>7, CancelFactor
  <2> QED BY <1>2, <1>3, <2>8
<1>6. p <= q
  <2> SUFFICES ASSUME q + 1 <= p PROVE FALSE
    BY <1>2, <1>3
  <2>1. (q + 1) * TwoTo32 <= p * TwoTo32
    BY <1>2, <1>3, ProductMonotone
  <2>2. f * Millis < p * TwoTo32
    BY <1>1, <1>2, <1>3, <2>1
  <2>3. (f * Millis) * Micros < (p * TwoTo32) * Micros
    BY <1>1, <1>2, <2>2
  <2>4. (p * Micros) * TwoTo32 <= (u * Millis) * TwoTo32
    BY <1>2, ProductMonotone
  <2>5. /\ (p * TwoTo32) * Micros = (p * Micros) * TwoTo32
        /\ (f * Millis) * Micros = (f * Micros) * Millis
        /\ (u * Millis) * TwoTo32 = (u * TwoTo32) * Millis
    BY <1>1, <1>2
  <2>6. (f * Micros) * Millis < (u * TwoTo32) * Millis
    BY <1>1, <1>2, <2>3, <2>4, <2>5
  <2>7. f * Micros < u * TwoTo32
    BY <1>1, <2>6, CancelFactor
  <2>8. (u + 1) * TwoTo32 = u * TwoTo32 + TwoTo32
    OBVIOUS
  <2> QED BY <1>1, <2>7, <2>8
<1>7. f \in 0 .. TwoTo32 - 1 /\ q - p \in 0 .. 1
  BY <1>1, <1>2, <1>3, <1>4, <1>5, <1>6
<1> QED BY <1>7, Zenon DEF f, p, q

\* The fraction of the last microsecond overflows to 0 or to its greatest value: the
\* milliseconds are those of the microsecond or none.
LEMMA FractionOverflows ==
    ASSUME NEW f \in ToUint32((Micros * TwoTo32) \div Micros)
    PROVE  /\ f \in 0 .. TwoTo32 - 1
           /\ InMillis(f) - ((Micros - 1) * Millis) \div Micros \in -(Millis - 1) .. 0
<1> DEFINE p == ((Micros - 1) * Millis) \div Micros
           q == InMillis(f)
<1>0. USE StampConstants
<1>1. (Micros * TwoTo32) \div Micros = TwoTo32 /\ TwoTo32 % TwoTo32 = 0
  OBVIOUS
<1>2. f \in {0, TwoTo32 - 1}
  BY <1>1 DEF ToUint32
<1>3. p = Millis - 1
  <2>1. (Micros - 1) * Millis = (Millis - 1) * Micros + (Micros - Millis)
    OBVIOUS
  <2>2. ((Micros - 1) * Millis) \in Nat
    OBVIOUS
  <2>3. p \in Nat /\ p * Micros <= (Micros - 1) * Millis
        /\ (Micros - 1) * Millis < p * Micros + Micros
    BY <2>2, Quotient
  <2> HIDE DEF p
  <2>4. (Millis - 1) * Micros < (p + 1) * Micros
    BY <2>1, <2>3
  <2>5. p * Micros < Millis * Micros
    BY <2>1, <2>3
  <2>6. Millis - 1 < p + 1 /\ p < Millis
    BY <2>3, <2>4, <2>5, CancelFactor
  <2> QED BY <2>3, <2>6
<1>4. CASE f = 0
  <2>1. InMillis(0) = 0
    BY DEF InMillis
  <2> QED BY <1>3, <1>4, <2>1
<1>5. CASE f = TwoTo32 - 1
  <2>1. f * Millis \in Nat
    BY <1>5
  <2>2. q \in Nat /\ q * TwoTo32 <= f * Millis
    BY <2>1, Quotient DEF InMillis
  <2> HIDE DEF q
  <2>3. f * Millis < Millis * TwoTo32
    BY <1>5
  <2>4. q * TwoTo32 < Millis * TwoTo32
    BY <2>1, <2>2, <2>3
  <2>5. q < Millis
    BY <2>2, <2>4, CancelFactor
  <2>6. q \in 0 .. Millis - 1
    BY <2>2, <2>5
  <2> HIDE DEF p
  <2>7. q - p \in -(Millis - 1) .. 0
    BY <1>3, <2>6
  <2> QED BY <1>5, <2>7 DEF p, q
<1> QED BY <1>2, <1>4, <1>5

\* The second of a wall clock and its milliseconds.
LEMMA WallParts ==
    ASSUME NEW w \in Int
    PROVE  /\ w \div Millis \in Int /\ w % Millis \in 0 .. Millis - 1
           /\ w = (w \div Millis) * Millis + (w % Millis)
           /\ w >= 0 => w \div Millis \in Nat
<1>1. w >= 0 => w \div Millis \in Nat
  BY StampConstants, Quotient
<1> QED BY <1>1, StampConstants

\* The fraction of a microsecond fits 32 bits, and its milliseconds are those of the
\* microsecond or one more; in the last one of a second they may be lost.
LEMMA StampFraction ==
    ASSUME NEW u \in 0 .. Micros - 1, NEW f \in ToUint32(((u + 1) * TwoTo32) \div Micros)
    PROVE  /\ f \in 0 .. TwoTo32 - 1
           /\ InMillis(f) - (u * Millis) \div Micros \in
                 IF u = Micros - 1 THEN -(Millis - 1) .. 0 ELSE 0 .. 1
           /\ u # Micros - 1 => f = ((u + 1) * TwoTo32) \div Micros
<1>0. USE StampConstants
<1>1. CASE u = Micros - 1
  <2>1. u + 1 = Micros
    BY <1>1
  <2> QED BY <1>1, <2>1, FractionOverflows
<1>2. CASE u # Micros - 1
  <2>1. u \in Nat /\ u + 1 < Micros
    BY <1>2
  <2> DEFINE g == ((u + 1) * TwoTo32) \div Micros
  <2>2. g \in 0 .. TwoTo32 - 1 /\ InMillis(g) - (u * Millis) \div Micros \in 0 .. 1
    BY <2>1, FractionNear
  <2>3. f = g
    <3> HIDE DEF g
    <3>1. ToUint32(g) = {g}
      BY <2>2 DEF ToUint32
    <3> QED BY <3>1 DEF g
  <2> HIDE DEF g
  <2> QED BY <1>2, <2>2, <2>3 DEF g
<1> QED BY <1>1, <1>2

\* The NTP times of a wall clock: a second of 32 bits, which is the clock's in the
\* first era, and the fraction of one of its microseconds.
LEMMA NtpTimeOf ==
    ASSUME NEW w \in Int, NEW u \in Microseconds(w),
           NEW ntp \in ConvertUnixToNtp(w \div Millis, u)
    PROVE  /\ u \in 0 .. Micros - 1 /\ (u * Millis) \div Micros = w % Millis
           /\ ntp.fraction \in ToUint32(((u + 1) * TwoTo32) \div Micros)
           /\ ntp.fraction \in 0 .. TwoTo32 - 1 /\ InMillis(ntp.fraction) \in Int
           /\ ntp.second \in Int
           /\ FirstEra(w) => ntp.second = (w \div Millis) + FirstEpoch
<1>0. USE StampConstants
<1>1. u \in 0 .. Micros - 1 /\ (u * Millis) \div Micros = w % Millis
  BY DEF Microseconds
<1>2. PICK f \in ToUint32(((u + 1) * TwoTo32) \div Micros) :
         ntp = [second |-> ((w \div Millis) + FirstEpoch) % TwoTo32, fraction |-> f]
  BY DEF ConvertUnixToNtp
<1>3. f \in 0 .. TwoTo32 - 1
  BY <1>1, StampFraction
<1>4. f * Millis \in Int
  BY <1>3
<1>5. InMillis(f) \in Int
  <2> DEFINE n == f * Millis
  <2>1. n \in Int
    BY <1>4
  <2> HIDE DEF n
  <2>2. n \div TwoTo32 \in Int
    BY <2>1
  <2> QED BY <2>2 DEF n, InMillis
<1>6. w \div Millis \in Int
  BY WallParts
<1>7. ((w \div Millis) + FirstEpoch) % TwoTo32 \in Int
  BY <1>6
<1>8. FirstEra(w) => ((w \div Millis) + FirstEpoch) % TwoTo32 = (w \div Millis) + FirstEpoch
  <2> SUFFICES ASSUME FirstEra(w)
               PROVE  ((w \div Millis) + FirstEpoch) % TwoTo32 = (w \div Millis) + FirstEpoch
    OBVIOUS
  <2>1. w \div Millis \in Nat
    <3>1. w >= 0
      BY DEF FirstEra
    <3> QED BY <3>1, WallParts
  <2>2. (w \div Millis) + FirstEpoch < TwoTo32
    BY DEF FirstEra
  <2> HIDE DEF FirstEra
  <2> QED BY <2>1, <2>2
<1> QED BY <1>1, <1>2, <1>3, <1>5, <1>7, <1>8

\* A stamp is the milliseconds of its second and those of its fraction.
LEMMA StampOf ==
    ASSUME NEW w \in Int, NEW u \in Microseconds(w),
           NEW ntp \in ConvertUnixToNtp(w \div Millis, u)
    PROVE  /\ ConvertNtpToStamp(ntp) \in Int
           /\ FirstEra(w) =>
                 ConvertNtpToStamp(ntp) = (w \div Millis) * Millis + InMillis(ntp.fraction)
<1>0. USE StampConstants
<1>1. /\ ntp.second \in Int /\ InMillis(ntp.fraction) \in Int /\ w \div Millis \in Int
      /\ FirstEra(w) => ntp.second = (w \div Millis) + FirstEpoch
  BY NtpTimeOf, WallParts
<1>2. CASE ntp.second = 0 /\ ntp.fraction = 0
  <2>1. ConvertNtpToStamp(ntp) = 0 /\ InMillis(0) = 0
    BY <1>2 DEF ConvertNtpToStamp, InMillis
  <2>2. CASE FirstEra(w)
    <3>0. w >= 0
      BY <2>2 DEF FirstEra
    <3>1. w \div Millis \in Nat
      BY <3>0, WallParts
    <3>2. w \div Millis = 0
      BY <1>1, <1>2, <2>2, <3>1
    <3> QED BY <1>2, <2>1, <3>2
  <2> QED BY <2>1, <2>2
<1>3. CASE ~(ntp.second = 0 /\ ntp.fraction = 0)
  <2>1. ConvertNtpToStamp(ntp) = (ntp.second - FirstEpoch) * Millis + InMillis(ntp.fraction)
    BY <1>3, Zenon DEF ConvertNtpToStamp, InMillis
  <2>2. (ntp.second - FirstEpoch) * Millis \in Int
    BY <1>1
  <2>3. FirstEra(w) => ntp.second - FirstEpoch = w \div Millis
    BY <1>1
  <2>4. ConvertNtpToStamp(ntp) \in Int
    BY <1>1, <2>1, <2>2
  <2>5. FirstEra(w) =>
           ConvertNtpToStamp(ntp) = (w \div Millis) * Millis + InMillis(ntp.fraction)
    BY <2>1, <2>3, Zenon
  <2> QED BY <2>4, <2>5
<1> QED BY <1>2, <1>3

\* A stamp made in the first era is the clock's millisecond or the next, or loses a
\* second at most in the last microsecond of one.
LEMMA StampOfNear ==
    ASSUME NEW w \in Int, FirstEra(w), NEW u \in Microseconds(w),
           NEW ntp \in ConvertUnixToNtp(w \div Millis, u)
    PROVE  ConvertNtpToStamp(ntp) - w \in IF u = Micros - 1 THEN -(Millis - 1) .. 0 ELSE 0 .. 1
<1> DEFINE s == w \div Millis
           p == w % Millis
           q == InMillis(ntp.fraction)
<1>1. ConvertNtpToStamp(ntp) = s * Millis + q
  BY StampOf
<1>2. q - p \in IF u = Micros - 1 THEN -(Millis - 1) .. 0 ELSE 0 .. 1
  BY NtpTimeOf, StampFraction
<1>3. s * Millis \in Int /\ p \in Int /\ q \in Int /\ w = s * Millis + p
  BY NtpTimeOf, WallParts, StampConstants
<1> HIDE DEF s, p, q
<1>4. ConvertNtpToStamp(ntp) - w = q - p
  BY <1>1, <1>3
<1> QED BY <1>2, <1>4

\* ConvertUnixToNtp, ConvertNtpToStamp: a stamp made later is not the earlier one,
\* unless it is made in the last microsecond of a second: otherwise a round trip, and
\* the offset it stands for, would come out negative.
THEOREM StampsFollowTheClock ==
    ASSUME NEW v \in Int, NEW w \in Int, FirstEra(v), FirstEra(w),
           NEW u \in Microseconds(v), NEW x \in Microseconds(w), x # Micros - 1,
           v < w \/ (v = w /\ u <= x),
           NEW a \in ConvertUnixToNtp(v \div Millis, u),
           NEW b \in ConvertUnixToNtp(w \div Millis, x)
    PROVE  ConvertNtpToStamp(a) <= ConvertNtpToStamp(b)
<1>0. USE StampConstants
<1>1. ConvertNtpToStamp(a) \in Int /\ ConvertNtpToStamp(b) \in Int
  BY StampOf
<1>2. CASE v < w
  <2>1. ConvertNtpToStamp(a) - v \in -(Millis - 1) .. 0 \cup 0 .. 1
    BY StampOfNear
  <2>2. ConvertNtpToStamp(b) - w \in 0 .. 1
    BY StampOfNear
  <2> QED BY <1>1, <1>2, <2>1, <2>2
<1>3. CASE v = w /\ u <= x
  <2> DEFINE f == ((u + 1) * TwoTo32) \div Micros
             g == ((x + 1) * TwoTo32) \div Micros
  <2>1. u \in 0 .. Micros - 1 /\ x \in 0 .. Micros - 1 /\ u # Micros - 1
    BY <1>3 DEF Microseconds
  <2>2. a.fraction = f /\ b.fraction = g /\ f \in 0 .. TwoTo32 - 1 /\ g \in 0 .. TwoTo32 - 1
    <3>1. /\ a.fraction \in ToUint32(f) /\ b.fraction \in ToUint32(g)
      BY NtpTimeOf
    <3> QED BY <2>1, <3>1, StampFraction
  <2>3. f <= g
    <3>1. (u + 1) * TwoTo32 \in Nat /\ (x + 1) * TwoTo32 \in Nat
      BY <2>1
    <3>2. (u + 1) * TwoTo32 <= (x + 1) * TwoTo32
      BY <1>3, <2>1, ProductMonotone
    <3> QED BY <3>1, <3>2, QuotientMonotone
  <2> HIDE DEF f, g
  <2>4. InMillis(f) <= InMillis(g)
    <3>1. f * Millis \in Nat /\ g * Millis \in Nat /\ f * Millis <= g * Millis
      BY <2>2, <2>3, ProductMonotone
    <3> QED BY <3>1, QuotientMonotone DEF InMillis
  <2>5. InMillis(f) \in Int /\ InMillis(g) \in Int
    BY <2>2, NtpTimeOf
  <2>6. /\ ConvertNtpToStamp(a) = (v \div Millis) * Millis + InMillis(f)
        /\ ConvertNtpToStamp(b) = (v \div Millis) * Millis + InMillis(g)
    BY <1>3, <2>2, StampOf
  <2>7. (v \div Millis) * Millis \in Int
    BY WallParts
  <2> QED BY <2>4, <2>5, <2>6, <2>7
<1> QED BY <1>2, <1>3

\* A stamp is an integer; in the first era it is at most a millisecond ahead of the
\* clock, and short of it by less than a second.
LEMMA StampBounds ==
    ASSUME NEW w \in Int, NEW stamp \in StampsOf(w)
    PROVE  /\ stamp \in Int
           /\ FirstEra(w) => w - (Millis - 1) <= stamp /\ stamp <= w + 1
<1>1. PICK u \in Microseconds(w) : \E ntp \in ConvertUnixToNtp(w \div Millis, u) :
         stamp = ConvertNtpToStamp(ntp)
  BY DEF StampsOf, NtpTimes
<1>2. PICK ntp \in ConvertUnixToNtp(w \div Millis, u) : stamp = ConvertNtpToStamp(ntp)
  BY <1>1
<1>3. stamp \in Int
  BY <1>2, StampOf
<1>4. ASSUME FirstEra(w) PROVE w - (Millis - 1) <= stamp /\ stamp <= w + 1
  <2>1. stamp - w \in IF u = Micros - 1 THEN -(Millis - 1) .. 0 ELSE 0 .. 1
    BY <1>2, <1>4, StampOfNear
  <2>2. -(Millis - 1) <= stamp - w /\ stamp - w <= 1
    BY <1>3, <2>1, StampConstants
  <2> QED BY <1>3, <2>2, StampConstants
<1> QED BY <1>3, <1>4

-----------------------------------------------------------------------------
(* Type correctness *)

\* What a thread starts with is typed.
LEMMA NoLocalsType == NoLocals \in Locals /\ NoLocals.slack = None
BY DEF NoLocals, Locals

\* Zero failures are within the bound.
LEMMA ZeroRetries == 0 \in 0 .. RetryMax
BY NtpAssumption

\* The updates of the local variables are typed.
LEMMA LocalsUpdate ==
    ASSUME NEW l \in Locals, NEW i \in Int, NEW j \in Int, NEW s \in Int \cup {None}
    PROVE  /\ [l EXCEPT !.orig = i, !.sent = j, !.slack = s] \in Locals
           /\ [l EXCEPT !.recv = i, !.at = j, !.slack = s] \in Locals
           /\ [l EXCEPT !.ntp = i, !.ref = j, !.slack = s] \in Locals
           /\ [l EXCEPT !.cur = i, !.at = j, !.slack = s] \in Locals
BY DEF Locals

\* The fields of the local variables.
LEMMA LocalsFields ==
    ASSUME NEW l \in Locals
    PROVE  /\ l.orig \in Int /\ l.srv \in Int /\ l.recv \in Int /\ l.ntp \in Int
           /\ l.ref \in Int /\ l.cur \in Int /\ l.sent \in Int /\ l.at \in Int
           /\ l.slack \in Int \cup {None} /\ l.buf \in Settings \cup {None}
BY DEF Locals

\* The wall clock is an integer.
LEMMA WallIsInt == ASSUME TypeInv PROVE Wall \in Int
BY NtpAssumption DEF Wall, UTC, TypeInv, TypeOK

\* What a stamp may fall short of the clock.
StampError == Millis - 1

\* The errors of stamps are numbers.
LEMMA StampErrors ==
    StampError \in Nat /\ StampSpread \in Nat /\ StampSpread = StampError + 1
BY StampConstants DEF StampError, StampSpread

\* A stamp is an integer, and near the clock in the first era.
LEMMA StampsAreInts ==
    ASSUME TypeInv, NEW stamp \in Stamps
    PROVE  /\ stamp \in Int
           /\ FirstEra(Wall) => Wall - StampError <= stamp /\ stamp <= Wall + 1
BY WallIsInt, StampBounds DEF Stamps, StampError

\* The initial state satisfies the type invariant.
LEMMA TypeInit == Init => TypeInv
<1> SUFFICES ASSUME Init PROVE TypeInv
  OBVIOUS
<1>1. info \in Settings
  BY DEF Init, Default, Settings
<1>2. pc \in [Threads -> Steps] /\ op \in [Threads -> Ops \cup {None}] /\ loc \in [Threads -> Locals]
  BY NoLocalsType DEF Init, Steps
<1>3. TypeOK
  BY <1>1, <1>2, NtpAssumption, ZeroRetries DEF Init, TypeOK
<1>4. ControlOK
  BY DEF Init, ControlOK, SetSteps
<1>5. RetriesLeft
  BY DEF Init, RetriesLeft
<1> QED BY <1>3, <1>4, <1>5 DEF TypeInv

\* Every step preserves the type invariant.
LEMMA TypeStep == TypeInv /\ [Next]_vars => TypeInv'
<1> SUFFICES ASSUME TypeInv, [Next]_vars PROVE TypeInv'
  OBVIOUS
<1> USE NtpAssumption, NoLocalsType, ZeroRetries DEF TypeInv, TypeOK, ControlOK, RetriesLeft, SetSteps, Steps, Ops,
        Settings, Default, procVars, ghostVars
<1>1. ASSUME NEW t \in Threads, NetCapabilitiesChange(t) PROVE TypeInv'
  BY <1>1 DEF NetCapabilitiesChange, Begin, Goto
<1>2. ASSUME NEW t \in Threads, RefreshNetworkTimeByTimer(t) PROVE TypeInv'
  BY <1>2 DEF RefreshNetworkTimeByTimer, Begin, Goto
<1>3. ASSUME NEW t \in Threads, UpdateStatusOn(t) PROVE TypeInv'
  BY <1>3 DEF UpdateStatusOn, Begin, Goto
<1>4. ASSUME NEW t \in Threads, UpdateStatusOff(t) PROVE TypeInv'
  BY <1>4 DEF UpdateStatusOff, Begin, Goto, SavingBesides
<1>5. CASE UpdateNITZSetTime
  BY <1>5 DEF UpdateNITZSetTime
<1>6. ASSUME NEW t \in Threads, BeginSetSystemTime(t) PROVE TypeInv'
  BY <1>6 DEF BeginSetSystemTime, Finish, AfterSetSystemTime, Goto
<1>7. ASSUME NEW t \in Threads, Send(t) PROVE TypeInv'
  <2> DEFINE sl == IF FirstEra(Wall) THEN 0 ELSE None
             l(stamp) == [loc[t] EXCEPT !.orig = stamp, !.sent = boot, !.slack = sl]
  <2>1. PICK stamp \in Stamps : loc' = [loc EXCEPT ![t] = l(stamp)]
    BY <1>7 DEF Send
  <2>2. l(stamp) \in Locals
    <3>1. loc[t] \in Locals /\ stamp \in Int /\ boot \in Int /\ sl \in Int \cup {None}
      BY StampsAreInts
    <3> HIDE NtpAssumption, NoLocalsType, ZeroRetries DEF TypeInv, TypeOK, ControlOK, RetriesLeft, SetSteps,
             Steps, Ops, Settings, Default, procVars, ghostVars
    <3> HIDE DEF sl
    <3> QED BY <3>1, LocalsUpdate
  <2> HIDE DEF l
  <2> QED BY <1>7, <2>1, <2>2 DEF Send, Goto
<1>8. ASSUME NEW t \in Threads, Serve(t) PROVE TypeInv'
  <2>1. [loc[t] EXCEPT !.srv = UTC] \in Locals
    BY DEF Locals, UTC
  <2> QED BY <1>8, <2>1 DEF Serve, Goto
<1>9. ASSUME NEW t \in Threads, RequestFails(t) PROVE TypeInv'
  <2>1. [NoLocals EXCEPT !.tries = 1] \in Locals
    BY DEF Locals
  <2> QED BY <1>9, <2>1 DEF RequestFails, Finish, AfterSetSystemTime, Goto
<1>10. ASSUME NEW t \in Threads, ReceivedMessage(t) PROVE TypeInv'
  <2> DEFINE sl == IF loc[t].slack = None \/ ~FirstEra(Wall) THEN None
                   ELSE (boot - loc[t].sent) + 1 + StampSpread
             l(stamp) == [loc[t] EXCEPT !.recv = stamp, !.at = boot, !.slack = sl]
  <2>1. PICK stamp \in Stamps : loc' = [loc EXCEPT ![t] = l(stamp)]
    BY <1>10 DEF ReceivedMessage
  <2>2. sl \in Int \cup {None}
    BY LocalsFields, StampErrors
  <2> HIDE DEF sl
  <2>3. l(stamp) \in Locals
    <3>1. loc[t] \in Locals /\ boot \in Int /\ stamp \in Int
      BY StampsAreInts
    <3> HIDE NtpAssumption, NoLocalsType, ZeroRetries DEF TypeInv, TypeOK, ControlOK, RetriesLeft, SetSteps,
             Steps, Ops, Settings, Default, procVars, ghostVars
    <3> QED BY <2>2, <3>1, LocalsUpdate
  <2> HIDE DEF l
  <2> QED BY <1>10, <2>1, <2>3 DEF ReceivedMessage, Goto
<1>11. ASSUME NEW t \in Threads, ForceRefresh(t) PROVE TypeInv'
  <2> DEFINE i == loc[t].recv + ClockOffset(loc[t].orig, loc[t].srv, loc[t].recv)
             sl == IF loc[t].slack = None THEN None ELSE loc[t].slack + 2 * (boot - loc[t].at)
             l == [NoLocals EXCEPT !.ntp = i, !.ref = boot, !.slack = sl]
  <2>1. i \in Int /\ sl \in Int \cup {None}
    BY LocalsFields DEF ClockOffset, Half
  <2>2. loc' = [loc EXCEPT ![t] = l]
    BY <1>11 DEF ForceRefresh
  <2>3. cache' \in Answers \cup {None} /\ (cache \in Answers => cache' \in Answers)
    <3>1. ASSUME cache \in Answers PROVE [cache EXCEPT !.cleared = TRUE] \in Answers
      BY <3>1 DEF Answers
    <3> QED BY <1>11, <3>1 DEF ForceRefresh
  <2> HIDE DEF i, sl
  <2>4. l \in Locals
    <3>1. NoLocals \in Locals /\ boot \in Int
      OBVIOUS
    <3> HIDE NtpAssumption, NoLocalsType, ZeroRetries DEF TypeInv, TypeOK, ControlOK, RetriesLeft, SetSteps,
             Steps, Ops, Settings, Default, procVars, ghostVars
    <3> QED BY <2>1, <3>1, LocalsUpdate
  <2> HIDE DEF l
  <2>5. TypeOK'
    BY <1>11, <2>2, <2>3, <2>4 DEF ForceRefresh, Goto
  <2>6. ControlOK'
    BY <1>11, <2>2, <2>3, <2>4 DEF ForceRefresh, Goto
  <2>7. RetriesLeft'
    BY <1>11 DEF ForceRefresh
  <2> QED BY <2>5, <2>6, <2>7
<1>12. ASSUME NEW t \in Threads, StoreResult(t) PROVE TypeInv'
  <2> DEFINE a == [time |-> loc[t].ntp, ref |-> loc[t].ref, cleared |-> FALSE,
                   slack |-> loc[t].slack]
  <2>1. a \in Answers
    BY DEF Answers, Locals
  <2>2. cache' = a
    BY <1>12 DEF StoreResult
  <2> HIDE DEF a
  <2>3. /\ pc' \in [Threads -> Steps] /\ loc' \in [Threads -> Locals] /\ pc'[t] = "read"
        /\ \A s \in Threads \ {t} : pc'[s] = pc[s] /\ loc'[s] = loc[s]
        /\ op[t] \in {"net", "timer", "on"}
    BY <1>12 DEF StoreResult, Goto
  <2>a. /\ cache' \in Answers
        /\ UNCHANGED <<boot, err, up, info, nitz, monitor, retryCount, next, file, op, calls,
                       crashes, ghostVars>>
    BY <1>12, <2>1, <2>2 DEF StoreResult
  <2> HIDE <2>1, <2>2
  <2>4. TypeOK'
    BY <2>3, <2>a
  <2>5. ControlOK'
    BY <2>3, <2>a
  <2>6. RetriesLeft'
    BY <2>a
  <2> QED BY <2>4, <2>5, <2>6
<1>13. ASSUME NEW t \in Threads, ReadResult(t) PROVE TypeInv'
  <2>1. cache \in Answers
    BY <1>13 DEF ReadResult
  <2> DEFINE sl == IF cache.cleared THEN None ELSE cache.slack
             l(i) == [NoLocals EXCEPT !.cur = i + TzOffset, !.at = boot, !.slack = sl]
  <2>2. PICK time \in {cache.time, 0}, ref \in {cache.ref, 0} :
           \/ Finish(t)
           \/ /\ Goto(t, "apply")
              /\ loc' = [loc EXCEPT ![t] = l(CurrentTimeMillis(time, ref))]
              /\ UNCHANGED op
    BY <1>13 DEF ReadResult
  <2>3. sl \in Int \cup {None} /\ CurrentTimeMillis(time, ref) \in Int
    BY <2>1 DEF Answers, CurrentTimeMillis
  <2> HIDE DEF sl
  <2>4. l(CurrentTimeMillis(time, ref)) \in Locals
    <3>1. NoLocals \in Locals /\ boot \in Int /\ CurrentTimeMillis(time, ref) + TzOffset \in Int
      BY <2>3
    <3> HIDE NtpAssumption, NoLocalsType, ZeroRetries DEF TypeInv, TypeOK, ControlOK, RetriesLeft, SetSteps,
             Steps, Ops, Settings, Default, procVars, ghostVars
    <3> QED BY <2>3, <3>1, LocalsUpdate
  <2> HIDE DEF l
  <2>5. CASE Finish(t)
    BY <1>13, <2>5 DEF ReadResult, Finish, AfterSetSystemTime, Goto
  <2>6. CASE /\ Goto(t, "apply") /\ UNCHANGED op
             /\ loc' = [loc EXCEPT ![t] = l(CurrentTimeMillis(time, ref))]
    BY <1>13, <2>4, <2>6 DEF ReadResult, Goto
  <2> QED BY <2>2, <2>5, <2>6
<1>14. ASSUME NEW t \in Threads, ApplyTime(t) PROVE TypeInv'
  <2>1. info' \in Settings
    BY <1>14 DEF ApplyTime
  <2>2. loc[t].cur \in Int /\ loc[t].slack \in Int \cup {None} /\ loc[t].at \in Int
    BY DEF Locals
  <2>3. err' \in Int /\ bound' \in Int \cup {None}
    BY <1>14, <2>2 DEF ApplyTime, UTC
  <2>4. ASSUME NEW s \in Threads
        PROVE  [loc[s] EXCEPT !.slack = None] \in Locals /\ [loc[s] EXCEPT !.slack = None].buf = loc[s].buf
    BY DEF Locals
  <2>5. loc' \in [Threads -> Locals] /\ \A s \in Threads \ {t} : loc'[s].buf = loc[s].buf
    <3>1. CASE loc' = Spoiled(t, [loc EXCEPT ![t] = NoLocals])
      BY <2>4, <3>1 DEF Spoiled
    <3>2. CASE loc' = [loc EXCEPT ![t] = NoLocals]
      BY <3>2
    <3> QED BY <1>14, <3>1, <3>2 DEF ApplyTime
  <2>6. /\ pc' \in [Threads -> Steps] /\ op' \in [Threads -> Ops \cup {None}]
        /\ pc'[t] \in {"idle", "open", "mark"}
        /\ \A s \in Threads \ {t} : pc'[s] = pc[s] /\ op'[s] = op[s]
    BY <1>14 DEF ApplyTime, AfterSetSystemTime, Goto
  <2>7. TypeOK'
    BY <1>14, <2>1, <2>3, <2>5, <2>6 DEF ApplyTime
  <2>8. ControlOK'
    BY <1>14, <2>5, <2>6 DEF ApplyTime
  <2>9. RetriesLeft'
    BY <1>14 DEF ApplyTime
  <2> QED BY <2>7, <2>8, <2>9
<1>15. ASSUME NEW t \in Threads, MarkOn(t) PROVE TypeInv'
  BY <1>15 DEF MarkOn, Goto, SavingBesides
<1>16. ASSUME NEW t \in Threads, OpenFile(t) PROVE TypeInv'
  <2>1. [loc[t] EXCEPT !.buf = info] \in Locals /\ [loc[t] EXCEPT !.buf = info].buf = info
    BY DEF Locals
  <2>2. CASE /\ file' = Unreadable /\ loc' = [loc EXCEPT ![t] = [@ EXCEPT !.buf = info]]
             /\ Goto(t, "write") /\ UNCHANGED <<op, lost>>
    <3>1. /\ loc' \in [Threads -> Locals] /\ loc'[t].buf = info
          /\ \A s \in Threads \ {t} : loc'[s] = loc[s]
      BY <2>1, <2>2
    <3>2. /\ pc' \in [Threads -> Steps] /\ pc'[t] = "write"
          /\ \A s \in Threads \ {t} : pc'[s] = pc[s]
      BY <2>2 DEF Goto
    <3> QED BY <1>16, <2>2, <3>1, <3>2 DEF OpenFile
  <2>3. CASE AfterSave(t) /\ lost' = TRUE /\ UNCHANGED file
    BY <1>16, <2>3 DEF OpenFile, AfterSave, Goto
  <2> QED BY <1>16, <2>2, <2>3 DEF OpenFile
<1>17. ASSUME NEW t \in Threads, WriteFile(t) PROVE TypeInv'
  <2>1. /\ pc' \in [Threads -> Steps] /\ pc'[t] \in {"idle", "reload"}
        /\ \A s \in Threads \ {t} : pc'[s] = pc[s]
    BY <1>17 DEF WriteFile, AfterSave, Goto
  <2>2. /\ op' \in [Threads -> Ops \cup {None}]
        /\ \A s \in Threads \ {t} : op'[s] = op[s]
    BY <1>17 DEF WriteFile, AfterSave
  <2>3. /\ loc' \in [Threads -> Locals]
        /\ \A s \in Threads \ {t} : loc'[s] = loc[s]
    BY <1>17 DEF WriteFile, AfterSave
  <2>4. file' \in Settings \cup {Unreadable} /\ lost' \in BOOLEAN
    BY <1>17 DEF WriteFile
  <2>5. UNCHANGED <<boot, err, procVars, calls, crashes, bound, raced>>
    BY <1>17 DEF WriteFile
  <2>6. TypeOK'
    BY <2>1, <2>2, <2>3, <2>4, <2>5
  <2>7. ControlOK'
    BY <2>1, <2>2, <2>3, <2>5
  <2> QED BY <2>5, <2>6, <2>7
<1>18. ASSUME NEW t \in Threads, InitUpdate(t) PROVE TypeInv'
  <2>1. CASE file = Unreadable
    <3>1. info' \in Settings
      <4>1. info' = Default
        BY <1>18, <2>1 DEF InitUpdate
      <4> HIDE NtpAssumption, NoLocalsType, ZeroRetries DEF TypeInv, TypeOK, ControlOK, RetriesLeft
      <4> QED BY <4>1
    <3>2. /\ pc' \in [Threads -> Steps] /\ op' \in [Threads -> Ops \cup {None}]
          /\ \A s \in Threads : pc'[s] \in {"idle", "open"}
      BY <1>18, <2>1 DEF InitUpdate, Goto
    <3> QED BY <1>18, <2>1, <3>1, <3>2 DEF InitUpdate
  <2>2. CASE file # Unreadable
    <3>1. info' \in Settings
      BY <1>18, <2>2 DEF InitUpdate
    <3>2. pc' \in [Threads -> Steps] /\ \A s \in Threads : pc'[s] = "idle"
      BY <1>18, <2>2 DEF InitUpdate, Running, Goto
    <3>3. up' \in BOOLEAN /\ next' \in Nat /\ monitor' = "trying" /\ retryCount' = 0
      BY <1>18, <2>2 DEF InitUpdate, Running
    <3>4. UNCHANGED <<boot, err, nitz, cache, file, op, loc, calls, crashes, ghostVars>>
      BY <1>18, <2>2 DEF InitUpdate
    <3> QED BY <3>1, <3>2, <3>3, <3>4
  <2> QED BY <2>1, <2>2
<1>19. ASSUME NEW t \in Threads, Reload(t) PROVE TypeInv'
  BY <1>19 DEF Reload, Running, Goto
<1>20. CASE MonitorNetwork
  <2>1. retryCount' \in 0 .. RetryMax
    BY <1>20 DEF MonitorNetwork
  <2>2. monitor' \in {"none", "trying", "on"}
    BY <1>20 DEF MonitorNetwork
  <2> QED BY <1>20, <2>1, <2>2 DEF MonitorNetwork
<1>21. CASE Crash
  <2>1. /\ pc' \in [Threads -> Steps] /\ op' \in [Threads -> Ops \cup {None}]
        /\ loc' \in [Threads -> Locals] /\ \A s \in Threads : pc'[s] = "idle"
    BY <1>21 DEF Crash, Fresh
  <2>2. info' \in Settings /\ retryCount' \in 0 .. RetryMax /\ crashes' \in Nat /\ nitz' \in Nat
    BY <1>21 DEF Crash, Fresh
  <2>3. TypeOK'
    BY <1>21, <2>1, <2>2 DEF Crash, Fresh
  <2>4. ControlOK'
    BY <2>1
  <2>5. RetriesLeft'
    BY <1>21 DEF Crash, Fresh
  <2> QED BY <2>3, <2>4, <2>5
<1>22. ASSUME NEW e \in Errs, SetTime(e) PROVE TypeInv'
  <2>1. ASSUME NEW s \in Threads
        PROVE  [loc[s] EXCEPT !.slack = None] \in Locals /\ [loc[s] EXCEPT !.slack = None].buf = loc[s].buf
    BY DEF Locals
  <2>2. loc' \in [Threads -> Locals] /\ \A s \in Threads : loc'[s].buf = loc[s].buf
    BY <1>22, <2>1 DEF SetTime
  <2> QED BY <1>22, <2>2 DEF SetTime
<1>23. CASE Tick
  BY <1>23 DEF Tick
<1>24. CASE UNCHANGED vars
  BY <1>24 DEF vars
<1>25. QED
  BY <1>1, <1>2, <1>3, <1>4, <1>5, <1>6, <1>7, <1>8, <1>9, <1>10, <1>11, <1>12, <1>13,
     <1>14, <1>15, <1>16, <1>17, <1>18, <1>19, <1>20, <1>21, <1>22, <1>23, <1>24
     DEF Next, Start, Step

\* Every variable of the network time update stays in its type: the exchange,
\* the cached answer, the settings and the retries of MonitorNetwork.
THEOREM NtpTypeCorrect == Spec => []TypeOK
<1>1. TypeInv => TypeOK
  BY DEF TypeInv
<1> QED BY <1>1, TypeInit, TypeStep, PTL DEF Spec

\* StampNear holds in every reachable state: whatever the clock shows, the two
\* conversions of it end at its millisecond or the next, and the overflow of the
\* fraction costs less than a second.
THEOREM StampsAreNear == Spec => []StampNear
<1>1. TypeInv => StampNear
  BY WallIsInt, StampOfNear DEF StampNear
<1> QED BY <1>1, TypeInit, TypeStep, PTL DEF Spec

-----------------------------------------------------------------------------
(* The accuracy of an update *)

\* x is off by at most half of b.
Near(x, b) == 2 * x \in -b .. b

\* What holds of a value on its way from the server to the clock, as long as
\* it is not spoiled: the request carries the wall clock of the time it was
\* sent, the server's stamp lies between that time and now, and from the
\* answer on the value is near UTC at the time it was last taken from a clock.
InFlight(t) ==
    LET l == loc[t] IN
    l.slack # None =>
        /\ pc[t] \in {"sent", "served"} =>
              /\ l.sent <= boot
              /\ (l.sent + Base + err) - StampError <= l.orig
              /\ l.orig <= (l.sent + Base + err) + 1
        /\ pc[t] = "served" => l.sent + Base <= l.srv /\ l.srv <= UTC
        /\ pc[t] = "received" =>
              /\ l.at <= boot
              /\ Near((l.recv + ClockOffset(l.orig, l.srv, l.recv)) - l.at - Base, l.slack)
        /\ pc[t] = "store" => Near(l.ntp - l.ref - Base, l.slack)
        /\ pc[t] = "apply" =>
              l.at <= boot /\ Near(l.cur - TzOffset - l.at - Base, l.slack)

CacheNear ==
    cache \in Answers /\ cache.slack # None => Near(cache.time - cache.ref - Base, cache.slack)

AccurateInv ==
    /\ \A t \in Threads : InFlight(t)
    /\ CacheNear
    /\ UpdateIsAccurate

\* The steps at which a thread holds such a value.
Flying == {"sent", "served", "received", "store", "apply"}

\* Halving and truncating loses at most one.
LEMMA HalfBounds ==
    ASSUME NEW n \in Int
    PROVE  Half(n) \in Int /\ n - 1 <= 2 * Half(n) /\ 2 * Half(n) <= n + 1
BY DEF Half

\* Near in terms of inequalities.
LEMMA NearBounds ==
    ASSUME NEW x \in Int, NEW b \in Int
    PROVE  Near(x, b) <=> -b <= 2 * x /\ 2 * x <= b
BY DEF Near

\* Symmetric delays cancel in the SNTP offset and asymmetric ones leave an
\* error of at most half the exchange, whatever the wall clock is wrong by; o
\* and c are the stamps of a request sent at s and an answer received at r, at
\* most a behind the wall clock and b ahead of it.
LEMMA OffsetAccurate ==
    ASSUME NEW s \in Int, NEW v \in Int, NEW r \in Int, NEW e \in Int, s <= v, v <= r,
           NEW a \in Nat, NEW b \in Nat, NEW d \in Nat, d = a + b,
           NEW o \in Int, NEW c \in Int,
           (s + e) - a <= o, o <= (s + e) + b, (r + e) - a <= c, c <= (r + e) + b
    PROVE  ClockOffset(o, v, c) \in Int /\ Near((c + ClockOffset(o, v, c)) - r, (r - s) + 1 + d)
<1> DEFINE n == (v - o) + (v - c)
           h == Half(n)
<1>1. h \in Int /\ n - 1 <= 2 * h /\ 2 * h <= n + 1
  BY HalfBounds
<1>2. ClockOffset(o, v, c) = h
  BY DEF ClockOffset
<1> HIDE DEF h
<1>3. (c + h) - r \in Int /\ (r - s) + 1 + d \in Int
  BY <1>1
<1>4. -((r - s) + 1 + d) <= 2 * ((c + h) - r) /\ 2 * ((c + h) - r) <= (r - s) + 1 + d
  BY <1>1
<1> QED BY <1>1, <1>2, <1>3, <1>4, NearBounds

\* A thread that keeps its place and its locals keeps its value, unless the
\* clock is set between its two stamps.
LEMMA InFlightKept ==
    ASSUME NEW s \in Threads, TypeInv, InFlight(s), boot' \in Nat, boot <= boot',
           pc'[s] = pc[s], loc'[s] = loc[s],
           err' = err \/ pc[s] \notin {"sent", "served"}
    PROVE  InFlight(s)'
<1>1. loc[s] \in Locals /\ boot \in Nat /\ Base \in Int
  BY NtpAssumption DEF TypeInv, TypeOK
<1>2. loc[s].srv \in Int /\ loc[s].sent \in Int /\ loc[s].at \in Int
  BY <1>1, LocalsFields
<1> QED BY <1>1, <1>2 DEF InFlight, UTC

\* A thread that holds no value, or a spoiled one, owes nothing.
LEMMA InFlightFree ==
    ASSUME NEW s \in Threads, pc'[s] \notin Flying \/ loc'[s].slack = None
    PROVE  InFlight(s)'
BY DEF InFlight, Flying

\* Steps that neither set the clock nor move a value.
LEMMA AccurateQuiet ==
    ASSUME TypeInv, AccurateInv, boot' \in Nat, boot <= boot', err' = err, bound' = bound,
           cache' = cache \/ cache' = None,
           \A s \in Threads : \/ pc'[s] = pc[s] /\ loc'[s] = loc[s]
                              \/ pc'[s] \notin Flying
    PROVE  AccurateInv'
<1>1. ASSUME NEW s \in Threads PROVE InFlight(s)'
  BY InFlightKept, InFlightFree DEF AccurateInv
<1>2. CacheNear'
  BY NtpAssumption DEF AccurateInv, CacheNear
<1>3. UpdateIsAccurate'
  BY DEF AccurateInv, UpdateIsAccurate
<1> QED BY <1>1, <1>2, <1>3 DEF AccurateInv

\* Every step preserves the accuracy of the values in flight and of the clock.
LEMMA AccurateStep == TypeInv /\ TypeInv' /\ AccurateInv /\ [Next]_vars => AccurateInv'
<1> SUFFICES ASSUME TypeInv, TypeInv', AccurateInv, [Next]_vars PROVE AccurateInv'
  OBVIOUS
<1>0. /\ boot \in Nat /\ boot' \in Nat /\ err \in Int /\ Base \in Int /\ TzOffset \in Int
      /\ pc \in [Threads -> Steps] /\ loc \in [Threads -> Locals]
      /\ pc' \in [Threads -> Steps] /\ loc' \in [Threads -> Locals]
      /\ cache \in Answers \cup {None}
  BY NtpAssumption DEF TypeInv, TypeOK
<1> USE DEF procVars, ghostVars
<1>1. ASSUME NEW t \in Threads, NetCapabilitiesChange(t) PROVE AccurateInv'
  BY <1>0, <1>1, AccurateQuiet DEF NetCapabilitiesChange, Begin, Goto, Flying
<1>2. ASSUME NEW t \in Threads, RefreshNetworkTimeByTimer(t) PROVE AccurateInv'
  BY <1>0, <1>2, AccurateQuiet DEF RefreshNetworkTimeByTimer, Begin, Goto, Flying
<1>3. ASSUME NEW t \in Threads, UpdateStatusOn(t) PROVE AccurateInv'
  BY <1>0, <1>3, AccurateQuiet DEF UpdateStatusOn, Begin, Goto, Flying
<1>4. ASSUME NEW t \in Threads, UpdateStatusOff(t) PROVE AccurateInv'
  BY <1>0, <1>4, AccurateQuiet DEF UpdateStatusOff, Begin, Goto, Flying
<1>5. CASE UpdateNITZSetTime
  BY <1>0, <1>5, AccurateQuiet DEF UpdateNITZSetTime
<1>6. ASSUME NEW t \in Threads, BeginSetSystemTime(t) PROVE AccurateInv'
  <2>1. pc'[t] \notin Flying
    BY <1>0, <1>6 DEF BeginSetSystemTime, Finish, AfterSetSystemTime, Goto, Flying, TypeInv,
       ControlOK, SetSteps
  <2> QED BY <1>0, <1>6, <2>1, AccurateQuiet
          DEF BeginSetSystemTime, Finish, AfterSetSystemTime, Goto
<1>7. ASSUME NEW t \in Threads, Send(t) PROVE AccurateInv'
  <2>1. UNCHANGED <<boot, err, cache, bound>>
    BY <1>7 DEF Send
  <2>2. ASSUME NEW s \in Threads PROVE InFlight(s)'
    <3>1. CASE s = t
      <4>1. PICK stamp \in Stamps :
              loc' = [loc EXCEPT ![t] =
                  [@ EXCEPT !.orig = stamp, !.sent = boot,
                            !.slack = IF FirstEra(Wall) THEN 0 ELSE None]]
        BY <1>7 DEF Send
      <4>2. /\ loc'[t].orig = stamp /\ loc'[t].sent = boot /\ pc'[t] = "sent"
            /\ loc'[t].slack # None => FirstEra(Wall)
        BY <1>0, <1>7, <4>1 DEF Send, Goto, Locals
      <4>3. CASE FirstEra(Wall)
        <5>1. /\ stamp \in Int /\ StampError \in Nat
              /\ (boot + Base + err) - StampError <= stamp /\ stamp <= (boot + Base + err) + 1
          BY <1>0, <4>1, <4>3, StampsAreInts, StampErrors DEF Wall, UTC
        <5> QED BY <1>0, <2>1, <3>1, <4>2, <5>1 DEF InFlight
      <4>4. CASE ~FirstEra(Wall)
        BY <3>1, <4>2, <4>4, InFlightFree
      <4> QED BY <4>3, <4>4
    <3>2. CASE s # t
      BY <1>0, <1>7, <2>1, <3>2, InFlightKept DEF Send, Goto, AccurateInv
    <3> QED BY <3>1, <3>2
  <2> QED BY <2>1, <2>2 DEF AccurateInv, CacheNear, UpdateIsAccurate
<1>8. ASSUME NEW t \in Threads, Serve(t) PROVE AccurateInv'
  <2>1. UNCHANGED <<boot, err, cache, bound>>
    BY <1>8 DEF Serve
  <2>2. ASSUME NEW s \in Threads PROVE InFlight(s)'
    <3>1. CASE s = t
      <4>1. /\ pc[t] = "sent" /\ pc'[t] = "served" /\ loc'[t].srv = UTC
            /\ loc'[t].orig = loc[t].orig /\ loc'[t].sent = loc[t].sent
            /\ loc'[t].slack = loc[t].slack
        BY <1>0, <1>8 DEF Serve, Goto, Locals
      <4>2. loc[t].sent \in Int
        BY <1>0, LocalsFields
      <4> QED BY <1>0, <2>1, <3>1, <4>1, <4>2 DEF InFlight, UTC, AccurateInv
    <3>2. CASE s # t
      BY <1>0, <1>8, <2>1, <3>2, InFlightKept DEF Serve, Goto, AccurateInv
    <3> QED BY <3>1, <3>2
  <2> QED BY <2>1, <2>2 DEF AccurateInv, CacheNear, UpdateIsAccurate
<1>9. ASSUME NEW t \in Threads, RequestFails(t) PROVE AccurateInv'
  <2>1. pc'[t] \notin Flying
    BY <1>0, <1>9 DEF RequestFails, Finish, AfterSetSystemTime, Goto, Flying, TypeInv,
       ControlOK, SetSteps
  <2> QED BY <1>0, <1>9, <2>1, AccurateQuiet DEF RequestFails, Finish, AfterSetSystemTime, Goto
<1>10. ASSUME NEW t \in Threads, ReceivedMessage(t) PROVE AccurateInv'
  <2>1. UNCHANGED <<boot, err, cache, bound>>
    BY <1>10 DEF ReceivedMessage
  <2>2. ASSUME NEW s \in Threads PROVE InFlight(s)'
    <3>1. CASE s = t
      <4>0. PICK stamp \in Stamps :
              loc' = [loc EXCEPT ![t] =
                  [@ EXCEPT !.recv = stamp, !.at = boot,
                            !.slack = IF loc[t].slack = None \/ ~FirstEra(Wall) THEN None
                                      ELSE (boot - loc[t].sent) + 1 + StampSpread]]
        BY <1>10 DEF ReceivedMessage
      <4>1. /\ pc[t] = "served" /\ pc'[t] = "received"
            /\ loc'[t].recv = stamp /\ loc'[t].at = boot
            /\ loc'[t].orig = loc[t].orig /\ loc'[t].srv = loc[t].srv
            /\ loc[t].slack = None \/ ~FirstEra(Wall) => loc'[t].slack = None
            /\ loc[t].slack # None /\ FirstEra(Wall) =>
                  loc'[t].slack = (boot - loc[t].sent) + 1 + StampSpread
        <5>1. pc[t] = "served" /\ pc'[t] = "received"
          BY <1>0, <1>10 DEF ReceivedMessage, Goto, TypeInv, TypeOK
        <5> DEFINE sl == IF loc[t].slack = None \/ ~FirstEra(Wall) THEN None
                         ELSE (boot - loc[t].sent) + 1 + StampSpread
        <5>2. loc \in [Threads -> Locals] /\ loc[t] \in Locals
          BY <1>0 DEF TypeInv, TypeOK
        <5>3. loc'[t] = [loc[t] EXCEPT !.recv = stamp, !.at = boot, !.slack = sl]
          BY <4>0, <5>2
        <5>4. sl = IF loc[t].slack = None \/ ~FirstEra(Wall) THEN None
                   ELSE (boot - loc[t].sent) + 1 + StampSpread
          OBVIOUS
        <5> HIDE DEF sl
        <5>5. /\ loc'[t].recv = stamp /\ loc'[t].at = boot /\ loc'[t].slack = sl
              /\ loc'[t].orig = loc[t].orig /\ loc'[t].srv = loc[t].srv
          BY <5>2, <5>3 DEF Locals
        <5> QED BY <5>1, <5>4, <5>5
      <4>2. CASE loc[t].slack # None /\ FirstEra(Wall)
        <5> DEFINE sent == loc[t].sent
                   srv == loc[t].srv
                   orig == loc[t].orig
        <5>1. sent \in Int /\ srv \in Int /\ orig \in Int
          BY <1>0, LocalsFields
        <5>2. /\ (sent + Base + err) - StampError <= orig /\ orig <= (sent + Base + err) + 1
              /\ sent + Base <= srv /\ srv <= UTC
          BY <4>1, <4>2 DEF InFlight, AccurateInv
        <5>3. /\ stamp \in Int /\ StampError \in Nat
              /\ StampSpread \in Nat /\ StampSpread = StampError + 1
              /\ (boot + Base + err) - StampError <= stamp /\ stamp <= (boot + Base + err) + 1
          BY <1>0, <4>0, <4>2, StampsAreInts, StampErrors DEF Wall, UTC
        <5> HIDE DEF sent, srv, orig
        <5> DEFINE off == ClockOffset(orig, srv, stamp)
        <5>4. /\ off \in Int
              /\ Near((stamp + off) - (boot + Base),
                      ((boot + Base) - (sent + Base)) + 1 + StampSpread)
          <6>1. /\ sent + Base \in Int /\ boot + Base \in Int
                /\ sent + Base <= srv /\ srv <= boot + Base
                /\ ((sent + Base) + err) - StampError <= orig
                /\ orig <= ((sent + Base) + err) + 1
                /\ ((boot + Base) + err) - StampError <= stamp
                /\ stamp <= ((boot + Base) + err) + 1
            BY <1>0, <5>1, <5>2, <5>3 DEF UTC
          <6> QED BY <1>0, <5>1, <5>3, <6>1, OffsetAccurate
        <5>5. /\ (stamp + off) - (boot + Base) = (stamp + off) - boot - Base
              /\ ((boot + Base) - (sent + Base)) + 1 + StampSpread = (boot - sent) + 1 + StampSpread
          BY <1>0, <5>1, <5>3, <5>4
        <5>6. Near((loc'[t].recv + ClockOffset(loc'[t].orig, loc'[t].srv, loc'[t].recv))
                     - loc'[t].at - Base, loc'[t].slack)
          BY <4>1, <4>2, <5>4, <5>5 DEF sent, srv, orig
        <5> QED BY <1>0, <2>1, <3>1, <4>1, <5>6 DEF InFlight
      <4>3. CASE loc[t].slack = None \/ ~FirstEra(Wall)
        BY <3>1, <4>1, <4>3, InFlightFree
      <4> QED BY <4>2, <4>3
    <3>2. CASE s # t
      BY <1>0, <1>10, <2>1, <3>2, InFlightKept DEF ReceivedMessage, Goto, AccurateInv
    <3> QED BY <3>1, <3>2
  <2> QED BY <2>1, <2>2 DEF AccurateInv, CacheNear, UpdateIsAccurate
<1>11. ASSUME NEW t \in Threads, ForceRefresh(t) PROVE AccurateInv'
  <2>1. UNCHANGED <<boot, err, bound>>
    BY <1>11 DEF ForceRefresh
  <2>2. ASSUME NEW s \in Threads PROVE InFlight(s)'
    <3>1. CASE s = t
      <4> DEFINE l == loc[t]
                 i == l.recv + ClockOffset(l.orig, l.srv, l.recv)
      <4>1. /\ pc[t] = "received" /\ pc'[t] = "store"
            /\ loc'[t].ntp = i /\ loc'[t].ref = boot
            /\ l.slack = None => loc'[t].slack = None
            /\ l.slack # None => loc'[t].slack = l.slack + 2 * (boot - l.at)
        BY <1>0, <1>11, NoLocalsType DEF ForceRefresh, Goto, Locals
      <4>2. l.at \in Int /\ l.slack \in Int \cup {None} /\ i \in Int
        BY <1>0, LocalsFields, HalfBounds DEF ClockOffset
      <4>3. CASE l.slack # None
        <5>1. l.at <= boot /\ Near(i - l.at - Base, l.slack)
          <6>1. InFlight(t)
            BY DEF AccurateInv
          <6>2. pc[t] = "received"
            BY <1>11 DEF ForceRefresh
          <6> QED BY <4>3, <6>1, <6>2 DEF InFlight
        <5> HIDE DEF i
        <5>2. Near(i - boot - Base, l.slack + 2 * (boot - l.at))
          BY <1>0, <4>2, <4>3, <5>1, NearBounds
        <5> QED BY <2>1, <3>1, <4>1, <4>3, <5>2 DEF InFlight
      <4>4. CASE l.slack = None
        BY <3>1, <4>1, <4>4, InFlightFree
      <4> QED BY <4>3, <4>4
    <3>2. CASE s # t
      BY <1>0, <1>11, <2>1, <3>2, InFlightKept DEF ForceRefresh, Goto, AccurateInv
    <3> QED BY <3>1, <3>2
  <2>3. CacheNear'
    <3>1. CASE cache = None
      BY <1>11, <3>1, NtpAssumption DEF ForceRefresh, CacheNear
    <3>2. CASE cache # None
      <4>1. /\ cache'.time = cache.time /\ cache'.ref = cache.ref
            /\ cache'.slack = cache.slack
        BY <1>0, <1>11, <3>2 DEF ForceRefresh, Answers
      <4> QED BY <1>0, <3>2, <4>1 DEF CacheNear, AccurateInv
    <3> QED BY <3>1, <3>2
  <2> QED BY <2>1, <2>2, <2>3 DEF AccurateInv, UpdateIsAccurate
<1>12. ASSUME NEW t \in Threads, StoreResult(t) PROVE AccurateInv'
  <2>1. UNCHANGED <<boot, err, bound>>
    BY <1>12 DEF StoreResult
  <2>2. ASSUME NEW s \in Threads PROVE InFlight(s)'
    <3>1. CASE s = t
      BY <1>0, <1>12, <3>1, InFlightFree DEF StoreResult, Goto, Flying
    <3>2. CASE s # t
      BY <1>0, <1>12, <2>1, <3>2, InFlightKept DEF StoreResult, Goto, AccurateInv
    <3> QED BY <3>1, <3>2
  <2>3. CacheNear'
    <3>1. /\ pc[t] = "store" /\ cache'.time = loc[t].ntp /\ cache'.ref = loc[t].ref
          /\ cache'.slack = loc[t].slack
      BY <1>12 DEF StoreResult
    <3> QED BY <3>1 DEF CacheNear, AccurateInv, InFlight
  <2> QED BY <2>1, <2>2, <2>3 DEF AccurateInv, UpdateIsAccurate
<1>13. ASSUME NEW t \in Threads, ReadResult(t) PROVE AccurateInv'
  <2>1. UNCHANGED <<boot, err, cache, bound>>
    BY <1>13 DEF ReadResult
  <2>2. ASSUME NEW s \in Threads PROVE InFlight(s)'
    <3>1. CASE s = t
      <4>1. CASE Finish(t)
        <5>1. pc'[t] \notin Flying
          BY <1>0, <1>13, <4>1 DEF ReadResult, Finish, AfterSetSystemTime, Goto, Flying,
             TypeInv, ControlOK, SetSteps
        <5> QED BY <3>1, <5>1, InFlightFree
      <4>2. CASE ~Finish(t)
        <5>1. cache \in Answers
          BY <1>13 DEF ReadResult, TypeInv, ControlOK
        <5> DEFINE sl == IF cache.cleared THEN None ELSE cache.slack
                   l(i) == [NoLocals EXCEPT !.cur = i + TzOffset, !.at = boot, !.slack = sl]
        <5>2. PICK time \in IF cache.cleared THEN {cache.time, 0} ELSE {cache.time},
                   ref  \in IF cache.cleared THEN {cache.ref, 0} ELSE {cache.ref} :
                Goto(t, "apply") /\ loc' = [loc EXCEPT ![t] = l(CurrentTimeMillis(time, ref))]
          BY <1>13, <4>2 DEF ReadResult
        <5>5. pc'[t] = "apply"
          BY <1>0, <5>2 DEF Goto
        <5>6. /\ loc'[t].at = boot /\ loc'[t].slack = sl
              /\ loc'[t].cur = CurrentTimeMillis(time, ref) + TzOffset
          <6>1. loc'[t] = l(CurrentTimeMillis(time, ref))
            BY <1>0, <5>2
          <6> HIDE DEF sl
          <6> QED BY <6>1, NoLocalsType DEF Locals
        <5>3. CASE cache.cleared
          <6>1. loc'[t].slack = None
            BY <5>3, <5>6
          <6> QED BY <3>1, <6>1, InFlightFree
        <5>4. CASE ~cache.cleared
          <6>1. /\ loc'[t].slack = cache.slack
                /\ loc'[t].cur = cache.time + (boot - cache.ref) + TzOffset
            BY <5>2, <5>4, <5>6 DEF CurrentTimeMillis
          <6>2. /\ cache.time \in Int /\ cache.ref \in Int /\ cache.slack \in Int \cup {None}
            BY <5>1 DEF Answers
          <6>3. CASE cache.slack # None
            <7>1. Near(cache.time - cache.ref - Base, cache.slack)
              BY <5>1, <6>3 DEF CacheNear, AccurateInv
            <7>2. (cache.time + (boot - cache.ref) + TzOffset) - TzOffset - boot - Base
                     = cache.time - cache.ref - Base
              BY <1>0, <6>2
            <7>3. Near(loc'[t].cur - TzOffset - loc'[t].at - Base, loc'[t].slack)
              BY <5>6, <6>1, <7>1, <7>2
            <7>4. loc'[t].at <= boot'
              BY <1>0, <2>1, <5>6
            <7> QED BY <3>1, <5>5, <7>3, <7>4 DEF InFlight
          <6>4. CASE cache.slack = None
            BY <3>1, <6>1, <6>4, InFlightFree
          <6> QED BY <6>3, <6>4
        <5> QED BY <5>3, <5>4
      <4> QED BY <4>1, <4>2
    <3>2. CASE s # t
      BY <1>0, <1>13, <2>1, <3>2, InFlightKept
         DEF ReadResult, Finish, AfterSetSystemTime, Goto, AccurateInv
    <3> QED BY <3>1, <3>2
  <2> QED BY <2>1, <2>2 DEF AccurateInv, CacheNear, UpdateIsAccurate
<1>14. ASSUME NEW t \in Threads, ApplyTime(t) PROVE AccurateInv'
  <2>1. UNCHANGED <<boot, cache>> /\ pc[t] = "apply" /\ pc'[t] \notin Flying
    BY <1>0, <1>14 DEF ApplyTime, AfterSetSystemTime, Goto, Flying, TypeInv, ControlOK, SetSteps
  <2>2. ASSUME NEW s \in Threads PROVE InFlight(s)'
    <3>1. CASE s = t
      BY <2>1, <3>1, InFlightFree
    <3>2. CASE s # t
      <4>1. pc'[s] = pc[s]
        BY <1>0, <1>14, <3>2 DEF ApplyTime, AfterSetSystemTime, Goto
      <4>2. CASE loc' = Spoiled(t, [loc EXCEPT ![t] = NoLocals])
        <5>1. CASE pc[s] \in {"sent", "served"}
          <6>1. loc'[s] = [loc[s] EXCEPT !.slack = None]
            BY <1>0, <3>2, <4>2, <5>1 DEF Spoiled
          <6>2. loc'[s].slack = None
            BY <1>0, <6>1 DEF Locals
          <6> QED BY <6>2, InFlightFree
        <5>2. CASE pc[s] \notin {"sent", "served"}
          <6>1. loc'[s] = loc[s]
            BY <1>0, <3>2, <4>2, <5>2 DEF Spoiled
          <6> QED BY <1>0, <2>1, <4>1, <5>2, <6>1, InFlightKept DEF AccurateInv
        <5> QED BY <5>1, <5>2
      <4>3. CASE loc' = [loc EXCEPT ![t] = NoLocals] /\ err' = err
        <5>1. loc'[s] = loc[s]
          BY <1>0, <3>2, <4>3
        <5> QED BY <1>0, <2>1, <4>1, <4>3, <5>1, InFlightKept DEF AccurateInv
      <4> QED BY <1>14, <4>2, <4>3 DEF ApplyTime
    <3> QED BY <3>1, <3>2
  <2>3. UpdateIsAccurate'
    <3> DEFINE l == loc[t]
    <3>1. CASE UNCHANGED <<err, bound>>
      BY <3>1 DEF AccurateInv, UpdateIsAccurate
    <3>2. CASE err' = l.cur - UTC /\ bound' = IF l.slack = None THEN None
                                               ELSE l.slack + 2 * (boot - l.at)
      <4>1. l.cur \in Int /\ l.at \in Int /\ l.slack \in Int \cup {None}
        BY <1>0, LocalsFields
      <4>2. CASE l.slack # None
        <5>1. l.at <= boot /\ Near(l.cur - TzOffset - l.at - Base, l.slack)
          BY <2>1, <4>2 DEF AccurateInv, InFlight
        <5>2. Near(l.cur - (boot + Base) - TzOffset, l.slack + 2 * (boot - l.at))
          BY <1>0, <4>1, <4>2, <5>1, NearBounds
        <5> QED BY <3>2, <4>2, <5>2 DEF UpdateIsAccurate, Near, UTC
      <4>3. CASE l.slack = None
        BY <3>2, <4>3 DEF UpdateIsAccurate
      <4> QED BY <4>2, <4>3
    <3> QED BY <1>14, <3>1, <3>2 DEF ApplyTime
  <2> QED BY <2>1, <2>2, <2>3 DEF AccurateInv, CacheNear
<1>15. ASSUME NEW t \in Threads, MarkOn(t) PROVE AccurateInv'
  BY <1>0, <1>15, AccurateQuiet DEF MarkOn, Goto, Flying
<1>16. ASSUME NEW t \in Threads, OpenFile(t) PROVE AccurateInv'
  <2>1. pc'[t] \notin Flying
    BY <1>0, <1>16 DEF OpenFile, AfterSave, Goto, Flying
  <2> QED BY <1>0, <1>16, <2>1, AccurateQuiet DEF OpenFile, AfterSave, Goto
<1>17. ASSUME NEW t \in Threads, WriteFile(t) PROVE AccurateInv'
  <2>1. pc'[t] \notin Flying
    BY <1>0, <1>17 DEF WriteFile, AfterSave, Goto, Flying
  <2> QED BY <1>0, <1>17, <2>1, AccurateQuiet DEF WriteFile, AfterSave, Goto
<1>18. ASSUME NEW t \in Threads, InitUpdate(t) PROVE AccurateInv'
  BY <1>0, <1>18, AccurateQuiet DEF InitUpdate, Running, Goto, Flying
<1>19. ASSUME NEW t \in Threads, Reload(t) PROVE AccurateInv'
  BY <1>0, <1>19, AccurateQuiet DEF Reload, Running, Goto, Flying
<1>20. CASE MonitorNetwork
  BY <1>0, <1>20, AccurateQuiet DEF MonitorNetwork
<1>21. CASE Crash
  BY <1>0, <1>21, AccurateQuiet DEF Crash, Fresh, Flying
<1>22. ASSUME NEW e \in Errs, SetTime(e) PROVE AccurateInv'
  <2>1. UNCHANGED <<boot, cache, pc>> /\ bound' = None
    BY <1>22 DEF SetTime
  <2>2. ASSUME NEW s \in Threads PROVE InFlight(s)'
    <3>1. CASE pc[s] \in {"sent", "served"}
      <4>1. loc'[s].slack = None
        BY <1>0, <1>22, <3>1 DEF SetTime, Locals
      <4> QED BY <4>1, InFlightFree
    <3>2. CASE pc[s] \notin {"sent", "served"}
      <4>1. loc'[s] = loc[s]
        BY <1>0, <1>22, <3>2 DEF SetTime
      <4> QED BY <1>0, <2>1, <3>2, <4>1, InFlightKept DEF AccurateInv
    <3> QED BY <3>1, <3>2
  <2> QED BY <2>1, <2>2 DEF AccurateInv, CacheNear, UpdateIsAccurate
<1>23. CASE Tick
  BY <1>0, <1>23, AccurateQuiet DEF Tick
<1>24. CASE UNCHANGED vars
  BY <1>0, <1>24, AccurateQuiet DEF vars
<1>25. QED
  BY <1>1, <1>2, <1>3, <1>4, <1>5, <1>6, <1>7, <1>8, <1>9, <1>10, <1>11, <1>12, <1>13,
     <1>14, <1>15, <1>16, <1>17, <1>18, <1>19, <1>20, <1>21, <1>22, <1>23, <1>24
     DEF Next, Start, Step

\* An update that nothing spoiled leaves the clock at UTC plus the offset of
\* the time zone, wrong by at most half the exchange and the delays of the
\* thread, for every number of threads and every server delay.
THEOREM UpdatesAreAccurate == Spec => []UpdateIsAccurate
<1>1. Init => AccurateInv
  <2>1. ASSUME Init, NEW t \in Threads PROVE InFlight(t)
    BY <2>1, NoLocalsType DEF Init, InFlight
  <2>2. Init => CacheNear /\ UpdateIsAccurate
    BY NtpAssumption DEF Init, CacheNear, UpdateIsAccurate
  <2> QED BY <2>1, <2>2 DEF AccurateInv
<1>2. AccurateInv => UpdateIsAccurate
  BY DEF AccurateInv
<1> QED BY <1>1, <1>2, TypeInit, TypeStep, AccurateStep, PTL DEF Spec

-----------------------------------------------------------------------------
(* The settings file *)

\* What a thread does and for which operation; before the service is up only
\* the thread that runs Init does anything, and the daily timer is not set.
Busy(t) ==
    /\ pc[t] = "idle" => op[t] = None
    /\ pc[t] \in {"open", "write"} => op[t] \in {"timer", "on", "off", "init"}
    /\ pc[t] = "mark" => op[t] = "on"
    /\ pc[t] = "reload" => op[t] = "init"
    /\ op[t] = "init" => ~up

Starting == ~up =>
    /\ next = None
    /\ \A t \in Threads : pc[t] # "idle" =>
          op[t] = "init" /\ pc[t] \in {"open", "write", "reload"}
    /\ \A s, t \in Threads : pc[s] # "idle" /\ pc[t] # "idle" => s = t

SaveControl == Starting /\ \A t \in Threads : Busy(t)

\* A file that cannot be read is about to be written, unless a save failed.
FileInv ==
    ~lost /\ file = Unreadable /\ (up \/ \E t \in Threads : pc[t] = "reload") =>
        \E t \in Threads : pc[t] = "write"

\* What is about to be written is the current status, unless it has changed
\* since; a file that holds another status is about to be opened.
StatusInv ==
    ~raced =>
        /\ \A t \in Threads : pc[t] = "write" => loc[t].buf.status = info.status
        /\ up /\ ~lost /\ file # Unreadable =>
              file.status = info.status \/ \E t \in Threads : pc[t] = "open"

SavedInv == SaveControl /\ FileInv /\ StatusInv

\* The steps of SetSystemTime, and the return to its caller, save nothing.
LEMMA SavedQuiet ==
    ASSUME TypeInv, SavedInv, NEW t \in Threads, pc[t] \in SetSteps,
           \A s \in Threads \ {t} : pc'[s] = pc[s] /\ op'[s] = op[s] /\ loc'[s].buf = loc[s].buf,
           \/ pc'[t] \in SetSteps /\ op'[t] = op[t]
           \/ op[t] = "net" /\ pc'[t] = "idle" /\ op'[t] = None
           \/ op[t] = "timer" /\ pc'[t] = "open" /\ op'[t] = op[t]
           \/ op[t] = "on" /\ pc'[t] = "mark" /\ op'[t] = op[t],
           UNCHANGED <<up, next, file, lost, raced>>, info'.status = info.status
    PROVE  SavedInv'
<1>1. op[t] \in {"net", "timer", "on"} /\ None # "init"
  BY NtpAssumption DEF TypeInv, ControlOK, Ops
<1>2. up
  BY DEF SavedInv, SaveControl, Starting, SetSteps
<1>3. \A s \in Threads : Busy(s)'
  BY <1>1, <1>2 DEF SavedInv, SaveControl, Busy, SetSteps
<1>4. Starting'
  BY <1>2 DEF Starting
<1>5. FileInv'
  BY <1>2 DEF SavedInv, FileInv, SetSteps
<1>6. StatusInv'
  BY <1>2 DEF SavedInv, StatusInv, SetSteps
<1> QED BY <1>3, <1>4, <1>5, <1>6 DEF SavedInv, SaveControl

\* Steps that change nothing of the threads, the settings and the file.
LEMMA SavedIdle ==
    ASSUME SavedInv, UNCHANGED <<pc, op, up, file, lost, raced>>,
           next' = next \/ up, info'.status = info.status,
           \A s \in Threads : loc'[s].buf = loc[s].buf
    PROVE  SavedInv'
BY DEF SavedInv, SaveControl, Starting, Busy, FileInv, StatusInv

\* A thread that starts an operation of SetSystemTime, on a running service.
LEMMA SavedBegin ==
    ASSUME TypeInv, SavedInv, up, NEW t \in Threads,
           NEW operation \in {"net", "timer", "on"}, Begin(t, operation, "set"),
           UNCHANGED <<up, file, info, lost, raced>>
    PROVE  SavedInv'
<1>1. /\ pc[t] = "idle" /\ pc'[t] = "set" /\ op'[t] = operation /\ loc' = loc
      /\ \A s \in Threads \ {t} : pc'[s] = pc[s] /\ op'[s] = op[s]
  BY DEF Begin, Goto, TypeInv, TypeOK
<1>2. \A s \in Threads : Busy(s)'
  BY <1>1 DEF SavedInv, SaveControl, Busy
<1>3. Starting' /\ FileInv' /\ StatusInv'
  BY <1>1 DEF SavedInv, Starting, FileInv, StatusInv
<1> QED BY <1>2, <1>3 DEF SavedInv, SaveControl

\* A change of the status marks every save in progress as overtaken, and the
\* thread that makes it goes on to save.
LEMMA SavedChange ==
    ASSUME TypeInv, SavedInv, up, NEW t \in Threads, pc[t] # "write", pc'[t] = "open",
           op'[t] \in {"on", "off"}, raced' = (raced \/ SavingBesides(t)), loc' = loc,
           \A s \in Threads \ {t} : pc'[s] = pc[s] /\ op'[s] = op[s],
           UNCHANGED <<up, file, lost>>
    PROVE  SavedInv'
<1>1. \A s \in Threads : Busy(s)'
  BY DEF SavedInv, SaveControl, Busy
<1>2. FileInv'
  BY DEF SavedInv, FileInv
<1>3. StatusInv'
  <2>1. ~raced' => \A s \in Threads : pc'[s] # "write"
    BY DEF SavingBesides
  <2> QED BY <2>1 DEF StatusInv
<1>4. Starting'
  BY DEF Starting
<1> QED BY <1>1, <1>2, <1>3, <1>4 DEF SavedInv, SaveControl

\* Every step keeps the file what the saves in progress and the settings say.
LEMMA SavedStep == TypeInv /\ SavedInv /\ [Next]_vars => SavedInv'
<1> SUFFICES ASSUME TypeInv, SavedInv, [Next]_vars PROVE SavedInv'
  OBVIOUS
<1> USE DEF procVars, ghostVars
<1>0. /\ pc \in [Threads -> Steps] /\ op \in [Threads -> Ops \cup {None}]
      /\ loc \in [Threads -> Locals] /\ info \in Settings
      /\ file \in Settings \cup {Unreadable}
      /\ \A t \in Threads : pc[t] \in SetSteps => op[t] \in {"net", "timer", "on"}
      /\ None # "init" /\ Unreadable \notin Settings
  BY NtpAssumption DEF TypeInv, TypeOK, ControlOK, Ops
<1>C. Starting /\ (\A t \in Threads : Busy(t)) /\ FileInv /\ StatusInv
  BY DEF SavedInv, SaveControl
<1>1. ASSUME NEW t \in Threads, NetCapabilitiesChange(t) PROVE SavedInv'
  BY <1>1, SavedBegin DEF NetCapabilitiesChange
<1>2. ASSUME NEW t \in Threads, RefreshNetworkTimeByTimer(t) PROVE SavedInv'
  <2>1. up
    BY <1>2, <1>C DEF RefreshNetworkTimeByTimer, Starting
  <2>2. CASE CheckStatus
    BY <1>2, <2>1, <2>2, SavedBegin DEF RefreshNetworkTimeByTimer
  <2>3. CASE ~CheckStatus
    BY <1>2, <2>1, <2>3, SavedIdle DEF RefreshNetworkTimeByTimer
  <2> QED BY <2>2, <2>3
<1>3. ASSUME NEW t \in Threads, UpdateStatusOn(t) PROVE SavedInv'
  BY <1>3, SavedBegin DEF UpdateStatusOn
<1>4. ASSUME NEW t \in Threads, UpdateStatusOff(t) PROVE SavedInv'
  BY <1>0, <1>4, SavedChange DEF UpdateStatusOff, Begin, Goto
<1>5. CASE UpdateNITZSetTime \/ MonitorNetwork \/ Tick \/ UNCHANGED vars
  BY <1>5, SavedIdle DEF UpdateNITZSetTime, MonitorNetwork, Tick, vars
<1>6. ASSUME NEW t \in Threads,
             BeginSetSystemTime(t) \/ Send(t) \/ Serve(t) \/ RequestFails(t) \/ ReceivedMessage(t)
             \/ ForceRefresh(t) \/ StoreResult(t) \/ ReadResult(t)
      PROVE  SavedInv'
  <2>1. pc[t] \in SetSteps
    BY <1>6 DEF BeginSetSystemTime, Send, Serve, RequestFails, ReceivedMessage, ForceRefresh,
       StoreResult, ReadResult, SetSteps
  <2>2. \A s \in Threads \ {t} : pc'[s] = pc[s] /\ op'[s] = op[s] /\ loc'[s] = loc[s]
    BY <1>0, <1>6 DEF BeginSetSystemTime, Send, Serve, RequestFails, ReceivedMessage,
       ForceRefresh, StoreResult, ReadResult, Finish, AfterSetSystemTime, Goto
  <2>3. \/ pc'[t] \in SetSteps /\ op'[t] = op[t]
        \/ op[t] = "net" /\ pc'[t] = "idle" /\ op'[t] = None
        \/ op[t] = "timer" /\ pc'[t] = "open" /\ op'[t] = op[t]
        \/ op[t] = "on" /\ pc'[t] = "mark" /\ op'[t] = op[t]
    BY <1>0, <1>6, <2>1 DEF BeginSetSystemTime, Send, Serve, RequestFails, ReceivedMessage,
       ForceRefresh, StoreResult, ReadResult, Finish, AfterSetSystemTime, Goto, SetSteps
  <2>4. UNCHANGED <<up, next, file, lost, raced, info>>
    BY <1>6 DEF BeginSetSystemTime, Send, Serve, RequestFails, ReceivedMessage, ForceRefresh,
       StoreResult, ReadResult
  <2> QED BY <2>1, <2>2, <2>3, <2>4, SavedQuiet
<1>7. ASSUME NEW t \in Threads, ApplyTime(t) PROVE SavedInv'
  <2>1. pc[t] \in SetSteps
    BY <1>7 DEF ApplyTime, SetSteps
  <2>2. \A s \in Threads \ {t} : pc'[s] = pc[s] /\ op'[s] = op[s]
    BY <1>0, <1>7 DEF ApplyTime, AfterSetSystemTime, Goto
  <2>3. \A s \in Threads \ {t} : loc'[s].buf = loc[s].buf
    BY <1>0, <1>7 DEF ApplyTime, Spoiled, Locals
  <2>4. \/ op[t] = "net" /\ pc'[t] = "idle" /\ op'[t] = None
        \/ op[t] = "timer" /\ pc'[t] = "open" /\ op'[t] = op[t]
        \/ op[t] = "on" /\ pc'[t] = "mark" /\ op'[t] = op[t]
    BY <1>0, <1>7, <2>1 DEF ApplyTime, AfterSetSystemTime, Goto
  <2>5. UNCHANGED <<up, next, file, lost, raced>> /\ info'.status = info.status
    BY <1>0, <1>7 DEF ApplyTime, Settings
  <2> QED BY <2>1, <2>2, <2>3, <2>4, <2>5, SavedQuiet
<1>8. ASSUME NEW t \in Threads, MarkOn(t) PROVE SavedInv'
  <2>1. pc[t] = "mark" /\ op[t] = "on" /\ up
    BY <1>8, <1>C DEF MarkOn, Busy, Starting
  <2> QED BY <1>0, <1>8, <2>1, SavedChange DEF MarkOn, Goto
<1>9. ASSUME NEW t \in Threads, OpenFile(t) PROVE SavedInv'
  <2>0. /\ pc[t] = "open" /\ UNCHANGED <<up, next, info, raced>>
        /\ \A s \in Threads \ {t} : pc'[s] = pc[s] /\ op'[s] = op[s] /\ loc'[s] = loc[s]
    BY <1>0, <1>9 DEF OpenFile, AfterSave, Goto
  <2>1. CASE /\ file' = Unreadable
             /\ loc' = [loc EXCEPT ![t] = [@ EXCEPT !.buf = info]]
             /\ Goto(t, "write")
             /\ UNCHANGED <<op, lost>>
    <3>1. pc'[t] = "write" /\ op'[t] = op[t] /\ loc'[t].buf = info
      BY <1>0, <2>1 DEF Goto, Locals
    <3>2. \A s \in Threads : Busy(s)'
      BY <1>C, <2>0, <3>1 DEF Busy
    <3>3. Starting'
      BY <1>C, <2>0, <3>1 DEF Starting
    <3>4. FileInv'
      BY <3>1 DEF FileInv
    <3>5. StatusInv'
      BY <1>C, <2>0, <2>1, <3>1 DEF StatusInv
    <3> QED BY <3>2, <3>3, <3>4, <3>5 DEF SavedInv, SaveControl
  <2>2. CASE AfterSave(t) /\ lost' = TRUE /\ UNCHANGED file
    <3>1. \/ op[t] = "init" /\ pc'[t] = "reload" /\ op'[t] = op[t]
          \/ op[t] # "init" /\ pc'[t] = "idle" /\ op'[t] = None
      BY <1>0, <2>2 DEF AfterSave, Goto
    <3>2. \A s \in Threads : Busy(s)'
      BY <1>0, <1>C, <2>0, <3>1 DEF Busy
    <3>3. Starting'
      BY <1>C, <2>0, <3>1 DEF Starting
    <3>4. FileInv'
      BY <2>2 DEF FileInv
    <3>5. StatusInv'
      BY <1>C, <2>0, <2>2, <3>1 DEF StatusInv
    <3> QED BY <3>2, <3>3, <3>4, <3>5 DEF SavedInv, SaveControl
  <2> QED BY <1>9, <2>1, <2>2 DEF OpenFile
<1>10. ASSUME NEW t \in Threads, WriteFile(t) PROVE SavedInv'
  <2>0. /\ pc[t] = "write" /\ UNCHANGED <<up, next, info, raced>>
        /\ \A s \in Threads \ {t} : pc'[s] = pc[s] /\ op'[s] = op[s] /\ loc'[s] = loc[s]
        /\ loc[t].buf \in Settings
    BY <1>0, <1>10 DEF WriteFile, AfterSave, Goto, TypeInv, ControlOK
  <2>1. \/ op[t] = "init" /\ pc'[t] = "reload" /\ op'[t] = op[t]
        \/ op[t] # "init" /\ pc'[t] = "idle" /\ op'[t] = None
    BY <1>0, <1>10 DEF WriteFile, AfterSave, Goto
  <2>2. \/ file' = loc[t].buf /\ lost' = lost
        \/ lost' = TRUE /\ file' = file
    BY <1>10 DEF WriteFile
  <2>3. \A s \in Threads : Busy(s)'
    BY <1>0, <1>C, <2>0, <2>1 DEF Busy
  <2>4. Starting'
    BY <1>C, <2>0, <2>1 DEF Starting
  <2>5. FileInv'
    BY <1>0, <2>0, <2>2 DEF FileInv
  <2>6. StatusInv'
    BY <1>C, <2>0, <2>1, <2>2 DEF StatusInv
  <2> QED BY <2>3, <2>4, <2>5, <2>6 DEF SavedInv, SaveControl
<1>11. ASSUME NEW t \in Threads, InitUpdate(t) PROVE SavedInv'
  <2>0. ~up /\ (\A s \in Threads : pc[s] = "idle") /\ UNCHANGED <<file, loc, lost, raced>>
    BY <1>11 DEF InitUpdate
  <2>1. CASE file = Unreadable
    <3>1. /\ pc'[t] = "open" /\ op'[t] = "init" /\ UNCHANGED <<up, next>>
          /\ \A s \in Threads \ {t} : pc'[s] = pc[s] /\ op'[s] = op[s]
      BY <1>0, <1>11, <2>1 DEF InitUpdate, Goto
    <3>2. \A s \in Threads : Busy(s)'
      BY <1>C, <2>0, <3>1 DEF Busy
    <3>3. Starting'
      BY <1>C, <2>0, <3>1 DEF Starting
    <3>4. FileInv' /\ StatusInv'
      BY <2>0, <3>1 DEF FileInv, StatusInv
    <3> QED BY <3>2, <3>3, <3>4 DEF SavedInv, SaveControl
  <2>2. CASE file # Unreadable
    <3>1. up' /\ info' = file /\ op' = op /\ \A s \in Threads : pc'[s] = "idle"
      BY <1>0, <1>11, <2>0, <2>2 DEF InitUpdate, Running, Goto
    <3>2. \A s \in Threads : op[s] = None
      BY <1>C, <2>0 DEF Busy
    <3>3. \A s \in Threads : Busy(s)'
      BY <1>0, <3>1, <3>2 DEF Busy
    <3>4. Starting' /\ FileInv' /\ StatusInv'
      BY <2>0, <2>2, <3>1 DEF Starting, FileInv, StatusInv
    <3> QED BY <3>3, <3>4 DEF SavedInv, SaveControl
  <2> QED BY <2>1, <2>2
<1>12. ASSUME NEW t \in Threads, Reload(t) PROVE SavedInv'
  <2>1. pc[t] = "reload" /\ ~up /\ \A s \in Threads \ {t} : pc[s] = "idle" /\ op[s] = None
    BY <1>12, <1>C DEF Reload, Busy, Starting
  <2>2. /\ up' /\ UNCHANGED <<file, loc, lost, raced>> /\ \A s \in Threads : pc'[s] = "idle"
        /\ \A s \in Threads : op'[s] = None
        /\ info' = IF file = Unreadable THEN info ELSE file
    BY <1>0, <1>12, <2>1 DEF Reload, Running, Goto
  <2>3. ~lost => file # Unreadable
    BY <1>C, <2>1 DEF FileInv
  <2>4. \A s \in Threads : Busy(s)'
    BY <1>0, <2>2 DEF Busy
  <2>5. Starting' /\ FileInv' /\ StatusInv'
    BY <2>2, <2>3 DEF Starting, FileInv, StatusInv
  <2> QED BY <2>4, <2>5 DEF SavedInv, SaveControl
<1>13. CASE Crash
  <2>1. /\ ~up' /\ next' = None
        /\ \A s \in Threads : pc'[s] = "idle" /\ op'[s] = None
    BY <1>13 DEF Crash, Fresh
  <2>2. \A s \in Threads : Busy(s)'
    BY <2>1 DEF Busy
  <2>3. Starting' /\ FileInv' /\ StatusInv'
    BY <2>1 DEF Starting, FileInv, StatusInv
  <2> QED BY <2>2, <2>3 DEF SavedInv, SaveControl
<1>14. ASSUME NEW e \in Errs, SetTime(e) PROVE SavedInv'
  <2>1. \A s \in Threads : loc'[s].buf = loc[s].buf
    BY <1>0, <1>14 DEF SetTime, Locals
  <2> QED BY <1>14, <2>1, SavedIdle DEF SetTime
<1> QED
  BY <1>1, <1>2, <1>3, <1>4, <1>5, <1>6, <1>7, <1>8, <1>9, <1>10, <1>11, <1>12, <1>13, <1>14
  DEF Next, Start, Step

\* SavedSettings in every reachable state, for any number of threads and
\* crashes: SaveAutoTimeInfoToFile leaves a file that can be read and holds
\* the status UpdateStatusOn and UpdateStatusOff set, wherever the process was
\* killed; only a save that failed, or one a change overtook, breaks it.
THEOREM SettingsAreSaved == Spec => []SavedSettings
<1>1. Init => SavedInv
  BY DEF Init, SavedInv, SaveControl, Starting, Busy, FileInv, StatusInv
<1>2. TypeInv /\ SavedInv => SavedSettings
  <2> SUFFICES ASSUME TypeInv, SavedInv, up, ~lost, \A t \in Threads : op[t] \in {None, "net"}
               PROVE  file # Unreadable /\ (raced \/ file.status = info.status)
    BY DEF SavedSettings
  <2>1. None \notin {"timer", "on", "off", "init"}
    BY NtpAssumption DEF Ops
  <2>2. \A t \in Threads : pc[t] \notin {"open", "write"}
    BY <2>1 DEF SavedInv, SaveControl, Busy
  <2> QED BY <2>2 DEF SavedInv, FileInv, StatusInv
<1> QED BY <1>1, <1>2, TypeInit, TypeStep, SavedStep, PTL DEF Spec
-----------------------------------------------------------------------------
(* The time of the radio network *)

\* The stored time lies ahead of the clock by no more than the eight hours that
\* were added to it.
NitzInv ==
    /\ boot <= MaxTime
    /\ nitz # 0 => EightHours <= nitz /\ nitz <= boot + EightHours

\* Remainders of numbers within one modulus of zero.
LEMMA SmallRemainder ==
    ASSUME NEW w \in Nat \ {0}, NEW x \in Int, -w < x, x < w
    PROVE  x % w = IF x >= 0 THEN x ELSE x + w
OBVIOUS

\* The unsigned comparison asks whether the time came between eight hours and a
\* day and eight hours ago.
LEMMA NitzWindow ==
    ASSUME TypeInv, NitzInv
    PROVE  IsNITZTimeInvalid <=> nitz # 0 /\ NitzAge \in EightHours .. EightHours + Day - 1
<1>1. /\ boot \in Nat /\ nitz \in Nat /\ Word \in Nat \ {0} /\ EightHours \in Nat /\ Day \in Nat \ {0}
      /\ EightHours + Day <= Word /\ boot < Word
  BY NtpAssumption DEF TypeInv, TypeOK, NitzInv
<1>2. CASE nitz = 0
  BY <1>2 DEF IsNITZTimeInvalid
<1>3. CASE nitz # 0
  <2> DEFINE x == boot - nitz
  <2>1. x \in Int /\ -Word < x /\ x < Word /\ -EightHours <= x
    BY <1>1, <1>3 DEF NitzInv
  <2>2. x % Word = IF x >= 0 THEN x ELSE x + Word
    BY <1>1, <2>1, SmallRemainder
  <2>3. IsNITZTimeInvalid <=> x % Word < Day
    BY <1>3 DEF IsNITZTimeInvalid
  <2>4. NitzAge = x + EightHours
    BY <1>1 DEF NitzAge
  <2> HIDE DEF x
  <2>5. x % Word < Day <=> x \in 0 .. Day - 1
    BY <1>1, <2>1, <2>2
  <2>6. x + EightHours \in EightHours .. EightHours + Day - 1 <=> x \in 0 .. Day - 1
    BY <1>1, <2>1
  <2> QED BY <1>3, <2>3, <2>4, <2>5, <2>6
<1> QED BY <1>2, <1>3

\* Every step keeps the stored time within eight hours of the clock.
LEMMA NitzStep == TypeInv /\ NitzInv /\ [Next]_vars => NitzInv'
<1> SUFFICES ASSUME TypeInv, NitzInv, [Next]_vars PROVE NitzInv'
  OBVIOUS
<1>0. boot \in Nat /\ nitz \in Nat /\ EightHours \in Nat /\ MaxTime \in Nat
  BY NtpAssumption DEF TypeInv, TypeOK
<1> USE DEF procVars
<1>1. CASE UpdateNITZSetTime
  BY <1>0, <1>1 DEF UpdateNITZSetTime, NitzInv
<1>2. CASE Crash
  BY <1>0, <1>2 DEF Crash, Fresh, NitzInv
<1>3. CASE Tick
  BY <1>0, <1>3 DEF Tick, NitzInv
<1>4. ASSUME UNCHANGED <<boot, nitz>> PROVE NitzInv'
  BY <1>4 DEF NitzInv
<1>5. ASSUME NEW t \in Threads, Start(t) \/ Serve(t) PROVE UNCHANGED <<boot, nitz>>
  BY <1>5 DEF Start, InitUpdate, NetCapabilitiesChange, RefreshNetworkTimeByTimer,
     UpdateStatusOn, UpdateStatusOff, Serve
<1>6. ASSUME NEW t \in Threads, Step(t) PROVE UNCHANGED <<boot, nitz>>
  <2>1. CASE Send(t) \/ ReceivedMessage(t) \/ ForceRefresh(t) \/ ReadResult(t)
    BY <2>1, Zenon DEF Send, ReceivedMessage, ForceRefresh, ReadResult
  <2>2. CASE BeginSetSystemTime(t) \/ RequestFails(t) \/ StoreResult(t) \/ ApplyTime(t)
             \/ MarkOn(t)
    BY <2>2 DEF BeginSetSystemTime, RequestFails, StoreResult, ApplyTime, MarkOn
  <2>3. CASE OpenFile(t) \/ WriteFile(t) \/ Reload(t)
    BY <2>3 DEF OpenFile, WriteFile, Reload
  <2> QED BY <1>6, <2>1, <2>2, <2>3 DEF Step
<1>7. MonitorNetwork \/ (\E e \in Errs : SetTime(e)) \/ UNCHANGED vars => UNCHANGED <<boot, nitz>>
  BY DEF MonitorNetwork, SetTime, vars
<1> QED BY <1>1, <1>2, <1>3, <1>4, <1>5, <1>6, <1>7 DEF Next

\* A thread leaves the start of SetSystemTime by its first step or in a crash.
LEMMA SetLeft ==
    ASSUME TypeInv, Next, NEW t \in Threads, pc[t] = "set", pc'[t] # "set"
    PROVE  BeginSetSystemTime(t) \/ (Crash /\ pc'[t] = "idle")
<1>0. pc \in [Threads -> Steps]
  BY DEF TypeInv, TypeOK
<1>1. ASSUME NEW s \in Threads, NEW step, Goto(s, step), pc[s] # "set" PROVE FALSE
  BY <1>0, <1>1 DEF Goto
<1>2. pc' # pc
  OBVIOUS
<1>3. ASSUME NEW s \in Threads, Start(s) \/ Serve(s) PROVE FALSE
  <2>1. CASE InitUpdate(s)
    BY <2>1 DEF InitUpdate
  <2>2. CASE NetCapabilitiesChange(s) \/ UpdateStatusOn(s) \/ UpdateStatusOff(s)
    BY <1>1, <2>2 DEF NetCapabilitiesChange, UpdateStatusOn, UpdateStatusOff, Begin
  <2>3. CASE RefreshNetworkTimeByTimer(s)
    BY <1>1, <1>2, <2>3 DEF RefreshNetworkTimeByTimer, Begin
  <2>4. CASE Serve(s)
    BY <1>1, <2>4 DEF Serve
  <2> QED BY <1>3, <2>1, <2>2, <2>3, <2>4 DEF Start
<1>4. ASSUME NEW s \in Threads, Step(s) PROVE BeginSetSystemTime(t)
  <2>1. CASE BeginSetSystemTime(s)
    <3>1. CASE s = t
      BY <2>1, <3>1
    <3>2. CASE s # t
      BY <1>0, <2>1, <3>2 DEF BeginSetSystemTime, Finish, AfterSetSystemTime, Goto
    <3> QED BY <3>1, <3>2
  <2>2. CASE Send(s) \/ ReceivedMessage(s) \/ ForceRefresh(s)
    <3>1. pc[s] \in {"request", "served", "received"} /\ \E step : Goto(s, step)
      BY <2>2, Zenon DEF Send, ReceivedMessage, ForceRefresh
    <3> QED BY <1>1, <3>1
  <2>3. CASE RequestFails(s) \/ StoreResult(s) \/ ReadResult(s)
    <3>1. pc[s] \in {"request", "sent", "served", "store", "read"} /\ \E step : Goto(s, step)
      BY <2>3, Zenon DEF RequestFails, StoreResult, ReadResult, Finish, AfterSetSystemTime
    <3> QED BY <1>1, <3>1
  <2>4. CASE ApplyTime(s) \/ MarkOn(s) \/ OpenFile(s) \/ WriteFile(s) \/ Reload(s)
    BY <1>1, <2>4 DEF ApplyTime, MarkOn, OpenFile, WriteFile, Reload, AfterSetSystemTime,
       AfterSave, Running
  <2> QED BY <1>4, <2>1, <2>2, <2>3, <2>4 DEF Step
<1>5. UpdateNITZSetTime \/ MonitorNetwork \/ (\E e \in Errs : SetTime(e)) \/ Tick => FALSE
  BY <1>2 DEF UpdateNITZSetTime, MonitorNetwork, SetTime, Tick
<1>6. CASE Crash
  BY <1>6 DEF Crash, Fresh
<1> QED BY <1>3, <1>4, <1>5, <1>6 DEF Next

\* NitzRespected holds of every step of every behaviour: an update gives way to
\* the time of the radio network for one day, from eight hours after it came.
THEOREM NitzIsRespected == Spec => NitzRespected
<1> DEFINE Trusted == nitz # 0 /\ NitzAge \in EightHours .. EightHours + Day - 1
           Respect == \A t \in Threads : pc[t] = "set" =>
                          /\ pc'[t] = "request" => ~Trusted
                          /\ pc'[t] \notin {"set", "request"} => Trusted \/ ~up'
<1>1. Init => NitzInv
  BY NtpAssumption DEF Init, NitzInv
<1>2. TypeInv /\ NitzInv /\ [Next]_vars => [Respect]_vars
  <2> SUFFICES ASSUME TypeInv, NitzInv, Next, NEW t \in Threads, pc[t] = "set", pc'[t] # "set"
               PROVE  /\ pc'[t] = "request" => ~Trusted
                      /\ pc'[t] \notin {"set", "request"} => Trusted \/ ~up'
    OBVIOUS
  <2>1. CASE BeginSetSystemTime(t)
    <3>1. IsNITZTimeInvalid <=> Trusted
      BY NitzWindow
    <3>2. pc \in [Threads -> Steps] /\ op[t] \in {"net", "timer", "on"}
      BY DEF TypeInv, TypeOK, ControlOK, SetSteps
    <3>3. IsNITZTimeInvalid => pc'[t] # "request"
      BY <2>1, <3>2 DEF BeginSetSystemTime, Finish, AfterSetSystemTime, Goto
    <3>4. ~IsNITZTimeInvalid => pc'[t] = "request"
      BY <2>1, <3>2 DEF BeginSetSystemTime, Goto
    <3> QED BY <3>1, <3>3, <3>4
  <2>2. CASE Crash /\ pc'[t] = "idle"
    BY <2>2 DEF Crash, Fresh
  <2> QED BY <2>1, <2>2, SetLeft
<1>3. Spec => [][Respect]_vars
  BY <1>1, <1>2, TypeInit, TypeStep, NitzStep, PTL DEF Spec
<1> QED BY <1>3 DEF NitzRespected

=============================================================================
