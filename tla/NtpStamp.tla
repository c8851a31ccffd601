------------------------------ MODULE NtpStamp -------------------------------
(***************************************************************************)
(* The stamps of sntp_client.cpp: ConvertUnixToNtp makes an NTP time, a    *)
(* second since 1900 and a binary fraction of 32 bits each, of what        *)
(* gettimeofday returns, and ConvertNtpToStamp makes milliseconds since    *)
(* 1970 of it.  The product of doubles in between truncates to the same    *)
(* integer as the exact one for each of the million microseconds.          *)
(***************************************************************************)
EXTENDS Integers

CONSTANTS
    Micros,       \* microseconds in a second
    Millis,       \* MILLISECOND_TO_SECOND
    TwoTo32,      \* FRACTION_TO_SECOND, and the range of uint32_t
    FirstEpoch    \* SECONDS_SINCE_FIRST_EPOCH

ASSUME StampAssumption ==
    /\ Micros \in Nat \ {0} /\ Millis \in 1 .. Micros
    /\ TwoTo32 \in Nat /\ Micros <= TwoTo32
    /\ FirstEpoch \in Nat

\* The cast of a double that uint32_t cannot hold: it wraps or saturates.
ToUint32(x) == IF x < TwoTo32 THEN {x} ELSE {x % TwoTo32, TwoTo32 - 1}

\* Mutant: the fraction of the microsecond that has begun, not of the next.
ConvertWithoutCarry(s, u) ==
    {[second |-> (s + FirstEpoch) % TwoTo32, fraction |-> f] :
        f \in ToUint32((u * TwoTo32) \div Micros)}

\* The fraction is that of the next microsecond, which keeps the truncation on the
\* way back from losing a millisecond.
ConvertUnixToNtp(s, u) ==
    {[second |-> (s + FirstEpoch) % TwoTo32, fraction |-> f] :
        f \in ToUint32(((u + 1) * TwoTo32) \div Micros)}

\* With an unsigned long of 64 bits the difference of the seconds wraps to a
\* negative result when second has wrapped.
ConvertNtpToStamp(ntp) ==
    IF ntp.second = 0 /\ ntp.fraction = 0 THEN 0
    ELSE (ntp.second - FirstEpoch) * Millis + (ntp.fraction * Millis) \div TwoTo32

-----------------------------------------------------------------------------
(* A wall clock in milliseconds *)

\* The microseconds of its second at which it shows wall.
Microseconds(wall) == {u \in 0 .. Micros - 1 : (u * Millis) \div Micros = wall % Millis}

\* The NTP times that gettimeofday may stand for meanwhile, and their stamps.
NtpTimes(wall) == UNION {ConvertUnixToNtp(wall \div Millis, u) : u \in Microseconds(wall)}
StampsOf(wall) == {ConvertNtpToStamp(ntp) : ntp \in NtpTimes(wall)}

\* The years from 1970 until second overflows, in February 2036.
FirstEra(wall) == wall >= 0 /\ (wall \div Millis) + FirstEpoch < TwoTo32
=============================================================================
