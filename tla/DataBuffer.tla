------------------------------ MODULE DataBuffer ------------------------------
(***************************************************************************)
(* The length and the capacity of a cpptools::Data (cpp_class_data.cpp):   *)
(* the buffer of a UDP session, of a DNS query and of the test servers.    *)
(* Its bytes are left out; what matters is that they fit.  The code        *)
(* computes some sizes too small: the calls that meet such a size are told *)
(* from the others by the history variable strained, and after a call that *)
(* did run out of the allocation no other is defined.                      *)
(*                                                                         *)
(* A call that finds no memory to grow throws before it changes anything,  *)
(* which is a stutter; a buffer that cannot shrink stays as it is.  An     *)
(* operator named X_... is X with a plausible slip; no specification uses  *)
(* it.                                                                     *)
(***************************************************************************)
EXTENDS Integers

CONSTANTS
    Lengths,    \* lengths and capacities that callers pass
    MaxLen,     \* bound: length of the data
    MaxAppend   \* bound: appends and copies between two other calls

DefaultCapacity == 4096
Threshold == 10

ASSUME LengthsAssumption ==
    /\ Lengths \subseteq 0 .. MaxLen /\ MaxLen \in 0 .. 2^20
    /\ MaxAppend \in Nat

VARIABLES
    dataLen,      \* _data_len
    buffSize,     \* _buff_size, the size of the allocation
    ensured,      \* _ensured_buff_size
    coefficient,  \* _coefficient
    appends,      \* appends and copies since another call
    written,      \* history: bytes the last call wrote, from the start
    strained      \* history: the last call met a size that is computed wrong

vars == <<dataLen, buffSize, ensured, coefficient, appends, written, strained>>

-----------------------------------------------------------------------------
(* Sizes.                                                                  *)

\* The highest bit of a length above the default capacity.
Msb(n) == CHOOSE k \in 12 .. 20 : 2^k <= n /\ n < 2^(k + 1)

\* _appropriate_buff_size() of a length above 0, on a machine with 64-bit
\* words.  It counts leading zeros in steps of two, adds where the usual
\* algorithm subtracts, and shifts the int 1 by the result plus one, beyond
\* its width: the hardware takes the distance modulo 32.
AppropriateSize(length) ==
    IF length <= DefaultCapacity THEN DefaultCapacity
    ELSE IF length <= ensured THEN ensured
    ELSE 2^((2 + 2 * ((63 - Msb(length)) \div 2)) % 32)

\* An argument of 0 stands for the length of the data.
SizeFor(length) == AppropriateSize(IF length = 0 THEN dataLen ELSE length)

\* The largest length that gets room without having been ensured: one bit
\* more, and the shift goes down where it should go up.
MaxSized == 65536

\* Too long for the size that is computed for it.
TooLong(length) == length > MaxSized /\ length > ensured

\* The constructors: an empty buffer, or a copy of so many bytes.
Init ==
    /\ dataLen \in Lengths \cup {0}
    /\ ensured = DefaultCapacity /\ strained = TooLong(dataLen)
    /\ buffSize = AppropriateSize(dataLen)
    /\ coefficient = 0 /\ appends = 0 /\ written = dataLen

\* _resize(): to the appropriate size of what it is given.
Resize(length) == buffSize' = SizeFor(length) /\ coefficient' = 0

CheckCoefficient_OfOldLength(length) ==
    LET size  == AppropriateSize(dataLen)
        count == coefficient + (IF size < buffSize THEN 1 ELSE 0)
    IN  IF count > Threshold
        THEN buffSize' \in {size, buffSize} /\ coefficient' = 0
        ELSE coefficient' = count /\ UNCHANGED buffSize

\* _check_coefficient() when the data has the given length: the buffer
\* shrinks at the eleventh call that finds it too large, if realloc() can.
CheckCoefficient(length) ==
    LET size  == AppropriateSize(length)
        count == coefficient + (IF size < buffSize THEN 1 ELSE 0)
    IN  IF count > Threshold
        THEN buffSize' \in {size, buffSize} /\ coefficient' = 0
        ELSE coefficient' = count /\ UNCHANGED buffSize

-----------------------------------------------------------------------------
(* The calls.                                                              *)

\* The new length, the end of what the call writes, and whether it met a size
\* that is wrong although the length is not too long.
PutLen(length, end, strain) ==
    /\ length <= MaxLen
    /\ dataLen' = length /\ written' = end
    /\ strained' = (strain \/ TooLong(length))
    /\ UNCHANGED ensured

SetLen(length, end) == PutLen(length, end, FALSE) /\ appends' = 0

AddLen(length, end, strain) ==
    /\ PutLen(length, end, strain)
    /\ appends < MaxAppend /\ appends' = appends + 1

\* clear(): _coefficient counts only when the buffer exceeds what was ensured.
Clear ==
    /\ SetLen(0, 0)
    /\ IF buffSize > ensured THEN CheckCoefficient(0)
       ELSE UNCHANGED <<buffSize, coefficient>>

\* turncate(), and set_length() with a smaller length.
Turncate(n) ==
    /\ n < dataLen
    /\ SetLen(n, 0) /\ CheckCoefficient(n)

\* expand(), and set_length() with a larger length: zeros are written.
Expand(n) ==
    /\ n > dataLen
    /\ SetLen(n, n)
    /\ IF n < buffSize THEN CheckCoefficient(n) ELSE Resize(n)

\* replace() of bytes the data has.
ReplaceInside ==
    /\ PutLen(dataLen, dataLen, FALSE) /\ CheckCoefficient(dataLen)
    /\ UNCHANGED appends

\* append() beyond what was ensured, where the buffer must grow.
GrowsPlainly(length) ==
    ensured < length /\ length < MaxSized /\ SizeFor(length) > buffSize

\* append(), and replace() at or across the end: _resize() is given a size
\* that is appropriate already, and computes the size of that.
AppendBytes(n) ==
    LET length   == dataLen + n
        expected == SizeFor(length)
    IN  /\ AddLen(length, length, GrowsPlainly(length))
        /\ IF expected > buffSize THEN Resize(expected)
           ELSE CheckCoefficient(length)

\* append_nul(): in place when there is room.
AppendNul ==
    IF dataLen < buffSize
    THEN /\ AddLen(dataLen + 1, dataLen + 1, FALSE)
         /\ UNCHANGED <<buffSize, coefficient>>
    ELSE AppendBytes(1)

\* copy(): the new length is added to the old one, which the bytes copied had
\* been added to before.
Copy(n) ==
    LET length == dataLen + n
    IN  /\ AddLen(dataLen + length, length, dataLen > 0)
        /\ IF length <= buffSize THEN CheckCoefficient(dataLen + length)
           ELSE Resize(length)

\* ensure_buff_capacity(): as in append, the size goes through the
\* computation of sizes twice.
EnsureBuffCapacity(n) ==
    LET size == SizeFor(n)
    IN  /\ ensured' = size
        /\ strained' = (dataLen > DefaultCapacity /\ size > ensured /\ size > buffSize)
        /\ IF size >= ensured /\ size > buffSize THEN Resize(size)
           ELSE UNCHANGED <<buffSize, coefficient>>
        /\ written' = 0 /\ UNCHANGED <<dataLen, appends>>

\* set_raw_data_length(), after the caller has written into the buffer.
SetRawDataLength(n) ==
    \/ n <= buffSize /\ SetLen(n, 0) /\ CheckCoefficient(n)
    \/ n > buffSize /\ Expand(n)

\* The statement the code's sizes exist for: no call writes beyond the
\* allocation, and the allocation holds the data.
NoOverrun == written <= buffSize /\ dataLen <= buffSize

Next ==
    /\ NoOverrun
    /\ \/ Clear \/ AppendNul \/ ReplaceInside
       \/ \E n \in Lengths :
             \/ Turncate(n) \/ Expand(n) \/ AppendBytes(n) \/ Copy(n)
             \/ EnsureBuffCapacity(n) \/ SetRawDataLength(n)

Spec == Init /\ [][Next]_vars

-----------------------------------------------------------------------------
(* Properties.                                                             *)

\* No call other than those that meet a wrong size writes beyond the
\* allocation or leaves the data larger than it: whatever was ensured, and
\* however the calls that went well before have made the buffer grow, counted
\* it as too large and shrunk it.
DataFits == strained \/ NoOverrun
=============================================================================
