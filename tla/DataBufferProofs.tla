---------------------------- MODULE DataBufferProofs ----------------------------
(***************************************************************************)
(* Theorems about DataBuffer, for any lengths up to 1 MiB and any number   *)
(* of calls.                                                               *)
(***************************************************************************)
EXTENDS DataBuffer, TLAPS

USE DEF DefaultCapacity, MaxSized

\* The sizes _appropriate_buff_size() has.
Sizes == {4096, 16384, 65536, 262144, 1048576}

IInv ==
    /\ dataLen \in 0 .. MaxLen /\ written \in Nat
    /\ ensured \in Sizes /\ buffSize \in Sizes
    /\ strained \in BOOLEAN
    /\ DataFits

-----------------------------------------------------------------------------
(* Sizes.                                                                  *)

Power(k) == 2^k

\* The powers of two among which the highest bit of a length above 4 KiB lies.
LEMMA Powers ==
    /\ Power(12) = 4096 /\ Power(13) = 8192 /\ Power(14) = 16384
    /\ Power(15) = 32768 /\ Power(16) = 65536 /\ Power(17) = 131072
    /\ Power(18) = 262144 /\ Power(19) = 524288 /\ Power(20) = 1048576
    /\ Power(21) = 2097152
<1>1. Power(12) = 4096 /\ Power(13) = 8192 /\ Power(14) = 16384
    BY DEF Power
<1>2. Power(15) = 32768 /\ Power(16) = 65536 /\ Power(17) = 131072
    BY DEF Power
<1>3. Power(18) = 262144 /\ Power(19) = 524288 /\ Power(20) = 1048576
    BY DEF Power
<1>4. Power(21) = 2097152
    BY DEF Power
<1>. QED  BY <1>1, <1>2, <1>3, <1>4

\* The highest bit of a length is the one whose power of two is just below it.
LEMMA MsbFound ==
    ASSUME NEW n \in Nat, n > 4096, n <= 1048576
    PROVE  /\ n < 8192 => Msb(n) = 12
           /\ n >= 8192 /\ n < 16384 => Msb(n) = 13
           /\ n >= 16384 /\ n < 32768 => Msb(n) = 14
           /\ n >= 32768 /\ n < 65536 => Msb(n) = 15
           /\ n >= 65536 /\ n < 131072 => Msb(n) = 16
           /\ n >= 131072 /\ n < 262144 => Msb(n) = 17
           /\ n >= 262144 /\ n < 524288 => Msb(n) = 18
           /\ n >= 524288 /\ n < 1048576 => Msb(n) = 19
           /\ n = 1048576 => Msb(n) = 20
<1>. DEFINE Is(k) == Power(k) <= n /\ n < Power(k + 1)
<1>1. /\ Is(12) <=> n < 8192
      /\ Is(13) <=> n >= 8192 /\ n < 16384
      /\ Is(14) <=> n >= 16384 /\ n < 32768
    BY Powers
<1>2. /\ Is(15) <=> n >= 32768 /\ n < 65536
      /\ Is(16) <=> n >= 65536 /\ n < 131072
      /\ Is(17) <=> n >= 131072 /\ n < 262144
    BY Powers
<1>3. /\ Is(18) <=> n >= 262144 /\ n < 524288
      /\ Is(19) <=> n >= 524288 /\ n < 1048576
      /\ Is(20) <=> n = 1048576
    BY Powers
<1>4. Msb(n) = CHOOSE k \in 12 .. 20 : Is(k)
    BY DEF Msb, Power
<1>. HIDE DEF Is
<1>5. \/ Is(12) \/ Is(13) \/ Is(14) \/ Is(15) \/ Is(16) \/ Is(17) \/ Is(18)
      \/ Is(19) \/ Is(20)
    BY <1>1, <1>2, <1>3
<1>6. \E k \in 12 .. 20 : Is(k)
    <2>1. /\ 12 \in 12 .. 20 /\ 13 \in 12 .. 20 /\ 14 \in 12 .. 20
          /\ 15 \in 12 .. 20 /\ 16 \in 12 .. 20 /\ 17 \in 12 .. 20
          /\ 18 \in 12 .. 20 /\ 19 \in 12 .. 20 /\ 20 \in 12 .. 20
        OBVIOUS
    <2>. QED  BY <1>5, <2>1
<1>7. Msb(n) \in 12 .. 20 /\ Is(Msb(n))
    BY <1>4, <1>6
<1>. DEFINE k == Msb(n)
<1>8. \/ k = 12 \/ k = 13 \/ k = 14 \/ k = 15 \/ k = 16 \/ k = 17 \/ k = 18
      \/ k = 19 \/ k = 20
    BY <1>7
<1>. HIDE DEF k
<1>9. Is(k)
    BY <1>7 DEF k
<1>10. /\ k = 12 => n < 8192
       /\ k = 13 => n >= 8192 /\ n < 16384
       /\ k = 14 => n >= 16384 /\ n < 32768
    BY <1>1, <1>9
<1>11. /\ k = 15 => n >= 32768 /\ n < 65536
       /\ k = 16 => n >= 65536 /\ n < 131072
       /\ k = 17 => n >= 131072 /\ n < 262144
    BY <1>2, <1>9
<1>12. /\ k = 18 => n >= 262144 /\ n < 524288
       /\ k = 19 => n >= 524288 /\ n < 1048576
       /\ k = 20 => n = 1048576
    BY <1>3, <1>9
<1>. QED  BY <1>8, <1>10, <1>11, <1>12 DEF k

Shift(k) == (2 + 2 * ((63 - k) \div 2)) % 32

\* How far the code shifts the int 1 for the bits it meets.
LEMMA Shifts ==
    /\ Shift(12) = 20 /\ Shift(13) = 20 /\ Shift(14) = 18 /\ Shift(15) = 18
    /\ Shift(16) = 16 /\ Shift(17) = 16 /\ Shift(18) = 14 /\ Shift(19) = 14
    /\ Shift(20) = 12
BY DEF Shift

\* The size computed for a length that was not ensured.  Above 64 KiB it has no
\* room for the length: the shift goes down where it should go up.
LEMMA Computed ==
    ASSUME ensured \in Sizes, NEW n \in Nat, n > 4096, n <= 1048576, n > ensured
    PROVE  /\ n < 16384 => AppropriateSize(n) = 1048576
           /\ n >= 16384 /\ n < 65536 => AppropriateSize(n) = 262144
           /\ n >= 65536 /\ n < 262144 => AppropriateSize(n) = 65536
           /\ n >= 262144 /\ n < 1048576 => AppropriateSize(n) = 16384
           /\ n = 1048576 => AppropriateSize(n) = 4096
<1>. DEFINE k == Msb(n)
            e == Shift(k)
<1>1. AppropriateSize(n) = Power(e)
    BY DEF AppropriateSize, Sizes, Power, Shift
<1>2. /\ n < 16384 => k = 12 \/ k = 13
      /\ n >= 16384 /\ n < 65536 => k = 14 \/ k = 15
      /\ n >= 65536 /\ n < 262144 => k = 16 \/ k = 17
      /\ n >= 262144 /\ n < 1048576 => k = 18 \/ k = 19
      /\ n = 1048576 => k = 20
    BY MsbFound
<1>. HIDE DEF k
<1>3. /\ n < 16384 => e = 20
      /\ n >= 16384 /\ n < 65536 => e = 18
      /\ n >= 65536 /\ n < 262144 => e = 16
      /\ n >= 262144 /\ n < 1048576 => e = 14
      /\ n = 1048576 => e = 12
    BY <1>2, Shifts
<1>. HIDE DEF e
<1>. QED  BY <1>1, <1>3, Powers

\* Every size is one of these.
LEMMA SizeIn ==
    ASSUME ensured \in Sizes, NEW n \in Nat, n <= 1048576
    PROVE  AppropriateSize(n) \in Sizes
<1>1. CASE n <= 4096 \/ n <= ensured
    BY <1>1 DEF AppropriateSize, Sizes
<1>2. CASE n > 4096 /\ n > ensured
    <2>1. \/ n < 16384 \/ (n >= 16384 /\ n < 65536) \/ (n >= 65536 /\ n < 262144)
          \/ (n >= 262144 /\ n < 1048576) \/ n = 1048576
        OBVIOUS
    <2>2. \/ AppropriateSize(n) = 1048576 \/ AppropriateSize(n) = 262144
          \/ AppropriateSize(n) = 65536 \/ AppropriateSize(n) = 16384
          \/ AppropriateSize(n) = 4096
        BY <1>2, <2>1, Computed
    <2>. QED  BY <2>2 DEF Sizes
<1>3. ensured \in Nat
    BY DEF Sizes
<1>. QED  BY <1>1, <1>2, <1>3

\* A length that is not too long has room in the size computed for it.
LEMMA SizeFits ==
    ASSUME ensured \in Sizes, NEW n \in Nat, n <= 1048576, ~TooLong(n)
    PROVE  n <= AppropriateSize(n)
<1>1. ensured \in Nat
    BY DEF Sizes
<1>2. CASE n <= 4096 \/ n <= ensured
    BY <1>1, <1>2 DEF AppropriateSize
<1>3. CASE n > 4096 /\ n > ensured
    <2>1. n <= 65536
        BY <1>1, <1>3 DEF TooLong
    <2>2. n < 16384 \/ (n >= 16384 /\ n < 65536) \/ n = 65536
        BY <2>1
    <2>. QED  BY <1>3, <2>1, <2>2, Computed
<1>. QED  BY <1>1, <1>2, <1>3

\* The size of a size that was ensured is that size again, and so it is with
\* 64 KiB.
LEMMA SizeOfSize ==
    ASSUME ensured \in Sizes
    PROVE  /\ AppropriateSize(ensured) = ensured
           /\ ensured < 65536 => AppropriateSize(65536) = 65536
<1>1. ensured \in Nat /\ ensured >= 4096 /\ (ensured <= 4096 => ensured = 4096)
    BY DEF Sizes
<1>2. AppropriateSize(ensured) = ensured
    BY <1>1 DEF AppropriateSize
<1>3. ASSUME ensured < 65536  PROVE AppropriateSize(65536) = 65536
    BY <1>1, <1>3, Computed
<1>. QED  BY <1>2, <1>3

-----------------------------------------------------------------------------
(* The inductive invariant.                                                *)

\* What the invariant needs of the bounds.
LEMMA Bounds ==
    /\ MaxLen \in Nat /\ MaxLen <= 1048576
    /\ \A n \in Lengths : n \in 0 .. MaxLen
<1>1. 2^20 = 1048576
    BY Powers DEF Power
<1>. QED  BY <1>1, LengthsAssumption

\* A buffer that was just made has room for its data, unless they are too long.
LEMMA InitInv == Init => IInv
<1>. SUFFICES ASSUME Init  PROVE IInv
    OBVIOUS
<1>1. /\ ensured \in Sizes /\ dataLen \in 0 .. MaxLen
      /\ dataLen \in Nat /\ dataLen <= 1048576
    BY Bounds DEF Init, Sizes
<1>2. buffSize \in Sizes /\ (~TooLong(dataLen) => dataLen <= buffSize)
    BY <1>1, SizeIn, SizeFits DEF Init
<1>3. written = dataLen /\ strained = TooLong(dataLen)
    BY DEF Init
<1>4. strained \in BOOLEAN
    BY <1>3 DEF TooLong
<1>. QED  BY <1>1, <1>2, <1>3, <1>4 DEF IInv, DataFits, NoOverrun

\* A buffer that is checked for shrinking keeps room for the length.
LEMMA Shrinking ==
    ASSUME IInv, NEW n \in 0 .. MaxLen, CheckCoefficient(n)
    PROVE  /\ buffSize' \in Sizes
           /\ n <= buffSize /\ ~TooLong(n) => n <= buffSize'
<1>1. n \in Nat /\ n <= 1048576 /\ ensured \in Sizes /\ buffSize \in Sizes
    BY Bounds DEF IInv
<1>2. AppropriateSize(n) \in Sizes /\ (~TooLong(n) => n <= AppropriateSize(n))
    BY <1>1, SizeIn, SizeFits
<1>. QED  BY <1>1, <1>2 DEF CheckCoefficient

\* A buffer that grows gets room for the length.
LEMMA Growing ==
    ASSUME IInv, NEW n \in 1 .. MaxLen, Resize(n)
    PROVE  buffSize' \in Sizes /\ (~TooLong(n) => n <= buffSize')
<1>1. n \in Nat /\ n <= 1048576 /\ ensured \in Sizes /\ n # 0
    BY Bounds DEF IInv
<1>. QED  BY <1>1, SizeIn, SizeFits DEF Resize, SizeFor

\* What a call must establish for the invariant.
LEMMA AfterCall ==
    ASSUME IInv, NEW length \in Nat, NEW end \in Nat, NEW strain \in BOOLEAN,
           PutLen(length, end, strain), buffSize' \in Sizes,
           ~strain /\ ~TooLong(length) => length <= buffSize' /\ end <= buffSize'
    PROVE  IInv'
<1>1. /\ dataLen' \in 0 .. MaxLen /\ written' \in Nat /\ ensured' \in Sizes
      /\ dataLen' = length /\ written' = end
    BY Bounds DEF PutLen, IInv
<1>2. strained' = (strain \/ TooLong(length)) /\ TooLong(length) \in BOOLEAN
    BY DEF PutLen, TooLong
<1>. HIDE DEF TooLong
<1>3. strained' \in BOOLEAN /\ (~strained' => ~strain /\ ~TooLong(length))
    BY <1>2
<1>. QED  BY <1>1, <1>3 DEF IInv, DataFits, NoOverrun

\* So it is with the calls that meet no wrong size unless the data are too long.
LEMMA AfterSetting ==
    ASSUME IInv, NEW length \in Nat, NEW end \in Nat, PutLen(length, end, FALSE),
           end <= length, buffSize' \in Sizes, ~TooLong(length) => length <= buffSize'
    PROVE  IInv'
<1>1. buffSize' \in Nat
    BY DEF Sizes
<1>2. ~TooLong(length) => length <= buffSize' /\ end <= buffSize'
    BY <1>1
<1>. QED  BY <1>2, AfterCall

\* append(): what it is given may be any length.
LEMMA AppendInv ==
    ASSUME IInv, NoOverrun, NEW n \in 0 .. MaxLen, AppendBytes(n)
    PROVE  IInv'
<1>. DEFINE length == dataLen + n
            expected == SizeFor(length)
            strain == GrowsPlainly(length)
<1>1. /\ length \in Nat /\ length \in 0 .. MaxLen /\ length <= 1048576
      /\ dataLen \in Nat /\ ensured \in Sizes /\ buffSize \in Sizes
      /\ PutLen(length, length, strain)
      /\ IF expected > buffSize THEN Resize(expected) ELSE CheckCoefficient(length)
    BY Bounds DEF AppendBytes, AddLen, PutLen, IInv
<1>2. strain \in BOOLEAN
    BY DEF GrowsPlainly
<1>3. length = 0 => dataLen = 0
    BY <1>1
<1>4. expected = AppropriateSize(length)
    BY <1>3 DEF SizeFor
<1>5. expected \in Sizes /\ (~TooLong(length) => length <= expected)
    BY <1>1, <1>4, SizeIn, SizeFits
<1>6. /\ strain <=> ensured < length /\ length < 65536 /\ expected > buffSize
      /\ TooLong(length) <=> length > 65536 /\ length > ensured
    BY DEF GrowsPlainly, TooLong
<1>. HIDE DEF length, expected, strain
<1>7. /\ expected \in Nat /\ expected # 0 /\ expected <= 1048576
      /\ buffSize \in Nat /\ buffSize >= 4096
      /\ ensured \in Nat /\ ensured >= 4096
    BY <1>1, <1>5 DEF Sizes
<1>8. CASE expected > buffSize
    <2>1. buffSize' = AppropriateSize(expected)
        BY <1>1, <1>7, <1>8 DEF Resize, SizeFor
    <2>2. buffSize' \in Sizes
        BY <1>1, <1>7, <2>1, SizeIn
    <2>3. ASSUME ~strain, ~TooLong(length)  PROVE length <= buffSize'
        <3>1. length <= ensured \/ length = 65536
            BY <1>1, <1>6, <1>7, <1>8, <2>3
        <3>2. CASE length <= ensured
            <4>1. length > 4096
                BY <1>1, <1>4, <1>7, <1>8 DEF AppropriateSize
            <4>2. expected = ensured
                BY <1>1, <1>4, <1>7, <3>2, <4>1 DEF AppropriateSize
            <4>. QED  BY <1>1, <2>1, <3>2, <4>2, SizeOfSize
        <3>3. CASE length = 65536 /\ ~(length <= ensured)
            <4>1. expected = 65536 /\ AppropriateSize(65536) = 65536
                BY <1>1, <1>4, <1>7, <3>3, SizeOfSize
            <4>. QED  BY <1>1, <2>1, <3>3, <4>1
        <3>. QED  BY <3>1, <3>2, <3>3
    <2>. QED  BY <1>1, <1>2, <2>2, <2>3, AfterCall
<1>9. CASE ~(expected > buffSize)
    <2>1. CheckCoefficient(length)
        BY <1>1, <1>9
    <2>2. buffSize' \in Sizes
        BY <1>1, <2>1, Shrinking
    <2>3. ASSUME ~strain, ~TooLong(length)  PROVE length <= buffSize'
        <3>1. length <= buffSize
            BY <1>1, <1>5, <1>7, <1>9, <2>3
        <3>. QED  BY <1>1, <2>1, <2>3, <3>1, Shrinking
    <2>. QED  BY <1>1, <1>2, <2>2, <2>3, AfterCall
<1>. QED  BY <1>8, <1>9

\* expand(): zeros are written up to the new length.
LEMMA ExpandInv ==
    ASSUME IInv, NoOverrun, NEW n \in Lengths, Expand(n)
    PROVE  IInv'
<1>0. n \in 0 .. MaxLen /\ MaxLen \in Nat /\ dataLen \in 0 .. MaxLen
    BY Bounds DEF IInv
<1>1. n > dataLen /\ PutLen(n, n, FALSE)
    BY DEF Expand, SetLen
<1>2. n \in Nat /\ n \in 1 .. MaxLen /\ buffSize \in Nat
    BY <1>0, <1>1 DEF IInv, Sizes
<1>3. \/ n < buffSize /\ CheckCoefficient(n)
      \/ Resize(n)
    BY DEF Expand
<1>4. buffSize' \in Sizes /\ (~TooLong(n) => n <= buffSize')
    <2>1. CASE n < buffSize /\ CheckCoefficient(n)
        <3>1. n <= buffSize
            BY <1>2, <2>1
        <3>. QED  BY <1>0, <2>1, <3>1, Shrinking
    <2>2. CASE Resize(n)
        BY <1>2, <2>2, Growing
    <2>. QED  BY <1>3, <2>1, <2>2
<1>5. n <= n
    BY <1>2
<1>. QED  BY <1>1, <1>2, <1>4, <1>5, AfterSetting

\* Every call keeps the invariant.
LEMMA NextInv == IInv /\ [Next]_vars => IInv'
<1>. SUFFICES ASSUME IInv, [Next]_vars  PROVE IInv'
    OBVIOUS
<1>0. /\ dataLen \in 0 .. MaxLen /\ dataLen \in Nat /\ written \in Nat
      /\ ensured \in Sizes /\ buffSize \in Sizes /\ buffSize \in Nat
      /\ MaxLen \in Nat /\ MaxLen <= 1048576
      /\ \A n \in Lengths : n \in 0 .. MaxLen /\ n \in Nat
    BY Bounds DEF IInv, Sizes
<1>1. CASE UNCHANGED vars
    BY <1>1 DEF vars, IInv, DataFits, NoOverrun
<1>. SUFFICES ASSUME Next  PROVE IInv'
    BY <1>1
<1>2. NoOverrun /\ dataLen <= buffSize /\ written <= buffSize
    BY DEF Next, NoOverrun
<1>3. CASE Clear
    <2>1. PutLen(0, 0, FALSE) /\ (CheckCoefficient(0) \/ buffSize' = buffSize)
        BY <1>3 DEF Clear, SetLen
    <2>2. buffSize' \in Sizes
        BY <1>0, <2>1, Shrinking
    <2>3. 0 <= buffSize' /\ 0 <= 0 /\ 0 \in Nat
        BY <2>2 DEF Sizes
    <2>. QED  BY <2>1, <2>2, <2>3, AfterSetting
<1>4. ASSUME NEW n \in Lengths, Turncate(n)  PROVE IInv'
    <2>1. n < dataLen /\ PutLen(n, 0, FALSE) /\ CheckCoefficient(n)
        BY <1>4 DEF Turncate, SetLen
    <2>2. n \in Nat /\ n \in 0 .. MaxLen
        BY <1>0
    <2>3. dataLen \in Nat /\ buffSize \in Nat /\ dataLen <= buffSize
        BY <1>0, <1>2
    <2>4. n <= buffSize /\ 0 <= n
        BY <2>1, <2>2, <2>3
    <2>5. buffSize' \in Sizes /\ (~TooLong(n) => n <= buffSize')
        BY <2>1, <2>2, <2>4, Shrinking
    <2>. QED  BY <2>1, <2>2, <2>4, <2>5, AfterSetting
<1>5. ASSUME NEW n \in Lengths, Expand(n)  PROVE IInv'
    BY <1>2, <1>5, ExpandInv
<1>6. CASE ReplaceInside
    <2>1. PutLen(dataLen, dataLen, FALSE) /\ CheckCoefficient(dataLen)
        BY <1>6 DEF ReplaceInside
    <2>2. dataLen \in Nat /\ dataLen \in 0 .. MaxLen
        BY <1>0
    <2>3. dataLen <= dataLen
        BY <2>2
    <2>4. buffSize' \in Sizes /\ (~TooLong(dataLen) => dataLen <= buffSize')
        BY <1>2, <2>1, <2>2, Shrinking
    <2>. QED  BY <2>1, <2>2, <2>3, <2>4, AfterSetting
<1>7. ASSUME NEW n \in Lengths, AppendBytes(n)  PROVE IInv'
    BY <1>0, <1>2, <1>7, AppendInv
<1>8. CASE AppendNul
    <2>1. CASE dataLen < buffSize
        <3>1. PutLen(dataLen + 1, dataLen + 1, FALSE) /\ buffSize' = buffSize
            BY <1>8, <2>1 DEF AppendNul, AddLen
        <3>2. dataLen \in Nat /\ buffSize \in Nat /\ buffSize \in Sizes
            BY <1>0
        <3>3. dataLen + 1 \in Nat /\ dataLen + 1 <= buffSize /\ dataLen + 1 <= dataLen + 1
            BY <2>1, <3>2
        <3>. QED  BY <3>1, <3>2, <3>3, AfterSetting
    <2>2. CASE ~(dataLen < buffSize)
        <3>1. AppendBytes(1)
            BY <1>8, <2>2 DEF AppendNul
        <3>2. 1 \in 0 .. MaxLen
            BY <1>0, <3>1 DEF AppendBytes, AddLen, PutLen
        <3>. QED  BY <1>2, <3>1, <3>2, AppendInv
    <2>. QED  BY <2>1, <2>2
<1>9. ASSUME NEW n \in Lengths, Copy(n)  PROVE IInv'
    <2>. DEFINE length == dataLen + n
                total == dataLen + length
                strain == dataLen > 0
    <2>1. /\ PutLen(total, length, strain)
          /\ IF length <= buffSize THEN CheckCoefficient(total) ELSE Resize(length)
        BY <1>9 DEF Copy, AddLen
    <2>2. /\ total \in Nat /\ length \in Nat /\ strain \in BOOLEAN
          /\ total \in 0 .. MaxLen /\ length \in 0 .. MaxLen
          /\ ~strain => total = length
        BY <1>0, <2>1 DEF PutLen
    <2>. HIDE DEF length, total, strain
    <2>3. CASE length <= buffSize
        <3>1. buffSize' \in Sizes /\ (total <= buffSize /\ ~TooLong(total) => total <= buffSize')
            BY <2>1, <2>2, <2>3, Shrinking
        <3>. QED  BY <2>1, <2>2, <2>3, <3>1, AfterCall
    <2>4. CASE ~(length <= buffSize)
        <3>1. length \in 1 .. MaxLen /\ Resize(length)
            BY <1>0, <2>1, <2>2, <2>4
        <3>2. buffSize' \in Sizes /\ (~TooLong(length) => length <= buffSize')
            BY <3>1, Growing
        <3>. QED  BY <2>1, <2>2, <3>2, AfterCall
    <2>. QED  BY <2>3, <2>4
<1>10. ASSUME NEW n \in Lengths, EnsureBuffCapacity(n)  PROVE IInv'
    <2>. DEFINE size == SizeFor(n)
                grows == size >= ensured /\ size > buffSize
    <2>1. /\ dataLen' = dataLen /\ written' = 0 /\ ensured' = size
          /\ strained' = (dataLen > 4096 /\ size > ensured /\ size > buffSize)
          /\ IF grows THEN Resize(size) ELSE buffSize' = buffSize
        BY <1>10 DEF EnsureBuffCapacity
    <2>2. size \in Sizes
        <3>1. (IF n = 0 THEN dataLen ELSE n) \in Nat
              /\ (IF n = 0 THEN dataLen ELSE n) <= 1048576
            BY <1>0
        <3>. QED  BY <1>0, <3>1, SizeIn DEF SizeFor
    <2>. HIDE DEF size
    <2>3. size \in Nat /\ size # 0 /\ size <= 1048576 /\ size >= 4096 /\ ensured \in Nat
        BY <1>0, <2>2 DEF Sizes
    <2>4. ASSUME grows
          PROVE  buffSize' \in Sizes /\ (~strained' => dataLen <= buffSize')
        <3>1. buffSize' = AppropriateSize(size)
            BY <2>1, <2>3, <2>4 DEF Resize, SizeFor
        <3>2. buffSize' \in Sizes
            BY <1>0, <2>3, <3>1, SizeIn
        <3>3. buffSize' >= 4096 /\ buffSize' \in Nat
            BY <3>2 DEF Sizes
        <3>4. CASE dataLen <= 4096
            BY <1>0, <3>2, <3>3, <3>4
        <3>5. CASE dataLen > 4096
            <4>1. ~strained' => size = ensured
                <5>. DEFINE wrong == dataLen > 4096 /\ size > ensured /\ size > buffSize
                <5>1. strained' = wrong
                    BY <2>1
                <5>2. size >= ensured /\ size > buffSize
                    BY <2>4
                <5>3. ~wrong => size = ensured
                    BY <2>3, <3>5, <5>2
                <5>. HIDE DEF wrong
                <5>. QED  BY <5>1, <5>3
            <4>2. AppropriateSize(ensured) = ensured
                BY <1>0, SizeOfSize
            <4>3. ~strained' => dataLen <= buffSize'
                BY <1>0, <1>2, <2>3, <2>4, <3>1, <4>1, <4>2
            <4>. QED  BY <3>2, <4>3
        <3>. QED  BY <1>0, <3>4, <3>5
    <2>5. buffSize' \in Sizes /\ (~strained' => dataLen <= buffSize')
        BY <1>0, <1>2, <2>1, <2>4
    <2>6. 0 <= buffSize'
        BY <2>5 DEF Sizes
    <2>. QED  BY <1>0, <2>1, <2>2, <2>5, <2>6 DEF IInv, DataFits, NoOverrun
<1>11. ASSUME NEW n \in Lengths, SetRawDataLength(n)  PROVE IInv'
    <2>1. CASE n <= buffSize /\ SetLen(n, 0) /\ CheckCoefficient(n)
        <3>1. PutLen(n, 0, FALSE)
            BY <2>1 DEF SetLen
        <3>2. n \in Nat /\ n \in 0 .. MaxLen
            BY <1>0
        <3>3. 0 <= n
            BY <3>2
        <3>4. buffSize' \in Sizes /\ (~TooLong(n) => n <= buffSize')
            BY <2>1, <3>2, Shrinking
        <3>. QED  BY <3>1, <3>2, <3>3, <3>4, AfterSetting
    <2>2. CASE n > buffSize /\ Expand(n)
        BY <1>5, <2>2
    <2>. QED  BY <1>11, <2>1, <2>2 DEF SetRawDataLength
<1>. QED
    BY <1>3, <1>4, <1>5, <1>6, <1>7, <1>8, <1>9, <1>10, <1>11 DEF Next

\* However the buffer grows, is cleared, cut, ensured and shrunk, no call writes
\* beyond the allocation but those that meet a wrong size: data above 64 KiB
\* that were not ensured, an append that must grow, a copy onto data, and a new
\* ensured capacity for a buffer filled beyond 4 KiB.
THEOREM Fits == Spec => []DataFits
<1>1. IInv => DataFits
    BY DEF IInv
<1>2. Init => IInv
    BY InitInv
<1>3. IInv /\ [Next]_vars => IInv'
    BY NextInv
<1>. QED  BY <1>1, <1>2, <1>3, PTL DEF Spec

-----------------------------------------------------------------------------
(* The appends that overrun.                                               *)

\* An append beyond what was ensured that makes the buffer grow, up to 64 KiB.
PlainGrowth(n) ==
    /\ AppendBytes(n)
    /\ GrowsPlainly(dataLen + n) /\ dataLen + n # 16384

\* What such an append does: it has computed a size with room enough, lets
\* _resize() compute the size of that size, and gets too little.
LEMMA GrowthOverruns ==
    ASSUME IInv, NEW n \in 0 .. MaxLen, PlainGrowth(n)
    PROVE  written' > buffSize'
<1>. DEFINE length == dataLen + n
            expected == SizeFor(length)
<1>1. /\ length \in Nat /\ length <= 1048576 /\ length # 16384
      /\ ensured < length /\ length < 65536 /\ expected > buffSize
      /\ ensured \in Sizes /\ buffSize \in Sizes
      /\ written' = length /\ Resize(expected)
    BY Bounds DEF PlainGrowth, GrowsPlainly, AppendBytes, AddLen, PutLen, IInv
<1>2. ensured \in Nat /\ ensured >= 4096
    BY <1>1 DEF Sizes
<1>3. length # 0
    BY <1>1, <1>2
<1>4. expected = AppropriateSize(length)
    BY <1>3 DEF SizeFor
<1>. HIDE DEF length, expected
<1>5. \/ length < 16384 /\ expected = 1048576
      \/ length > 16384 /\ expected = 262144 /\ ensured < 262144
    BY <1>1, <1>2, <1>4, Computed
<1>6. CASE length < 16384 /\ expected = 1048576
    <2>1. AppropriateSize(1048576) = 4096
        BY <1>1, <1>2, <1>6, Computed
    <2>2. buffSize' = 4096
        BY <1>1, <1>6, <2>1 DEF Resize, SizeFor
    <2>. QED  BY <1>1, <1>2, <2>2
<1>7. CASE length > 16384 /\ expected = 262144 /\ ensured < 262144
    <2>1. AppropriateSize(262144) = 16384
        BY <1>1, <1>2, <1>7, Computed
    <2>2. buffSize' = 16384
        BY <1>1, <1>7, <2>1 DEF Resize, SizeFor
    <2>. QED  BY <1>1, <1>7, <2>2
<1>. QED  BY <1>5, <1>6, <1>7

\* Every one of those appends writes beyond the allocation, at whatever point
\* of whatever sequence of calls; only one that ends at 16 KiB exactly fits.
THEOREM AppendsOverrun ==
    Spec => [][\A n \in Lengths : PlainGrowth(n) => written' > buffSize']_vars
<1>1. IInv => (\A n \in Lengths : PlainGrowth(n) => written' > buffSize')
    BY Bounds, GrowthOverruns
<1>2. Init => IInv
    BY InitInv
<1>3. IInv /\ [Next]_vars => IInv'
    BY NextInv
<1>4. IInv /\ [Next]_vars
      => [\A n \in Lengths : PlainGrowth(n) => written' > buffSize']_vars
    BY <1>1
<1>. QED  BY <1>2, <1>3, <1>4, PTL DEF Spec
=============================================================================
