--------------------------- MODULE UdpSessionProofs ---------------------------
(***************************************************************************)
(* The safety properties of UdpSession for every set of lengths and limits *)
(* and every bound, by an inductive invariant that ties the socket's queue *)
(* of lengths to the byte buffer through the history of the stream.        *)
(***************************************************************************)
EXTENDS UdpSession, SequenceTheorems, TLAPS

\* Chunks in the order of the stream, without overlap.  Stated for every pair
\* and not for neighbours, so that it bounds a prefix without an induction.
Ordered(chunks) ==
    \A i, j \in 1 .. Len(chunks) : i < j =>
        chunks[i].start + chunks[i].len <= chunks[j].start

Stream(chunks) ==
    /\ Contiguous(chunks)
    /\ Ordered(chunks)
    /\ \A i \in 1 .. Len(chunks) : chunks[i].len > 0

\* Every history sequence is a stream of non-empty chunks; the announced
\* datagrams are those forwarded until the first notification is dropped, and
\* what recv returned is a prefix of the announced ones.
HistoryInv ==
    /\ Stream(sent) /\ Stream(noted) /\ Stream(got)
    /\ Len(noted) <= Len(sent)
    /\ EndOf(noted) <= EndOf(sent)
    /\ Len(noted) = Len(sent) => noted = sent
    /\ Len(got) <= Len(noted)
    /\ \A i \in 1 .. Len(got) : got[i] = noted[i]

\* While the session lives its buffer is the unread end of the stream and its
\* socket holds the lengths of the announced datagrams not yet returned.
BufferInv == pc # "ended" =>
    /\ base + buffLen = EndOf(sent)
    /\ base + dataOffset = EndOf(got)
    /\ IF buffLen = 0 THEN dataOffset = 0 ELSE dataOffset < buffLen
    /\ Len(noted) = Len(got) + Len(notes)
    /\ \A i \in 1 .. Len(notes) : notes[i] = noted[Len(got) + i].len

ControlInv ==
    /\ EventMatchesCoroutine
    /\ dataLenToRead = 0
    /\ pc = "created" => ret.err = "NONE"
    /\ ev = "readable" => notes # <<>>
    /\ InterruptionMeansData

IInv == TypeOK /\ HistoryInv /\ BufferInv /\ ControlInv

-----------------------------------------------------------------------------
(* Lemmas about streams of chunks.                                         *)

\* The end of a stream, told by its length: 0, or the end of its last chunk.
LEMMA EndOfFacts ==
    ASSUME NEW chunks \in Seq(Chunk)
    PROVE  /\ Len(chunks) \in Nat
           /\ chunks = <<>> <=> Len(chunks) = 0
           /\ Len(chunks) = 0 => EndOf(chunks) = 0
           /\ Len(chunks) > 0 =>
                 /\ EndOf(chunks) = chunks[Len(chunks)].start + chunks[Len(chunks)].len
                 /\ chunks[Len(chunks)] \in Chunk
           /\ EndOf(chunks) \in Nat
<1>1. Len(chunks) \in Nat /\ (chunks = <<>> <=> Len(chunks) = 0)
  BY EmptySeq, LenProperties
<1>2. Len(chunks) > 0 => chunks[Len(chunks)] \in Chunk
  BY <1>1, ElementOfSeq
<1> QED
  BY <1>1, <1>2 DEF EndOf, Chunk

\* A chunk that starts where a stream ends extends the stream by its length.
LEMMA StreamAppend ==
    ASSUME NEW chunks \in Seq(Chunk), Stream(chunks),
           NEW n \in Nat \ {0},
           NEW c, c = [start |-> EndOf(chunks), len |-> n]
    PROVE  /\ Append(chunks, c) \in Seq(Chunk)
           /\ Stream(Append(chunks, c))
           /\ EndOf(Append(chunks, c)) = EndOf(chunks) + n
           /\ Len(Append(chunks, c)) = Len(chunks) + 1
           /\ \A i \in 1 .. Len(chunks) : Append(chunks, c)[i] = chunks[i]
           /\ Append(chunks, c)[Len(chunks) + 1] = c
<1> DEFINE longer == Append(chunks, c)
<1>1. EndOf(chunks) \in Nat
  BY EndOfFacts
<1>2. c \in Chunk
  BY <1>1 DEF Chunk
<1>3. /\ longer \in Seq(Chunk) /\ Len(longer) = Len(chunks) + 1
      /\ \A i \in 1 .. Len(chunks) : longer[i] = chunks[i]
      /\ longer[Len(chunks) + 1] = c
  BY <1>2, AppendProperties
<1>4. EndOf(longer) = EndOf(chunks) + n
  <2>1. EndOf(longer) = longer[Len(longer)].start + longer[Len(longer)].len
    <3>1. Len(longer) > 0
      BY <1>3, LenProperties
    <3> QED
      BY <1>3, <3>1, EndOfFacts
  <2> QED
    BY <1>1, <1>3, <2>1
<1>5. ASSUME NEW i \in 1 .. Len(chunks)
      PROVE  /\ chunks[i].start \in Nat /\ chunks[i].len \in Nat
             /\ chunks[i].start + chunks[i].len <= EndOf(chunks)
  <2>1. Len(chunks) \in Nat /\ Len(chunks) > 0
    BY EndOfFacts
  <2>2. chunks[i] \in Chunk /\ chunks[Len(chunks)] \in Chunk
    BY <2>1, ElementOfSeq
  <2>3. i < Len(chunks) => chunks[i].start + chunks[i].len <= chunks[Len(chunks)].start
    BY <2>1 DEF Stream, Ordered
  <2> QED
    BY <2>1, <2>2, <2>3, EndOfFacts DEF Chunk
<1>6. Ordered(longer)
  BY <1>1, <1>3, <1>5, LenProperties DEF Ordered, Stream
<1>7. Contiguous(longer)
  BY <1>1, <1>3, EndOfFacts DEF Contiguous, Stream
<1>8. \A i \in 1 .. Len(longer) : longer[i].len > 0
  BY <1>3, LenProperties DEF Stream
<1> QED
  BY <1>3, <1>4, <1>6, <1>7, <1>8 DEF Stream

\* The chunk after a proper prefix of a stream starts at the end of the prefix
\* and lies within the stream.
LEMMA NextChunk ==
    ASSUME NEW all \in Seq(Chunk), Stream(all),
           NEW prefix \in Seq(Chunk), Len(prefix) < Len(all),
           \A i \in 1 .. Len(prefix) : prefix[i] = all[i]
    PROVE  /\ all[Len(prefix) + 1].start = EndOf(prefix)
           /\ EndOf(prefix) + all[Len(prefix) + 1].len <= EndOf(all)
           /\ all[Len(prefix) + 1].len \in Nat \ {0}
<1> DEFINE k == Len(prefix)
<1>1. all[k + 1] \in Chunk /\ all[Len(all)] \in Chunk /\ k + 1 \in 1 .. Len(all)
  BY LenProperties, ElementOfSeq
<1>2. all[k + 1].start = EndOf(prefix)
  <2>1. CASE k = 0
    <3>1. EndOf(prefix) = 0
      BY <2>1, EndOfFacts
    <3>2. all # <<>>
      BY <1>1, EndOfFacts
    <3> QED
      BY <2>1, <3>1, <3>2 DEF Stream, Contiguous
  <2>2. CASE k > 0
    <3>1. k \in 1 .. Len(all) - 1 /\ prefix[k] = all[k]
      BY <2>2, LenProperties
    <3> QED
      BY <2>2, <3>1, EndOfFacts DEF Stream, Contiguous
  <2> QED
    BY <2>1, <2>2
<1>3. all[k + 1].start + all[k + 1].len <= EndOf(all)
  <2>1. k + 1 < Len(all) =>
           all[k + 1].start + all[k + 1].len <= all[Len(all)].start
    BY <1>1, LenProperties DEF Stream, Ordered
  <2>2. EndOf(all) = all[Len(all)].start + all[Len(all)].len
    BY <1>1, EndOfFacts
  <2>3. k + 1 = Len(all) \/ k + 1 < Len(all)
    BY <1>1, LenProperties
  <2> QED
    BY <1>1, <2>1, <2>2, <2>3 DEF Chunk
<1> QED
  BY <1>1, <1>2, <1>3 DEF Chunk, Stream

-----------------------------------------------------------------------------
(* The inductive invariant.                                                *)

\* A forward of a datagram keeps the invariant, with its notification queued
\* or dropped.
LEMMA ForwardStep ==
    ASSUME IInv, NEW n \in Lens, Forward(n)
    PROVE  IInv'
<1> USE LensAssumption DEF IInv
<1>1. n \in Nat \ {0} /\ pc # "ended" /\ Suspended /\ pc' = pc /\ ev' = ev
  BY DEF Forward, Suspended
<1>2. /\ base + buffLen = EndOf(sent) /\ base + dataOffset = EndOf(got)
      /\ IF buffLen = 0 THEN dataOffset = 0 ELSE dataOffset < buffLen
      /\ Len(noted) = Len(got) + Len(notes)
      /\ \A i \in 1 .. Len(notes) : notes[i] = noted[Len(got) + i].len
  BY <1>1 DEF BufferInv
<1>3. /\ sent \in Seq(Chunk) /\ noted \in Seq(Chunk) /\ got \in Seq(Chunk)
      /\ notes \in Seq(Nat) /\ buffLen \in Nat /\ dataOffset \in Nat /\ base \in Nat
  BY DEF TypeOK
<1>4. /\ EndOf(sent) \in Nat /\ EndOf(noted) \in Nat /\ EndOf(got) \in Nat
      /\ Len(sent) \in Nat /\ Len(noted) \in Nat /\ Len(got) \in Nat /\ Len(notes) \in Nat
  BY <1>3, EndOfFacts, LenProperties
<1> DEFINE c == [start |-> EndOf(sent), len |-> n]
           d == [start |-> EndOf(noted), len |-> n]
<1>5. /\ sent' = Append(sent, c) /\ buffLen' = buffLen + n
      /\ UNCHANGED <<pc, ev, timed, what, dataOffset, dataLenToRead, limit, ret,
                     base, got, failed>>
  BY <1>2 DEF Forward
<1>6. /\ sent' \in Seq(Chunk) /\ Stream(sent') /\ EndOf(sent') = EndOf(sent) + n
      /\ Len(sent') = Len(sent) + 1
  BY <1>1, <1>3, <1>5, StreamAppend DEF HistoryInv
<1>7. CASE Len(notes) < Capacity
  <2>1. notes' = Append(notes, n) /\ noted' = Append(noted, d)
    BY <1>7 DEF Forward, AppendChunk
  <2>2. /\ noted' \in Seq(Chunk) /\ Stream(noted') /\ EndOf(noted') = EndOf(noted) + n
        /\ Len(noted') = Len(noted) + 1
        /\ \A i \in 1 .. Len(noted) : noted'[i] = noted[i]
        /\ noted'[Len(noted) + 1] = d
    BY <1>1, <1>3, <2>1, StreamAppend DEF HistoryInv
  <2>3. /\ notes' \in Seq(Nat) /\ Len(notes') = Len(notes) + 1 /\ notes' # <<>>
        /\ \A i \in 1 .. Len(notes) : notes'[i] = notes[i]
        /\ notes'[Len(notes) + 1] = n
    <3>1. n \in Nat /\ notes \in Seq(Nat)
      BY <1>1, <1>3
    <3> HIDE DEF c, d
    <3> QED
      BY <2>1, <3>1, AppendProperties
  <2>4. TypeOK'
    BY <1>1, <1>3, <1>5, <1>6, <2>2, <2>3 DEF TypeOK
  <2>5. HistoryInv'
    <3>1. Len(noted') = Len(sent') => noted' = sent'
      BY <1>4, <1>5, <1>6, <2>1, <2>2 DEF HistoryInv
    <3>2. \A i \in 1 .. Len(got') : got'[i] = noted'[i]
      BY <1>4, <1>5, <2>2 DEF HistoryInv
    <3> QED
      BY <1>1, <1>4, <1>5, <1>6, <2>2, <3>1, <3>2 DEF HistoryInv
  <2>6. BufferInv'
    <3>1. \A i \in 1 .. Len(notes') : notes'[i] = noted'[Len(got') + i].len
      <4> SUFFICES ASSUME NEW i \in 1 .. Len(notes')
                   PROVE  notes'[i] = noted'[Len(got) + i].len
        BY <1>5
      <4>1. CASE i = Len(notes) + 1
        BY <1>2, <2>2, <2>3, <4>1
      <4>2. CASE i \in 1 .. Len(notes)
        <5>1. Len(got) + i \in 1 .. Len(noted)
          BY <1>2, <1>4, <4>2
        <5> QED
          BY <1>2, <2>2, <2>3, <4>2, <5>1
      <4> QED
        BY <1>4, <2>3, <4>1, <4>2
    <3>2. base' + buffLen' = EndOf(sent') /\ base' + dataOffset' = EndOf(got')
      BY <1>1, <1>2, <1>3, <1>4, <1>5, <1>6
    <3>3. IF buffLen' = 0 THEN dataOffset' = 0 ELSE dataOffset' < buffLen'
      BY <1>1, <1>2, <1>3, <1>5
    <3>4. Len(noted') = Len(got') + Len(notes')
      BY <1>2, <1>4, <1>5, <2>2, <2>3
    <3> QED
      BY <3>1, <3>2, <3>3, <3>4 DEF BufferInv
  <2>7. ControlInv'
    BY <1>1, <1>5, <2>3 DEF ControlInv, EventMatchesCoroutine, Suspended,
                            InterruptionMeansData, CanTake
  <2> QED
    BY <2>4, <2>5, <2>6, <2>7
<1>8. CASE ~(Len(notes) < Capacity)
  <2>1. notes' = notes /\ noted' = noted
    BY <1>8 DEF Forward
  <2>2. TypeOK'
    BY <1>1, <1>3, <1>5, <1>6, <2>1 DEF TypeOK
  <2>3. HistoryInv'
    BY <1>1, <1>4, <1>5, <1>6, <2>1 DEF HistoryInv
  <2>4. BufferInv'
    <3>1. base' + buffLen' = EndOf(sent') /\ base' + dataOffset' = EndOf(got')
      BY <1>1, <1>2, <1>3, <1>4, <1>5, <1>6
    <3>2. IF buffLen' = 0 THEN dataOffset' = 0 ELSE dataOffset' < buffLen'
      BY <1>1, <1>2, <1>3, <1>5
    <3> QED
      BY <1>2, <1>5, <2>1, <3>1, <3>2 DEF BufferInv
  <2>5. ControlInv'
    BY <1>1, <1>5, <2>1 DEF ControlInv, EventMatchesCoroutine, Suspended,
                            InterruptionMeansData, CanTake
  <2> QED
    BY <2>2, <2>3, <2>4, <2>5
<1> QED
  BY <1>7, <1>8

\* Taking the next datagram: with no remainder and a length in the socket, the
\* bytes are all in the buffer, they are the next announced datagram, and the
\* two queues stay in step.
LEMMA TakeStep ==
    ASSUME IInv, pc # "ended", pc' # "ended", notes # <<>>,
           NEW lim \in Nat, TakeNext(lim), UNCHANGED <<sent, noted, failed>>
    PROVE  /\ HistoryInv' /\ BufferInv'
           /\ got' \in Seq(Chunk) /\ notes' \in Seq(Nat)
           /\ buffLen' \in Nat /\ dataOffset' \in Nat /\ base' \in Nat
           /\ dataLenToRead' = 0
           /\ ret' = [err |-> "OK", len |-> Head(notes)]
           /\ Head(notes) \in Nat \ {0}
<1> USE DEF IInv
<1>1. /\ base + buffLen = EndOf(sent) /\ base + dataOffset = EndOf(got)
      /\ IF buffLen = 0 THEN dataOffset = 0 ELSE dataOffset < buffLen
      /\ Len(noted) = Len(got) + Len(notes)
      /\ \A i \in 1 .. Len(notes) : notes[i] = noted[Len(got) + i].len
  BY DEF BufferInv
<1>2. /\ sent \in Seq(Chunk) /\ noted \in Seq(Chunk) /\ got \in Seq(Chunk)
      /\ notes \in Seq(Nat) /\ buffLen \in Nat /\ dataOffset \in Nat /\ base \in Nat
      /\ dataLenToRead = 0
  BY DEF TypeOK, ControlInv
<1>3. /\ EndOf(sent) \in Nat /\ EndOf(noted) \in Nat /\ EndOf(got) \in Nat
      /\ Len(sent) \in Nat /\ Len(noted) \in Nat /\ Len(got) \in Nat
  BY <1>2, EndOfFacts, LenProperties
<1>4. Len(notes) \in Nat \ {0}
  BY <1>2, EmptySeq
<1> DEFINE k == Len(got)
           n == Head(notes)
           c == [start |-> EndOf(got), len |-> n]
<1>5. n = noted[k + 1].len
  <2>1. Head(notes) = notes[1]
    BY <1>2, <1>4
  <2> QED
    BY <1>1, <1>3, <1>4, <2>1
<1>6. /\ Len(got) < Len(noted)
      /\ noted[k + 1].start = EndOf(got)
      /\ EndOf(got) + n <= EndOf(noted)
      /\ n \in Nat \ {0}
  <2>1. Len(got) < Len(noted)
    BY <1>1, <1>3, <1>4
  <2> QED
    BY <1>2, <1>5, <2>1, NextChunk DEF HistoryInv
<1>7. dataOffset + n <= buffLen
  <2> HIDE DEF n
  <2>1. EndOf(noted) <= EndOf(sent)
    BY DEF HistoryInv
  <2>2. EndOf(got) + n <= EndOf(sent)
    BY <1>3, <1>6, <2>1
  <2> QED
    BY <1>1, <1>2, <1>3, <1>6, <2>2
<1>8. /\ notes' = Tail(notes) /\ Advance(n) /\ dataLenToRead' = 0
      /\ ret' = [err |-> "OK", len |-> n]
  BY <1>2 DEF TakeNext, Return
<1>9. got' = Append(got, c)
  BY <1>1, <1>8 DEF Advance
<1> HIDE DEF n
<1>10. /\ got' \in Seq(Chunk) /\ Stream(got') /\ EndOf(got') = EndOf(got) + n
       /\ Len(got') = k + 1
       /\ \A i \in 1 .. k : got'[i] = got[i]
       /\ got'[k + 1] = c
  BY <1>2, <1>6, <1>9, StreamAppend DEF HistoryInv
<1>11. /\ notes' \in Seq(Nat) /\ Len(notes') = Len(notes) - 1
       /\ \A i \in 1 .. Len(notes') : notes'[i] = notes[i + 1]
  BY <1>2, <1>8, HeadTailProperties
<1>12. /\ buffLen' \in Nat /\ dataOffset' \in Nat /\ base' \in Nat
       /\ base' + buffLen' = EndOf(sent)
       /\ base' + dataOffset' = EndOf(got) + n
       /\ IF buffLen' = 0 THEN dataOffset' = 0 ELSE dataOffset' < buffLen'
  <2>1. CASE dataOffset + n >= buffLen
    <3>1. buffLen' = 0 /\ dataOffset' = 0 /\ base' = base + buffLen
      BY <1>8, <2>1 DEF Advance
    <3>2. dataOffset + n = buffLen
      BY <1>2, <1>6, <1>7, <2>1
    <3>3. base' + buffLen' = EndOf(sent)
      BY <1>1, <1>2, <3>1
    <3>4. base' + dataOffset' = EndOf(got) + n
      <4>1. base \in Nat /\ dataOffset \in Nat /\ n \in Nat
        BY <1>2, <1>6
      <4>2. base + dataOffset = EndOf(got)
        BY <1>1
      <4>3. base' = base + (dataOffset + n) /\ dataOffset' = 0
        BY <3>1, <3>2
      <4>4. base + (dataOffset + n) = (base + dataOffset) + n
        BY <4>1
      <4>5. base' + dataOffset' = base + (dataOffset + n)
        BY <4>1, <4>3
      <4> QED
        BY <4>2, <4>4, <4>5
    <3>5. base' \in Nat
      BY <1>2, <3>1
    <3> QED
      BY <3>1, <3>3, <3>4, <3>5
  <2>2. CASE ~(dataOffset + n >= buffLen)
    <3>1. dataOffset' = dataOffset + n /\ buffLen' = buffLen /\ base' = base
      BY <1>8, <2>2 DEF Advance
    <3> QED
      BY <1>1, <1>2, <1>6, <1>7, <2>2, <3>1
  <2> QED
    BY <2>1, <2>2
<1>13. noted[k + 1] = c
  <2>1. noted[k + 1] \in Chunk
    BY <1>2, <1>3, <1>6, ElementOfSeq
  <2> QED
    BY <1>5, <1>6, <2>1 DEF Chunk
<1>14. HistoryInv'
  <2>1. \A i \in 1 .. Len(got') : got'[i] = noted[i]
    BY <1>3, <1>10, <1>13 DEF HistoryInv
  <2>2. Len(got') <= Len(noted)
    BY <1>3, <1>6, <1>10
  <2> QED
    BY <1>10, <2>1, <2>2 DEF HistoryInv
<1>15. BufferInv'
  <2>1. \A i \in 1 .. Len(notes') : notes'[i] = noted[Len(got') + i].len
    <3> SUFFICES ASSUME NEW i \in 1 .. Len(notes')
                 PROVE  notes'[i] = noted[k + 1 + i].len
      BY <1>10
    <3>1. i + 1 \in 1 .. Len(notes) /\ k + (i + 1) = k + 1 + i
      BY <1>3, <1>4, <1>11
    <3> QED
      BY <1>1, <1>11, <3>1
  <2>2. Len(noted) = Len(got') + Len(notes')
    BY <1>1, <1>3, <1>4, <1>10, <1>11
  <2> QED
    BY <1>10, <1>12, <2>1, <2>2 DEF BufferInv
<1> QED
  BY <1>6, <1>8, <1>10, <1>11, <1>12, <1>14, <1>15 DEF n

\* The invariant holds of a session that init() has just set up.
LEMMA InitInv == Init => IInv
<1> SUFFICES ASSUME Init PROVE IInv
  OBVIOUS
<1>1. <<>> \in Seq(Chunk) /\ <<>> \in Seq(Nat) /\ Len(<<>>) = 0
  BY EmptySeq
<1>2. EndOf(<<>>) = 0 /\ Stream(<<>>)
  BY <1>1 DEF EndOf, Stream, Contiguous, Ordered
<1>3. TypeOK
  BY <1>1 DEF Init, TypeOK
<1>4. HistoryInv
  BY <1>1, <1>2 DEF Init, HistoryInv
<1>5. BufferInv
  BY <1>1, <1>2 DEF Init, BufferInv
<1>6. ControlInv
  BY DEF Init, ControlInv, EventMatchesCoroutine, Suspended, InterruptionMeansData
<1> QED
  BY <1>3, <1>4, <1>5, <1>6 DEF IInv

\* A step that leaves the stream and the buffer alone keeps what is said of them.
LEMMA StreamUnchanged ==
    ASSUME HistoryInv, BufferInv, UNCHANGED <<connVars, histVars>>,
           pc' # "ended" => pc # "ended"
    PROVE  HistoryInv' /\ BufferInv'
BY DEF HistoryInv, BufferInv, connVars, histVars, Stream, Contiguous, Ordered, EndOf

\* Every step of the server, of libevent and of the worker keeps the invariant.
LEMMA NextInv == IInv /\ [Next]_vars => IInv'
<1> SUFFICES ASSUME IInv, [Next]_vars PROVE IInv'
  OBVIOUS
<1>0. TypeOK /\ HistoryInv /\ BufferInv /\ ControlInv
  BY DEF IInv
<1>1. ASSUME NEW n \in Lens, Forward(n) PROVE IInv'
  BY <1>1, ForwardStep
<1>2. ASSUME NEW n \in Lens, ForwardFails(n) PROVE IInv'
  <2>1. TypeOK'
    BY <1>0, <1>2 DEF TypeOK, ForwardFails, connVars, histVars
  <2>2. ControlInv'
    BY <1>0, <1>2 DEF ControlInv, ForwardFails, connVars, EventMatchesCoroutine,
                      Suspended, InterruptionMeansData, CanTake
  <2>3. HistoryInv' /\ BufferInv'
    BY <1>0, <1>2 DEF ForwardFails, connVars, HistoryInv, BufferInv
  <2> QED
    BY <2>1, <2>2, <2>3 DEF IInv
<1>3. CASE EventReadable
  <2>1. TypeOK'
    BY <1>0, <1>3 DEF TypeOK, EventReadable, connVars, histVars
  <2>2. ControlInv'
    BY <1>0, <1>3 DEF ControlInv, EventReadable, connVars, EventMatchesCoroutine,
                      Suspended, InterruptionMeansData, CanTake
  <2> QED
    BY <1>0, <1>3, <2>1, <2>2, StreamUnchanged DEF EventReadable, IInv
<1>4. CASE TimerExpires
  <2>1. TypeOK'
    BY <1>0, <1>4 DEF TypeOK, TimerExpires, connVars, histVars
  <2>2. ControlInv'
    BY <1>0, <1>4 DEF ControlInv, TimerExpires, connVars, EventMatchesCoroutine,
                      Suspended, InterruptionMeansData, CanTake
  <2> QED
    BY <1>0, <1>4, <2>1, <2>2, StreamUnchanged DEF TimerExpires, IInv
<1>5. CASE CallbackStarts
  <2>1. TypeOK'
    BY <1>0, <1>5 DEF TypeOK, CallbackStarts, Resume, Flags, connVars, histVars
  <2>2. ControlInv'
    BY <1>0, <1>5 DEF TypeOK, ControlInv, CallbackStarts, Resume, Flags, connVars,
                      EventMatchesCoroutine, Suspended, InterruptionMeansData, CanTake
  <2> QED
    BY <1>0, <1>5, <2>1, <2>2, StreamUnchanged DEF CallbackStarts, Resume, IInv
<1>6. CASE CallbackEndsRecv
  <2>0. /\ pc = "recv" /\ pc' = "running" /\ ev' = "none" /\ timed' = FALSE
        /\ what' = Flags /\ limit' = limit /\ ev \in {"readable", "expired"}
    BY <1>6 DEF CallbackEndsRecv, Resume
  <2>1. CASE ev = "readable"
    <3>1. notes # <<>> /\ TakeNext(limit) /\ UNCHANGED <<sent, noted, failed>>
      BY <1>0, <1>6, <2>0, <2>1 DEF CallbackEndsRecv, Flags, ControlInv
    <3>2. limit \in Nat
      BY <1>0 DEF TypeOK
    <3>3. /\ HistoryInv' /\ BufferInv'
          /\ got' \in Seq(Chunk) /\ notes' \in Seq(Nat)
          /\ buffLen' \in Nat /\ dataOffset' \in Nat /\ base' \in Nat
          /\ dataLenToRead' = 0
          /\ ret' = [err |-> "OK", len |-> Head(notes)] /\ Head(notes) \in Nat \ {0}
      BY <2>0, <3>1, <3>2, TakeStep
    <3>4. TypeOK'
      BY <1>0, <2>0, <2>1, <3>1, <3>3 DEF TypeOK, Flags
    <3>5. ControlInv'
      BY <2>0, <3>3 DEF ControlInv, EventMatchesCoroutine, Suspended, InterruptionMeansData
    <3> QED
      BY <3>3, <3>4, <3>5 DEF IInv
  <2>2. CASE ev # "readable"
    <3>1. /\ ret' = [err |-> "TIMEOUT", len |-> 0] /\ what' = {"TIMEOUT"}
          /\ UNCHANGED <<connVars, histVars>>
      BY <1>6, <2>0, <2>2 DEF CallbackEndsRecv, Flags, Return
    <3>2. TypeOK'
      BY <1>0, <2>0, <3>1 DEF TypeOK, connVars, histVars
    <3>3. ControlInv'
      BY <1>0, <2>0, <3>1 DEF ControlInv, EventMatchesCoroutine, Suspended,
                              InterruptionMeansData, connVars
    <3> QED
      BY <1>0, <2>0, <3>1, <3>2, <3>3, StreamUnchanged DEF IInv
  <2> QED
    BY <2>1, <2>2
<1>7. CASE CallbackEndsSleep
  <2>0. /\ pc = "sleep" /\ pc' = "running" /\ ev' = "none" /\ timed' = FALSE
        /\ what' = Flags /\ limit' = limit /\ ev \in {"readable", "expired"}
        /\ UNCHANGED <<connVars, histVars>>
    BY <1>7 DEF CallbackEndsSleep, Resume
  <2>1. /\ ev = "readable" => what' = {"READ"}
        /\ ev # "readable" => what' = {"TIMEOUT"}
    BY <2>0 DEF Flags
  <2>2. ret' = IF ev = "readable" THEN [err |-> "INTERRUPTED_SLEEP", len |-> 0]
                                  ELSE [err |-> "OK", len |-> 0]
    BY <1>7, <2>1 DEF CallbackEndsSleep, Return
  <2>3. TypeOK'
    BY <1>0, <2>0, <2>1, <2>2 DEF TypeOK, connVars, histVars
  <2>4. ControlInv'
    BY <1>0, <2>0, <2>1, <2>2 DEF ControlInv, EventMatchesCoroutine, Suspended,
                                  InterruptionMeansData, CanTake, connVars
  <2> QED
    BY <1>0, <2>0, <2>3, <2>4, StreamUnchanged DEF IInv
<1>8. ASSUME NEW lim \in Limits, RecvAtOnce(lim) PROVE IInv'
  <2>1. /\ pc = "running" /\ pc' = pc /\ UNCHANGED <<ev, timed, what, sent, noted, failed>>
        /\ limit' = lim /\ lim \in Nat
    BY <1>8, LimitsAssumption DEF RecvAtOnce
  <2>2. notes # <<>> /\ TakeNext(lim)
    BY <1>0, <1>8 DEF RecvAtOnce, CanTake, ControlInv
  <2>3. /\ HistoryInv' /\ BufferInv'
        /\ got' \in Seq(Chunk) /\ notes' \in Seq(Nat)
        /\ buffLen' \in Nat /\ dataOffset' \in Nat /\ base' \in Nat
        /\ dataLenToRead' = 0
        /\ ret' = [err |-> "OK", len |-> Head(notes)] /\ Head(notes) \in Nat \ {0}
    BY <2>1, <2>2, TakeStep
  <2>4. TypeOK'
    BY <1>0, <2>1, <2>3 DEF TypeOK
  <2>5. ControlInv'
    BY <1>0, <2>1, <2>3 DEF ControlInv, EventMatchesCoroutine, Suspended,
                            InterruptionMeansData
  <2> QED
    BY <2>3, <2>4, <2>5 DEF IInv
<1>9. ASSUME NEW lim \in Limits, NEW finite \in BOOLEAN, RecvWaits(lim, finite)
      PROVE  IInv'
  <2>1. TypeOK'
    BY <1>0, <1>9, LimitsAssumption DEF TypeOK, RecvWaits, Yield, connVars, histVars
  <2>2. ControlInv'
    BY <1>0, <1>9 DEF ControlInv, RecvWaits, Yield, connVars, EventMatchesCoroutine,
                      Suspended, InterruptionMeansData
  <2> QED
    BY <1>0, <1>9, <2>1, <2>2, StreamUnchanged DEF RecvWaits, Yield, IInv
<1>10. CASE Sleep
  <2>1. TypeOK'
    BY <1>0, <1>10 DEF TypeOK, Sleep, Yield, connVars, histVars
  <2>2. ControlInv'
    BY <1>0, <1>10 DEF ControlInv, Sleep, Yield, connVars, EventMatchesCoroutine,
                       Suspended, InterruptionMeansData
  <2> QED
    BY <1>0, <1>10, <2>1, <2>2, StreamUnchanged DEF Sleep, Yield, IInv
<1>11. CASE WorkerReturns
  <2>1. TypeOK'
    BY <1>0, <1>11, EmptySeq DEF TypeOK, WorkerReturns, histVars
  <2>2. ControlInv'
    BY <1>0, <1>11 DEF ControlInv, WorkerReturns, EventMatchesCoroutine,
                       Suspended, InterruptionMeansData
  <2>3. HistoryInv' /\ BufferInv'
    BY <1>0, <1>11 DEF WorkerReturns, histVars, HistoryInv, BufferInv
  <2> QED
    BY <2>1, <2>2, <2>3 DEF IInv
<1>12. CASE UNCHANGED vars
  <2>1. TypeOK' /\ ControlInv'
    BY <1>0, <1>12 DEF vars, connVars, histVars, TypeOK, ControlInv, EventMatchesCoroutine,
                       Suspended, InterruptionMeansData, CanTake
  <2> QED
    BY <1>0, <1>12, <2>1, StreamUnchanged DEF vars, IInv
<1> QED
  BY <1>1, <1>2, <1>3, <1>4, <1>5, <1>6, <1>7, <1>8, <1>9, <1>10, <1>11, <1>12 DEF Next

\* The inductive invariant holds in every reachable state.
LEMMA Inductive == Spec => []IInv
BY InitInv, NextInv, PTL DEF Spec

-----------------------------------------------------------------------------
(* What it gives.                                                          *)

\* Every variable of the session keeps its type, however large the messages,
\* the limits and the socket: in particular the remainder never goes negative.
THEOREM TypeCorrect == Spec => []TypeOK
BY Inductive, PTL DEF IInv

\* A session is suspended exactly while its event is added or active: no
\* co_yield() without an event_add(), no resume of a coroutine that runs.
THEOREM EventMatches == Spec => []EventMatchesCoroutine
BY Inductive, PTL DEF IInv, ControlInv

\* recv returns the forwarded datagrams whole, in order and once, as long as
\* the socket had room for every notification.
THEOREM Framing == Spec => []Framed
<1>1. IInv => Framed
  BY EndOfFacts DEF IInv, HistoryInv, TypeOK, Framed, dropped
<1> QED
  BY <1>1, Inductive, PTL

\* With or without dropped notifications, recv skips and repeats no byte.
THEOREM ByteOrder == Spec => []BytesInOrder
<1>1. IInv => BytesInOrder
  <2> SUFFICES ASSUME IInv PROVE BytesInOrder
    OBVIOUS
  <2>1. Contiguous(got) /\ EndOf(noted) <= EndOf(sent)
    BY DEF IInv, HistoryInv, Stream
  <2>2. /\ sent \in Seq(Chunk) /\ noted \in Seq(Chunk) /\ got \in Seq(Chunk)
        /\ EndOf(sent) \in Nat /\ EndOf(noted) \in Nat /\ EndOf(got) \in Nat
    BY EndOfFacts DEF IInv, TypeOK
  <2>3. EndOf(got) <= EndOf(noted)
    <3>1. CASE Len(got) = Len(noted)
      <4>1. got = noted
        BY <2>2, <3>1, SeqEqual DEF IInv, HistoryInv
      <4> QED
        BY <2>2, <4>1
    <3>2. CASE Len(got) < Len(noted)
      <4>1. /\ EndOf(got) + noted[Len(got) + 1].len <= EndOf(noted)
            /\ noted[Len(got) + 1].len \in Nat
        BY <2>2, <3>2, NextChunk DEF IInv, HistoryInv
      <4> QED
        BY <2>2, <4>1
    <3> QED
      BY <2>2, <3>1, <3>2, LenProperties DEF IInv, HistoryInv
  <2> QED
    BY <2>1, <2>2, <2>3 DEF BytesInOrder
<1> QED
  BY <1>1, Inductive, PTL

\* As long as no notification was dropped the buffer holds unread bytes
\* exactly while the socket holds a length, so data always wakes the session.
THEOREM DataAnnounced == Spec => []DataIsAnnounced
<1>1. IInv => DataIsAnnounced
  <2> SUFFICES ASSUME IInv, dropped = 0, pc # "ended"
               PROVE  buffLen > 0 <=> notes # <<>>
    BY DEF DataIsAnnounced
  <2>1. /\ sent \in Seq(Chunk) /\ noted \in Seq(Chunk) /\ got \in Seq(Chunk)
        /\ EndOf(sent) \in Nat /\ EndOf(got) \in Nat
        /\ Len(sent) \in Nat /\ Len(noted) \in Nat /\ Len(got) \in Nat
        /\ Len(notes) \in Nat /\ (notes = <<>> <=> Len(notes) = 0)
        /\ buffLen \in Nat /\ dataOffset \in Nat /\ base \in Nat
    BY EndOfFacts, EmptySeq, LenProperties DEF IInv, TypeOK
  <2>2. noted = sent
    BY <2>1 DEF IInv, HistoryInv, dropped
  <2>3. /\ base + buffLen = EndOf(sent) /\ base + dataOffset = EndOf(got)
        /\ IF buffLen = 0 THEN dataOffset = 0 ELSE dataOffset < buffLen
        /\ Len(noted) = Len(got) + Len(notes)
    BY DEF IInv, BufferInv
  <2>4. CASE notes = <<>>
    <3>1. got = noted
      BY <2>1, <2>3, <2>4, SeqEqual DEF IInv, HistoryInv
    <3> QED
      BY <2>1, <2>2, <2>3, <2>4, <3>1
  <2>5. CASE notes # <<>>
    <3>1. Len(got) < Len(noted)
      BY <2>1, <2>3, <2>5
    <3>2. /\ EndOf(got) + noted[Len(got) + 1].len <= EndOf(noted)
          /\ noted[Len(got) + 1].len \in Nat \ {0}
      BY <2>1, <3>1, NextChunk DEF IInv, HistoryInv
    <3>3. EndOf(got) < EndOf(sent)
      BY <2>1, <2>2, <3>2
    <3>4. base + dataOffset < base + buffLen
      BY <2>3, <3>3
    <3> QED
      BY <2>1, <2>5, <3>4
  <2> QED
    BY <2>4, <2>5
<1> QED
  BY <1>1, Inductive, PTL

\* A sleep interrupted by data leaves data that the next recv takes at once.
THEOREM InterruptedSleep == Spec => []InterruptionMeansData
BY Inductive, PTL DEF IInv, ControlInv

\* recv reports success only with data, and no unknown flags.
THEOREM SuccessWithData == Spec => SuccessHasData
<1>1. IInv /\ [Next]_vars =>
         [(\E lim \in Limits : RecvAtOnce(lim)) \/ CallbackEndsRecv =>
             ret'.err \in {"OK", "TIMEOUT"} /\ (ret'.err = "OK" => ret'.len > 0)]_vars
  <2> SUFFICES ASSUME IInv, (\E lim \in Limits : RecvAtOnce(lim)) \/ CallbackEndsRecv
               PROVE  ret'.err \in {"OK", "TIMEOUT"} /\ (ret'.err = "OK" => ret'.len > 0)
    OBVIOUS
  <2>1. ASSUME NEW lim \in Limits, RecvAtOnce(lim)
        PROVE  ret' = [err |-> "OK", len |-> Head(notes)] /\ Head(notes) \in Nat \ {0}
    <3>1. /\ pc = "running" /\ pc' = pc /\ lim \in Nat
          /\ UNCHANGED <<sent, noted, failed>>
      BY <2>1, LimitsAssumption DEF RecvAtOnce
    <3>2. notes # <<>> /\ TakeNext(lim)
      BY <2>1 DEF RecvAtOnce, CanTake, IInv, ControlInv, TypeOK
    <3> QED
      BY <3>1, <3>2, TakeStep
  <2>2. ASSUME CallbackEndsRecv, ev = "readable"
        PROVE  ret' = [err |-> "OK", len |-> Head(notes)] /\ Head(notes) \in Nat \ {0}
    <3>1. pc = "recv" /\ pc' = "running" /\ limit \in Nat
      BY <2>2 DEF CallbackEndsRecv, Resume, IInv, TypeOK
    <3>2. notes # <<>> /\ TakeNext(limit) /\ UNCHANGED <<sent, noted, failed>>
      BY <2>2 DEF CallbackEndsRecv, Resume, Flags, IInv, ControlInv
    <3> QED
      BY <3>1, <3>2, TakeStep
  <2>3. ASSUME CallbackEndsRecv, ev # "readable"
        PROVE  ret' = [err |-> "TIMEOUT", len |-> 0]
    BY <2>3 DEF CallbackEndsRecv, Resume, Flags, Return
  <2> QED
    BY <2>1, <2>2, <2>3
<1> QED
  BY <1>1, Inductive, PTL DEF SuccessHasData, Spec

-----------------------------------------------------------------------------
(* The channel of datagrams.                                               *)

\* What the channel still holds: the forwarded datagrams that recv has not
\* returned.
Unread == SubSeq(sent, Len(got) + 1, Len(sent))

\* The elements of the unread part, counted from its first.
LEMMA UnreadFacts ==
    ASSUME NEW all \in Seq(Chunk), NEW k \in Nat, k <= Len(all)
    PROVE  /\ SubSeq(all, k + 1, Len(all)) \in Seq(Chunk)
           /\ Len(SubSeq(all, k + 1, Len(all))) = Len(all) - k
           /\ \A i \in 1 .. Len(all) - k : SubSeq(all, k + 1, Len(all))[i] = all[k + i]
<1>1. Len(all) \in Nat /\ \A i \in k + 1 .. Len(all) : all[i] \in Chunk
  BY LenProperties, ElementOfSeq
<1>2. SubSeq(all, k + 1, Len(all)) = [i \in 1 .. Len(all) - k |-> all[k + i]]
  BY <1>1
<1> QED
  BY <1>1, <1>2

\* Appending to all appends to the unread part.
LEMMA UnreadGrows ==
    ASSUME NEW all \in Seq(Chunk), NEW k \in Nat, k <= Len(all), NEW c \in Chunk
    PROVE  SubSeq(Append(all, c), k + 1, Len(Append(all, c)))
               = Append(SubSeq(all, k + 1, Len(all)), c)
<1> DEFINE longer == Append(all, c)
           rest   == SubSeq(all, k + 1, Len(all))
           goal   == SubSeq(longer, k + 1, Len(longer))
<1>1. /\ Len(all) \in Nat /\ longer \in Seq(Chunk) /\ Len(longer) = Len(all) + 1
      /\ \A i \in 1 .. Len(all) : longer[i] = all[i]
      /\ longer[Len(all) + 1] = c
  BY LenProperties, AppendProperties
<1> HIDE DEF longer
<1>2. /\ goal \in Seq(Chunk) /\ Len(goal) = Len(longer) - k
      /\ \A i \in 1 .. Len(longer) - k : goal[i] = longer[k + i]
  BY <1>1, UnreadFacts
<1>3. /\ rest \in Seq(Chunk) /\ Len(rest) = Len(all) - k
      /\ \A i \in 1 .. Len(all) - k : rest[i] = all[k + i]
  BY UnreadFacts
<1> HIDE DEF rest, goal
<1>4. /\ Append(rest, c) \in Seq(Chunk) /\ Len(Append(rest, c)) = Len(rest) + 1
      /\ \A i \in 1 .. Len(rest) : Append(rest, c)[i] = rest[i]
      /\ Append(rest, c)[Len(rest) + 1] = c
  BY <1>3, AppendProperties
<1>5. \A i \in 1 .. Len(goal) : goal[i] = Append(rest, c)[i]
  <2> SUFFICES ASSUME NEW i \in 1 .. Len(goal) PROVE goal[i] = Append(rest, c)[i]
    OBVIOUS
  <2>1. i \in 1 .. Len(longer) - k /\ goal[i] = longer[k + i]
    BY <1>2
  <2>2. CASE i \in 1 .. Len(all) - k
    <3>1. k + i \in 1 .. Len(all)
      BY <1>1, <2>2
    <3> QED
      BY <1>1, <1>3, <1>4, <2>1, <2>2, <3>1
  <2>3. CASE i = Len(all) - k + 1
    <3>1. k + i = Len(all) + 1 /\ i = Len(rest) + 1
      BY <1>1, <1>3, <2>3
    <3> QED
      BY <1>1, <1>4, <2>1, <3>1
  <2>4. i \in 1 .. Len(all) - k \/ i = Len(all) - k + 1
    <3>1. Len(goal) = (Len(all) - k) + 1 /\ Len(all) - k \in Nat
      BY <1>1, <1>2
    <3> QED
      BY <3>1
  <2> QED
    BY <2>2, <2>3, <2>4
<1>6. Len(goal) = Len(Append(rest, c))
  BY <1>1, <1>2, <1>3, <1>4
<1>7. goal = Append(rest, c)
  BY <1>2, <1>4, <1>5, <1>6, SeqEqual
<1> QED
  BY <1>7 DEF goal, rest, longer

\* Reading one more leaves the tail of the unread part.
LEMMA UnreadShrinks ==
    ASSUME NEW all \in Seq(Chunk), NEW k \in Nat, k < Len(all)
    PROVE  /\ SubSeq(all, k + 1, Len(all)) # <<>>
           /\ Head(SubSeq(all, k + 1, Len(all))) = all[k + 1]
           /\ SubSeq(all, k + 2, Len(all)) = Tail(SubSeq(all, k + 1, Len(all)))
<1> DEFINE rest == SubSeq(all, k + 1, Len(all))
           goal == SubSeq(all, k + 2, Len(all))
<1>1. Len(all) \in Nat
  BY LenProperties
<1>2. /\ rest \in Seq(Chunk) /\ Len(rest) = Len(all) - k
      /\ \A i \in 1 .. Len(all) - k : rest[i] = all[k + i]
  BY <1>1, UnreadFacts
<1>3. k + 2 = (k + 1) + 1 /\ k + 1 \in Nat /\ k + 1 <= Len(all)
  BY <1>1
<1>4. /\ goal \in Seq(Chunk) /\ Len(goal) = Len(all) - (k + 1)
      /\ \A i \in 1 .. Len(all) - (k + 1) : goal[i] = all[(k + 1) + i]
  BY <1>1, <1>3, UnreadFacts
<1> HIDE DEF rest, goal
<1>5. rest # <<>> /\ Len(rest) > 0
  BY <1>1, <1>2, EmptySeq
<1>6. /\ Tail(rest) \in Seq(Chunk) /\ Len(Tail(rest)) = Len(rest) - 1
      /\ \A i \in 1 .. Len(Tail(rest)) : Tail(rest)[i] = rest[i + 1]
  BY <1>2, <1>5, HeadTailProperties
<1>7. Head(rest) = all[k + 1]
  <2>1. Head(rest) = rest[1]
    BY <1>2, <1>5
  <2> QED
    BY <1>1, <1>2, <2>1
<1>8. \A i \in 1 .. Len(goal) : goal[i] = Tail(rest)[i]
  <2> SUFFICES ASSUME NEW i \in 1 .. Len(goal) PROVE goal[i] = Tail(rest)[i]
    OBVIOUS
  <2>1. /\ i \in 1 .. Len(all) - (k + 1) /\ i \in 1 .. Len(Tail(rest))
        /\ i + 1 \in 1 .. Len(all) - k /\ k + (i + 1) = (k + 1) + i
    BY <1>1, <1>2, <1>4, <1>6
  <2> QED
    BY <1>2, <1>4, <1>6, <2>1
<1>9. Len(goal) = Len(Tail(rest))
  BY <1>1, <1>2, <1>4, <1>6
<1>10. goal = Tail(rest)
  BY <1>4, <1>6, <1>8, <1>9, SeqEqual
<1> QED
  BY <1>5, <1>7, <1>10 DEF goal, rest

\* A recv that returns a datagram, seen from the channel.
LEMMA TakeIsTake ==
    ASSUME IInv, pc # "ended", pc' # "ended", notes # <<>>,
           NEW lim \in Nat, TakeNext(lim), UNCHANGED <<sent, noted, failed>>, dropped = 0
    PROVE  /\ Unread # <<>> /\ got' = Append(got, Head(Unread)) /\ Unread' = Tail(Unread)
           /\ dropped' = dropped
<1> DEFINE k == Len(got)
<1>1. /\ sent \in Seq(Chunk) /\ noted \in Seq(Chunk) /\ got \in Seq(Chunk)
      /\ Len(sent) \in Nat /\ Len(noted) \in Nat /\ k \in Nat
  BY LenProperties DEF IInv, TypeOK
<1>2. noted = sent
  BY <1>1 DEF IInv, HistoryInv, dropped
<1>3. PICK c : got' = Append(got, c)
  BY DEF TakeNext, Advance
<1>4. HistoryInv' /\ got' \in Seq(Chunk)
  BY TakeStep
<1>5. c \in Chunk /\ Len(got') = k + 1 /\ got'[k + 1] = c
  <2>1. Len(Append(got, c)) = k + 1 /\ Append(got, c)[k + 1] = c
    BY <1>1
  <2>2. k + 1 \in 1 .. Len(got')
    BY <1>1, <1>3, <2>1
  <2>3. got'[k + 1] \in Chunk
    BY <1>4, <2>2, ElementOfSeq
  <2> QED
    BY <1>3, <2>1, <2>3
<1>6. c = sent[k + 1] /\ k < Len(sent)
  <2>1. k + 1 <= Len(noted) /\ got'[k + 1] = noted[k + 1]
    BY <1>1, <1>4, <1>5 DEF HistoryInv
  <2> QED
    BY <1>1, <1>2, <1>5, <2>1
<1>7. /\ Unread # <<>> /\ Head(Unread) = sent[k + 1]
      /\ SubSeq(sent, k + 2, Len(sent)) = Tail(Unread)
  BY <1>1, <1>6, UnreadShrinks DEF Unread
<1>8. Unread' = SubSeq(sent, (k + 1) + 1, Len(sent))
  BY <1>5 DEF Unread
<1>9. (k + 1) + 1 = k + 2
  BY <1>1
<1> QED
  BY <1>3, <1>6, <1>7, <1>8, <1>9 DEF dropped

\* A forward, seen from the channel: the datagram is put, or the first one
\* without a notification breaks the channel.
LEMMA ForwardIsPut ==
    ASSUME IInv, NEW n \in Lens, Forward(n)
    PROVE  /\ dropped' >= dropped /\ dropped \in Nat /\ dropped' \in Nat
           /\ dropped' = 0 => \E c \in Chunk : Unread' = Append(Unread, c)
<1>1. /\ sent \in Seq(Chunk) /\ noted \in Seq(Chunk) /\ got \in Seq(Chunk)
      /\ Len(sent) \in Nat /\ Len(noted) \in Nat /\ Len(got) \in Nat
      /\ Len(noted) <= Len(sent) /\ Len(got) <= Len(sent)
      /\ base \in Nat /\ buffLen \in Nat /\ n \in Nat
  BY LensAssumption, LenProperties DEF IInv, TypeOK, HistoryInv
<1> DEFINE c == [start |-> base + buffLen, len |-> n]
<1>2. c \in Chunk /\ sent' = Append(sent, c) /\ got' = got
  BY <1>1 DEF Forward, Chunk
<1> HIDE DEF c
<1>3. Len(sent') = Len(sent) + 1
  BY <1>1, <1>2, AppendProperties
<1>4. Len(noted') \in {Len(noted), Len(noted) + 1}
  BY <1>1 DEF Forward, AppendChunk
<1>5. Unread' = Append(Unread, c)
  BY <1>1, <1>2, UnreadGrows DEF Unread
<1> QED
  BY <1>1, <1>2, <1>3, <1>4, <1>5 DEF dropped

\* What the worker is doing in the eyes of the channel.
Receiver == CASE pc = "recv" -> "receiving"
              [] pc = "ended" -> "closed"
              [] OTHER -> "idle"

\* A session that was just set up is an empty channel.
LEMMA ChannelInit == Init => Channel!ChanInit
<1> SUFFICES ASSUME Init PROVE Channel!ChanInit
  OBVIOUS
<1>1. sent = <<>> /\ noted = <<>> /\ got = <<>> /\ pc = "created"
  BY DEF Init
<1>2. SubSeq(sent, Len(got) + 1, Len(sent)) = <<>>
  BY <1>1, EmptySeq
<1>3. ~(dropped > 0)
  BY <1>1, EmptySeq DEF dropped
<1> QED
  BY <1>1, <1>2, <1>3 DEF Channel!ChanInit

\* Every step of the session is a step of the channel or none: forwards put a
\* datagram or break the channel, recv takes, waits or times out, and the end
\* of the worker closes it.
LEMMA ChannelStep == IInv /\ [Next]_vars => [Channel!ChanNext]_(Channel!chanVars)
<1> SUFFICES ASSUME IInv, [Next]_vars
             PROVE  Channel!ChanNext \/ UNCHANGED Channel!chanVars
  OBVIOUS
<1> DEFINE Goal == Channel!ChanNext \/ UNCHANGED Channel!chanVars
<1>1. /\ sent \in Seq(Chunk) /\ noted \in Seq(Chunk) /\ got \in Seq(Chunk)
      /\ Len(sent) \in Nat /\ Len(noted) \in Nat /\ dropped \in Nat /\ limit \in Nat
      /\ pc \in {"created", "running", "recv", "sleep", "ended"}
  BY LenProperties DEF IInv, TypeOK, HistoryInv, dropped
<1>2. ASSUME UNCHANGED <<sent, noted, got>>, Receiver' = Receiver  PROVE Goal
  BY <1>2 DEF Channel!chanVars, Receiver, dropped
<1>3. ASSUME UNCHANGED <<sent, noted>>, dropped > 0  PROVE Goal
  BY <1>3 DEF Channel!ChanNext, Channel!AfterBreak, dropped
<1>4. ASSUME NEW n \in Lens, Forward(n)  PROVE Goal
  <2>1. /\ dropped' >= dropped /\ dropped' \in Nat
        /\ dropped' = 0 => \E c \in Chunk : Unread' = Append(Unread, c)
        /\ UNCHANGED <<got, pc>> /\ pc # "ended"
    BY <1>4, ForwardIsPut DEF Forward, Suspended
  <2>2. CASE dropped > 0
    BY <1>1, <2>1, <2>2 DEF Channel!ChanNext, Channel!AfterBreak
  <2>3. CASE dropped = 0 /\ dropped' > 0
    BY <1>1, <2>1, <2>3 DEF Channel!ChanNext, Channel!Break
  <2>4. CASE dropped = 0 /\ dropped' = 0
    <3>1. PICK c \in Chunk : Unread' = Append(Unread, c)
      BY <2>1, <2>4
    <3>2. Unread \in Seq(Chunk)
      BY <1>1, UnreadFacts, LenProperties DEF Unread, IInv, HistoryInv
    <3>3. Unread' # <<>> /\ Unread'[Len(Unread')] = c
      BY <3>1, <3>2, AppendProperties
    <3>4. Channel!Put
      BY <1>1, <2>1, <2>4, <3>1, <3>3 DEF Channel!Put, Unread
    <3> QED
      BY <3>4 DEF Channel!ChanNext
  <2> QED
    BY <1>1, <2>1, <2>2, <2>3, <2>4
<1>5. ASSUME NEW lim \in Nat, TakeNext(lim), notes # <<>>, pc \in {"running", "recv"},
             pc' = "running", UNCHANGED <<sent, noted, failed>>
      PROVE  Goal
  <2>1. CASE dropped > 0
    BY <1>3, <1>5, <2>1
  <2>2. CASE dropped = 0
    <3>1. /\ Unread # <<>> /\ got' = Append(got, Head(Unread)) /\ Unread' = Tail(Unread)
          /\ dropped' = dropped
      BY <1>5, <2>2, TakeIsTake
    <3>2. Channel!Take
      BY <1>5, <3>1 DEF Channel!Take, Unread
    <3>3. Channel!TakeAtOnce \/ Channel!TakeAfterWait
      BY <1>5, <3>2 DEF Channel!TakeAtOnce, Channel!TakeAfterWait
    <3> QED
      BY <3>3 DEF Channel!ChanNext
  <2> QED
    BY <1>1, <2>1, <2>2
<1>6. ASSUME NEW n \in Lens, ForwardFails(n)  PROVE Goal
  BY <1>2, <1>6 DEF ForwardFails, Receiver
<1>7. ASSUME EventReadable \/ TimerExpires  PROVE Goal
  BY <1>2, <1>7 DEF EventReadable, TimerExpires, histVars, Receiver
<1>8. ASSUME CallbackStarts \/ CallbackEndsSleep  PROVE Goal
  BY <1>2, <1>8 DEF CallbackStarts, CallbackEndsSleep, Resume, histVars, Receiver
<1>9. ASSUME CallbackEndsRecv  PROVE Goal
  <2>1. pc = "recv" /\ pc' = "running" /\ what' = Flags /\ ev \in {"readable", "expired"}
    BY <1>9 DEF CallbackEndsRecv, Resume
  <2>2. CASE ev = "readable"
    <3>1. notes # <<>> /\ TakeNext(limit) /\ UNCHANGED <<sent, noted, failed>>
      BY <1>9, <2>1, <2>2 DEF CallbackEndsRecv, Flags, IInv, ControlInv
    <3> QED
      BY <1>1, <1>5, <2>1, <3>1
  <2>3. CASE ev # "readable"
    <3>1. UNCHANGED <<sent, noted, got>>
      BY <1>9, <2>1, <2>3 DEF CallbackEndsRecv, Flags, histVars
    <3>2. Channel!TimeOut
      BY <2>1, <3>1 DEF Channel!TimeOut, dropped
    <3> QED
      BY <3>2 DEF Channel!ChanNext
  <2> QED
    BY <2>2, <2>3
<1>10. ASSUME NEW lim \in Limits, RecvAtOnce(lim)  PROVE Goal
  <2>1. /\ pc = "running" /\ pc' = "running" /\ UNCHANGED <<sent, noted, failed>>
        /\ lim \in Nat /\ notes # <<>> /\ TakeNext(lim)
    BY <1>10, LimitsAssumption DEF RecvAtOnce, CanTake, IInv, ControlInv, TypeOK
  <2> QED
    BY <1>5, <2>1
<1>11. ASSUME NEW lim \in Limits, NEW finite \in BOOLEAN, RecvWaits(lim, finite)  PROVE Goal
  <2>1. pc = "running" /\ pc' = "recv" /\ UNCHANGED <<sent, noted, got>>
    BY <1>11 DEF RecvWaits, Yield, histVars
  <2>2. Channel!Wait
    BY <2>1 DEF Channel!Wait, dropped
  <2> QED
    BY <2>2 DEF Channel!ChanNext
<1>12. ASSUME Sleep  PROVE Goal
  BY <1>2, <1>12 DEF Sleep, Yield, histVars, Receiver
<1>13. ASSUME WorkerReturns  PROVE Goal
  <2>1. pc = "running" /\ pc' = "ended" /\ UNCHANGED <<sent, noted, got>>
    BY <1>13 DEF WorkerReturns, histVars
  <2>2. Channel!Close
    BY <2>1 DEF Channel!Close, dropped
  <2> QED
    BY <2>2 DEF Channel!ChanNext
<1>14. ASSUME UNCHANGED vars  PROVE Goal
  BY <1>2, <1>14 DEF vars, histVars, Receiver
<1> HIDE DEF Goal
<1>15. Goal
  BY <1>4, <1>6, <1>7, <1>8, <1>9, <1>10, <1>11, <1>12, <1>13, <1>14 DEF Next
<1> QED
  BY <1>15 DEF Goal

\* recv and forward_incoming_data together implement the channel of whole
\* datagrams, but for its fairness: for every set of lengths and limits and
\* every size of the socket they start as it does, and each of their steps is
\* one of its steps or changes nothing that it shows.
THEOREM Refinement == Spec => Channel!ChanInit /\ [][Channel!ChanNext]_(Channel!chanVars)
BY ChannelInit, ChannelStep, Inductive, PTL DEF Spec
=============================================================================
