------------------------------ MODULE UdpSession ------------------------------
(***************************************************************************)
(* One UDP session (coevent_udp_session.cpp): the coroutine that serves    *)
(* one peer of a UDPServer in session mode.                                *)
(*                                                                         *)
(* The server's coroutine receives every datagram and forwards the peer's  *)
(* to the session: it sends the length of the datagram, as a datagram of   *)
(* its own, to the session's private socket and appends the bytes to the   *)
(* session's buffer.  The session's recv reads a length from the socket    *)
(* and takes that many bytes from the buffer.  Nothing but arithmetic      *)
(* keeps the two queues in step.                                           *)
(*                                                                         *)
(* Bytes are identified by their position in the stream of all bytes ever  *)
(* appended, so the buffer is the range base .. base + buffLen - 1 of that *)
(* stream.  Everything runs in one thread: while the session's coroutine   *)
(* runs (pc = "running") neither the server's nor libevent's steps occur.  *)
(*                                                                         *)
(* An operator named X_... is X with a plausible slip; no specification    *)
(* uses it.                                                                *)
(***************************************************************************)
EXTENDS Naturals, Sequences

CONSTANTS
    Lens,          \* lengths of datagrams
    Limits,        \* values of recv's len_limit
    Capacity,      \* notifications the session's socket can hold
    MaxForward,    \* bound: datagrams appended to the buffer
    MaxFail        \* bound: forwards whose sendto fails

ASSUME LensAssumption == Lens \subseteq Nat \ {0}
ASSUME LimitsAssumption == Limits \subseteq Nat \ {0}
ASSUME BoundsAssumption ==
    Capacity \in Nat \ {0} /\ MaxForward \in Nat /\ MaxFail \in Nat

VARIABLES
    pc,             \* where the session's coroutine is
    ev,             \* the session's libevent event
    timed,          \* that event has a timer that can run out
    what,           \* *_libevent_what_storage
    notes,          \* lengths queued in the session's socket
    buffLen,        \* _data_buff.length()
    dataOffset,     \* _data_offset
    dataLenToRead,  \* _data_len_to_read
    limit,          \* len_limit of the recv in progress or last done
    ret,            \* what the last recv or sleep returned
    \* history variables: they only record
    base,           \* stream position of the buffer's first byte
    sent,           \* datagrams appended to the buffer
    noted,          \* datagrams whose notification was queued
    got,            \* byte ranges recv copied to the worker
    failed          \* forwards that failed

connVars == <<notes, buffLen, dataOffset, dataLenToRead>>
histVars == <<base, sent, noted, got, failed>>
vars == <<pc, ev, timed, what, connVars, limit, ret, histVars>>

-----------------------------------------------------------------------------
(* Chunks of the stream.                                                   *)

Chunk == [start : Nat, len : Nat]

EndOf(chunks) ==
    IF chunks = <<>> THEN 0
    ELSE chunks[Len(chunks)].start + chunks[Len(chunks)].len

AppendChunk(chunks, n) == Append(chunks, [start |-> EndOf(chunks), len |-> n])

Contiguous(chunks) ==
    /\ chunks # <<>> => chunks[1].start = 0
    /\ \A i \in 1 .. Len(chunks) - 1 :
          chunks[i + 1].start = chunks[i].start + chunks[i].len

dropped == Len(sent) - Len(noted)

Suspended == pc \in {"created", "recv", "sleep"}

TypeOK ==
    /\ pc \in {"created", "running", "recv", "sleep", "ended"}
    /\ ev \in {"none", "pending", "readable", "expired"}
    /\ timed \in BOOLEAN
    /\ what \subseteq {"READ", "TIMEOUT"}
    /\ notes \in Seq(Nat)
    /\ buffLen \in Nat /\ dataOffset \in Nat /\ dataLenToRead \in Nat
    /\ limit \in Nat
    /\ ret \in [err : {"NONE", "OK", "TIMEOUT", "INTERRUPTED_SLEEP", "UNKNOWN"},
                len : Nat]
    /\ base \in Nat /\ failed \in Nat
    /\ sent \in Seq(Chunk) /\ noted \in Seq(Chunk) /\ got \in Seq(Chunk)

\* init(): the event is added with a zero timer, so that the coroutine starts
\* in the next turn of the loop.
Init ==
    /\ pc = "created" /\ ev = "pending" /\ timed = TRUE /\ what = {}
    /\ notes = <<>> /\ buffLen = 0 /\ dataOffset = 0 /\ dataLenToRead = 0
    /\ limit = 0 /\ ret = [err |-> "NONE", len |-> 0]
    /\ base = 0 /\ sent = <<>> /\ noted = <<>> /\ got = <<>> /\ failed = 0

-----------------------------------------------------------------------------
(* The server's side: forward_incoming_data, called by the server's        *)
(* coroutine while this session's is suspended.                            *)

Forward_NotesTotal(n) ==
    /\ Suspended /\ Len(sent) < MaxForward
    /\ notes' = Append(notes, buffLen + n)
    /\ buffLen' = buffLen + n
    /\ sent' = Append(sent, [start |-> base + buffLen, len |-> n])
    /\ noted' = AppendChunk(noted, n)
    /\ UNCHANGED <<pc, ev, timed, what, dataOffset, dataLenToRead,
                   limit, ret, base, got, failed>>

\* sendto() succeeds whether or not the receive buffer of the socket has
\* room: a notification that does not fit is dropped without an error, and
\* the bytes are appended all the same.
Forward(n) ==
    /\ Suspended /\ Len(sent) < MaxForward
    /\ IF Len(notes) < Capacity
       THEN /\ notes' = Append(notes, n)
            /\ noted' = AppendChunk(noted, n)
       ELSE UNCHANGED <<notes, noted>>
    /\ buffLen' = buffLen + n
    /\ sent' = Append(sent, [start |-> base + buffLen, len |-> n])
    /\ UNCHANGED <<pc, ev, timed, what, dataOffset, dataLenToRead,
                   limit, ret, base, got, failed>>

ForwardFails_Appends(n) ==
    /\ Suspended /\ failed < MaxFail
    /\ failed' = failed + 1
    /\ buffLen' = buffLen + n
    /\ UNCHANGED <<pc, ev, timed, what, notes, dataOffset, dataLenToRead,
                   limit, ret, base, sent, noted, got>>

\* sendto() returns an error: forward_incoming_data returns before append.
ForwardFails(n) ==
    /\ Suspended /\ failed < MaxFail
    /\ failed' = failed + 1
    /\ UNCHANGED <<pc, ev, timed, what, connVars, limit, ret,
                   base, sent, noted, got>>

-----------------------------------------------------------------------------
(* libevent: activation of the event, before its callback runs.            *)

\* The socket is found readable.  An event whose timer is already due (the
\* zero timer of init) is taken over by that timer in the same turn.
EventReadable ==
    /\ ev = "pending" /\ pc # "created"
    /\ notes # <<>>
    /\ ev' = "readable"
    /\ UNCHANGED <<pc, timed, what, connVars, limit, ret, histVars>>

\* A due timer removes the event, active or not, and activates it anew: the
\* callback then sees EV_TIMEOUT alone.
TimerExpires ==
    /\ ev \in {"pending", "readable"} /\ timed
    /\ ev' = "expired"
    /\ UNCHANGED <<pc, timed, what, connVars, limit, ret, histVars>>

-----------------------------------------------------------------------------
(* Fetching data, the code at the heart of recv.                           *)

Return(err, n) == ret' = [err |-> err, len |-> n]

Advance_NeverClears(n) ==
    /\ got' = Append(got, [start |-> base + dataOffset, len |-> n])
    /\ dataOffset' = dataOffset + n
    /\ UNCHANGED <<buffLen, base>>

Advance_ClearsAlways(n) ==
    /\ got' = Append(got, [start |-> base + dataOffset, len |-> n])
    /\ buffLen' = 0 /\ dataOffset' = 0 /\ base' = base + buffLen

\* "if all data read?": the buffer is cleared when the offset reaches its end.
Advance(n) ==
    LET offset == dataOffset + n
    IN  /\ got' = Append(got, [start |-> base + dataOffset, len |-> n])
        /\ IF offset >= buffLen
           THEN buffLen' = 0 /\ dataOffset' = 0 /\ base' = base + buffLen
           ELSE dataOffset' = offset /\ UNCHANGED <<buffLen, base>>

\* A remainder left by an earlier recv is taken without reading a length.
TakeRemainder(lim) ==
    LET n == IF lim < dataLenToRead THEN lim ELSE dataLenToRead
    IN  /\ Advance(n)
        /\ dataLenToRead' =
              IF dataOffset + n >= buffLen THEN 0 ELSE dataLenToRead - n
        /\ Return("OK", n)
        /\ UNCHANGED notes

TakeNext_NegativeRemainder(lim) ==
    LET dataLen == IF notes = <<>> THEN 0 ELSE Head(notes)
        n       == IF lim < dataLen THEN lim ELSE dataLen
    IN  /\ notes' = IF notes = <<>> THEN <<>> ELSE Tail(notes)
        /\ Advance(n)
        /\ dataLenToRead' = IF lim < dataLen THEN lim - dataLen ELSE 0
        /\ Return("OK", n)

\* One length is read (EAGAIN leaves the length zero) and that many bytes are
\* taken.  The code compares len_limit with the remainder of the previous
\* recv, not with the length.
TakeNext(lim) ==
    LET dataLen   == IF notes = <<>> THEN 0 ELSE Head(notes)
        truncated == lim < dataLenToRead
        n         == IF truncated THEN lim ELSE dataLen
    IN  /\ notes' = IF notes = <<>> THEN <<>> ELSE Tail(notes)
        /\ Advance(n)
        /\ dataLenToRead' =
              IF dataOffset + n < buffLen /\ truncated THEN dataLen - lim ELSE 0
        /\ Return("OK", n)

-----------------------------------------------------------------------------
(* The session's coroutine: the calls its worker makes while it runs.      *)

Yield_Unarmed(where, finite) ==
    /\ pc' = where /\ ev' = "none" /\ timed' = finite

\* event_add() and co_yield().
Yield(where, finite) ==
    /\ pc' = where /\ ev' = "pending" /\ timed' = finite

CanTake_TrustsFlag == dataLenToRead > 0 \/ "READ" \in what

CanTake == dataLenToRead > 0 \/ ("READ" \in what /\ notes # <<>>)

\* recv returns without waiting.
RecvAtOnce(lim) ==
    /\ pc = "running" /\ CanTake
    /\ IF dataLenToRead > 0 THEN TakeRemainder(lim) ELSE TakeNext(lim)
    /\ limit' = lim
    /\ UNCHANGED <<pc, ev, timed, what, sent, noted, failed>>

\* recv finds no data.  With EV_READ still set from an earlier callback it
\* learns so from EAGAIN, clears the flag and calls itself.
RecvWaits(lim, finite) ==
    /\ pc = "running" /\ ~CanTake
    /\ what' = what \ {"READ"}
    /\ limit' = lim
    /\ Yield("recv", finite)
    /\ UNCHANGED <<connVars, ret, histVars>>

Sleep ==
    /\ pc = "running"
    /\ Yield("sleep", TRUE)
    /\ UNCHANGED <<what, connVars, limit, ret, histVars>>

\* The worker function returns: the callback takes the session out of the
\* server's map and deletes it with its socket and its buffer.
WorkerReturns ==
    /\ pc = "running"
    /\ pc' = "ended" /\ what' = {}
    /\ notes' = <<>> /\ buffLen' = 0 /\ dataOffset' = 0 /\ dataLenToRead' = 0
    /\ UNCHANGED <<ev, timed, limit, ret, histVars>>

-----------------------------------------------------------------------------
(* _libevent_callback: it stores the flags and resumes the coroutine, which *)
(* finishes the call it had yielded in.                                    *)

Flags == IF ev = "readable" THEN {"READ"} ELSE {"TIMEOUT"}

Resume ==
    /\ ev \in {"readable", "expired"}
    /\ what' = Flags
    /\ pc' = "running" /\ ev' = "none" /\ timed' = FALSE

CallbackStarts ==
    /\ pc = "created" /\ Resume
    /\ UNCHANGED <<connVars, limit, ret, histVars>>

\* The rest of recv after its co_yield().  Unlike the code before it, it
\* does not go back to waiting when the read finds no length.
CallbackEndsRecv ==
    /\ pc = "recv" /\ Resume
    /\ IF "READ" \in what'
       THEN TakeNext(limit) /\ UNCHANGED <<sent, noted, failed>>
       ELSE /\ Return(IF "TIMEOUT" \in what' THEN "TIMEOUT" ELSE "UNKNOWN", 0)
            /\ UNCHANGED <<connVars, histVars>>
    /\ UNCHANGED limit

CallbackEndsSleep_StaleFlags ==
    /\ pc = "sleep" /\ Resume
    /\ Return(IF "READ" \in what THEN "INTERRUPTED_SLEEP" ELSE "OK", 0)
    /\ UNCHANGED <<connVars, limit, histVars>>

CallbackEndsSleep ==
    /\ pc = "sleep" /\ Resume
    /\ Return(IF "TIMEOUT" \in what' THEN "OK"
              ELSE IF "READ" \in what' THEN "INTERRUPTED_SLEEP" ELSE "UNKNOWN", 0)
    /\ UNCHANGED <<connVars, limit, histVars>>

Callback == CallbackStarts \/ CallbackEndsRecv \/ CallbackEndsSleep

Next ==
    \/ \E n \in Lens : Forward(n) \/ ForwardFails(n)
    \/ EventReadable
    \/ TimerExpires
    \/ CallbackStarts
    \/ CallbackEndsRecv
    \/ CallbackEndsSleep
    \/ \E lim \in Limits : RecvAtOnce(lim)
    \/ \E lim \in Limits, finite \in BOOLEAN : RecvWaits(lim, finite)
    \/ Sleep
    \/ WorkerReturns

\* The loop keeps polling and runs what it has activated.  Nothing is assumed
\* of the server, of the worker, nor that a finite timer beats the data.
Fairness == WF_vars(EventReadable) /\ WF_vars(Callback)

Spec == Init /\ [][Next]_vars /\ Fairness

-----------------------------------------------------------------------------
(* Properties.                                                             *)

\* A suspended coroutine has its event added or active, and a running or
\* ended one has not: no session sleeps with nothing to wake it, and no
\* callback resumes a coroutine that did not yield for it.
EventMatchesCoroutine == Suspended <=> ev # "none"

\* As long as no notification was dropped, the results of recv are the
\* datagrams the server forwarded: whole, in order, each once.
Framed == dropped = 0 =>
    /\ Len(got) <= Len(sent)
    /\ \A i \in 1 .. Len(got) : got[i] = sent[i]

\* Even when notifications are dropped recv skips no byte, repeats none and
\* copies none that was not appended, across every reset of the buffer.
BytesInOrder == Contiguous(got) /\ EndOf(got) <= EndOf(sent)

\* As long as no notification was dropped, unread bytes and queued lengths
\* come and go together: data in the buffer always makes the socket readable.
DataIsAnnounced == dropped = 0 /\ pc # "ended" => (buffLen > 0 <=> notes # <<>>)

\* recv reports success only with data, whether it found it at once, trusting
\* the flags of an earlier callback, or waited; and it never reports the error
\* meant for flags it does not know.
SuccessHasData ==
    [][(\E lim \in Limits : RecvAtOnce(lim)) \/ CallbackEndsRecv =>
          ret'.err \in {"OK", "TIMEOUT"} /\ (ret'.err = "OK" => ret'.len > 0)]_vars

\* A sleep cut short by data leaves that data ready: the next recv returns
\* without waiting.
InterruptionMeansData ==
    pc = "running" /\ ret.err = "INTERRUPTED_SLEEP" => CanTake

\* No recv reports more bytes than the room its caller gave it.
LenLimitRespected == pc = "running" /\ ret.err = "OK" => ret.len <= limit

\* The session as a channel of whole datagrams.
Channel == INSTANCE DatagramChannel WITH
    Datagram  <- Chunk,
    queue     <- SubSeq(sent, Len(got) + 1, Len(sent)),
    delivered <- got,
    receiver  <- CASE pc = "recv" -> "receiving"
                   [] pc = "ended" -> "closed"
                   [] OTHER -> "idle",
    broken    <- dropped > 0

\* Until the first notification is dropped, recv and forward_incoming_data
\* together implement the channel of whole datagrams, its fairness included.
ImplementsChannel == Channel!ChanSpec
=============================================================================
