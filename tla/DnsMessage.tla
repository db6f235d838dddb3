------------------------------ MODULE DnsMessage ------------------------------
(***************************************************************************)
(* DNS messages as the client writes and reads them: _DNSQueryText         *)
(* (coevent_dns_client.cpp) and DNSResult::parse_from_udp_payload          *)
(* (coevent_dns_client_addition.cpp).                                      *)
(*                                                                         *)
(* The part of a message behind its header is a sequence of cells: one     *)
(* for each label with its length byte, for the zero that ends a name, for *)
(* a compression pointer and for each number.  Offsets count cells.  A     *)
(* text is the sequence of its parts: the labels of a name, or the one     *)
(* address; the empty text is <<>>.                                        *)
(***************************************************************************)
EXTENDS Integers, Sequences, FiniteSetsExt

Label(l)   == [kind |-> "label", value |-> l]
NameEnd    == [kind |-> "end", value |-> 0]
Pointer(p) == [kind |-> "pointer", value |-> p]
Number(x)  == [kind |-> "number", value |-> x]

Labels(name) == [i \in 1 .. Len(name) |-> Label(name[i])]

NameTypes == {"NS", "CNAME"}
AddressTypes == {"A", "AAAA"}

-----------------------------------------------------------------------------
(* The request.                                                            *)

\* serialize_to_data(): the labels of the name, the zero, type and class.
Request(name, type) ==
    Labels(name) \o <<NameEnd, Number(type), Number("IN")>>

\* What a server reads in it.
NameAsked(request) ==
    LET end == Min({i \in 1 .. Len(request) : request[i] = NameEnd})
    IN  [i \in 1 .. end - 1 |-> request[i].value]

-----------------------------------------------------------------------------
(* Reading.                                                                *)

\* _read_RR_name(): labels up to a zero, or up to a pointer, behind which the
\* name goes on elsewhere.  The result says whether data follow the name: for
\* a name at the end of the message it is FALSE, as it is for a name that the
\* message cuts off.
ReadName(data, start) ==
    LET from[p \in 1 .. Len(data)] ==
        CASE data[p].kind = "label" /\ p < Len(data) ->
                LET rest == from[p + 1]
                IN  [rest EXCEPT !.text = <<data[p].value>> \o @]
          [] data[p].kind = "pointer" ->
                LET target == from[data[p].value]
                IN  [text |-> target.text, next |-> p + 1,
                     ok |-> target.ok /\ p < Len(data)]
          [] OTHER -> [text |-> <<>>, next |-> p + 1, ok |-> p < Len(data)]
    IN  from[start]

\* _parse_query_RR(): the name of the question; type and class are skipped.
ParseQuestion(data, start) ==
    LET name == ReadName(data, start)
    IN  IF name.ok THEN [name |-> name.text, next |-> name.next + 2]
        ELSE [name |-> <<>>, next |-> start]

NoRecord == [name |-> <<>>, type |-> "Unknown", ttl |-> 0, address |-> <<>>]

\* _parse_a_query_answer(): owner, type, class, TTL, length, data.  A record
\* whose owner cannot be read stays empty, and the next one is read from the
\* same place.  Data of other types give no address.
ParseRecord(data, start) ==
    LET owner   == ReadName(data, start)
        type    == data[owner.next].value
        rdata   == owner.next + 4
        target  == ReadName(data, rdata)
        address == IF type \in AddressTypes THEN <<data[rdata].value>>
                   ELSE IF type \in NameTypes /\ target.ok THEN target.text
                   ELSE <<>>
    IN  IF owner.ok
        THEN [record |-> [name |-> owner.text, type |-> type,
                          ttl |-> data[owner.next + 2].value,
                          address |-> address],
              next |-> rdata + data[owner.next + 3].value]
        ELSE [record |-> NoRecord, next |-> start]

\* The loops over the three sections, which differ in nothing but their counts.
ParseRecords(data, start, count) ==
    LET upTo[k \in 0 .. count] ==
        IF k = 0 THEN [records |-> <<>>, next |-> start]
        ELSE LET before == upTo[k - 1]
                 one    == ParseRecord(data, before.next)
             IN  [records |-> Append(before.records, one.record),
                  next    |-> one.next]
    IN  upTo[count].records

MaxTtl == 2147483647

Failed == [ok |-> FALSE, domain |-> <<>>, ttl |-> 0, records |-> <<>>]

\* parse_from_udp_payload(): the result holds the records of all sections, its
\* TTL is the least of the answer section's.
Parse(message) ==
    LET question == ParseQuestion(message.body, 1)
        records  == ParseRecords(message.body, question.next,
                       message.answers + message.authorities + message.additionals)
    IN  IF message.rcode # 0 \/ message.answers = 0 \/ question.name = <<>>
        THEN Failed
        ELSE [ok |-> TRUE, domain |-> question.name,
              ttl |-> Min({MaxTtl} \cup {records[i].ttl : i \in 1 .. message.answers}),
              records |-> records]

\* The address quick_resolve() picks: that of the first IPv4 record.
FirstIPv4(records) ==
    LET ipv4 == {i \in 1 .. Len(records) : records[i].type = "A"}
    IN  IF ipv4 = {} THEN <<>> ELSE records[Min(ipv4)].address

-----------------------------------------------------------------------------
(* Servers, which are not part of the library: they write a name out, or as *)
(* a pointer to where the question has it or has the part behind its first  *)
(* label.                                                                   *)

WriteName(name, question) ==
    IF name = question THEN <<Pointer(1)>>
    ELSE IF Len(question) > 1 /\ Tail(name) = Tail(question)
    THEN <<Label(Head(name)), Pointer(2)>>
    ELSE Labels(name) \o <<NameEnd>>

WriteRecord(record, question) ==
    LET rdata == IF record.type \in NameTypes
                 THEN WriteName(record.address, question)
                 ELSE <<Number(record.address[1])>>
    IN  WriteName(record.name, question)
        \o <<Number(record.type), Number("IN"), Number(record.ttl),
             Number(Len(rdata))>> \o rdata

\* A reply is described by its code, the name in its question and its records,
\* of which the first `answers` and the next `authorities` are those sections.
Write(reply) ==
    LET written[k \in 0 .. Len(reply.records)] ==
            IF k = 0 THEN Request(reply.name, "A")
            ELSE written[k - 1] \o WriteRecord(reply.records[k], reply.name)
    IN  [rcode |-> reply.rcode, answers |-> reply.answers,
         authorities |-> reply.authorities,
         additionals |-> Len(reply.records) - reply.answers - reply.authorities,
         body |-> written[Len(reply.records)]]

\* What the client may know of a reply: its records, except that the address
\* of a record at the end of the message is empty when it is a name.
Known(reply) ==
    [i \in 1 .. Len(reply.records) |->
        IF i = Len(reply.records) /\ reply.records[i].type \in NameTypes
        THEN [reply.records[i] EXCEPT !.address = <<>>]
        ELSE reply.records[i]]

LeastTtl(reply) == Min({reply.records[i].ttl : i \in 1 .. reply.answers})

\* The client reads what the server wrote: the whole of Known(reply), through
\* whatever pointers, when the reply has an answer, and nothing otherwise.
ReadsBack(reply) ==
    Parse(Write(reply)) =
        IF reply.rcode = 0 /\ reply.answers > 0
        THEN [ok |-> TRUE, domain |-> reply.name, ttl |-> LeastTtl(reply),
              records |-> Known(reply)]
        ELSE Failed
=============================================================================
