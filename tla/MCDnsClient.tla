----------------------------- MODULE MCDnsClient -----------------------------
(***************************************************************************)
(* DnsClient for TLC: two names of one domain.  The servers reply with an  *)
(* address, with an alias and its address, with an alias alone, with an    *)
(* error and with an answer that must not be kept, and one reply has       *)
(* records in all three sections.                                          *)
(***************************************************************************)
EXTENDS DnsClient

www == <<"www", "example">>
ftp == <<"ftp", "example">>

MCNames == {www, ftp}

Rec(owner, type, ttl, address) ==
    [name |-> owner, type |-> type, ttl |-> ttl, address |-> address]

MCReplies == {
    [name |-> www, rcode |-> 0, answers |-> 2, authorities |-> 1, records |->
        <<Rec(www, "CNAME", 2, ftp), Rec(ftp, "A", 1, <<"addr1">>),
          Rec(<<"example">>, "NS", 2, <<"ns", "example">>),
          Rec(<<"ns", "example">>, "A", 0, <<"addr2">>)>>],
    [name |-> www, rcode |-> 0, answers |-> 1, authorities |-> 0, records |->
        <<Rec(www, "CNAME", 2, ftp)>>],
    [name |-> www, rcode |-> 3, answers |-> 0, authorities |-> 0, records |-> <<>>],
    [name |-> www, rcode |-> 0, answers |-> 1, authorities |-> 0, records |->
        <<Rec(www, "A", 0, <<"addr3">>)>>],
    [name |-> ftp, rcode |-> 0, answers |-> 1, authorities |-> 0, records |->
        <<Rec(ftp, "A", 2, <<"addr4">>)>>]}

MCFiles == {<<>>, <<"IPv4">>, <<"IPv6">>, <<"IPv6", "IPv4">>,
            <<"IPv6", "IPv6", "IPv4">>}

\* Every reply with up to two records of these owners and targets, however
\* their names share an end with the name in the question, is read back.
MCNameTexts == {www, ftp, <<"example">>, <<"ns", "other">>}

MCRecords ==
    {Rec(owner, "CNAME", 2, target) : owner \in MCNameTexts, target \in MCNameTexts}
    \cup {Rec(owner, "A", 1, <<"addr1">>) : owner \in MCNameTexts}

MCMessages ==
    UNION {[name : MCNameTexts, rcode : {0, 3}, answers : 0 .. k, authorities : {0},
            records : [1 .. k -> MCRecords]] : k \in 0 .. 2}

ASSUME RoundTrip == \A r \in MCReplies \cup MCMessages : ReadsBack(r)
=============================================================================
