---------------------------- MODULE AjpResponses ----------------------------
(***************************************************************************)
(* The responses a structure-aware harness gives mod_proxy_ajp: a response *)
(* message is turned into the bytes of AJP packets                         *)
(* (harnesses/proto_converters/ajp.cc).                                    *)
(*                                                                         *)
(* A string is a sequence of bytes.  Lengths are written as uint16_t: they *)
(* are taken modulo LenMod.  What reads the packets is httpd's             *)
(* mod_proxy_ajp, an external.                                             *)
(***************************************************************************)
EXTENDS Naturals, Sequences, SequencesExt

CONSTANTS
    LenMod,     \* 2^16 in the code
    Responses   \* the response messages of an instance

\* A response message: the number of its status code, and headers that have an encoded
\* name (1 to 11) or, with code 0, one that is spelled out; only that one is read.
Byte == 0 .. 255
IsResponse(r) ==
    /\ r \in [cpong : BOOLEAN, status : Nat, msg : Seq(Byte),
             headers : Seq([code : 0 .. 11, name : Seq(Byte), value : Seq(Byte)]),
             chunks : Seq(Seq(Byte)), reuse : BOOLEAN]
    /\ r.status < LenMod
    /\ \A i \in DOMAIN r.headers : r.headers[i].code # 0 => r.headers[i].name = <<>>
ASSUME LenModAssumption == LenMod \in Nat \ {0}
ASSUME ResponsesAssumption == \A r \in Responses : IsResponse(r)

VARIABLES
    response,   \* the message of this test case
    stream,     \* the bytes of its packets that were not read yet
    packets     \* the packets mod_proxy_ajp read

ajpVars == <<response, stream, packets>>

NoResponse == [cpong |-> FALSE, status |-> 0, msg |-> <<>>, headers |-> <<>>, chunks |-> <<>>,
               reuse |-> FALSE]

-----------------------------------------------------------------------------
(***************************************************************************)
(* BuildAjpResponse.                                                       *)
(***************************************************************************)
Uint16(n) == <<(n % LenMod) \div 256, (n % LenMod) % 256>>

\* A length, the bytes, and a NUL the length does not count.
AjpString(s) == Uint16(Len(s)) \o s \o <<0>>

WrapPacket(payload) == <<65, 66>> \o Uint16(Len(payload)) \o payload

\* A header has one of the encoded names, or one that is spelled out.
Header(h) ==
    (IF h.code # 0 THEN <<160, h.code>> ELSE AjpString(h.name)) \o AjpString(h.value)

SendHeaders(r) ==
    <<4>> \o Uint16(r.status) \o AjpString(r.msg) \o Uint16(Len(r.headers))
      \o FlattenSeq([i \in DOMAIN r.headers |-> Header(r.headers[i])])

\* Mutant: the length counts the NUL.
BodyChunkWithNul(data) == <<3>> \o Uint16(Len(data) + 1) \o data \o <<0>>

\* The bytes of a string, after the code.
BodyChunk(data) == <<3>> \o AjpString(data)

EndResponse(r) == <<5, IF r.reuse THEN 1 ELSE 0>>

\* Empty chunks are passed over.
Chunks(r) ==
    FlattenSeq([i \in DOMAIN r.chunks |-> IF r.chunks[i] = <<>> THEN <<>> ELSE <<r.chunks[i]>>])

\* CPONG if asked for, the headers, each chunk that is not empty, and the end.
Payloads(r) ==
    (IF r.cpong THEN <<<<9>>>> ELSE <<>>)
      \o <<SendHeaders(r)>>
      \o [i \in DOMAIN Chunks(r) |-> BodyChunk(Chunks(r)[i])]
      \o <<EndResponse(r)>>

BuildAjpResponse(r) ==
    FlattenSeq([i \in DOMAIN Payloads(r) |-> WrapPacket(Payloads(r)[i])])

AjpInit == response = NoResponse /\ stream = <<>> /\ packets = <<>>

\* A test case: the backend has the packets of one response to serve.
Respond ==
    /\ response = NoResponse
    /\ response' \in Responses
    /\ stream' = BuildAjpResponse(response')
    /\ packets' = <<>>

-----------------------------------------------------------------------------
(***************************************************************************)
(* mod_proxy_ajp: reads a header of four bytes, then as many bytes as it   *)
(* says.  Its own limit on the size of a packet is left out.               *)
(***************************************************************************)
ReadLength(s, i) == s[i] * 256 + s[i + 1]

HasPacket ==
    /\ Len(stream) >= 4
    /\ stream[1] = 65 /\ stream[2] = 66
    /\ Len(stream) >= 4 + ReadLength(stream, 3)

ReadPacket ==
    /\ HasPacket
    /\ packets' = Append(packets, SubSeq(stream, 5, 4 + ReadLength(stream, 3)))
    /\ stream' = SubSeq(stream, 5 + ReadLength(stream, 3), Len(stream))
    /\ UNCHANGED response

\* All was read, or the rest is not a packet: the connection is closed.
CloseConnection ==
    /\ response # NoResponse
    /\ ~HasPacket
    /\ response' = NoResponse /\ stream' = <<>> /\ packets' = <<>>

AjpNext == Respond \/ ReadPacket \/ CloseConnection

AjpSpec == AjpInit /\ [][AjpNext]_ajpVars

\* The string at position i of a packet, and where it ends.
StringAt(p, i) == SubSeq(p, i + 2, i + 1 + ReadLength(p, i))
AfterString(p, i) == i + 3 + ReadLength(p, i)

\* The header at position i, and where the next one is.
HeaderAt(p, i) ==
    IF p[i] = 160
    THEN [code |-> p[i + 1], name |-> <<>>, value |-> StringAt(p, i + 2)]
    ELSE [code |-> 0, name |-> StringAt(p, i), value |-> StringAt(p, AfterString(p, i))]
AfterHeader(p, i) == AfterString(p, IF p[i] = 160 THEN i + 2 ELSE AfterString(p, i))

HeadersAt(p, i, count) ==
    LET at[k \in 1 .. count] == IF k = 1 THEN i ELSE AfterHeader(p, at[k - 1])
    IN [k \in 1 .. count |-> HeaderAt(p, at[k])]

\* Where the headers are: first, or after a CPONG.  Then come the chunks, and the end.
HeadAt == IF packets[1][1] = 9 THEN 2 ELSE 1

InOrder ==
    /\ packets[HeadAt][1] = 4
    /\ \A k \in HeadAt + 1 .. Len(packets) - 1 : packets[k][1] = 3

\* What the packets that were read say.
Received ==
    LET head == packets[HeadAt]
        afterMsg == AfterString(head, 4)
    IN [cpong |-> HeadAt = 2,
        status |-> ReadLength(head, 2),
        msg |-> StringAt(head, 4),
        headers |-> HeadersAt(head, afterMsg + 2, ReadLength(head, afterMsg)),
        chunks |-> [k \in 1 .. Len(packets) - HeadAt - 1 |-> StringAt(packets[HeadAt + k], 2)],
        reuse |-> packets[Len(packets)][2] = 1]

-----------------------------------------------------------------------------
\* No name is as long as an encoded one begins, no packet longer than a length says.
Fits(r) ==
    /\ \A i \in DOMAIN r.headers : Len(r.headers[i].name) < 160 * 256
    /\ \A i \in DOMAIN Payloads(r) : Len(Payloads(r)[i]) < LenMod

\* When the last packet is read mod_proxy_ajp has what the response message says,
\* in the order it takes it and empty chunks apart, if no packet is longer than a
\* length can say (ajp.cc:46-156).  A longer one is cut at a length that has wrapped,
\* and what follows is not read as packets; a name of 40960 bytes or more would be
\* taken for an encoded one.
ResponseIsReceived ==
    Fits(response) /\ packets # <<>> /\ packets[Len(packets)][1] = 5 =>
        /\ stream = <<>>
        /\ InOrder
        /\ Received = [response EXCEPT !.chunks = Chunks(response)]
=============================================================================
