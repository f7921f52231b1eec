---------------------------- MODULE MCTlsDecoder ----------------------------
(* Instances of TlsDecoder for TLC: what TlsEncoder writes, and the same   *)
(* with one byte replaced, cut short or passed with a wrapped size.        *)
EXTENDS TlsCodec

MCRetryHead == <<207>>
MCRetryTail == <<7>>

Name == <<110>>
Ext(type, content) == [type |-> type, content |-> content]

HelloOf(version, random, session, suites, compression, extensions) ==
  [version |-> version, random |-> random, session |-> session,
   suites |-> suites, compression |-> compression, extensions |-> extensions]

Retry == RetryHead \o RetryTail
Random == [i \in 1..RandomSize |-> 9]

(* Hellos of version 1.3 and 1.2, with all kinds of extensions, and one    *)
(* that supports nothing later than 1.0.                                   *)
ClientHellos == {
  HelloOf(TLS_1_2, Random, <<8>>, <<4865, 47>>, <<0>>,
          <<Ext(supported_groups, <<29>>),
            Ext(server_name, Name),
            Ext(supported_versions, <<TLS_1_3, TLS_1_1>>)>>),
  HelloOf(TLS_1_2, Random, <<>>, <<49195>>, <<0>>,
          <<Ext(5, <<1>>), Ext(server_name, Name)>>),
  HelloOf(TLS_1_0, Random, <<>>, <<4865>>, <<0>>, <<Ext(server_name, Name)>>)}

ServerHellos == {
  HelloOf(TLS_1_2, Random, <<8>>, <<4865>>, <<0>>,
          <<Ext(supported_versions, <<TLS_1_3>>)>>),
  HelloOf(TLS_1_2, Retry, <<>>, <<4866>>, <<0>>, <<>>),
  HelloOf(TLS_1_2, Random, <<>>, <<47>>, <<0>>, <<>>)}

Samples ==
  {HandshakeMessage(client_hello, <<>>, h) : h \in ClientHellos} \cup
  {HandshakeMessage(server_hello, <<>>, h) : h \in ServerHellos} \cup
  {HandshakeMessage(14, <<>>, NoHello), HandshakeMessage(11, <<5>>, NoHello)}

Whole(m) == Encode(TLS_1_2, m)

(* A record of two messages, as servers send them.                         *)
Pairs == {EncodeRecord(handshake, TLS_1_2,
                       EncodeHandshake(m) \o EncodeHandshake(n)) :
            m \in {s \in Samples : s.type = server_hello},
            n \in {HandshakeMessage(11, <<5>>, NoHello)}}

Opaque == {EncodeRecord(alert, TLS_1_2, <<2, 40>>), <<handshake, 3, 3, 0, 0>>}

WholeRecords == {Whole(m) : m \in Samples} \cup Pairs \cup Opaque

(* A byte behind the length of the record is replaced, or one of the       *)
(* version.                                                                *)
Damaged(r) == {[r EXCEPT ![i] = b] : i \in DOMAIN r \ {1, 4, 5},
                                     b \in {0, 1, 2, 3, 10, 43, 255}}

(* The record is cut, its length with it; a size that wrapped in the       *)
(* handler's uint16_t is smaller than what the header says.                *)
Cut(r) == {EncodeRecord(r[1], 771, SubSeq(r, 6, n)) : n \in 5..Len(r)}
Wrapped(r) == {SubSeq(r, 1, n) : n \in {2, Len(r) - 1}}

AnyRecord == UNION {{r} \cup Damaged(r) \cup Cut(r) \cup Wrapped(r) :
                      r \in WholeRecords}
=============================================================================
