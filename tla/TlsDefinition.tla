--------------------------- MODULE TlsDefinition ---------------------------
(***************************************************************************)
(* The messages of tls_definition.hpp and the layout of                    *)
(* tls_definition_raw.hpp.  A byte is a number below 256, an array of      *)
(* bytes a sequence, and integers of several bytes are big-endian.         *)
(***************************************************************************)
EXTENDS Integers, Sequences

CONSTANTS RetryHead, RetryTail \* HelloRetryRequestSpecialValue: 24 and 8
                               \* bytes; the three tails are equal

Byte == 0..255

ASSUME DefinitionAssumption == RetryHead \in Seq(Byte) /\ RetryTail \in Seq(Byte)

TLS_1_0 == 769
TLS_1_1 == 770
TLS_1_2 == 771
TLS_1_3 == 772

(* ContentType, and a type of record that is not looked into.              *)
handshake == 22
alert == 21

(* handshake::Type                                                         *)
client_hello == 1
server_hello == 2

(* extension::Type and ServerNameType                                      *)
server_name == 0
supported_groups == 10
supported_versions == 43
host_name == 0

(* sizeof of the packed structures                                         *)
RandomSize == Len(RetryHead) + Len(RetryTail)
PlaintextHeader == 5   \* TLSPlaintext: type, version, message_length
HandshakeHeader == 4   \* RawHandshake: msg_type and a uint24_t
HelloHeader == 2 + RandomSize
ExtensionsHeader == 2  \* Extensions, and ServerNameList
ExtensionHeader == 4   \* Extension: type, length
ServerNameHeader == 3  \* ServerName: name_type, length

(***************************************************************************)
(* tls::Message, with the handshake messages a record holds.  A handshake  *)
(* message of another type has its bytes in data.  ClientHello and         *)
(* ServerHello share a record: a server's has one suite and one            *)
(* compression method.  content of an extension is what its alternative of *)
(* the variant holds: bytes of a name, groups, versions or plain bytes.    *)
(***************************************************************************)
NoHello == [version |-> 0, random |-> <<>>, session |-> <<>>, suites |-> <<>>,
            compression |-> <<>>, extensions |-> <<>>]

HandshakeMessage(type, data, hello) ==
  [type |-> type, data |-> data, hello |-> hello]

(* The types of these structures: what a value of them can be.             *)
Word == 0..65535

IsExtension(e) ==
  /\ e \in [type : Word, content : Seq(Word)]
  /\ e.type \notin {supported_groups, supported_versions} =>
       e.content \in Seq(Byte)

IsHello(h) ==
  /\ h \in [version : Word, random : [1..RandomSize -> Byte],
           session : Seq(Byte), suites : Seq(Word), compression : Seq(Byte),
           extensions : Seq([type : Word, content : Seq(Word)])]
  /\ \A i \in DOMAIN h.extensions : IsExtension(h.extensions[i])

IsMessage(m) ==
  /\ m = HandshakeMessage(m.type, m.data, m.hello)
  /\ m.type \in Byte /\ m.data \in Seq(Byte)
  /\ IF m.type \in {client_hello, server_hello}
     THEN m.data = <<>> /\ IsHello(m.hello) ELSE m.hello = NoHello
  /\ m.type = server_hello => /\ Len(m.hello.suites) = 1
                              /\ Len(m.hello.compression) = 1

(* extension::FindHostName: the first name, or none.                       *)
FindHostName(extensions) ==
  LET names == SelectSeq(extensions, LAMBDA e : e.type = server_name)
  IN IF names = <<>> THEN <<>> ELSE Head(names).content

(* hello_retry_type, as DecodeServerHello finds it.  Of the three tails    *)
(* only the first can match, because all are the same.                     *)
HelloRetryType(random) ==
  IF SubSeq(random, 1, Len(RetryHead)) # RetryHead THEN "NOT_RETRY"
  ELSE IF SubSeq(random, Len(RetryHead) + 1, RandomSize) = RetryTail
       THEN "FOR_TLS_1_3" ELSE "FOR_UNKNOWN"
=============================================================================
