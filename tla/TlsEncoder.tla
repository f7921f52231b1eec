----------------------------- MODULE TlsEncoder -----------------------------
(***************************************************************************)
(* tls_message_encoder.cpp: the bytes of a message.  A length is written   *)
(* by SAFE_SET_INT, which refuses what does not fit; Encodable collects    *)
(* these refusals, so that Encode is defined for what it lets through.     *)
(***************************************************************************)
EXTENDS TlsDefinition, SequencesExt

U8(n) == <<n>>
U16(n) == <<n \div 256, n % 256>>
U24(n) == <<n \div 65536, (n \div 256) % 256, n % 256>>

(* EncodeVector, for a length of one or two bytes and values of one or two *)
(* bytes.  Both length modes write the number of bytes, since those that   *)
(* count elements are of bytes.                                            *)
Values(values, width) ==
  IF width = 1 THEN values
  ELSE FlattenSeq([i \in DOMAIN values |-> U16(values[i])])

EncodeVector(values, lengthWidth, width) ==
  LET size == Len(values) * width
  IN (IF lengthWidth = 1 THEN U8(size) ELSE U16(size)) \o Values(values, width)

VectorFits(values, lengthWidth, width) ==
  Len(values) * width <= IF lengthWidth = 1 THEN 255 ELSE 65535

(* A list of one host name.                                                *)
EncodeServerName(name) ==
  U16(ServerNameHeader + Len(name)) \o U8(host_name) \o U16(Len(name)) \o name

(* A single version is written without a length, as a server does.         *)
EncodeVersions(versions) ==
  IF Len(versions) = 1 THEN U16(versions[1]) ELSE EncodeVector(versions, 1, 2)

EncodeContent(e) ==
  CASE e.type = server_name        -> EncodeServerName(e.content)
    [] e.type = supported_groups   -> EncodeVector(e.content, 2, 2)
    [] e.type = supported_versions -> EncodeVersions(e.content)
    [] OTHER                       -> e.content

ContentEncodable(e) ==
  /\ e.type = server_name => e.content # <<>>
  /\ e.type = supported_versions =>
       e.content # <<>> /\ VectorFits(e.content, 1, 2)
  /\ Len(EncodeContent(e)) <= 65535

EncodeExtension(e) ==
  U16(e.type) \o U16(Len(EncodeContent(e))) \o EncodeContent(e)

(* Mutant: the length of the section counts its own two bytes.             *)
EncodeExtensionsWithHeader(extensions) ==
  LET all == FlattenSeq([i \in DOMAIN extensions |->
                           EncodeExtension(extensions[i])])
  IN U16(Len(all) + ExtensionsHeader) \o all

EncodeExtensions(extensions) ==
  LET all == FlattenSeq([i \in DOMAIN extensions |->
                           EncodeExtension(extensions[i])])
  IN U16(Len(all)) \o all

EncodeClientHello(hello) ==
  U16(hello.version) \o hello.random
    \o EncodeVector(hello.session, 1, 1)
    \o EncodeVector(hello.suites, 2, 2)
    \o EncodeVector(hello.compression, 1, 1)
    \o EncodeExtensions(hello.extensions)

EncodeServerHello(hello) ==
  U16(hello.version) \o hello.random
    \o EncodeVector(hello.session, 1, 1)
    \o U16(hello.suites[1])
    \o U8(hello.compression[1])
    \o EncodeExtensions(hello.extensions)

HelloEncodable(hello) ==
  /\ VectorFits(hello.session, 1, 1)
  /\ VectorFits(hello.suites, 2, 2)
  /\ VectorFits(hello.compression, 1, 1)
  /\ \A i \in DOMAIN hello.extensions : ContentEncodable(hello.extensions[i])
  /\ Len(EncodeExtensions(hello.extensions)) <= ExtensionsHeader + 65535

EncodeHandshake(m) ==
  LET body == CASE m.type = client_hello -> EncodeClientHello(m.hello)
                [] m.type = server_hello -> EncodeServerHello(m.hello)
                [] OTHER                 -> m.data
  IN U8(m.type) \o U24(Len(body)) \o body

(* The record around its content.  Encode writes one handshake message, a  *)
(* peer may put several into a record.                                     *)
EncodeRecord(type, version, content) ==
  U8(type) \o U16(version) \o U16(Len(content)) \o content

Encode(version, m) == EncodeRecord(handshake, version, EncodeHandshake(m))

(* Pointers to the headers are kept while the buffer grows: beyond what    *)
(* Encode reserves they may be left behind, and the bytes are anybody's.   *)
Reserved == 2048

Encodable(m) ==
  /\ m.type \in {client_hello, server_hello} => HelloEncodable(m.hello)
  /\ PlaintextHeader + Len(EncodeHandshake(m)) <= Reserved
=============================================================================
