----------------------------- MODULE TlsDecoder -----------------------------
(***************************************************************************)
(* MessageDecoder::DecodeMesssage of tls_message_decoder.cpp, one action   *)
(* per piece of the buffer that is read, and the verdict of the handler    *)
(* that called it.  Offsets count from 0, as in the source.                *)
(*                                                                         *)
(* The buffer is longer than the record: a read behind the record's end    *)
(* finds beyond, a byte nobody chose.                                      *)
(***************************************************************************)
EXTENDS TlsPolicy

CONSTANTS Records, \* what the handler may be given: records, whole or wrong
          Beyond   \* bytes a read behind a record may find

ASSUME DecoderAssumption == Records \subseteq Seq(Byte) /\ Beyond \subseteq Byte

VARIABLES record,   \* the handler's data and data_size
          beyond,   \* what a read behind it finds
          side,     \* "user" or "server": whose handler
          step,     \* the piece that is read next, or the result
          from,     \* from_offset in DecodeHandshake
          mend,     \* end_offset of the handshake message
          offset,   \* offset in the innermost function
          eend,     \* end_offset in DecodeExtensions
          hello,    \* the ClientHello or ServerHello so far
          messages, \* handshake::Messages so far
          reach,    \* history: where the farthest byte read ends
          verdict   \* what the handler does with the record

input == <<record, beyond, side>>
vars == <<record, beyond, side, step, from, mend, offset, eend, hello,
          messages, reach, verdict>>

Init == /\ record \in Records
        /\ beyond \in Beyond
        /\ side \in {"user", "server"}
        /\ step = "record"
        /\ from = 0 /\ mend = 0 /\ offset = 0 /\ eend = 0
        /\ hello = NoHello
        /\ messages = <<>>
        /\ reach = 0
        /\ verdict = "none"

-----------------------------------------------------------------------------
(* Reading the buffer *)

At(i) == IF i < Len(record) THEN record[i + 1] ELSE beyond
U16At(i) == At(i) * 256 + At(i + 1)
U24At(i) == At(i) * 65536 + At(i + 1) * 256 + At(i + 2)
BytesAt(i, end) == [k \in 1..(end - i) |-> At(i + k - 1)]

(* The buffer_size of all functions below DecodeMesssage: the end of the   *)
(* record, also where a message ends earlier.                              *)
limit == PlaintextHeader + U16At(3)

(* DecodeVector, for a length of lw bytes at i and values of w bytes.      *)
CountAt(i, lw) == IF lw = 1 THEN At(i) ELSE U16At(i)
VectorEnd(i, lw) == i + lw + CountAt(i, lw)
VectorGood(i, lw, w) == /\ i + lw <= limit
                        /\ CountAt(i, lw) % w = 0
                        /\ VectorEnd(i, lw) <= limit
VectorAt(i, lw, w) ==
  IF w = 1 THEN BytesAt(i + lw, VectorEnd(i, lw))
  ELSE [k \in 1..(CountAt(i, lw) \div 2) |-> U16At(i + lw + 2 * (k - 1))]

Farther(end) == reach' = IF end > reach THEN end ELSE reach

Bad(end) == /\ step' = "bad"
            /\ Farther(end)
            /\ UNCHANGED <<from, mend, offset, eend, hello, messages>>

Decode(s) == /\ step = s
             /\ UNCHANGED <<input, verdict>>

-----------------------------------------------------------------------------
(* DecodeMesssage: the header of the record, and all of it unless it holds *)
(* handshake messages.                                                     *)
DecodeMesssage ==
  /\ Decode("record")
  /\ IF Len(record) < PlaintextHeader THEN Bad(0)
     ELSE IF Len(record) < limit THEN Bad(PlaintextHeader)
     ELSE /\ step' = IF At(0) = handshake THEN "message" ELSE "good"
          /\ from' = PlaintextHeader
          /\ offset' = PlaintextHeader
          /\ Farther(IF At(0) = handshake THEN PlaintextHeader ELSE limit)
          /\ UNCHANGED <<mend, eend, hello, messages>>

MessageType == At(from)

(* A handshake message is complete: the loop goes on where it ends, which  *)
(* may be before the end of what was taken for its hello.                  *)
NextMessage(h, end, type) ==
  /\ step' = "message"
  /\ messages' = Append(messages,
       IF type \in {client_hello, server_hello}
       THEN HandshakeMessage(type, <<>>, h)
       ELSE HandshakeMessage(type, BytesAt(from + HandshakeHeader, end), h))
  /\ from' = end
  /\ offset' = end
  /\ UNCHANGED <<mend, eend>>

(* The loop of DecodeHandshake reads a header without a look at how much   *)
(* is left.                                                                *)
DecodeHandshake ==
  LET body == from + HandshakeHeader
      end  == body + U24At(from + 1)
  IN /\ Decode("message")
     /\ IF from >= limit
        THEN /\ step' = "good"
             /\ UNCHANGED <<from, mend, offset, eend, hello, messages, reach>>
        ELSE IF end > limit THEN Bad(body)
        ELSE IF MessageType \in {client_hello, server_hello}
        THEN /\ step' = "fixed"
             /\ mend' = end
             /\ offset' = body
             /\ hello' = NoHello
             /\ Farther(body)
             /\ UNCHANGED <<from, eend, messages>>
        ELSE /\ NextMessage(NoHello, end, MessageType)
             /\ Farther(end)
             /\ UNCHANGED hello

(* The fixed part of DecodeClientHello and DecodeServerHello.              *)
DecodeFixed ==
  LET end == offset + HelloHeader
  IN /\ Decode("fixed")
     /\ IF limit < end THEN Bad(0)
        ELSE /\ step' = "session"
             /\ offset' = end
             /\ hello' = [hello EXCEPT !.version = U16At(offset),
                                       !.random = BytesAt(offset + 2, end)]
             /\ Farther(end)
             /\ UNCHANGED <<from, mend, eend, messages>>

DecodeVector(s, lw, w, field, next) ==
  LET end == VectorEnd(offset, lw)
  IN /\ Decode(s)
     /\ IF ~VectorGood(offset, lw, w)
        THEN Bad(IF offset + lw <= limit THEN offset + lw ELSE 0)
        ELSE /\ step' = next
             /\ offset' = end
             /\ hello' = [hello EXCEPT ![field] = VectorAt(offset, lw, w)]
             /\ Farther(end)
             /\ UNCHANGED <<from, mend, eend, messages>>

DecodeSession ==
  DecodeVector("session", 1, 1, "session",
               IF MessageType = client_hello THEN "suites" ELSE "suite")
DecodeSuites == DecodeVector("suites", 2, 2, "suites", "compression")
DecodeCompression ==
  DecodeVector("compression", 1, 1, "compression", "extensions")

(* The suite and the compression method of a server are read without a     *)
(* look at how much is left.                                               *)
DecodeSuite ==
  /\ Decode("suite")
  /\ step' = "extensions"
  /\ offset' = offset + 3
  /\ hello' = [hello EXCEPT !.suites = <<U16At(offset)>>,
                            !.compression = <<At(offset + 2)>>]
  /\ Farther(offset + 3)
  /\ UNCHANGED <<from, mend, eend, messages>>

-----------------------------------------------------------------------------
(* DecodeExtensions *)

(* Mutant: the end of the section is not compared with the buffer.         *)
DecodeSectionUnchecked ==
  LET body == offset + ExtensionsHeader
  IN /\ Decode("extensions")
     /\ IF limit < body THEN Bad(0)
        ELSE /\ step' = "extension"
             /\ offset' = body
             /\ eend' = body + U16At(offset)
             /\ Farther(body)
             /\ UNCHANGED <<from, mend, hello, messages>>

DecodeSection ==
  LET body == offset + ExtensionsHeader
      end  == body + U16At(offset)
  IN /\ Decode("extensions")
     /\ IF limit < body THEN Bad(0)
        ELSE IF end > limit THEN Bad(body)
        ELSE /\ step' = "extension"
             /\ offset' = body
             /\ eend' = end
             /\ Farther(body)
             /\ UNCHANGED <<from, mend, hello, messages>>

With(type, content) ==
  [hello EXCEPT !.extensions = Append(@, [type |-> type, content |-> content])]

(* The hello ends here, also if extensions are left in the section.        *)
HelloDone(h, end) == /\ NextMessage(h, mend, MessageType)
                     /\ hello' = h
                     /\ Farther(end)

(* Mutant: offset is left where the extension begins.                      *)
NextExtensionAgain(h, end) ==
  /\ hello' = h
  /\ Farther(end)
  /\ UNCHANGED <<step, from, mend, offset, eend, messages>>

NextExtension(h, end) ==
  /\ offset' = end
  /\ hello' = h
  /\ Farther(end)
  /\ UNCHANGED <<step, from, mend, eend, messages>>

(* The length of the list of names is skipped, and the first name must     *)
(* fill the extension.  One without a list ends the whole section.         *)
DecodeServerName(body, end) ==
  LET name == body + 2 + ServerNameHeader
  IN IF body = end THEN HelloDone(With(server_name, <<>>), body)
     ELSE IF end < body + ServerNameHeader THEN Bad(body)
     ELSE IF end # name + U16At(body + 3) \/ At(body + 2) # host_name
     THEN Bad(name)
     ELSE NextExtension(With(server_name, BytesAt(name, end)), end)

(* A vector that does not fill its extension ends the section with the     *)
(* result of the vector, which is good.                                    *)
DecodeList(type, lw, body, end) ==
  IF ~VectorGood(body, lw, 2)
  THEN Bad(IF body + lw <= limit THEN body + lw ELSE body)
  ELSE LET h == With(type, VectorAt(body, lw, 2))
       IN IF VectorEnd(body, lw) = end THEN NextExtension(h, end)
          ELSE HelloDone(h, VectorEnd(body, lw))

DecodeVersions(body, end) ==
  IF end < body + 2 THEN Bad(body)
  ELSE IF end = body + 2
  THEN NextExtension(With(supported_versions, <<U16At(body)>>), end)
  ELSE DecodeList(supported_versions, 1, body, end)

DecodeExtension ==
  LET type == U16At(offset)
      body == offset + ExtensionHeader
      end  == body + U16At(offset + 2)
  IN /\ Decode("extension")
     /\ offset < eend
     /\ IF eend < body THEN Bad(0)
        ELSE IF eend < end THEN Bad(body)
        ELSE CASE type = server_name        -> DecodeServerName(body, end)
               [] type = supported_groups   -> DecodeList(type, 2, body, end)
               [] type = supported_versions -> DecodeVersions(body, end)
               [] OTHER -> NextExtension(With(type, BytesAt(body, end)), end)

DecodeExtensionsDone ==
  /\ Decode("extension")
  /\ offset >= eend
  /\ HelloDone(hello, 0)

-----------------------------------------------------------------------------
(* The handler looks at the result.                                        *)
Judge ==
  LET version == U16At(1)
      opaque  == At(0) # handshake
  IN /\ step \in {"good", "bad"}
     /\ step' = IF step = "good" THEN "judged" ELSE "refused"
     /\ verdict' = CASE step = "bad"    -> "stop"
                     [] step = "good" /\ opaque -> "queue"
                     [] OTHER -> IF side = "user"
                                 THEN UserVerdict(version, messages)
                                 ELSE ServerVerdict(version, messages)
     /\ UNCHANGED <<input, from, mend, offset, eend, hello, messages, reach>>

Next ==
  \/ DecodeMesssage
  \/ DecodeHandshake
  \/ DecodeFixed
  \/ DecodeSession
  \/ DecodeSuites
  \/ DecodeCompression
  \/ DecodeSuite
  \/ DecodeSection
  \/ DecodeExtension
  \/ DecodeExtensionsDone
  \/ Judge

Spec == Init /\ [][Next]_vars

-----------------------------------------------------------------------------
Accepted == step \in {"good", "judged"}

(* The reads that nothing guards (a handshake header, a server's suite, a  *)
(* name's header) are each made up for by a later check: a record that is  *)
(* accepted was decoded from its own bytes only, and its messages fill it. *)
AcceptedWithinRecord ==
  Accepted => /\ reach <= Len(record)
              /\ At(0) = handshake => from = limit

(* No length a peer may write keeps the loops where they are: each step of *)
(* decoding ends it or moves on in the buffer.                             *)
Consumes ==
  [][\/ step' \in {"good", "bad", "judged", "refused"}
     \/ from' > from
     \/ from' = from /\ offset' > offset]_vars

-----------------------------------------------------------------------------
(* What the documentation says and the code does not do *)

(* paper.tex:331, "TLS 1.1 and TLS 1.2 are the only allowed versions": a   *)
(* ClientHello that "supports neither [...] will be discarded".  A later   *)
(* version is let pass here too.                                           *)
VersionsChecked ==
  verdict = "check" =>
    HardenVersionsInternal(Head(FirstOf(messages, client_hello)).hello, TLS_1_1)
=============================================================================
