-------------------------- MODULE TlsDecoderProofs --------------------------
(***************************************************************************)
(* For every record of every length: a record that is accepted was decoded *)
(* from its own bytes, and the decoder always moves on.  For every message *)
(* the encoder lets through: the decoder finds it in what was encoded.     *)
(***************************************************************************)
EXTENDS TlsCodec, TLAPS, WellFoundedInduction

InHello == {"fixed", "session", "suites", "suite", "compression",
            "extensions", "extension"}
Accepting == {"good", "judged"}
Steps == {"record", "message", "bad", "refused"} \cup InHello \cup Accepting

Types == /\ record \in Seq(Byte) /\ beyond \in Byte
         /\ from \in Nat /\ mend \in Nat /\ offset \in Nat
         /\ eend \in Nat /\ reach \in Nat
         /\ step \in Steps

(* A read behind the record can only be one that the next check refuses.   *)
Within == /\ step = "record" => reach = 0
          /\ step \in {"message"} \cup InHello \cup Accepting =>
               /\ limit <= Len(record)
               /\ reach <= limit \/ (step = "extensions" /\ reach <= offset)

(* Messages lie one behind the other, none beyond the record.              *)
Tiled == /\ step = "record" => from = 0
         /\ step = "message" => offset = from /\ from <= limit
         /\ step \in InHello => mend > from /\ mend <= limit
         /\ step = "extension" => eend <= limit
         /\ step \in Accepting /\ At(0) = handshake => from = limit

IInv == Types /\ Within /\ Tiled

-----------------------------------------------------------------------------
(* What is read is a number. *)
LEMMA Numbers ==
  ASSUME record \in Seq(Byte), beyond \in Byte
  PROVE  /\ \A i \in Nat : At(i) \in Nat /\ U16At(i) \in Nat /\ U24At(i) \in Nat
         /\ limit \in Nat /\ limit >= 5
         /\ \A i, lw \in Nat : VectorEnd(i, lw) \in Nat /\ VectorEnd(i, lw) >= i + lw
<1>1. ASSUME NEW i \in Nat PROVE At(i) \in Nat
  <2>1. CASE i < Len(record)
    <3>1. Len(record) \in Nat /\ i + 1 \in 1..Len(record)
      BY <2>1
    <3>2. record[i + 1] \in Byte
      BY <3>1
    <3>3. record[i + 1] \in Nat
      <4>1. \A b \in Byte : b \in Nat
        BY DEF Byte
      <4> QED BY <3>2, <4>1
    <3> QED BY <3>3, <2>1 DEF At
  <2>2. CASE ~(i < Len(record))
    BY <2>2 DEF At, Byte
  <2> QED BY <2>1, <2>2
<1>2. \A i \in Nat : At(i) \in Nat
  BY <1>1
<1>3. \A i \in Nat : U16At(i) \in Nat /\ U24At(i) \in Nat
  <2> TAKE i \in Nat
  <2>1. At(i) \in Nat /\ At(i + 1) \in Nat /\ At(i + 2) \in Nat
    <3>1. i + 1 \in Nat /\ i + 2 \in Nat
      OBVIOUS
    <3> QED BY ONLY <1>2, <3>1, i \in Nat
  <2>2. \A x, y, z \in Nat :
           x * 256 + y \in Nat /\ x * 65536 + y * 256 + z \in Nat
    OBVIOUS
  <2>3. U16At(i) = At(i) * 256 + At(i + 1)
    BY DEF U16At
  <2>4. U24At(i) = At(i) * 65536 + At(i + 1) * 256 + At(i + 2)
    BY DEF U24At
  <2> QED BY ONLY <2>1, <2>2, <2>3, <2>4
<1>4. limit \in Nat /\ limit >= 5
  <2>1. U16At(3) \in Nat
    BY <1>3
  <2> QED BY <2>1 DEF limit, PlaintextHeader
<1>5. ASSUME NEW i \in Nat, NEW lw \in Nat
      PROVE  VectorEnd(i, lw) \in Nat /\ VectorEnd(i, lw) >= i + lw
  <2>1. CountAt(i, lw) \in Nat
    BY <1>2, <1>3 DEF CountAt
  <2> QED BY <2>1 DEF VectorEnd
<1> QED BY <1>2, <1>3, <1>4, <1>5

(* The buffer does not change while it is read.                            *)
LEMMA SameBuffer ==
  ASSUME UNCHANGED input
  PROVE  /\ record' = record /\ beyond' = beyond
         /\ limit' = limit
         /\ At(0)' = At(0)
BY DEF input, limit, U16At, At

LEMMA InitInv == Init => IInv
BY DecoderAssumption DEF Init, IInv, Types, Within, Tiled, Steps, InHello, Accepting

(* A record that is refused needs nothing more.                            *)
LEMMA BadKeeps ==
  ASSUME IInv, UNCHANGED input, NEW end \in Nat, Bad(end)
  PROVE  IInv'
BY SameBuffer DEF IInv, Types, Within, Tiled, Bad, Farther, Steps, InHello, Accepting

LEMMA RecordKeeps == IInv /\ DecodeMesssage => IInv'
<1> SUFFICES ASSUME IInv, DecodeMesssage PROVE IInv'
  OBVIOUS
<1>1. UNCHANGED input /\ step = "record"
  BY DEF DecodeMesssage, Decode
<1>2. CASE Len(record) < PlaintextHeader \/ Len(record) < limit
  <2>1. \E end \in {0, 5} : Bad(end)
    BY <1>2 DEF DecodeMesssage, PlaintextHeader
  <2> QED BY <2>1, <1>1, BadKeeps
<1>3. CASE ~(Len(record) < PlaintextHeader \/ Len(record) < limit)
  <2>1. /\ step' \in {"message", "good"}
        /\ step' = "good" => At(0) # handshake
        /\ from' = 5 /\ offset' = 5
        /\ reach' \in {reach, 5, limit}
        /\ mend' = mend /\ eend' = eend
    BY <1>3 DEF DecodeMesssage, PlaintextHeader, Farther
  <2>2. limit \in Nat /\ limit >= 5 /\ Len(record) \in Nat
    BY Numbers DEF IInv, Types
  <2> QED BY <2>1, <2>2, <1>1, <1>3, SameBuffer
       DEF IInv, Types, Within, Tiled, Steps, InHello, Accepting, PlaintextHeader
<1> QED BY <1>2, <1>3

(* The facts every later step uses.                                        *)
LEMMA Facts ==
  ASSUME IInv
  PROVE  /\ limit \in Nat /\ limit >= 5 /\ Len(record) \in Nat
         /\ from \in Nat /\ mend \in Nat /\ offset \in Nat
         /\ eend \in Nat /\ reach \in Nat
         /\ RandomSize \in Nat
<1>1. record \in Seq(Byte) /\ beyond \in Byte
  BY DEF IInv, Types
<1>2. limit \in Nat /\ limit >= 5
  BY <1>1, Numbers
<1>3. Len(RetryHead) \in Nat /\ Len(RetryTail) \in Nat
  BY DefinitionAssumption
<1>4. RandomSize \in Nat
  BY <1>3 DEF RandomSize
<1> QED BY <1>1, <1>2, <1>4 DEF IInv, Types

(* A step within a message that reads no farther than the record goes.     *)
LEMMA ReadKeeps ==
  ASSUME IInv, UNCHANGED <<input, from, mend, eend>>,
         step \in InHello \ {"extensions"}, step' \in InHello,
         step' = "extension" => step = "extension",
         offset' \in Nat,
         NEW end \in Nat, end <= limit, Farther(end)
  PROVE  IInv'
<1>1. UNCHANGED input
  OBVIOUS
<1>2. reach' \in Nat /\ reach' <= limit
  BY Facts DEF Farther, IInv, Within, InHello
<1> QED BY <1>1, <1>2, SameBuffer
     DEF IInv, Types, Within, Tiled, InHello, Steps, Accepting

(* The step that ends a message.                                           *)
LEMMA NextMessageKeeps ==
  ASSUME IInv, UNCHANGED input, step \in {"message"} \cup (InHello \ {"extensions"}),
         NEW h, NEW end, NEW type, NextMessage(h, end, type),
         end \in Nat, end <= limit,
         NEW read \in Nat, read <= limit, Farther(read)
  PROVE  IInv'
<1>1. reach' \in Nat /\ reach' <= limit
  BY Facts DEF Farther, IInv, Within, InHello
<1>2. /\ step' = "message" /\ from' = end /\ offset' = end
      /\ mend' = mend /\ eend' = eend
  BY DEF NextMessage
<1> QED BY <1>1, <1>2, SameBuffer
     DEF IInv, Types, Within, Tiled, InHello, Steps, Accepting

LEMMA HandshakeKeeps == IInv /\ DecodeHandshake => IInv'
<1> SUFFICES ASSUME IInv, DecodeHandshake PROVE IInv'
  OBVIOUS
<1> DEFINE body == from + HandshakeHeader
           end  == body + U24At(from + 1)
<1>1. UNCHANGED input /\ step = "message"
  BY DEF DecodeHandshake, Decode
<1>2. body \in Nat /\ end \in Nat /\ body > from /\ end >= body
  <2>1. from + 1 \in Nat
    BY Facts
  <2>2. U24At(from + 1) \in Nat
    BY <2>1, Numbers DEF IInv, Types
  <2> QED BY <2>2, Facts DEF HandshakeHeader
<1>3. CASE from >= limit
  <2>1. /\ step' = "good"
        /\ UNCHANGED <<from, mend, offset, eend, reach>>
    BY <1>3 DEF DecodeHandshake
  <2>2. from = limit
    BY <1>1, <1>3, Facts DEF IInv, Tiled
  <2> QED BY <1>1, <2>1, <2>2, SameBuffer
       DEF IInv, Types, Within, Tiled, InHello, Steps, Accepting
<1>4. CASE ~(from >= limit) /\ end > limit
  <2>1. Bad(body)
    BY <1>4 DEF DecodeHandshake
  <2> QED BY <2>1, <1>1, <1>2, BadKeeps
<1>5. CASE ~(from >= limit) /\ ~(end > limit) /\ MessageType \in {client_hello, server_hello}
  <2>1. /\ step' = "fixed" /\ mend' = end /\ offset' = body
        /\ Farther(body)
        /\ UNCHANGED <<from, eend>>
    BY <1>5 DEF DecodeHandshake
  <2>2. reach' \in Nat /\ reach' <= limit
    BY <2>1, <1>1, <1>2, <1>5, Facts DEF Farther, IInv, Within
  <2>3. mend' > from' /\ mend' <= limit
    BY <2>1, <1>2, <1>5, Facts
  <2>4. offset' \in Nat /\ mend' \in Nat
    BY <2>1, <1>2
  <2> HIDE DEF body, end
  <2> QED BY <1>1, <2>1, <2>2, <2>3, <2>4, SameBuffer
       DEF IInv, Types, Within, Tiled, InHello, Steps, Accepting
<1>6. CASE ~(from >= limit) /\ ~(end > limit) /\ MessageType \notin {client_hello, server_hello}
  <2>1. NextMessage(NoHello, end, MessageType) /\ Farther(end)
    BY <1>6 DEF DecodeHandshake
  <2>2. end <= limit
    BY <1>2, <1>6, Facts
  <2> HIDE DEF end
  <2> QED BY <1>1, <1>2, <2>1, <2>2, NextMessageKeeps
<1> QED BY <1>3, <1>4, <1>5, <1>6

LEMMA FixedKeeps == IInv /\ DecodeFixed => IInv'
<1> SUFFICES ASSUME IInv, DecodeFixed PROVE IInv'
  OBVIOUS
<1> DEFINE end == offset + HelloHeader
<1>1. UNCHANGED input /\ step = "fixed"
  BY DEF DecodeFixed, Decode
<1>2. end \in Nat
  BY Facts DEF HelloHeader
<1>3. CASE limit < end
  <2>1. Bad(0)
    BY <1>3 DEF DecodeFixed
  <2> QED BY <2>1, <1>1, BadKeeps
<1>4. CASE ~(limit < end)
  <2>1. /\ step' = "session" /\ offset' = end /\ Farther(end)
        /\ UNCHANGED <<from, mend, eend>>
    BY <1>4 DEF DecodeFixed
  <2>2. end <= limit
    BY <1>4, <1>2, Facts
  <2> HIDE DEF end
  <2> QED BY <1>1, <1>2, <2>1, <2>2, ReadKeeps DEF InHello
<1> QED BY <1>3, <1>4

(* What a vector reads lies in the record, or it is refused.               *)
LEMMA VectorKeeps ==
  ASSUME IInv, NEW s \in InHello \ {"extensions", "extension"}, NEW lw \in {1, 2},
         NEW w, NEW field, NEW next \in InHello \ {"extension"},
         DecodeVector(s, lw, w, field, next)
  PROVE  IInv'
<1> DEFINE end == VectorEnd(offset, lw)
<1>1. UNCHANGED input /\ step = s
  BY DEF DecodeVector, Decode
<1>2. end \in Nat
  BY Numbers, Facts DEF IInv, Types
<1>3. CASE ~VectorGood(offset, lw, w)
  <2>1. \E read \in Nat : Bad(read)
    BY <1>3, Facts DEF DecodeVector
  <2> QED BY <2>1, <1>1, BadKeeps
<1>4. CASE VectorGood(offset, lw, w)
  <2>1. /\ step' = next /\ offset' = end /\ Farther(end)
        /\ UNCHANGED <<from, mend, eend>>
    BY <1>4 DEF DecodeVector
  <2>2. end <= limit
    BY <1>4 DEF VectorGood
  <2> HIDE DEF end
  <2> QED BY <1>1, <1>2, <2>1, <2>2, ReadKeeps DEF InHello
<1> QED BY <1>3, <1>4

LEMMA VectorsKeep ==
  IInv /\ (DecodeSession \/ DecodeSuites \/ DecodeCompression) => IInv'
BY VectorKeeps DEF DecodeSession, DecodeSuites, DecodeCompression, InHello

(* Nothing guards this read: what it needs is checked by the next step.    *)
LEMMA SuiteKeeps == IInv /\ DecodeSuite => IInv'
<1> SUFFICES ASSUME IInv, DecodeSuite PROVE IInv'
  OBVIOUS
<1>1. UNCHANGED input /\ step = "suite" /\ step' = "extensions"
      /\ offset' = offset + 3 /\ Farther(offset + 3)
      /\ UNCHANGED <<from, mend, eend>>
  BY DEF DecodeSuite, Decode
<1>2. reach' \in Nat /\ (reach' <= limit \/ reach' <= offset')
  BY <1>1, Facts DEF Farther, IInv, Within, InHello
<1>3. offset' \in Nat
  BY <1>1, Facts
<1> QED BY <1>1, <1>2, <1>3, SameBuffer
     DEF IInv, Types, Within, Tiled, InHello, Steps, Accepting

LEMMA SectionKeeps == IInv /\ DecodeSection => IInv'
<1> SUFFICES ASSUME IInv, DecodeSection PROVE IInv'
  OBVIOUS
<1> DEFINE body == offset + ExtensionsHeader
           end  == body + U16At(offset)
<1>1. UNCHANGED input /\ step = "extensions"
  BY DEF DecodeSection, Decode
<1>2. body \in Nat /\ end \in Nat /\ body > offset
  <2>1. U16At(offset) \in Nat
    BY Numbers, Facts DEF IInv, Types
  <2> QED BY <2>1, Facts DEF ExtensionsHeader
<1>3. CASE limit < body \/ end > limit
  <2>1. Bad(0) \/ Bad(body)
    BY <1>3 DEF DecodeSection
  <2> QED BY <2>1, <1>1, <1>2, BadKeeps
<1>4. CASE ~(limit < body \/ end > limit)
  <2>1. /\ step' = "extension" /\ offset' = body /\ eend' = end
        /\ Farther(body) /\ UNCHANGED <<from, mend>>
    BY <1>4 DEF DecodeSection
  <2>2. reach' \in Nat /\ reach' <= limit
    BY <2>1, <1>1, <1>2, <1>4, Facts DEF Farther, IInv, Within, InHello
  <2>3. offset' \in Nat /\ eend' \in Nat /\ eend' <= limit
    BY <2>1, <1>2, <1>4, Facts
  <2> HIDE DEF body, end
  <2> QED BY <1>1, <2>1, <2>2, <2>3, SameBuffer
       DEF IInv, Types, Within, Tiled, InHello, Steps, Accepting
<1> QED BY <1>3, <1>4

LEMMA ExtensionReads ==
  ASSUME IInv, DecodeExtension
  PROVE  /\ U16At(offset) \in Nat /\ U16At(offset + 2) \in Nat
         /\ \A i \in Nat : U16At(i) \in Nat
         /\ UNCHANGED input /\ step = "extension" /\ eend <= limit
         /\ mend <= limit
<1>1. offset + 2 \in Nat
  BY Facts
<1>2. \A i \in Nat : U16At(i) \in Nat
  BY Numbers DEF IInv, Types
<1> QED BY <1>1, <1>2, Facts DEF DecodeExtension, Decode, IInv, Tiled, InHello

(* The two ways on from an extension.                                      *)
LEMMA NextExtensionKeeps ==
  ASSUME IInv, UNCHANGED input, step = "extension",
         NEW h, NEW end \in Nat, end <= limit, NextExtension(h, end)
  PROVE  IInv'
BY ReadKeeps DEF NextExtension, InHello

LEMMA HelloDoneKeeps ==
  ASSUME IInv, UNCHANGED input, step = "extension",
         NEW h, NEW end \in Nat, end <= limit, HelloDone(h, end)
  PROVE  IInv'
<1>1. mend \in Nat /\ mend <= limit
  BY Facts DEF IInv, Tiled, InHello
<1>2. NextMessage(h, mend, MessageType) /\ Farther(end)
  BY DEF HelloDone
<1> QED BY <1>1, <1>2, NextMessageKeeps DEF InHello

LEMMA ListKeeps ==
  ASSUME IInv, UNCHANGED input, step = "extension",
         NEW type, NEW lw \in {1, 2}, NEW body \in Nat, NEW end \in Nat,
         end <= limit, DecodeList(type, lw, body, end)
  PROVE  IInv'
<1>1. VectorEnd(body, lw) \in Nat
  BY Numbers DEF IInv, Types
<1>2. CASE ~VectorGood(body, lw, 2)
  <2>1. \E read \in Nat : Bad(read)
    BY <1>2, Facts DEF DecodeList
  <2> QED BY <2>1, BadKeeps
<1>3. CASE VectorGood(body, lw, 2)
  <2>1. PICK h : NextExtension(h, end) \/ HelloDone(h, VectorEnd(body, lw))
    BY <1>3 DEF DecodeList
  <2>2. VectorEnd(body, lw) <= limit
    BY <1>3 DEF VectorGood
  <2> QED BY <2>1, <2>2, <1>1, NextExtensionKeeps, HelloDoneKeeps
<1> QED BY <1>2, <1>3

LEMMA ServerNameKeeps ==
  ASSUME IInv, UNCHANGED input, step = "extension",
         NEW body \in Nat, NEW end \in Nat, body <= end, end <= limit,
         DecodeServerName(body, end)
  PROVE  IInv'
<1> DEFINE name == body + 2 + ServerNameHeader
<1>1. name \in Nat
  BY DEF ServerNameHeader
<1>2. body <= limit
  BY Facts
<1>3. \/ HelloDone(With(server_name, <<>>), body)
      \/ Bad(body) \/ Bad(name)
      \/ NextExtension(With(server_name, BytesAt(name, end)), end)
  BY DEF DecodeServerName
<1> HIDE DEF name
<1> QED BY <1>1, <1>2, <1>3, BadKeeps, HelloDoneKeeps, NextExtensionKeeps

LEMMA VersionsKeep ==
  ASSUME IInv, UNCHANGED input, step = "extension",
         NEW body \in Nat, NEW end \in Nat, end <= limit,
         DecodeVersions(body, end)
  PROVE  IInv'
<1>1. \/ Bad(body)
      \/ NextExtension(With(supported_versions, <<U16At(body)>>), end)
      \/ DecodeList(supported_versions, 1, body, end)
  BY DEF DecodeVersions
<1> QED BY <1>1, BadKeeps, NextExtensionKeeps, ListKeeps

LEMMA ExtensionKeeps == IInv /\ DecodeExtension => IInv'
<1> SUFFICES ASSUME IInv, DecodeExtension PROVE IInv'
  OBVIOUS
<1> DEFINE type == U16At(offset)
           body == offset + ExtensionHeader
           end  == body + U16At(offset + 2)
<1>1. UNCHANGED input /\ step = "extension" /\ eend <= limit
  BY ExtensionReads
<1>2. body \in Nat /\ end \in Nat /\ body <= end
  <2>1. U16At(offset + 2) \in Nat
    BY ExtensionReads
  <2>2. offset \in Nat /\ ExtensionHeader \in Nat
    BY Facts DEF ExtensionHeader
  <2> QED BY ONLY <2>1, <2>2
<1>3. CASE eend < body \/ eend < end
  <2>1. Bad(0) \/ Bad(body)
    BY <1>3 DEF DecodeExtension
  <2> QED BY <2>1, <1>1, <1>2, BadKeeps
<1>4. CASE ~(eend < body \/ eend < end)
  <2>1. end <= limit
    BY <1>1, <1>2, <1>4, Facts
  <2>2. \/ DecodeServerName(body, end)
        \/ DecodeList(type, 2, body, end)
        \/ DecodeVersions(body, end)
        \/ NextExtension(With(type, BytesAt(body, end)), end)
    BY <1>4 DEF DecodeExtension
  <2> HIDE DEF type, body, end
  <2> QED BY <1>1, <1>2, <2>1, <2>2,
             ServerNameKeeps, ListKeeps, VersionsKeep, NextExtensionKeeps
<1> QED BY <1>3, <1>4

LEMMA LastExtensionKeeps == IInv /\ DecodeExtensionsDone => IInv'
<1> SUFFICES ASSUME IInv, DecodeExtensionsDone PROVE IInv'
  OBVIOUS
<1>1. /\ UNCHANGED input /\ step = "extension" /\ HelloDone(hello, 0)
  BY DEF DecodeExtensionsDone, Decode
<1> QED BY <1>1, Facts, HelloDoneKeeps

LEMMA JudgeKeeps == IInv /\ Judge => IInv'
<1> SUFFICES ASSUME IInv, Judge PROVE IInv'
  OBVIOUS
<1>1. /\ UNCHANGED input /\ UNCHANGED <<from, mend, offset, eend, reach>>
      /\ step \in {"good", "bad"}
      /\ step = "good" => step' = "judged"
      /\ step = "bad" => step' = "refused"
  BY DEF Judge
<1> QED BY <1>1, SameBuffer
     DEF IInv, Types, Within, Tiled, InHello, Steps, Accepting

LEMMA StutterKeeps == IInv /\ UNCHANGED vars => IInv'
<1> SUFFICES ASSUME IInv, UNCHANGED vars PROVE IInv'
  OBVIOUS
<1>1. UNCHANGED input /\ UNCHANGED <<from, mend, offset, eend, reach, step>>
  BY DEF vars, input
<1> QED BY <1>1, SameBuffer
     DEF IInv, Types, Within, Tiled, InHello, Steps, Accepting

LEMMA NextKeeps == IInv /\ [Next]_vars => IInv'
BY RecordKeeps, HandshakeKeeps, FixedKeeps, VectorsKeep, SuiteKeeps,
   SectionKeeps, ExtensionKeeps, LastExtensionKeeps, JudgeKeeps, StutterKeeps
   DEF Next

LEMMA Always == Spec => []IInv
BY InitInv, NextKeeps, PTL DEF Spec

(* AcceptedWithinRecord: whatever lengths a peer writes, what is accepted  *)
(* by DecodeMesssage has been read from the record alone, to its end.      *)
THEOREM AcceptedRecordsAreRead == Spec => []AcceptedWithinRecord
<1>1. IInv => AcceptedWithinRecord
  <2> SUFFICES ASSUME IInv, Accepted PROVE AcceptedWithinRecord
    BY DEF AcceptedWithinRecord
  <2>1. reach <= limit /\ limit <= Len(record)
    BY DEF IInv, Within, Accepted, Accepting
  <2>2. reach <= Len(record)
    BY <2>1, Facts
  <2>3. At(0) = handshake => from = limit
    BY DEF IInv, Tiled, Accepted, Accepting
  <2> QED BY <2>2, <2>3 DEF AcceptedWithinRecord
<1> QED BY <1>1, Always, PTL

-----------------------------------------------------------------------------
(* Every step reads on *)

(* Where the next piece is read, or that there is none.                    *)
Moves == \/ step' \in {"good", "bad", "judged", "refused"}
         \/ from' > from
         \/ from' = from /\ offset' > offset

LEMMA NextMessageMoves ==
  ASSUME NEW h, NEW end, NEW type, NextMessage(h, end, type), end > from
  PROVE  Moves
BY DEF NextMessage, Moves

LEMMA HandshakeMoves == IInv /\ DecodeHandshake => Moves
<1> SUFFICES ASSUME IInv, DecodeHandshake PROVE Moves
  OBVIOUS
<1> DEFINE body == from + HandshakeHeader
           end  == body + U24At(from + 1)
<1>1. offset = from
  BY DEF DecodeHandshake, Decode, IInv, Tiled
<1>2. body \in Nat /\ end \in Nat /\ body > from /\ end > from
  <2>1. from + 1 \in Nat
    BY Facts
  <2>2. U24At(from + 1) \in Nat
    BY <2>1, Numbers DEF IInv, Types
  <2> QED BY <2>2, Facts DEF HandshakeHeader
<1>3. \/ step' \in {"good", "bad"}
      \/ from' = from /\ offset' = body
      \/ NextMessage(NoHello, end, MessageType)
  BY DEF DecodeHandshake, Bad
<1> HIDE DEF body, end
<1> QED BY <1>1, <1>2, <1>3, NextMessageMoves DEF Moves

LEMMA VectorMoves ==
  ASSUME IInv, NEW s, NEW lw \in {1, 2}, NEW w, NEW field, NEW next,
         DecodeVector(s, lw, w, field, next)
  PROVE  Moves
<1>1. VectorEnd(offset, lw) \in Nat /\ VectorEnd(offset, lw) >= offset + lw
  BY Numbers, Facts DEF IInv, Types
<1>2. step' = "bad" \/ (from' = from /\ offset' = VectorEnd(offset, lw))
  BY DEF DecodeVector, Bad
<1> QED BY <1>1, <1>2, Facts DEF Moves

LEMMA FixedPartsMove ==
  IInv /\ (DecodeFixed \/ DecodeSuite \/ DecodeSection) => Moves
<1> SUFFICES ASSUME IInv, DecodeFixed \/ DecodeSuite \/ DecodeSection PROVE Moves
  OBVIOUS
<1>1. \/ step' = "bad"
      \/ from' = from /\ offset' \in {offset + HelloHeader, offset + 3,
                                      offset + ExtensionsHeader}
  BY DEF DecodeFixed, DecodeSuite, DecodeSection, Bad
<1> QED BY <1>1, Facts DEF Moves, HelloHeader, ExtensionsHeader

LEMMA HelloDoneMoves ==
  ASSUME IInv, step = "extension", NEW h, NEW end, HelloDone(h, end)
  PROVE  Moves
<1>1. mend > from
  BY DEF IInv, Tiled, InHello
<1> QED BY <1>1, NextMessageMoves DEF HelloDone

LEMMA ExtensionMoves == IInv /\ DecodeExtension => Moves
<1> SUFFICES ASSUME IInv, DecodeExtension PROVE Moves
  OBVIOUS
<1> DEFINE body == offset + ExtensionHeader
           end  == body + U16At(offset + 2)
<1>1. step = "extension"
  BY ExtensionReads
<1>2. end \in Nat /\ end > offset
  <2>1. U16At(offset + 2) \in Nat
    BY ExtensionReads
  <2>2. offset \in Nat /\ ExtensionHeader \in Nat /\ ExtensionHeader > 0
    BY Facts DEF ExtensionHeader
  <2> QED BY ONLY <2>1, <2>2
<1>3. \/ step' = "bad"
      \/ \E h, read : HelloDone(h, read)
      \/ \E h : NextExtension(h, end)
  BY DEF DecodeExtension, DecodeServerName, DecodeList, DecodeVersions, Bad
<1> HIDE DEF end
<1>4. ASSUME NEW h, NextExtension(h, end) PROVE Moves
  BY <1>4, <1>2, Facts DEF NextExtension, Moves
<1> QED BY <1>1, <1>3, <1>4, HelloDoneMoves DEF Moves

LEMMA NextMoves == IInv /\ Next => Moves \/ UNCHANGED vars
<1> SUFFICES ASSUME IInv, Next PROVE Moves
  OBVIOUS
<1>1. CASE DecodeMesssage
  <2>1. step' \in {"bad", "good"} \/ (from' = 5 /\ offset' = 5 /\ step = "record")
    BY <1>1 DEF DecodeMesssage, Decode, Bad, PlaintextHeader
  <2> QED BY <2>1, Facts DEF Moves, IInv, Tiled
<1>2. CASE DecodeHandshake
  BY <1>2, HandshakeMoves
<1>3. CASE DecodeFixed \/ DecodeSuite \/ DecodeSection
  BY <1>3, FixedPartsMove
<1>4. CASE DecodeSession \/ DecodeSuites \/ DecodeCompression
  BY <1>4, VectorMoves DEF DecodeSession, DecodeSuites, DecodeCompression
<1>5. CASE DecodeExtension
  BY <1>5, ExtensionMoves
<1>6. CASE DecodeExtensionsDone
  BY <1>6, HelloDoneMoves DEF DecodeExtensionsDone, Decode
<1>7. CASE Judge
  BY <1>7 DEF Judge, Moves
<1> QED BY <1>1, <1>2, <1>3, <1>4, <1>5, <1>6, <1>7 DEF Next

(* Consumes: no length, zero included, keeps DecodeHandshake or            *)
(* DecodeExtensions in its loop.                                           *)
THEOREM DecodingConsumes == Spec => Consumes
<1>1. IInv /\ [Next]_vars => [Moves]_vars
  BY NextMoves
<1>2. Spec => [][Moves]_vars
  BY <1>1, Always, PTL DEF Spec
<1> QED BY <1>2 DEF Consumes, Moves

-----------------------------------------------------------------------------
(* Induction over a list, and what FlattenSeq does.  The induction         *)
(* theorems of the library take an operator, so it is done with sets.      *)

(* The least element of a set of numbers, which is what the inductions     *)
(* over data below rest on.                                                *)
LEMMA LeastNumber ==
  ASSUME NEW T \in SUBSET Nat, T # {}
  PROVE  \E m \in T : \A k \in T : m <= k
<1> DEFINE R == {s \in Nat \X Nat : s[1] < s[2]}
<1>1. IsWellFoundedOn(R, Nat)
  BY NatLessThanWellFounded DEF OpToRel
<1>2. \A x, y \in Nat : x < y => <<x, y>> \in R
  OBVIOUS
<1> HIDE DEF R
<1>3. PICK m \in T : \A k \in T : <<k, m>> \notin R
  BY <1>1, WFMin
<1>4. \A k \in T : ~(k < m)
  BY <1>2, <1>3
<1>5. \A k \in T : k \in Nat
  OBVIOUS
<1> QED BY <1>4, <1>5

(* A set that has 0, and n if it has n - 1, has all numbers up to a bound. *)
LEMMA UpTo ==
  ASSUME NEW G, NEW z \in Nat, 0 \in G, \A n \in 1..z : n - 1 \in G => n \in G
  PROVE  \A n \in 0..z : n \in G
<1> SUFFICES ASSUME ~ \A n \in 0..z : n \in G PROVE FALSE
  OBVIOUS
<1> DEFINE T == {n \in 0..z : n \notin G}
<1>1. PICK m \in T : \A k \in T : m <= k
  <2>1. T \in SUBSET Nat /\ T # {}
    OBVIOUS
  <2> HIDE DEF T
  <2> QED BY <2>1, LeastNumber
<1>2. m \in 1..z /\ m \notin G /\ m - 1 \in 0..z
  OBVIOUS
<1>3. m - 1 \notin T
  BY <1>1, <1>2
<1> QED BY <1>2, <1>3

(* The positions of a list that is put behind another.                     *)
LEMMA Joined ==
  ASSUME NEW S, NEW a \in Seq(S), NEW b \in Seq(S)
  PROVE  LET s == a \o b
         IN /\ s \in Seq(S) /\ Len(s) = Len(a) + Len(b)
            /\ Len(a) \in Nat /\ Len(b) \in Nat
            /\ \A k \in 1..Len(s) :
                 \/ k \in 1..Len(a) /\ k <= Len(a) /\ s[k] = a[k]
                 \/ /\ ~(k <= Len(a)) /\ k - Len(a) \in 1..Len(b)
                    /\ Len(a) + (k - Len(a)) = k /\ s[k] = b[k - Len(a)]
            /\ \A k \in 1..Len(a) :
                 k \in 1..Len(s) /\ k <= Len(a) /\ s[k] = a[k]
            /\ \A k \in 1..Len(b) :
                 /\ Len(a) + k \in 1..Len(s) /\ ~(Len(a) + k <= Len(a))
                 /\ Len(a) + k - Len(a) = k /\ s[Len(a) + k] = b[k]
<1> DEFINE s == a \o b
<1>1. Len(a) \in Nat /\ Len(b) \in Nat
  OBVIOUS
<1>2. s \in Seq(S) /\ Len(s) = Len(a) + Len(b)
  OBVIOUS
<1>3. \A k \in 1..Len(a) : k \in 1..(Len(a) + Len(b)) /\ k <= Len(a)
  BY <1>1
<1>4. \A k \in 1..Len(b) : /\ Len(a) + k \in 1..(Len(a) + Len(b))
                           /\ ~(Len(a) + k <= Len(a))
                           /\ Len(a) + k - Len(a) = k
  BY <1>1
<1>5. \A k \in 1..Len(a) : s[k] = a[k]
  BY <1>1, <1>2
<1>6. \A k \in 1..Len(b) : s[Len(a) + k] = b[k]
  BY <1>1, <1>2
<1> HIDE DEF s
<1>7. \A k \in 1..(Len(a) + Len(b)) :
        \/ k \in 1..Len(a) /\ k <= Len(a)
        \/ /\ ~(k <= Len(a)) /\ k - Len(a) \in 1..Len(b)
           /\ Len(a) + (k - Len(a)) = k
  BY <1>1
<1>8. \A k \in 1..Len(s) :
        \/ k \in 1..Len(a) /\ k <= Len(a) /\ s[k] = a[k]
        \/ /\ ~(k <= Len(a)) /\ k - Len(a) \in 1..Len(b)
           /\ Len(a) + (k - Len(a)) = k /\ s[k] = b[k - Len(a)]
  <2> TAKE k \in 1..Len(s)
  <2>1. CASE k \in 1..Len(a) /\ k <= Len(a)
    BY <1>5, <2>1
  <2>2. CASE /\ ~(k <= Len(a)) /\ k - Len(a) \in 1..Len(b)
             /\ Len(a) + (k - Len(a)) = k
    BY <1>6, <2>2
  <2> QED BY <1>2, <1>7, <2>1, <2>2
<1> QED BY <1>1, <1>2, <1>3, <1>4, <1>5, <1>6, <1>8 DEF s

(* FlattenSeq chooses the lists that were joined so far: there is such a   *)
(* choice.                                                                 *)
LEMMA FlattenDefined ==
  ASSUME NEW ss, Len(ss) \in Nat, Len(ss) > 0
  PROVE  \E flat : /\ FlattenSeq(ss) = flat[Len(ss)]
                   /\ flat = [i \in 1..Len(ss) |->
                                IF i = 1 THEN ss[i] ELSE flat[i - 1] \o ss[i]]
<1> DEFINE Step(g, i) == IF i = 1 THEN ss[i] ELSE g[i - 1] \o ss[i]
           Made(g, n) == g = [i \in 1..n |-> Step(g, i)]
           flat == CHOOSE g : Made(g, Len(ss))
           G == {n \in 0..Len(ss) : \E g : Made(g, n)}
<1>1. 0 \in G
  <2>1. Made([i \in 1..0 |-> 0], 0)
    OBVIOUS
  <2> HIDE DEF Made
  <2> QED BY <2>1
<1>2. ASSUME NEW n \in 1..Len(ss), n - 1 \in G PROVE n \in G
  <2>1. PICK g : Made(g, n - 1)
    BY <1>2
  <2> DEFINE h == [i \in 1..n |-> IF i = n THEN Step(g, n) ELSE g[i]]
  <2>2. \A i \in 1..n : Step(h, i) = Step(g, i)
    <3>1. \A i \in 1..n : i # 1 => i - 1 \in 1..n /\ i - 1 # n
      OBVIOUS
    <3> QED BY <3>1
  <2>3. \A i \in 1..(n - 1) : g[i] = Step(g, i)
    BY <2>1
  <2>4. \A i \in 1..n : h[i] = Step(g, i)
    <3>1. \A i \in 1..n : i = n \/ i \in 1..(n - 1)
      OBVIOUS
    <3> QED BY <2>3, <3>1
  <2>5. h = [i \in 1..n |-> Step(h, i)]
    <3>1. [i \in 1..n |-> Step(h, i)] = [i \in 1..n |-> h[i]]
      BY <2>2, <2>4
    <3> QED BY <3>1
  <2>6. Made(h, n)
    BY ONLY <2>5
  <2>7. n \in 0..Len(ss)
    OBVIOUS
  <2> HIDE DEF Made, h
  <2> QED BY <2>6, <2>7
<1>3. Len(ss) \in G
  <2>1. Len(ss) \in 0..Len(ss)
    OBVIOUS
  <2> HIDE DEF G
  <2> QED BY <1>1, <1>2, <2>1, UpTo
<1>4. Made(flat, Len(ss))
  BY <1>3
<1>5. FlattenSeq(ss) = flat[Len(ss)]
  BY DEF FlattenSeq
<1> HIDE DEF flat
<1> QED BY <1>4, <1>5

(* Where the lists are in what a list of lists is flattened to.            *)
Positions(ss, flat, pos) ==
  /\ pos \in [0..Len(ss) -> Nat]
  /\ pos[0] = 0 /\ pos[Len(ss)] = Len(flat)
  /\ \A n \in 1..Len(ss) :
       /\ pos[n] = pos[n - 1] + Len(ss[n])
       /\ pos[n] <= Len(flat)
       /\ \A k \in 1..Len(ss[n]) : flat[pos[n - 1] + k] = ss[n][k]

LEMMA FlattenPlaces ==
  ASSUME NEW S, NEW ss \in Seq(Seq(S)), Len(ss) > 0
  PROVE  /\ FlattenSeq(ss) \in Seq(S)
         /\ \E pos : Positions(ss, FlattenSeq(ss), pos)
<1>1. Len(ss) \in Nat
  OBVIOUS
<1>2. PICK flat : /\ FlattenSeq(ss) = flat[Len(ss)]
                  /\ flat = [i \in 1..Len(ss) |->
                               IF i = 1 THEN ss[i] ELSE flat[i - 1] \o ss[i]]
  BY <1>1, FlattenDefined
<1>3. \A i \in 1..Len(ss) : ss[i] \in Seq(S) /\ Len(ss[i]) \in Nat
  OBVIOUS
<1>4. /\ flat[1] = ss[1]
      /\ \A n \in 2..Len(ss) : flat[n] = flat[n - 1] \o ss[n]
  <2>1. 1 \in 1..Len(ss) /\ \A n \in 2..Len(ss) : n \in 1..Len(ss) /\ n # 1
    BY <1>1
  <2> QED BY <1>2, <2>1
<1> DEFINE G == {n \in 0..Len(ss) : n = 0 \/ flat[n] \in Seq(S)}
<1>5. ASSUME NEW n \in 1..Len(ss), n - 1 \in G PROVE n \in G
  <2>1. CASE n = 1
    BY <1>1, <1>3, <1>4, <2>1
  <2>2. CASE n # 1
    <3>1. n \in 2..Len(ss) /\ n \in 0..Len(ss)
      BY <1>1, <2>2
    <3>2. flat[n - 1] \in Seq(S) /\ ss[n] \in Seq(S)
      BY <1>1, <1>3, <1>5, <2>2
    <3>3. flat[n] \in Seq(S)
      <4>1. \A a, b \in Seq(S) : a \o b \in Seq(S)
        OBVIOUS
      <4>2. flat[n] = flat[n - 1] \o ss[n]
        BY <1>4, <3>1
      <4> QED BY ONLY <3>2, <4>1, <4>2
    <3> QED BY <3>1, <3>3
  <2> QED BY <2>1, <2>2
<1>6. \A n \in 0..Len(ss) : n \in G
  <2>1. 0 \in G
    BY <1>1
  <2> HIDE DEF G
  <2> QED BY <1>1, <1>5, <2>1, UpTo
<1>7. \A n \in 1..Len(ss) : flat[n] \in Seq(S) /\ Len(flat[n]) \in Nat
  <2> TAKE n \in 1..Len(ss)
  <2>1. n \in 0..Len(ss) /\ n # 0
    BY <1>1
  <2>2. flat[n] \in Seq(S)
    BY <1>6, <2>1
  <2> QED BY <2>2
<1> HIDE DEF G
<1> DEFINE pos == [n \in 0..Len(ss) |-> IF n = 0 THEN 0 ELSE Len(flat[n])]
<1>8. /\ pos \in [0..Len(ss) -> Nat] /\ pos[0] = 0
      /\ \A n \in 1..Len(ss) : pos[n] = Len(flat[n]) /\ pos[n] \in Nat
  <2>1. \A n \in 0..Len(ss) : n = 0 \/ n \in 1..Len(ss)
    BY <1>1
  <2>2. 0 \in 0..Len(ss) /\ \A n \in 1..Len(ss) : n \in 0..Len(ss) /\ n # 0
    BY <1>1
  <2> QED BY <1>7, <2>1, <2>2
<1> HIDE DEF pos
<1>9. ASSUME NEW n \in 1..Len(ss)
      PROVE  /\ pos[n] = pos[n - 1] + Len(ss[n])
             /\ \A k \in 1..Len(ss[n]) : flat[n][pos[n - 1] + k] = ss[n][k]
             /\ \A k \in 1..pos[n - 1] : n > 1 /\ flat[n][k] = flat[n - 1][k]
             /\ pos[n - 1] \in Nat
  <2>1. CASE n = 1
    <3>1. pos[n - 1] = 0 /\ pos[n] = Len(ss[1])
      BY <1>4, <1>8, <2>1
    <3>2. Len(ss[n]) \in Nat /\ flat[n] = ss[n]
      BY <1>3, <1>4, <2>1
    <3> QED BY <2>1, <3>1, <3>2
  <2>2. CASE n # 1
    <3>1. n \in 2..Len(ss) /\ n - 1 \in 1..Len(ss)
      BY <1>1, <2>2
    <3> DEFINE a == flat[n - 1]
               b == ss[n]
    <3>2. flat[n] = a \o b /\ a \in Seq(S) /\ b \in Seq(S)
      BY <1>3, <1>4, <1>7, <3>1
    <3>3. pos[n - 1] = Len(a) /\ pos[n] = Len(a \o b)
      BY <1>8, <3>1, <3>2
    <3> HIDE DEF a, b
    <3>4. /\ Len(a \o b) = Len(a) + Len(b) /\ Len(a) \in Nat
          /\ \A k \in 1..Len(a) : (a \o b)[k] = a[k]
          /\ \A k \in 1..Len(b) : (a \o b)[Len(a) + k] = b[k]
      BY ONLY <3>2, Joined
    <3>5. /\ pos[n] = pos[n - 1] + Len(b)
          /\ \A k \in 1..Len(b) : flat[n][pos[n - 1] + k] = b[k]
          /\ \A k \in 1..pos[n - 1] : flat[n][k] = a[k]
          /\ pos[n - 1] \in Nat
      BY ONLY <3>2, <3>3, <3>4
    <3>6. n > 1
      BY <1>1, <3>1
    <3> QED BY <3>5, <3>6 DEF a, b
  <2> QED BY <2>1, <2>2
(* What stands in a part stays where it is.                                *)
<1> DEFINE H == {n \in 0..Len(ss) :
                   \A i \in 1..n : /\ pos[i] <= pos[n]
                                   /\ \A k \in 1..pos[i] : flat[n][k] = flat[i][k]}
<1>10. ASSUME NEW n \in 1..Len(ss), n - 1 \in H PROVE n \in H
  <2>1. ASSUME NEW i \in 1..n
        PROVE  pos[i] <= pos[n] /\ \A k \in 1..pos[i] : flat[n][k] = flat[i][k]
    <3>1. CASE i = n
      BY <1>8, <3>1
    <3>2. CASE i # n
      <4>1. i \in 1..n - 1 /\ i \in 1..Len(ss)
        BY <1>1, <3>2
      <4>2. pos[i] <= pos[n - 1] /\ \A k \in 1..pos[i] : flat[n - 1][k] = flat[i][k]
        BY <1>10, <4>1
      <4>3. pos[i] \in Nat /\ pos[n - 1] \in Nat /\ pos[n] \in Nat /\ Len(ss[n]) \in Nat
        BY <1>3, <1>8, <1>9, <4>1
      <4>4. pos[n] = pos[n - 1] + Len(ss[n])
            /\ \A k \in 1..pos[n - 1] : flat[n][k] = flat[n - 1][k]
        BY <1>9
      <4>5. \A k \in 1..pos[i] : k \in 1..pos[n - 1]
        BY <4>2, <4>3
      <4>6. pos[i] <= pos[n]
        BY <4>2, <4>3, <4>4
      <4> QED BY <4>2, <4>4, <4>5, <4>6
    <3> QED BY <3>1, <3>2
  <2>2. n \in 0..Len(ss)
    BY <1>1
  <2> QED BY <2>1, <2>2
<1>11. Len(ss) \in H
  <2>1. 0 \in H /\ Len(ss) \in 0..Len(ss)
    BY <1>1
  <2> HIDE DEF H
  <2> QED BY <1>1, <1>10, <2>1, UpTo
<1>12. ASSUME NEW n \in 1..Len(ss)
       PROVE  /\ pos[n] <= Len(FlattenSeq(ss))
              /\ \A k \in 1..Len(ss[n]) : FlattenSeq(ss)[pos[n - 1] + k] = ss[n][k]
  <2>1. Len(ss) \in 1..Len(ss)
    BY <1>1
  <2>2. pos[n] <= pos[Len(ss)] /\ \A k \in 1..pos[n] : FlattenSeq(ss)[k] = flat[n][k]
    BY <1>2, <1>11
  <2>3. \A k \in 1..Len(ss[n]) : pos[n - 1] + k \in 1..pos[n]
    BY <1>3, <1>9
  <2>4. pos[Len(ss)] = Len(FlattenSeq(ss))
    BY <1>2, <1>8, <2>1
  <2> QED BY <1>9, <2>2, <2>3, <2>4
<1>13. FlattenSeq(ss) \in Seq(S) /\ pos[Len(ss)] = Len(FlattenSeq(ss))
  <2>1. Len(ss) \in 1..Len(ss)
    BY <1>1
  <2> QED BY <1>2, <1>7, <1>8, <2>1
<1>14. Positions(ss, FlattenSeq(ss), pos)
  BY <1>8, <1>9, <1>12, <1>13 DEF Positions
<1> QED BY <1>13, <1>14

LEMMA FlattenAny ==
  ASSUME NEW S, NEW ss \in Seq(Seq(S))
  PROVE  /\ FlattenSeq(ss) \in Seq(S)
         /\ \E pos : Positions(ss, FlattenSeq(ss), pos)
<1>1. CASE Len(ss) > 0
  BY <1>1, FlattenPlaces
<1>2. CASE ~(Len(ss) > 0)
  <2>1. Len(ss) = 0 /\ ss = <<>>
    BY <1>2
  <2>2. FlattenSeq(ss) = <<>>
    BY <2>1 DEF FlattenSeq
  <2> DEFINE pos == [n \in 0..0 |-> 0]
  <2>3. pos \in [0..0 -> Nat] /\ pos[0] = 0 /\ Len(<<>>) = 0 /\ 1..0 = {}
    OBVIOUS
  <2> HIDE DEF pos
  <2>4. Positions(ss, <<>>, pos)
    BY <2>1, <2>3 DEF Positions
  <2> QED BY <2>2, <2>4
<1> QED BY <1>1, <1>2

-----------------------------------------------------------------------------
(* Numbers of two and three bytes *)

LEMMA WordIs == \A n \in Word : n \in Nat /\ n <= 65535
<1> DEFINE largest == 65535
<1>1. largest \in Nat /\ Word = 0..largest
  BY DEF Word
<1> HIDE DEF largest
<1>2. \A n \in Word : n \in Nat /\ n <= largest
  BY <1>1
<1> QED BY <1>2 DEF largest

LEMMA WordMade ==
  ASSUME NEW n \in Nat, n <= 65535
  PROVE  n \in Word
<1> DEFINE largest == 65535
<1>1. largest \in Nat /\ n <= largest
  OBVIOUS
<1>2. Word = 0..largest
  BY DEF Word
<1> HIDE DEF largest
<1>3. n \in 0..largest
  BY <1>1
<1> QED BY <1>2, <1>3

LEMMA ByteIs == \A n \in Nat : n <= 255 => n \in Byte
BY DEF Byte

LEMMA TwoBytes ==
  ASSUME NEW n \in Word
  PROVE  /\ n \div 256 \in Byte /\ n % 256 \in Byte
         /\ (n \div 256) * 256 + (n % 256) = n
         /\ n \div 256 \in Nat /\ n % 256 \in Nat
<1>1. n \in Nat /\ n <= 65535
  BY WordIs
<1>2. n = 256 * (n \div 256) + (n % 256)
  BY <1>1
<1>3. n \div 256 \in Nat /\ n % 256 \in Nat /\ n % 256 < 256
  BY <1>1
<1>4. n \div 256 <= 255
  BY <1>1
<1> DEFINE q == n \div 256
           r == n % 256
<1>5. q \in Nat /\ r \in Nat /\ r < 256 /\ q <= 255 /\ n = 256 * q + r
  BY <1>2, <1>3, <1>4
<1> HIDE DEF q, r
<1>6. q * 256 + r = n
  BY ONLY <1>1, <1>5
<1>7. q \in Byte /\ r \in Byte
  <2>1. r <= 255
    BY ONLY <1>5
  <2> QED BY ONLY <1>5, <2>1, ByteIs
<1> QED BY ONLY <1>5, <1>6, <1>7 DEF q, r

LEMMA ThreeBytes ==
  ASSUME NEW n \in Word
  PROVE  /\ n \div 65536 = 0 /\ (n \div 256) % 256 = n \div 256
<1>1. n \in Nat /\ n <= 65535
  BY WordIs
<1>2. n \div 65536 = 0
  BY <1>1
<1> DEFINE q == n \div 256
<1>3. q \in Nat /\ q <= 255
  BY <1>1
<1> HIDE DEF q
<1>4. q % 256 = q
  BY <1>3
<1> QED BY <1>2, <1>4 DEF q

LEMMA U16Is ==
  ASSUME NEW n \in Word
  PROVE  /\ U16(n) \in Seq(Byte) /\ Len(U16(n)) = 2
         /\ U16(n)[1] = n \div 256 /\ U16(n)[2] = n % 256
BY TwoBytes DEF U16

LEMMA U24Is ==
  ASSUME NEW n \in Word
  PROVE  /\ U24(n) \in Seq(Byte) /\ Len(U24(n)) = 3
         /\ U24(n)[1] = 0 /\ U24(n)[2] = n \div 256 /\ U24(n)[3] = n % 256
<1>1. U24(n) = <<0, n \div 256, n % 256>>
  BY ThreeBytes DEF U24
<1>2. 0 \in Byte
  BY DEF Byte
<1> QED BY <1>1, <1>2, TwoBytes

LEMMA U8Is ==
  ASSUME NEW n \in Byte
  PROVE  U8(n) \in Seq(Byte) /\ Len(U8(n)) = 1 /\ U8(n)[1] = n
BY DEF U8

-----------------------------------------------------------------------------
(* The record has s from offset i on.                                      *)
Has(i, s) ==
  /\ i \in Nat /\ s \in Seq(Byte)
  /\ i + Len(s) <= Len(record)
  /\ \A k \in 1..Len(s) : record[i + k] = s[k]

LEMMA HasWhole ==
  ASSUME record \in Seq(Byte)
  PROVE  Has(0, record)
BY DEF Has

(* A record that has two parts has the first, and the second behind it.    *)
LEMMA HasParts ==
  ASSUME record \in Seq(Byte), NEW a \in Seq(Byte), NEW b \in Seq(Byte), NEW i,
         Has(i, a \o b)
  PROVE  Has(i, a) /\ Has(i + Len(a), b)
<1>1. /\ Len(a \o b) = Len(a) + Len(b) /\ Len(a) \in Nat /\ Len(b) \in Nat
      /\ \A k \in 1..Len(a) : k \in 1..Len(a \o b) /\ (a \o b)[k] = a[k]
      /\ \A k \in 1..Len(b) :
           Len(a) + k \in 1..Len(a \o b) /\ (a \o b)[Len(a) + k] = b[k]
  BY Joined
<1>2. /\ i \in Nat /\ i + Len(a \o b) <= Len(record) /\ Len(record) \in Nat
      /\ \A k \in 1..Len(a \o b) : record[i + k] = (a \o b)[k]
  BY DEF Has
<1>3. Has(i, a)
  BY <1>1, <1>2 DEF Has
<1>4. \A k \in 1..Len(b) : record[i + (Len(a) + k)] = b[k]
  BY ONLY <1>1, <1>2
<1>5. \A k \in 1..Len(b) : i + (Len(a) + k) = (i + Len(a)) + k
  BY <1>1, <1>2
<1>6. i + Len(a) \in Nat /\ (i + Len(a)) + Len(b) <= Len(record)
  BY <1>1, <1>2
<1> QED BY <1>3, <1>4, <1>5, <1>6 DEF Has

LEMMA HasAt ==
  ASSUME record \in Seq(Byte), NEW i, NEW s, Has(i, s)
  PROVE  /\ i \in Nat /\ Len(s) \in Nat /\ i + Len(s) <= Len(record)
         /\ \A k \in 1..Len(s) : At(i + k - 1) = s[k]
<1>1. /\ i \in Nat /\ Len(s) \in Nat /\ i + Len(s) <= Len(record) /\ Len(record) \in Nat
      /\ \A k \in 1..Len(s) : record[i + k] = s[k]
  BY DEF Has
<1>2. \A k \in 1..Len(s) : i + k - 1 < Len(record) /\ (i + k - 1) + 1 = i + k
  BY <1>1
<1> QED BY <1>1, <1>2 DEF At

LEMMA HasU8 ==
  ASSUME record \in Seq(Byte), NEW i, NEW n \in Byte, Has(i, U8(n))
  PROVE  i \in Nat /\ At(i) = n
<1>1. i \in Nat /\ At(i + 1 - 1) = n
  <2>1. 1 \in 1..1
    OBVIOUS
  <2> QED BY <2>1, HasAt, U8Is
<1> QED BY <1>1

LEMMA HasU16 ==
  ASSUME record \in Seq(Byte), NEW i, NEW n \in Word, Has(i, U16(n))
  PROVE  i \in Nat /\ U16At(i) = n
<1>1. /\ i \in Nat /\ At(i + 1 - 1) = n \div 256 /\ At(i + 2 - 1) = n % 256
  <2>1. 1 \in 1..2 /\ 2 \in 1..2
    OBVIOUS
  <2> QED BY <2>1, HasAt, U16Is
<1>2. i + 1 - 1 = i /\ i + 2 - 1 = i + 1
  BY <1>1
<1>3. At(i) = n \div 256 /\ At(i + 1) = n % 256
  BY <1>1, <1>2
<1> DEFINE q == n \div 256
           r == n % 256
<1>4. q * 256 + r = n
  BY TwoBytes
<1>5. At(i) = q /\ At(i + 1) = r
  BY <1>3
<1> HIDE DEF q, r
<1>6. U16At(i) = q * 256 + r
  BY <1>5 DEF U16At
<1> QED BY ONLY <1>1, <1>4, <1>6

LEMMA HasU24 ==
  ASSUME record \in Seq(Byte), NEW i, NEW n \in Word, Has(i, U24(n))
  PROVE  i \in Nat /\ U24At(i) = n
<1>1. /\ i \in Nat /\ At(i + 1 - 1) = 0 /\ At(i + 2 - 1) = n \div 256
      /\ At(i + 3 - 1) = n % 256
  <2>1. 1 \in 1..3 /\ 2 \in 1..3 /\ 3 \in 1..3
    OBVIOUS
  <2> QED BY <2>1, HasAt, U24Is
<1>2. i + 1 - 1 = i /\ i + 2 - 1 = i + 1 /\ i + 3 - 1 = i + 2
  BY <1>1
<1>3. (n \div 256) * 256 + (n % 256) = n /\ n \div 256 \in Nat /\ n % 256 \in Nat
  BY TwoBytes
<1>4. At(i) = 0 /\ At(i + 1) = n \div 256 /\ At(i + 2) = n % 256
  BY <1>1, <1>2
<1> DEFINE q == n \div 256
           r == n % 256
<1>5. /\ q * 256 + r = n /\ q \in Nat /\ r \in Nat
      /\ At(i) = 0 /\ At(i + 1) = q /\ At(i + 2) = r
  BY ONLY <1>3, <1>4 DEF q, r
<1> HIDE DEF q, r
<1>6. U24At(i) = 0 * 65536 + q * 256 + r
  BY <1>5 DEF U24At
<1> QED BY <1>1, <1>5, <1>6

LEMMA HasBytes ==
  ASSUME record \in Seq(Byte), NEW i, NEW s, Has(i, s)
  PROVE  BytesAt(i, i + Len(s)) = s
<1>1. /\ i \in Nat /\ Len(s) \in Nat /\ s \in Seq(Byte)
      /\ \A k \in 1..Len(s) : At(i + k - 1) = s[k]
  BY HasAt DEF Has
<1>2. i + Len(s) - i = Len(s)
  BY <1>1
<1>3. s = [k \in 1..Len(s) |-> s[k]]
  BY <1>1
<1> QED BY <1>1, <1>2, <1>3 DEF BytesAt

LEMMA Join16 == \A n \in Word : (n \div 256) * 256 + (n % 256) = n
BY TwoBytes

(* Values of two bytes each, one behind the other.                         *)
LEMMA PairsAre ==
  ASSUME NEW s \in Seq(Word)
  PROVE  /\ Values(s, 2) \in Seq(Byte) /\ Len(Values(s, 2)) = 2 * Len(s)
         /\ Len(s) \in Nat
         /\ \A k \in 1..Len(s) : /\ Values(s, 2)[2 * (k - 1) + 1] = U16(s[k])[1]
                                 /\ Values(s, 2)[2 * (k - 1) + 2] = U16(s[k])[2]
<1> DEFINE ss == [i \in DOMAIN s |-> U16(s[i])]
<1>1. Len(s) \in Nat /\ DOMAIN s = 1..Len(s) /\ \A k \in 1..Len(s) : s[k] \in Word
  OBVIOUS
<1>2. \A k \in 1..Len(s) : U16(s[k]) \in Seq(Byte) /\ Len(U16(s[k])) = 2
  BY <1>1, U16Is
<1>3. /\ ss \in Seq(Seq(Byte)) /\ Len(ss) = Len(s)
      /\ \A k \in 1..Len(s) : ss[k] = U16(s[k])
  BY <1>1, <1>2
<1>4. Values(s, 2) = FlattenSeq(ss)
  BY DEF Values
<1> HIDE DEF ss
<1> DEFINE F == FlattenSeq(ss)
<1>5. F \in Seq(Byte) /\ \E pos : Positions(ss, F, pos)
  BY <1>3, FlattenAny
<1>6. PICK pos : Positions(ss, F, pos)
  BY <1>5
<1> HIDE DEF F
<1>7. /\ pos[0] = 0 /\ pos[Len(s)] = Len(F)
      /\ \A n \in 1..Len(s) :
           /\ pos[n] = pos[n - 1] + 2
           /\ \A k \in 1..2 : F[pos[n - 1] + k] = U16(s[n])[k]
  <2>1. /\ pos[0] = 0 /\ pos[Len(s)] = Len(F)
        /\ \A n \in 1..Len(s) :
             /\ pos[n] = pos[n - 1] + Len(ss[n])
             /\ \A k \in 1..Len(ss[n]) : F[pos[n - 1] + k] = ss[n][k]
    BY <1>3, <1>6 DEF Positions
  <2>2. \A n \in 1..Len(s) : ss[n] = U16(s[n]) /\ Len(ss[n]) = 2
    BY <1>2, <1>3
  <2> QED BY <2>1, <2>2
<1> DEFINE G == {n \in 0..Len(s) : pos[n] = 2 * n}
<1>8. \A n \in 0..Len(s) : n \in G
  <2>1. 0 \in G
    BY <1>1, <1>7
  <2>2. ASSUME NEW n \in 1..Len(s), n - 1 \in G PROVE n \in G
    BY <1>1, <1>7, <2>2
  <2> HIDE DEF G
  <2> QED BY <1>1, <2>1, <2>2, UpTo
<1>9. Len(F) = 2 * Len(s)
  BY <1>1, <1>7, <1>8
<1>10. ASSUME NEW k \in 1..Len(s)
       PROVE  /\ F[2 * (k - 1) + 1] = U16(s[k])[1]
              /\ F[2 * (k - 1) + 2] = U16(s[k])[2]
  <2>1. k - 1 \in 0..Len(s)
    BY <1>1
  <2>2. pos[k - 1] = 2 * (k - 1)
    BY <1>8, <2>1
  <2>3. 1 \in 1..2 /\ 2 \in 1..2
    OBVIOUS
  <2> QED BY <1>7, <2>2, <2>3
<1> QED BY <1>1, <1>4, <1>5, <1>9, <1>10 DEF F

LEMMA HasPairs ==
  ASSUME record \in Seq(Byte), NEW i, NEW s \in Seq(Word), Has(i, Values(s, 2))
  PROVE  s = [k \in 1..Len(s) |-> U16At(i + 2 * (k - 1))]
<1>1. /\ Len(s) \in Nat /\ \A k \in 1..Len(s) : s[k] \in Word
      /\ s = [k \in 1..Len(s) |-> s[k]]
  OBVIOUS
<1>2. ASSUME NEW k \in 1..Len(s) PROVE U16At(i + 2 * (k - 1)) = s[k]
  <2> DEFINE v == Values(s, 2)
             a == 2 * (k - 1) + 1
             b == 2 * (k - 1) + 2
  <2>1. /\ Len(v) = 2 * Len(s)
        /\ v[a] = s[k] \div 256 /\ v[b] = s[k] % 256
    <3>1. s[k] \in Word
      BY <1>1
    <3>2. U16(s[k])[1] = s[k] \div 256 /\ U16(s[k])[2] = s[k] % 256
      BY <3>1, U16Is
    <3>3. Len(v) = 2 * Len(s) /\ v[a] = U16(s[k])[1] /\ v[b] = U16(s[k])[2]
      BY PairsAre
    <3> QED BY ONLY <3>2, <3>3
  <2>2. i \in Nat /\ \A j \in 1..Len(v) : At(i + j - 1) = v[j]
    BY HasAt
  <2> HIDE DEF v
  <2>3. /\ a \in 1..Len(v) /\ b \in 1..Len(v)
        /\ i + a - 1 = i + 2 * (k - 1) /\ i + b - 1 = i + 2 * (k - 1) + 1
    BY <1>1, <2>1, <2>2
  <2> HIDE DEF a, b
  <2>4. At(i + 2 * (k - 1)) = s[k] \div 256 /\ At(i + 2 * (k - 1) + 1) = s[k] % 256
    BY <2>1, <2>2, <2>3
  <2>5. (s[k] \div 256) * 256 + (s[k] % 256) = s[k]
    BY <1>1, Join16
  <2> DEFINE q == s[k] \div 256
             r == s[k] % 256
             n == s[k]
  <2>6. At(i + 2 * (k - 1)) = q /\ At(i + 2 * (k - 1) + 1) = r /\ q * 256 + r = n
    BY <2>4, <2>5
  <2> HIDE DEF q, r, n
  <2>7. U16At(i + 2 * (k - 1)) = n
    BY ONLY <2>6 DEF U16At
  <2> QED BY <2>7 DEF n
<1>3. [k \in 1..Len(s) |-> U16At(i + 2 * (k - 1))] = [k \in 1..Len(s) |-> s[k]]
  BY <1>2
<1> QED BY <1>1, <1>3

-----------------------------------------------------------------------------
(* Vectors *)

(* A vector of bytes is read as it was written.                            *)
LEMMA BytesRead ==
  ASSUME record \in Seq(Byte), NEW i, NEW s \in Seq(Byte), Len(s) * 1 <= 255,
         Has(i, EncodeVector(s, 1, 1)),
         limit \in Nat, i + 1 + Len(s) <= limit
  PROVE  /\ i \in Nat /\ Len(EncodeVector(s, 1, 1)) = 1 + Len(s)
         /\ VectorGood(i, 1, 1) /\ VectorEnd(i, 1) = i + 1 + Len(s)
         /\ VectorAt(i, 1, 1) = s
<1>1. Len(s) \in Nat /\ Len(s) * 1 = Len(s)
  OBVIOUS
<1>2. EncodeVector(s, 1, 1) = U8(Len(s)) \o s
  BY <1>1 DEF EncodeVector, Values
<1>3. Len(s) \in Byte
  BY <1>1, ByteIs
<1>4. /\ U8(Len(s)) \in Seq(Byte) /\ Len(U8(Len(s))) = 1
      /\ Len(U8(Len(s)) \o s) = 1 + Len(s)
  <2>1. U8(Len(s)) \in Seq(Byte) /\ Len(U8(Len(s))) = 1
    BY <1>3, U8Is
  <2> DEFINE a == U8(Len(s))
  <2> HIDE DEF a
  <2>2. Len(a \o s) = Len(a) + Len(s)
    BY <2>1, Joined DEF a
  <2> QED BY <2>1, <2>2 DEF a
<1>5. Has(i, U8(Len(s))) /\ Has(i + 1, s)
  <2> DEFINE a == U8(Len(s))
  <2>1. a \in Seq(Byte) /\ Len(a) = 1 /\ Has(i, a \o s)
    BY <1>2, <1>4
  <2> HIDE DEF a
  <2>2. Has(i, a) /\ Has(i + Len(a), s)
    BY <2>1, HasParts
  <2> QED BY <2>1, <2>2 DEF a
<1>6. i \in Nat /\ At(i) = Len(s)
  BY <1>3, <1>5, HasU8
<1>7. BytesAt(i + 1, i + 1 + Len(s)) = s
  BY <1>5, HasBytes
<1>8. CountAt(i, 1) = Len(s)
  BY <1>6 DEF CountAt
<1>9. VectorEnd(i, 1) = i + 1 + Len(s)
  BY <1>8 DEF VectorEnd
<1>10. Len(s) % 1 = 0
  BY <1>1
<1>11. i + 1 <= limit
  <2> DEFINE l == limit
  <2>1. i + 1 + Len(s) <= l /\ l \in Nat
    OBVIOUS
  <2> HIDE DEF l
  <2>2. i + 1 <= l
    BY <1>1, <1>6, <2>1
  <2> QED BY <2>2 DEF l
<1>12. VectorGood(i, 1, 1)
  BY <1>8, <1>9, <1>10, <1>11 DEF VectorGood
<1>13. VectorAt(i, 1, 1) = s
  BY <1>7, <1>9 DEF VectorAt
<1> QED BY <1>2, <1>4, <1>6, <1>9, <1>12, <1>13

(* A vector of values of two bytes is, behind a length of lw bytes.        *)
LEMMA WordsRead ==
  ASSUME record \in Seq(Byte), NEW i, NEW s \in Seq(Word), NEW lw \in {1, 2},
         VectorFits(s, lw, 2), Has(i, EncodeVector(s, lw, 2)),
         limit \in Nat, i + lw + 2 * Len(s) <= limit
  PROVE  /\ i \in Nat /\ Len(EncodeVector(s, lw, 2)) = lw + 2 * Len(s)
         /\ VectorGood(i, lw, 2) /\ VectorEnd(i, lw) = i + lw + 2 * Len(s)
         /\ VectorAt(i, lw, 2) = s
<1> DEFINE size == 2 * Len(s)
           head == IF lw = 1 THEN U8(size) ELSE U16(size)
           v == Values(s, 2)
<1>1. Len(s) \in Nat /\ Len(s) * 2 = size
  OBVIOUS
<1>2. v \in Seq(Byte) /\ Len(v) = size
  BY PairsAre
<1>3. EncodeVector(s, lw, 2) = head \o v
  BY <1>1 DEF EncodeVector
<1>4. size \in Nat /\ (lw = 1 => size <= 255) /\ (lw = 2 => size <= 65535)
  BY <1>1 DEF VectorFits
<1>5. size \div 2 = Len(s) /\ size % 2 = 0
  <2>1. \A n \in Nat : (2 * n) \div 2 = n /\ (2 * n) % 2 = 0
    OBVIOUS
  <2> QED BY <1>1, <2>1
<1> HIDE DEF size
<1>6. lw = 1 => size \in Byte
  BY <1>4, ByteIs
<1>7. lw = 2 => size \in Word
  BY <1>4, WordMade
<1>8. head \in Seq(Byte) /\ Len(head) = lw
  <2>1. CASE lw = 1
    BY <1>6, <2>1, U8Is
  <2>2. CASE lw = 2
    BY <1>7, <2>2, U16Is
  <2> QED BY <2>1, <2>2
<1> HIDE DEF v
<1>9. Has(i, head) /\ Has(i + lw, v)
  <2> HIDE DEF head
  <2>1. Has(i, head \o v)
    BY <1>3
  <2>2. Has(i, head) /\ Has(i + Len(head), v)
    BY <1>2, <1>8, <2>1, HasParts
  <2> QED BY <1>8, <2>2
<1>10. i \in Nat /\ CountAt(i, lw) = size
  <2>1. CASE lw = 1
    BY <1>6, <1>9, <2>1, HasU8 DEF CountAt
  <2>2. CASE lw = 2
    BY <1>7, <1>9, <2>2, HasU16 DEF CountAt
  <2> QED BY <2>1, <2>2
<1> HIDE DEF head
<1>11. VectorEnd(i, lw) = i + lw + size
  BY <1>10 DEF VectorEnd
<1>12. VectorEnd(i, lw) <= limit
  BY <1>11 DEF size
<1>13. i + lw <= limit
  <2> DEFINE l == limit
  <2>1. i + lw + size <= l /\ l \in Nat
    BY DEF size
  <2> HIDE DEF l
  <2>2. i + lw <= l
    BY <1>4, <1>10, <2>1
  <2> QED BY <2>2 DEF l
<1>14. VectorGood(i, lw, 2)
  BY <1>5, <1>10, <1>12, <1>13 DEF VectorGood
<1>15. VectorAt(i, lw, 2) = s
  <2>1. s = [k \in 1..Len(s) |-> U16At(i + lw + 2 * (k - 1))]
    BY <1>9, HasPairs DEF v
  <2> QED BY <1>5, <1>10, <2>1 DEF VectorAt
<1>16. Len(EncodeVector(s, lw, 2)) = lw + size
  BY <1>2, <1>3, <1>8, Joined
<1> QED BY <1>10, <1>11, <1>14, <1>15, <1>16 DEF size

(* What the encoder writes is bytes.                                       *)
LEMMA AnyLength ==
  ASSUME NEW n \in Nat
  PROVE  U16(n) \in Seq(Nat) /\ Len(U16(n)) = 2
<1>1. n \div 256 \in Nat /\ n % 256 \in Nat
  OBVIOUS
<1> QED BY <1>1 DEF U16

LEMMA Join ==
  ASSUME NEW S, NEW a \in Seq(S), NEW b \in Seq(S)
  PROVE  /\ a \o b \in Seq(S) /\ Len(a \o b) = Len(a) + Len(b)
         /\ Len(a) \in Nat /\ Len(b) \in Nat
OBVIOUS

LEMMA JoinBytes ==
  \A a, b \in Seq(Byte) : /\ a \o b \in Seq(Byte) /\ Len(a \o b) = Len(a) + Len(b)
                          /\ Len(a) \in Nat /\ Len(b) \in Nat
BY Join

LEMMA JoinNats ==
  \A a, b \in Seq(Nat) : /\ a \o b \in Seq(Nat) /\ Len(a \o b) = Len(a) + Len(b)
                         /\ Len(a) \in Nat /\ Len(b) \in Nat
BY Join

LEMMA BytesAreNats ==
  ASSUME NEW s \in Seq(Byte)
  PROVE  s \in Seq(Nat) /\ Len(s) \in Nat
<1>1. s = [k \in 1..Len(s) |-> s[k]] /\ Len(s) \in Nat
  OBVIOUS
<1>2. \A k \in 1..Len(s) : s[k] \in Nat
  <2>1. \A x \in Byte : x \in Nat
    BY DEF Byte
  <2>2. \A k \in 1..Len(s) : s[k] \in Byte
    OBVIOUS
  <2> QED BY <2>1, <2>2
<1>3. [k \in 1..Len(s) |-> s[k]] \in Seq(Nat)
  BY <1>1, <1>2
<1> QED BY <1>1, <1>3

LEMMA BytesVector ==
  ASSUME NEW s \in Seq(Byte), VectorFits(s, 1, 1)
  PROVE  /\ EncodeVector(s, 1, 1) \in Seq(Byte)
         /\ Len(EncodeVector(s, 1, 1)) = 1 + Len(s)
         /\ Len(s) * 1 <= 255 /\ Len(s) \in Nat
<1>1. Len(s) \in Nat /\ Len(s) * 1 = Len(s) /\ Len(s) <= 255
  BY DEF VectorFits
<1> DEFINE a == U8(Len(s))
<1>2. EncodeVector(s, 1, 1) = a \o s
  BY <1>1 DEF EncodeVector, Values
<1>3. a \in Seq(Byte) /\ Len(a) = 1
  <2>1. Len(s) \in Byte
    BY <1>1, ByteIs
  <2> QED BY <2>1, U8Is
<1> HIDE DEF a
<1>4. a \o s \in Seq(Byte) /\ Len(a \o s) = 1 + Len(s)
  BY <1>3, JoinBytes
<1> QED BY <1>1, <1>2, <1>4

LEMMA WordsVector ==
  ASSUME NEW s \in Seq(Word), NEW lw \in {1, 2}, VectorFits(s, lw, 2)
  PROVE  /\ EncodeVector(s, lw, 2) \in Seq(Byte)
         /\ Len(EncodeVector(s, lw, 2)) = lw + 2 * Len(s)
<1> DEFINE size == 2 * Len(s)
           head == IF lw = 1 THEN U8(size) ELSE U16(size)
           v == Values(s, 2)
<1>1. Len(s) \in Nat /\ Len(s) * 2 = size
  OBVIOUS
<1>2. v \in Seq(Byte) /\ Len(v) = size
  BY PairsAre
<1>3. EncodeVector(s, lw, 2) = head \o v
  BY <1>1 DEF EncodeVector
<1>4. size \in Nat /\ (lw = 1 => size <= 255) /\ (lw = 2 => size <= 65535)
  BY <1>1 DEF VectorFits
<1> HIDE DEF size
<1>5. head \in Seq(Byte) /\ Len(head) = lw
  <2>1. CASE lw = 1
    BY <1>4, <2>1, ByteIs, U8Is
  <2>2. CASE lw = 2
    BY <1>4, <2>2, WordMade, U16Is
  <2> QED BY <2>1, <2>2
<1> HIDE DEF head, v
<1>6. head \o v \in Seq(Byte) /\ Len(head \o v) = lw + size
  BY <1>2, <1>5, JoinBytes
<1> QED BY <1>3, <1>6 DEF size

(* What is refused by SAFE_SET_INT bounds the lengths that are written     *)
(* inside of it too.                                                       *)
LEMMA NameIs ==
  ASSUME NEW s \in Seq(Byte), Len(EncodeServerName(s)) <= 65535
  PROVE  /\ Len(s) \in Nat /\ ServerNameHeader + Len(s) \in Word /\ Len(s) \in Word
         /\ EncodeServerName(s) \in Seq(Byte)
         /\ Len(EncodeServerName(s)) = 5 + Len(s)
<1> DEFINE a == U16(ServerNameHeader + Len(s))
           b == U8(host_name)
           c == U16(Len(s))
<1>1. EncodeServerName(s) = ((a \o b) \o c) \o s
  BY DEF EncodeServerName
<1>2. Len(s) \in Nat /\ ServerNameHeader + Len(s) \in Nat /\ s \in Seq(Nat)
  BY BytesAreNats DEF ServerNameHeader
<1>3. 0 \in Byte /\ 0 \in Nat
  BY DEF Byte
<1>4. b \in Seq(Byte) /\ b \in Seq(Nat) /\ Len(b) = 1
  BY <1>3, U8Is, BytesAreNats DEF host_name
<1>5. a \in Seq(Nat) /\ Len(a) = 2 /\ c \in Seq(Nat) /\ Len(c) = 2
  BY <1>2, AnyLength
<1>6. ServerNameHeader = 3
  BY DEF ServerNameHeader
<1> DEFINE n == Len(s)
<1> HIDE DEF a, b, c
<1>7. Len(((a \o b) \o c) \o s) = 5 + Len(s)
  <2>1. a \o b \in Seq(Nat) /\ Len(a \o b) = Len(a) + Len(b)
    <3>1. a \in Seq(Nat) /\ b \in Seq(Nat)
      BY <1>4, <1>5
    <3> QED BY ONLY <3>1, JoinNats
  <2>2. (a \o b) \o c \in Seq(Nat) /\ Len((a \o b) \o c) = Len(a \o b) + Len(c)
    BY <1>5, <2>1, JoinNats
  <2>3. Len(((a \o b) \o c) \o s) = Len((a \o b) \o c) + Len(s)
    BY <1>2, <2>2, JoinNats
  <2> QED BY ONLY <1>2, <1>4, <1>5, <2>1, <2>2, <2>3
<1>8. Len(s) <= 65535 /\ ServerNameHeader + Len(s) <= 65535
  BY <1>1, <1>2, <1>6, <1>7
<1>9. ServerNameHeader + Len(s) \in Word /\ Len(s) \in Word
  BY <1>2, <1>8, WordMade
<1>10. a \in Seq(Byte) /\ c \in Seq(Byte)
  BY <1>9, U16Is DEF a, c
<1>11. ((a \o b) \o c) \o s \in Seq(Byte)
  <2>1. a \o b \in Seq(Byte)
    BY <1>4, <1>10, JoinBytes
  <2>2. (a \o b) \o c \in Seq(Byte)
    BY <1>10, <2>1, JoinBytes
  <2> QED BY <2>2, JoinBytes
<1> QED BY <1>1, <1>2, <1>7, <1>9, <1>11

LEMMA GroupsFit ==
  ASSUME NEW s \in Seq(Word), Len(EncodeVector(s, 2, 2)) <= 65535
  PROVE  VectorFits(s, 2, 2)
<1> DEFINE v == Values(s, 2)
           a == U16(Len(s) * 2)
<1>1. EncodeVector(s, 2, 2) = a \o v
  BY DEF EncodeVector
<1>2. v \in Seq(Byte) /\ Len(v) = 2 * Len(s) /\ Len(s) \in Nat
  BY PairsAre
<1>3. a \in Seq(Nat) /\ Len(a) = 2
  <2>1. Len(s) * 2 \in Nat
    BY <1>2
  <2> QED BY <2>1, AnyLength
<1> HIDE DEF a, v
<1>4. a \in Seq(Nat) /\ v \in Seq(Nat)
  BY <1>2, <1>3, BytesAreNats
<1>5. Len(a \o v) = Len(a) + Len(v)
  BY ONLY <1>4, JoinNats
<1>6. Len(s) * 2 <= 65535
  BY <1>1, <1>2, <1>3, <1>5
<1> QED BY <1>6 DEF VectorFits

(* The content of an extension, and the extension with its header.         *)
LEMMA ContentIs ==
  ASSUME NEW e, IsExtension(e), ContentEncodable(e)
  PROVE  /\ EncodeContent(e) \in Seq(Byte)
         /\ Len(EncodeContent(e)) \in Word /\ Len(EncodeContent(e)) \in Nat
         /\ e.type \in Word
         /\ EncodeExtension(e) \in Seq(Byte)
         /\ Len(EncodeExtension(e)) = 4 + Len(EncodeContent(e))
<1> DEFINE c == EncodeContent(e)
<1>1. /\ e.type \in Word /\ e.content \in Seq(Word)
      /\ e.type \notin {supported_groups, supported_versions} =>
           e.content \in Seq(Byte)
  BY DEF IsExtension
<1>2. /\ Len(c) <= 65535
      /\ e.type = supported_versions =>
           e.content # <<>> /\ VectorFits(e.content, 1, 2)
  BY DEF ContentEncodable
<1>3. ASSUME e.type = server_name PROVE c \in Seq(Byte)
  <2>1. c = EncodeServerName(e.content) /\ e.content \in Seq(Byte)
    BY <1>1, <1>3 DEF EncodeContent, server_name, supported_groups, supported_versions
  <2> DEFINE s == e.content
  <2>2. s \in Seq(Byte) /\ Len(EncodeServerName(s)) <= 65535
    BY <1>2, <2>1
  <2> HIDE DEF s
  <2>3. EncodeServerName(s) \in Seq(Byte)
    BY <2>2, NameIs
  <2> QED BY <2>1, <2>3 DEF s
<1>4. ASSUME e.type = supported_groups PROVE c \in Seq(Byte)
  <2>1. c = EncodeVector(e.content, 2, 2)
    BY <1>4 DEF EncodeContent, server_name, supported_groups, supported_versions
  <2>2. VectorFits(e.content, 2, 2)
    BY <1>1, <1>2, <2>1, GroupsFit
  <2> DEFINE s == e.content
  <2>3. s \in Seq(Word) /\ VectorFits(s, 2, 2)
    BY <1>1, <2>2
  <2> HIDE DEF s
  <2>4. EncodeVector(s, 2, 2) \in Seq(Byte)
    BY <2>3, WordsVector
  <2> QED BY <2>1, <2>4 DEF s
<1>5. ASSUME e.type = supported_versions PROVE c \in Seq(Byte)
  <2>1. c = EncodeVersions(e.content) /\ e.content # <<>>
    BY <1>2, <1>5
       DEF EncodeContent, server_name, supported_groups, supported_versions
  <2>2. CASE Len(e.content) = 1
    <3>1. e.content[1] \in Word
      BY <1>1, <2>2
    <3> DEFINE n == e.content[1]
    <3>2. c = U16(n)
      BY <2>1, <2>2 DEF EncodeVersions
    <3> HIDE DEF n
    <3> QED BY <3>1, <3>2, U16Is DEF n
  <2>3. CASE Len(e.content) # 1
    <3> DEFINE s == e.content
    <3>1. c = EncodeVector(s, 1, 2) /\ s \in Seq(Word) /\ VectorFits(s, 1, 2)
      BY <1>1, <1>2, <1>5, <2>1, <2>3 DEF EncodeVersions
    <3> HIDE DEF s
    <3>2. EncodeVector(s, 1, 2) \in Seq(Byte)
      BY <3>1, WordsVector
    <3> QED BY <3>1, <3>2
  <2> QED BY <2>2, <2>3
<1>6. ASSUME e.type \notin {server_name, supported_groups, supported_versions}
      PROVE  c \in Seq(Byte)
  <2>1. c = e.content
    BY <1>6 DEF EncodeContent, server_name, supported_groups, supported_versions
  <2>2. e.content \in Seq(Byte)
    BY <1>1, <1>6
  <2> QED BY <2>1, <2>2
<1>7. c \in Seq(Byte)
  BY <1>3, <1>4, <1>5, <1>6
<1> HIDE DEF c
<1>8. Len(c) \in Nat /\ Len(c) \in Word
  BY <1>2, <1>7, WordMade
<1> DEFINE a == U16(e.type)
           b == U16(Len(c))
<1>9. a \in Seq(Byte) /\ Len(a) = 2 /\ b \in Seq(Byte) /\ Len(b) = 2
  BY <1>1, <1>8, U16Is
<1>10. EncodeExtension(e) = (a \o b) \o c
  BY DEF EncodeExtension, c
<1> HIDE DEF a, b
<1>11. a \o b \in Seq(Byte) /\ Len(a \o b) = Len(a) + Len(b)
  BY <1>9, JoinBytes
<1>12. (a \o b) \o c \in Seq(Byte) /\ Len((a \o b) \o c) = 4 + Len(c)
  BY <1>7, <1>9, <1>11, JoinBytes
<1> QED BY <1>1, <1>7, <1>8, <1>10, <1>12 DEF c

(* An extension that was encoded at a has its type, its length and its     *)
(* content where the decoder looks for them.                               *)
LEMMA ExtensionParts ==
  ASSUME record \in Seq(Byte), NEW a, NEW e, IsExtension(e), ContentEncodable(e),
         Has(a, EncodeExtension(e))
  PROVE  /\ a \in Nat /\ U16At(a) = e.type
         /\ U16At(a + 2) = Len(EncodeContent(e))
         /\ Has(a + 4, EncodeContent(e))
<1> DEFINE c == EncodeContent(e)
           s == U16(e.type)
           t == U16(Len(c))
<1>1. c \in Seq(Byte) /\ Len(c) \in Word /\ e.type \in Word
  BY ContentIs
<1>2. s \in Seq(Byte) /\ Len(s) = 2 /\ t \in Seq(Byte) /\ Len(t) = 2
  BY <1>1, U16Is
<1>3. Has(a, (s \o t) \o c)
  BY DEF EncodeExtension
<1> HIDE DEF s, t, c
<1>4. s \o t \in Seq(Byte) /\ Len(s \o t) = Len(s) + Len(t)
  BY <1>2, JoinBytes
<1>5. Has(a, s \o t) /\ Has(a + Len(s \o t), c)
  BY <1>1, <1>3, <1>4, HasParts
<1>6. Has(a, s) /\ Has(a + 2, t)
  BY <1>2, <1>5, HasParts
<1>7. Len(s \o t) = 4
  BY <1>2, <1>4
<1>8. a \in Nat /\ U16At(a) = e.type /\ U16At(a + 2) = Len(c)
  BY <1>1, <1>6, HasU16 DEF s, t
<1> QED BY <1>5, <1>7, <1>8 DEF c

LEMMA NameParts ==
  ASSUME record \in Seq(Byte), NEW a, NEW s \in Seq(Byte),
         Len(EncodeServerName(s)) <= 65535, Has(a, EncodeServerName(s))
  PROVE  /\ a \in Nat /\ At(a + 2) = host_name
         /\ U16At(a + 3) = Len(s)
         /\ BytesAt(a + 5, a + 5 + Len(s)) = s
<1> DEFINE p == U16(ServerNameHeader + Len(s))
           q == U8(host_name)
           r == U16(Len(s))
<1>1. ServerNameHeader + Len(s) \in Word /\ Len(s) \in Word /\ Len(s) \in Nat
  BY NameIs
<1>2. p \in Seq(Byte) /\ Len(p) = 2 /\ r \in Seq(Byte) /\ Len(r) = 2
  BY <1>1, U16Is
<1>3. host_name \in Byte
  BY DEF Byte, host_name
<1>4. q \in Seq(Byte) /\ Len(q) = 1
  BY <1>3, U8Is
<1>5. Has(a, ((p \o q) \o r) \o s)
  BY DEF EncodeServerName
<1> HIDE DEF p, q, r
<1>6. /\ p \in Seq(Byte) /\ q \in Seq(Byte) /\ r \in Seq(Byte) /\ s \in Seq(Byte)
      /\ record \in Seq(Byte)
  BY <1>2, <1>4
<1>7. /\ p \o q \in Seq(Byte) /\ Len(p \o q) = Len(p) + Len(q)
      /\ (p \o q) \o r \in Seq(Byte)
      /\ Len((p \o q) \o r) = Len(p \o q) + Len(r)
  BY ONLY <1>6, JoinBytes
<1>8. Has(a, (p \o q) \o r) /\ Has(a + Len((p \o q) \o r), s)
  BY ONLY <1>5, <1>6, <1>7, HasParts
<1>9. Has(a, p \o q) /\ Has(a + Len(p \o q), r)
  BY ONLY <1>6, <1>7, <1>8, HasParts
<1>10. Has(a, p) /\ Has(a + Len(p), q)
  BY ONLY <1>6, <1>9, HasParts
<1>11. Len(p \o q) = 3 /\ Len((p \o q) \o r) = 5
  BY <1>2, <1>4, <1>7
<1>12. a \in Nat
  BY <1>10 DEF Has
<1>13. At(a + 2) = host_name
  BY <1>2, <1>3, <1>10, HasU8 DEF q
<1>14. U16At(a + 3) = Len(s)
  BY <1>1, <1>9, <1>11, HasU16 DEF r
<1>15. BytesAt(a + 5, a + 5 + Len(s)) = s
  BY <1>8, <1>11, HasBytes
<1> QED BY <1>12, <1>13, <1>14, <1>15

(* Whatever the extension, decoding it gives what was encoded and goes on  *)
(* behind it.                                                              *)
LEMMA ExtensionDecoded ==
  ASSUME record \in Seq(Byte), NEW e, IsExtension(e), ContentEncodable(e),
         Has(offset, EncodeExtension(e)),
         NEW end, end = offset + Len(EncodeExtension(e)),
         limit \in Nat, eend \in Nat, end <= eend, eend <= limit,
         DecodeExtension
  PROVE  NextExtension(With(e.type, e.content), end)
<1> DEFINE c == EncodeContent(e)
           body == offset + ExtensionHeader
<1>1. /\ offset \in Nat /\ U16At(offset) = e.type /\ U16At(offset + 2) = Len(c)
      /\ Has(offset + 4, c)
  BY ExtensionParts
<1>2. c \in Seq(Byte) /\ Len(c) \in Nat /\ Len(EncodeExtension(e)) = 4 + Len(c)
  BY ContentIs
<1>3. /\ e.type \in Word /\ e.content \in Seq(Word)
      /\ e.type \notin {supported_groups, supported_versions} =>
           e.content \in Seq(Byte)
  BY DEF IsExtension
<1>4. body = offset + 4 /\ end = body + Len(c) /\ body \in Nat /\ end \in Nat
      /\ body <= end
  BY <1>1, <1>2 DEF ExtensionHeader
<1>5. /\ ~(eend < body) /\ ~(eend < end)
  BY <1>4
<1>6. (CASE e.type = server_name        -> DecodeServerName(body, end)
         [] e.type = supported_groups   -> DecodeList(e.type, 2, body, end)
         [] e.type = supported_versions -> DecodeVersions(body, end)
         [] OTHER -> NextExtension(With(e.type, BytesAt(body, end)), end))
  BY <1>1, <1>4, <1>5 DEF DecodeExtension
<1>7. Has(body, c)
  BY <1>1, <1>4
<1> HIDE DEF c, body
<1>8. CASE e.type = server_name
  <2> DEFINE s == e.content
             name == body + 2 + ServerNameHeader
  <2>1. c = EncodeServerName(s) /\ s \in Seq(Byte) /\ s # <<>>
        /\ Len(c) <= 65535
    BY <1>3, <1>8 DEF c, EncodeContent, ContentEncodable, server_name,
       supported_groups, supported_versions
  <2>2. DecodeServerName(body, end)
    BY <1>6, <1>8 DEF server_name, supported_groups, supported_versions
  <2> HIDE DEF s
  <2>3. /\ At(body + 2) = host_name /\ U16At(body + 3) = Len(s)
        /\ BytesAt(body + 5, body + 5 + Len(s)) = s
    BY <1>7, <2>1, NameParts
  <2>4. Len(c) = 5 + Len(s) /\ Len(s) \in Nat /\ Len(s) # 0
    BY <2>1, NameIs
  <2>5. name = body + 5 /\ end = name + Len(s)
    BY <1>4, <2>4 DEF ServerNameHeader
  <2>6. body # end /\ ~(end < body + ServerNameHeader)
    BY <1>4, <2>4 DEF ServerNameHeader
  <2>7. BytesAt(name, end) = s
    BY <2>3, <2>5
  <2>8. ~(end # name + U16At(body + 3) \/ At(body + 2) # host_name)
    BY <2>3, <2>5
  <2> HIDE DEF name
  <2>9. NextExtension(With(server_name, s), end)
    BY <2>2, <2>6, <2>7, <2>8 DEF DecodeServerName, name
  <2> QED BY <1>8, <2>9 DEF s
<1>9. CASE e.type = supported_groups
  <2> DEFINE s == e.content
  <2>1. c = EncodeVector(s, 2, 2) /\ s \in Seq(Word) /\ VectorFits(s, 2, 2)
    <3>1. c = EncodeVector(s, 2, 2) /\ s \in Seq(Word) /\ Len(c) <= 65535
      BY <1>3, <1>9 DEF c, EncodeContent, ContentEncodable, server_name,
         supported_groups, supported_versions
    <3> HIDE DEF s, c
    <3> QED BY <3>1, GroupsFit
  <2>2. DecodeList(supported_groups, 2, body, end)
    BY <1>6, <1>9 DEF server_name, supported_groups, supported_versions
  <2> HIDE DEF s
  <2>3. Len(c) = 2 + 2 * Len(s)
    BY <2>1, WordsVector
  <2>4. Len(s) \in Nat /\ body + 2 + 2 * Len(s) = end /\ end <= limit
    BY <1>4, <2>1, <2>3
  <2>5. VectorGood(body, 2, 2) /\ VectorEnd(body, 2) = end /\ VectorAt(body, 2, 2) = s
    BY <1>7, <2>1, <2>4, WordsRead
  <2>6. NextExtension(With(supported_groups, s), end)
    BY <2>2, <2>5 DEF DecodeList
  <2> QED BY <1>9, <2>6 DEF s
<1>10. CASE e.type = supported_versions
  <2> DEFINE s == e.content
  <2>1. c = EncodeVersions(s) /\ s \in Seq(Word) /\ VectorFits(s, 1, 2) /\ s # <<>>
    BY <1>3, <1>10 DEF c, EncodeContent, ContentEncodable, server_name,
       supported_groups, supported_versions
  <2>2. DecodeVersions(body, end)
    BY <1>6, <1>10 DEF server_name, supported_groups, supported_versions
  <2> HIDE DEF s
  <2>3. Len(s) \in Nat /\ Len(s) # 0
    BY <2>1
  <2>4. CASE Len(s) = 1
    <3>1. s[1] \in Word /\ s = <<s[1]>>
      BY <2>1, <2>4
    <3> DEFINE n == s[1]
    <3>2. c = U16(n)
      BY <2>1, <2>4 DEF EncodeVersions
    <3>3. n \in Word /\ s = <<n>>
      BY <3>1
    <3> HIDE DEF n
    <3>4. Len(c) = 2 /\ U16At(body) = n
      BY <1>7, <3>2, <3>3, U16Is, HasU16
    <3>5. end = body + 2 /\ ~(end < body + 2)
      BY <1>4, <3>4
    <3>6. NextExtension(With(supported_versions, <<n>>), end)
      BY <2>2, <3>4, <3>5 DEF DecodeVersions
    <3> QED BY <1>10, <3>3, <3>6 DEF s
  <2>5. CASE Len(s) # 1
    <3>1. c = EncodeVector(s, 1, 2)
      BY <2>1, <2>5 DEF EncodeVersions
    <3>2. Len(c) = 1 + 2 * Len(s)
      BY <2>1, <3>1, WordsVector
    <3>3. body + 1 + 2 * Len(s) = end /\ end <= limit
      BY <1>4, <2>3, <3>2
    <3> DEFINE n == Len(s)
    <3>0. n \in Nat /\ n # 0 /\ n # 1 /\ body \in Nat /\ body + 1 + 2 * n = end
      BY <1>4, <2>3, <2>5, <3>3
    <3> HIDE DEF n
    <3>4. ~(end < body + 2) /\ end # body + 2
      BY ONLY <3>0
    <3>5. VectorGood(body, 1, 2) /\ VectorEnd(body, 1) = end /\ VectorAt(body, 1, 2) = s
      BY <1>7, <2>1, <3>1, <3>3, WordsRead
    <3>6. NextExtension(With(supported_versions, s), end)
      BY <2>2, <3>4, <3>5 DEF DecodeVersions, DecodeList
    <3> QED BY <1>10, <3>6 DEF s
  <2> QED BY <2>4, <2>5
<1>11. CASE e.type \notin {server_name, supported_groups, supported_versions}
  <2>1. c = e.content
    BY <1>11 DEF c, EncodeContent, server_name, supported_groups, supported_versions
  <2>2. BytesAt(body, end) = c
    BY <1>4, <1>7, HasBytes
  <2>3. NextExtension(With(e.type, BytesAt(body, end)), end)
    BY <1>6, <1>11 DEF server_name, supported_groups, supported_versions
  <2> QED BY <2>1, <2>2, <2>3
<1> QED BY <1>8, <1>9, <1>10, <1>11

(* Six parts, one behind the other.                                        *)
Six(a, b, c, d, e, f) == ((((a \o b) \o c) \o d) \o e) \o f

LEMMA SixJoined ==
  ASSUME NEW a \in Seq(Byte), NEW b \in Seq(Byte), NEW c \in Seq(Byte),
         NEW d \in Seq(Byte), NEW e \in Seq(Byte), NEW f \in Seq(Byte)
  PROVE  /\ Six(a, b, c, d, e, f) \in Seq(Byte)
         /\ Len(Six(a, b, c, d, e, f)) =
              Len(a) + Len(b) + Len(c) + Len(d) + Len(e) + Len(f)
<1>1. a \o b \in Seq(Byte) /\ Len(a \o b) = Len(a) + Len(b)
  BY JoinBytes
<1> DEFINE ab == a \o b
<1>2. ab \in Seq(Byte) /\ Len(ab) = Len(a) + Len(b)
  BY <1>1
<1> HIDE DEF ab
<1>3. ab \o c \in Seq(Byte) /\ Len(ab \o c) = Len(a) + Len(b) + Len(c)
  BY <1>2, JoinBytes
<1> DEFINE abc == ab \o c
<1>4. abc \in Seq(Byte) /\ Len(abc) = Len(a) + Len(b) + Len(c)
  BY <1>3
<1> HIDE DEF abc
<1>5. abc \o d \in Seq(Byte) /\ Len(abc \o d) = Len(a) + Len(b) + Len(c) + Len(d)
  BY <1>4, JoinBytes
<1> DEFINE abcd == abc \o d
<1>6. abcd \in Seq(Byte) /\ Len(abcd) = Len(a) + Len(b) + Len(c) + Len(d)
  BY <1>5
<1> HIDE DEF abcd
<1>7. abcd \o e \in Seq(Byte)
      /\ Len(abcd \o e) = Len(a) + Len(b) + Len(c) + Len(d) + Len(e)
  BY <1>6, JoinBytes
<1> DEFINE abcde == abcd \o e
<1>8. abcde \in Seq(Byte)
      /\ Len(abcde) = Len(a) + Len(b) + Len(c) + Len(d) + Len(e)
  BY <1>7
<1> HIDE DEF abcde
<1>9. abcde \o f \in Seq(Byte)
      /\ Len(abcde \o f) = Len(a) + Len(b) + Len(c) + Len(d) + Len(e) + Len(f)
  BY <1>8, JoinBytes
<1> QED BY <1>9 DEF Six, abcde, abcd, abc, ab

SixHeld(i, a, b, c, d, e, f) ==
  /\ i \in Nat
  /\ Has(i, a)
  /\ Has(i + Len(a), b)
  /\ Has(i + Len(a) + Len(b), c)
  /\ Has(i + Len(a) + Len(b) + Len(c), d)
  /\ Has(i + Len(a) + Len(b) + Len(c) + Len(d), e)
  /\ Has(i + Len(a) + Len(b) + Len(c) + Len(d) + Len(e), f)

LEMMA HasSix ==
  ASSUME record \in Seq(Byte),
         NEW a \in Seq(Byte), NEW b \in Seq(Byte), NEW c \in Seq(Byte),
         NEW d \in Seq(Byte), NEW e \in Seq(Byte), NEW f \in Seq(Byte),
         NEW i, Has(i, Six(a, b, c, d, e, f))
  PROVE  SixHeld(i, a, b, c, d, e, f)
<1> DEFINE ab == a \o b
           abc == ab \o c
           abcd == abc \o d
           abcde == abcd \o e
<1>1. Has(i, abcde \o f) /\ i \in Nat
  BY DEF Six, Has
<1>0. /\ record \in Seq(Byte) /\ a \in Seq(Byte) /\ b \in Seq(Byte)
      /\ c \in Seq(Byte) /\ d \in Seq(Byte) /\ e \in Seq(Byte) /\ f \in Seq(Byte)
      /\ Len(a) \in Nat /\ Len(b) \in Nat /\ Len(c) \in Nat /\ Len(d) \in Nat
      /\ Len(e) \in Nat
  OBVIOUS
<1>2. ab \in Seq(Byte) /\ Len(ab) = Len(a) + Len(b)
  BY ONLY <1>0, JoinBytes DEF ab
<1> HIDE DEF ab
<1>3. abc \in Seq(Byte) /\ Len(abc) = Len(ab) + Len(c)
  BY ONLY <1>0, <1>2, JoinBytes DEF abc
<1> HIDE DEF abc
<1>4. abcd \in Seq(Byte) /\ Len(abcd) = Len(abc) + Len(d)
  BY ONLY <1>0, <1>3, JoinBytes DEF abcd
<1> HIDE DEF abcd
<1>5. abcde \in Seq(Byte) /\ Len(abcde) = Len(abcd) + Len(e)
  BY ONLY <1>0, <1>4, JoinBytes DEF abcde
<1> HIDE DEF abcde
<1>6. Has(i, abcde) /\ Has(i + Len(abcde), f)
  BY ONLY <1>0, <1>1, <1>5, HasParts
<1>7. Has(i, abcd) /\ Has(i + Len(abcd), e)
  BY ONLY <1>0, <1>4, <1>6, HasParts DEF abcde
<1>8. Has(i, abc) /\ Has(i + Len(abc), d)
  BY ONLY <1>0, <1>3, <1>7, HasParts DEF abcd
<1>9. Has(i, ab) /\ Has(i + Len(ab), c)
  BY ONLY <1>0, <1>2, <1>8, HasParts DEF abc
<1>10. Has(i, a) /\ Has(i + Len(a), b)
  BY ONLY <1>0, <1>9, HasParts DEF ab
<1>11. /\ i + Len(ab) = i + Len(a) + Len(b)
       /\ i + Len(abc) = i + Len(a) + Len(b) + Len(c)
       /\ i + Len(abcd) = i + Len(a) + Len(b) + Len(c) + Len(d)
       /\ i + Len(abcde) = i + Len(a) + Len(b) + Len(c) + Len(d) + Len(e)
  BY ONLY <1>0, <1>1, <1>2, <1>3, <1>4, <1>5
<1> QED BY <1>1, <1>6, <1>7, <1>8, <1>9, <1>10, <1>11 DEF SixHeld

-----------------------------------------------------------------------------
(* The section of extensions *)

Pieces(extensions) == [i \in DOMAIN extensions |-> EncodeExtension(extensions[i])]
All(extensions) == FlattenSeq(Pieces(extensions))

LEMMA SectionIs ==
  ASSUME NEW S, NEW x \in Seq(S),
         \A i \in DOMAIN x : IsExtension(x[i]) /\ ContentEncodable(x[i]),
         Len(EncodeExtensions(x)) <= ExtensionsHeader + 65535
  PROVE  /\ All(x) \in Seq(Byte) /\ Len(All(x)) \in Word
         /\ EncodeExtensions(x) = U16(Len(All(x))) \o All(x)
         /\ EncodeExtensions(x) \in Seq(Byte)
         /\ Len(EncodeExtensions(x)) = 2 + Len(All(x))
         /\ Len(x) \in Nat /\ Len(Pieces(x)) = Len(x)
         /\ \A i \in 1..Len(x) : Pieces(x)[i] = EncodeExtension(x[i])
         /\ \E pos : Positions(Pieces(x), All(x), pos)
<1>1. Len(x) \in Nat /\ DOMAIN x = 1..Len(x)
  OBVIOUS
<1>2. /\ Pieces(x) \in Seq(Seq(Byte)) /\ Len(Pieces(x)) = Len(x)
      /\ \A i \in 1..Len(x) : Pieces(x)[i] = EncodeExtension(x[i])
  <2>1. \A i \in 1..Len(x) : EncodeExtension(x[i]) \in Seq(Byte)
    BY <1>1, ContentIs
  <2> QED BY <1>1, <2>1 DEF Pieces
<1>3. All(x) \in Seq(Byte) /\ \E pos : Positions(Pieces(x), All(x), pos)
  BY <1>2, FlattenAny DEF All
<1>4. EncodeExtensions(x) = U16(Len(All(x))) \o All(x)
  BY DEF EncodeExtensions, All, Pieces
<1> DEFINE n == Len(All(x))
           t == U16(n)
<1>5. n \in Nat /\ All(x) \in Seq(Nat)
  BY <1>3, BytesAreNats
<1> HIDE DEF n
<1>6. t \in Seq(Nat) /\ Len(t) = 2
  BY <1>5, AnyLength
<1>7. n \in Word
  <2> HIDE DEF t
  <2>1. Len(t \o All(x)) = Len(t) + Len(All(x))
    BY ONLY <1>5, <1>6, JoinNats
  <2>2. Len(t \o All(x)) <= 2 + 65535
    BY <1>4 DEF ExtensionsHeader, t, n
  <2>3. n <= 65535
    BY <1>5, <1>6, <2>1, <2>2 DEF n
  <2> QED BY <1>5, <2>3, WordMade
<1>8. t \in Seq(Byte)
  BY <1>7, U16Is
<1> HIDE DEF t
<1>9. t \o All(x) \in Seq(Byte) /\ Len(t \o All(x)) = Len(t) + Len(All(x))
  BY ONLY <1>3, <1>8, JoinBytes
<1> QED BY <1>1, <1>2, <1>3, <1>4, <1>6, <1>7, <1>9 DEF t, n

Hellos == {client_hello, server_hello}

Body(m) == CASE m.type = client_hello -> EncodeClientHello(m.hello)
             [] m.type = server_hello -> EncodeServerHello(m.hello)
             [] OTHER                 -> m.data

SuitePart(m) == IF m.type = client_hello THEN EncodeVector(m.hello.suites, 2, 2)
                ELSE U16(m.hello.suites[1])
CompressionPart(m) ==
  IF m.type = client_hello THEN EncodeVector(m.hello.compression, 1, 1)
  ELSE U8(m.hello.compression[1])
SuiteSize(m) == IF m.type = client_hello THEN 2 + 2 * Len(m.hello.suites) ELSE 2
CompressionSize(m) ==
  IF m.type = client_hello THEN 1 + Len(m.hello.compression) ELSE 1

Extension == [type : Word, content : Seq(Word)]

(* What the types of a message and the encoder's refusals say of a hello.  *)
LEMMA HelloTypes ==
  ASSUME NEW m, IsMessage(m), Encodable(m), m.type \in Hellos
  PROVE  /\ m.hello.version \in Word
         /\ m.hello.random \in Seq(Byte) /\ Len(m.hello.random) = RandomSize
         /\ RandomSize \in Nat
         /\ m.hello.session \in Seq(Byte) /\ VectorFits(m.hello.session, 1, 1)
         /\ m.hello.suites \in Seq(Word) /\ VectorFits(m.hello.suites, 2, 2)
         /\ m.hello.compression \in Seq(Byte)
         /\ VectorFits(m.hello.compression, 1, 1)
         /\ m.hello.extensions \in Seq(Extension)
         /\ \A i \in DOMAIN m.hello.extensions :
              /\ IsExtension(m.hello.extensions[i])
              /\ ContentEncodable(m.hello.extensions[i])
         /\ Len(EncodeExtensions(m.hello.extensions)) <= ExtensionsHeader + 65535
         /\ m.type = server_hello => /\ Len(m.hello.suites) = 1
                                     /\ Len(m.hello.compression) = 1
<1> DEFINE h == m.hello
<1>1. /\ IsHello(h) /\ HelloEncodable(h)
      /\ m.type = server_hello => Len(h.suites) = 1 /\ Len(h.compression) = 1
  BY DEF IsMessage, Encodable, Hellos
<1>2. RandomSize \in Nat
  BY DefinitionAssumption DEF RandomSize
<1> HIDE DEF h
<1>3. /\ h.version \in Word /\ h.random \in [1..RandomSize -> Byte]
      /\ h.session \in Seq(Byte) /\ h.suites \in Seq(Word)
      /\ h.compression \in Seq(Byte)
      /\ h.extensions \in Seq(Extension)
      /\ \A i \in DOMAIN h.extensions : IsExtension(h.extensions[i])
  BY <1>1 DEF IsHello, Extension
<1>4. h.random \in Seq(Byte) /\ Len(h.random) = RandomSize
  BY <1>2, <1>3
<1>5. /\ VectorFits(h.session, 1, 1) /\ VectorFits(h.suites, 2, 2)
      /\ VectorFits(h.compression, 1, 1)
      /\ \A i \in DOMAIN h.extensions : ContentEncodable(h.extensions[i])
      /\ Len(EncodeExtensions(h.extensions)) <= ExtensionsHeader + 65535
  BY <1>1 DEF HelloEncodable
<1> QED BY <1>1, <1>2, <1>3, <1>4, <1>5 DEF h

(* Both hellos have six parts, of which only the fourth and the fifth      *)
(* differ.                                                                 *)
LEMMA HelloIs ==
  ASSUME NEW m, IsMessage(m), Encodable(m), m.type \in Hellos
  PROVE  LET h == m.hello
             x == EncodeExtensions(h.extensions)
         IN /\ Body(m) = Six(U16(h.version), h.random, EncodeVector(h.session, 1, 1),
                             SuitePart(m), CompressionPart(m), x)
            /\ U16(h.version) \in Seq(Byte) /\ Len(U16(h.version)) = 2
            /\ h.random \in Seq(Byte) /\ Len(h.random) = RandomSize
            /\ RandomSize \in Nat
            /\ EncodeVector(h.session, 1, 1) \in Seq(Byte)
            /\ Len(EncodeVector(h.session, 1, 1)) = 1 + Len(h.session)
            /\ SuitePart(m) \in Seq(Byte) /\ Len(SuitePart(m)) = SuiteSize(m)
            /\ CompressionPart(m) \in Seq(Byte)
            /\ Len(CompressionPart(m)) = CompressionSize(m)
            /\ x = U16(Len(All(h.extensions))) \o All(h.extensions)
            /\ x \in Seq(Byte) /\ Len(x) = 2 + Len(All(h.extensions))
            /\ All(h.extensions) \in Seq(Byte) /\ Len(All(h.extensions)) \in Word
            /\ Body(m) \in Seq(Byte)
            /\ Len(Body(m)) = HelloHeader + 1 + Len(h.session) + SuiteSize(m) +
                              CompressionSize(m) + 2 + Len(All(h.extensions))
<1> DEFINE h == m.hello
           x == EncodeExtensions(h.extensions)
           a == U16(h.version)
           c == EncodeVector(h.session, 1, 1)
           d == SuitePart(m)
           e == CompressionPart(m)
<1>1. a \in Seq(Byte) /\ Len(a) = 2
  BY HelloTypes, U16Is
<1>2. c \in Seq(Byte) /\ Len(c) = 1 + Len(h.session) /\ Len(h.session) \in Nat
  <2> DEFINE s == h.session
  <2>1. s \in Seq(Byte) /\ VectorFits(s, 1, 1)
    BY HelloTypes
  <2> HIDE DEF s
  <2>2. /\ EncodeVector(s, 1, 1) \in Seq(Byte)
        /\ Len(EncodeVector(s, 1, 1)) = 1 + Len(s) /\ Len(s) \in Nat
    BY <2>1, BytesVector
  <2> QED BY <2>2 DEF s
<1>3. d \in Seq(Byte) /\ Len(d) = SuiteSize(m)
  <2>1. CASE m.type = client_hello
    <3> DEFINE s == h.suites
    <3>1. s \in Seq(Word) /\ VectorFits(s, 2, 2)
      BY HelloTypes
    <3> HIDE DEF s
    <3>2. /\ EncodeVector(s, 2, 2) \in Seq(Byte)
          /\ Len(EncodeVector(s, 2, 2)) = 2 + 2 * Len(s)
      BY <3>1, WordsVector
    <3> QED BY <2>1, <3>2 DEF s, SuitePart, SuiteSize
  <2>2. CASE m.type # client_hello
    <3> DEFINE n == h.suites[1]
    <3>1. n \in Word
      BY <2>2, HelloTypes DEF Hellos
    <3> HIDE DEF n
    <3>2. U16(n) \in Seq(Byte) /\ Len(U16(n)) = 2
      BY <3>1, U16Is
    <3> QED BY <2>2, <3>2 DEF n, SuitePart, SuiteSize
  <2> QED BY <2>1, <2>2
<1>4. e \in Seq(Byte) /\ Len(e) = CompressionSize(m)
  <2>1. CASE m.type = client_hello
    <3> DEFINE s == h.compression
    <3>1. s \in Seq(Byte) /\ VectorFits(s, 1, 1)
      BY HelloTypes
    <3> HIDE DEF s
    <3>2. /\ EncodeVector(s, 1, 1) \in Seq(Byte)
          /\ Len(EncodeVector(s, 1, 1)) = 1 + Len(s)
      BY <3>1, BytesVector
    <3> QED BY <2>1, <3>2 DEF s, CompressionPart, CompressionSize
  <2>2. CASE m.type # client_hello
    <3> DEFINE n == h.compression[1]
    <3>1. n \in Byte
      BY <2>2, HelloTypes DEF Hellos
    <3> HIDE DEF n
    <3>2. U8(n) \in Seq(Byte) /\ Len(U8(n)) = 1
      BY <3>1, U8Is
    <3> QED BY <2>2, <3>2 DEF n, CompressionPart, CompressionSize
  <2> QED BY <2>1, <2>2
<1>5. /\ All(h.extensions) \in Seq(Byte) /\ Len(All(h.extensions)) \in Word
      /\ x = U16(Len(All(h.extensions))) \o All(h.extensions)
      /\ x \in Seq(Byte) /\ Len(x) = 2 + Len(All(h.extensions))
  <2> DEFINE s == h.extensions
  <2>1. /\ s \in Seq(Extension)
        /\ \A i \in DOMAIN s : IsExtension(s[i]) /\ ContentEncodable(s[i])
        /\ Len(EncodeExtensions(s)) <= ExtensionsHeader + 65535
    <3>1. s \in Seq(Extension)
      BY HelloTypes
    <3>3. Len(x) <= ExtensionsHeader + 65535
      BY HelloTypes
    <3>2. \A i \in DOMAIN s : IsExtension(s[i]) /\ ContentEncodable(s[i])
      BY HelloTypes
    <3> QED BY <3>1, <3>2, <3>3
  <2> HIDE DEF s
  <2>2. /\ All(s) \in Seq(Byte) /\ Len(All(s)) \in Word
        /\ EncodeExtensions(s) = U16(Len(All(s))) \o All(s)
        /\ EncodeExtensions(s) \in Seq(Byte) /\ Len(EncodeExtensions(s)) = 2 + Len(All(s))
    BY <2>1, SectionIs
  <2> QED BY <2>2 DEF s
<1>6. h.random \in Seq(Byte) /\ Len(h.random) = RandomSize /\ RandomSize \in Nat
  BY HelloTypes
<1>7. Body(m) = Six(a, h.random, c, d, e, x)
  <2>1. CASE m.type = client_hello
    <3>1. /\ Body(m) = EncodeClientHello(h)
          /\ d = EncodeVector(h.suites, 2, 2) /\ e = EncodeVector(h.compression, 1, 1)
      BY <2>1 DEF Body, SuitePart, CompressionPart, client_hello, server_hello
    <3>2. EncodeClientHello(h) = Six(a, h.random, c, EncodeVector(h.suites, 2, 2),
                                     EncodeVector(h.compression, 1, 1), x)
      BY DEF EncodeClientHello, Six
    <3> HIDE DEF a, c, d, e, x, h
    <3> QED BY ONLY <3>1, <3>2
  <2>2. CASE m.type # client_hello
    BY <2>2 DEF Body, Six, EncodeServerHello, SuitePart, CompressionPart, Hellos,
       client_hello, server_hello
  <2> QED BY <2>1, <2>2
<1> DEFINE s == h.session
           y == All(h.extensions)
           z == h.random
<1>8. /\ Len(s) \in Nat /\ Len(y) \in Nat
      /\ z \in Seq(Byte) /\ Len(z) = RandomSize /\ x \in Seq(Byte)
      /\ Body(m) = Six(a, z, c, d, e, x)
      /\ Len(c) = 1 + Len(s) /\ Len(x) = 2 + Len(y)
  BY <1>2, <1>5, <1>6, <1>7, WordIs
<1> HIDE DEF a, c, d, e, x, s, y, z
<1>9. /\ a \in Seq(Byte) /\ z \in Seq(Byte) /\ c \in Seq(Byte) /\ d \in Seq(Byte)
      /\ e \in Seq(Byte) /\ x \in Seq(Byte)
  BY <1>1, <1>2, <1>3, <1>4, <1>8
<1>10. /\ Six(a, z, c, d, e, x) \in Seq(Byte)
       /\ Len(Six(a, z, c, d, e, x)) =
            Len(a) + Len(z) + Len(c) + Len(d) + Len(e) + Len(x)
  BY ONLY <1>9, SixJoined
<1> DEFINE n == SuiteSize(m)
           k == CompressionSize(m)
<1>11. n \in Nat /\ k \in Nat /\ Len(d) = n /\ Len(e) = k
  BY <1>3, <1>4
<1> HIDE DEF n, k
<1>12. /\ Body(m) \in Seq(Byte)
       /\ Len(Body(m)) = (2 + RandomSize) + 1 + Len(s) + n + k + 2 + Len(y)
  BY ONLY <1>1, <1>6, <1>8, <1>10, <1>11
<1>13. (2 + RandomSize) = HelloHeader
  BY DEF HelloHeader
<1> QED BY <1>1, <1>2, <1>3, <1>4, <1>5, <1>6, <1>7, <1>12, <1>13
       DEF a, c, d, e, x, s, y, z, n, k

-----------------------------------------------------------------------------
(* The headers around it *)

LEMMA BodyIs ==
  ASSUME NEW m, IsMessage(m), Encodable(m)
  PROVE  /\ Body(m) \in Seq(Byte) /\ Len(Body(m)) \in Word /\ m.type \in Byte
         /\ Len(Body(m)) \in Nat
         /\ EncodeHandshake(m) = U8(m.type) \o U24(Len(Body(m))) \o Body(m)
         /\ EncodeHandshake(m) \in Seq(Byte)
         /\ Len(EncodeHandshake(m)) = 4 + Len(Body(m))
         /\ Len(EncodeHandshake(m)) \in Word
<1>1. m.type \in Byte /\ m.data \in Seq(Byte)
  BY DEF IsMessage
<1> DEFINE b == Body(m)
           n == Len(b)
           p == U8(m.type)
           q == U24(n)
<1>2. b \in Seq(Byte)
  <2>1. CASE m.type \in Hellos
    BY <2>1, HelloIs
  <2>2. CASE m.type \notin Hellos
    BY <1>1, <2>2 DEF Body, Hellos
  <2> QED BY <2>1, <2>2
<1>3. EncodeHandshake(m) = (p \o q) \o b
  BY DEF EncodeHandshake, Body
<1>4. p \in Seq(Byte) /\ Len(p) = 1
  BY <1>1, U8Is
<1> HIDE DEF b, p
<1>5. n \in Nat
  BY <1>2
<1> HIDE DEF n
<1>6. n \div 65536 \in Nat /\ (n \div 256) % 256 \in Nat /\ n % 256 \in Nat
  BY <1>5
<1>7. q \in Seq(Nat) /\ Len(q) = 3
  BY <1>6 DEF U24
<1>8. PlaintextHeader + Len((p \o q) \o b) <= 2048
  BY <1>3 DEF Encodable, Reserved
<1> HIDE DEF q
<1>9. p \in Seq(Nat) /\ b \in Seq(Nat)
  BY <1>2, <1>4, BytesAreNats
<1>10. /\ p \o q \in Seq(Nat) /\ Len(p \o q) = Len(p) + Len(q)
       /\ Len((p \o q) \o b) = Len(p \o q) + Len(b)
  BY ONLY <1>7, <1>9, JoinNats
<1>11. n <= 2039 /\ Len((p \o q) \o b) = 4 + n
  BY <1>4, <1>5, <1>7, <1>8, <1>10 DEF n, PlaintextHeader
<1>12. n \in Word /\ 4 + n \in Word
  BY <1>5, <1>11, WordMade
<1>13. q \in Seq(Byte)
  BY <1>12, U24Is DEF q
<1>14. (p \o q) \o b \in Seq(Byte)
  BY ONLY <1>2, <1>4, <1>13, JoinBytes
<1> QED BY <1>1, <1>2, <1>3, <1>5, <1>11, <1>12, <1>14 DEF b, n, p, q

-----------------------------------------------------------------------------
(* Where the parts of an encoded message lie in its record *)

Size(m) == 9 + Len(Body(m))
SessionAt == 9 + HelloHeader
SuiteAt(m) == SessionAt + 1 + Len(m.hello.session)
CompressionAt(m) == SuiteAt(m) + SuiteSize(m)
SectionAt(m) == CompressionAt(m) + CompressionSize(m)
ListAt(m) == SectionAt(m) + 2

Written(m) == IsMessage(m) /\ Encodable(m) /\ record = Encode(TLS_1_2, m)

(* The headers of a record that was encoded: its end is where the buffer   *)
(* ends, and its one message fills it.                                     *)
LEMMA RecordParts ==
  ASSUME NEW m, Written(m)
  PROVE  /\ record \in Seq(Byte) /\ Len(record) = Size(m)
         /\ limit = Size(m) /\ Size(m) \in Nat /\ Len(Body(m)) \in Nat
         /\ At(0) = handshake /\ At(5) = m.type /\ U24At(6) = Len(Body(m))
         /\ Has(9, Body(m))
<1> DEFINE b == Body(m)
           hs == EncodeHandshake(m)
           p == U8(handshake)
           q == U16(TLS_1_2)
           r == U16(Len(hs))
           s == U8(m.type)
           t == U24(Len(b))
<1>1. /\ b \in Seq(Byte) /\ Len(b) \in Word /\ m.type \in Byte /\ Len(b) \in Nat
      /\ hs = (s \o t) \o b /\ hs \in Seq(Byte)
      /\ Len(hs) = 4 + Len(b) /\ Len(hs) \in Word
  BY BodyIs DEF Written
<1>2. record = ((p \o q) \o r) \o hs
  BY DEF Written, Encode, EncodeRecord
<1>3. handshake \in Byte /\ TLS_1_2 \in Word
  BY DEF Byte, Word, handshake, TLS_1_2
<1>4. p \in Seq(Byte) /\ Len(p) = 1 /\ s \in Seq(Byte) /\ Len(s) = 1
  BY <1>1, <1>3, U8Is
<1>5. q \in Seq(Byte) /\ Len(q) = 2 /\ r \in Seq(Byte) /\ Len(r) = 2
  BY <1>1, <1>3, U16Is
<1>6. t \in Seq(Byte) /\ Len(t) = 3
  BY <1>1, U24Is
<1> HIDE DEF b, hs, p, q, r, s, t
<1>7. /\ p \o q \in Seq(Byte) /\ Len(p \o q) = Len(p) + Len(q)
      /\ (p \o q) \o r \in Seq(Byte)
      /\ Len((p \o q) \o r) = Len(p \o q) + Len(r)
      /\ ((p \o q) \o r) \o hs \in Seq(Byte)
      /\ Len(((p \o q) \o r) \o hs) = Len((p \o q) \o r) + Len(hs)
      /\ s \o t \in Seq(Byte) /\ Len(s \o t) = Len(s) + Len(t)
  BY ONLY <1>1, <1>4, <1>5, <1>6, JoinBytes
<1>8. Len(p \o q) = 3 /\ Len((p \o q) \o r) = 5 /\ Len(s \o t) = 4
  BY ONLY <1>4, <1>5, <1>6, <1>7
<1>9. record \in Seq(Byte) /\ Len(record) = 9 + Len(b) /\ Has(0, record)
  <2>1. record \in Seq(Byte) /\ Len(record) = 9 + Len(b)
    BY ONLY <1>1, <1>2, <1>7, <1>8
  <2> QED BY <2>1, HasWhole
<1>10. Has(0, (p \o q) \o r) /\ Has(0 + Len((p \o q) \o r), hs)
  <2>1. Has(0, ((p \o q) \o r) \o hs)
    BY ONLY <1>2, <1>9
  <2> QED BY ONLY <1>1, <1>7, <1>9, <2>1, HasParts
<1>11. Has(0, p \o q) /\ Has(0 + Len(p \o q), r)
  BY ONLY <1>5, <1>7, <1>9, <1>10, HasParts
<1>12. Has(0, p) /\ Has(0 + Len(p), q)
  BY ONLY <1>4, <1>5, <1>9, <1>11, HasParts
<1>13. Has(5, s \o t) /\ Has(5 + Len(s \o t), b)
  <2>1. Has(5, (s \o t) \o b)
    BY <1>1, <1>8, <1>10
  <2> QED BY ONLY <1>1, <1>7, <1>9, <2>1, HasParts
<1>14. Has(5, s) /\ Has(5 + Len(s), t)
  BY ONLY <1>4, <1>6, <1>9, <1>13, HasParts
<1>15. At(0) = handshake
  BY <1>3, <1>9, <1>12, HasU8 DEF p
<1>16. At(5) = m.type
  BY <1>1, <1>9, <1>14, HasU8 DEF s
<1>17. U16At(3) = Len(hs)
  <2>1. Has(3, r)
    BY <1>8, <1>11
  <2> QED BY <1>1, <1>9, <2>1, HasU16 DEF r
<1>18. U24At(6) = Len(b)
  <2>1. Has(6, t)
    BY <1>4, <1>14
  <2> QED BY <1>1, <1>9, <2>1, HasU24 DEF t
<1>19. Has(9, b)
  BY <1>8, <1>13
<1>20. limit = 9 + Len(b)
  BY <1>1, <1>17 DEF limit, PlaintextHeader
<1> QED BY <1>1, <1>9, <1>15, <1>16, <1>18, <1>19, <1>20 DEF b, Size

(* Each part of the hello lies where the part before it ends.              *)
LEMMA HelloPlaces ==
  ASSUME NEW m, Written(m), m.type \in Hellos
  PROVE  /\ SessionAt \in Nat /\ SuiteAt(m) \in Nat /\ CompressionAt(m) \in Nat
         /\ SectionAt(m) \in Nat /\ ListAt(m) \in Nat
         /\ SuiteSize(m) \in Nat /\ CompressionSize(m) \in Nat
         /\ SessionAt = 9 + HelloHeader /\ SessionAt <= Size(m)
         /\ SuiteAt(m) <= Size(m)
         /\ CompressionAt(m) <= Size(m) /\ SectionAt(m) <= Size(m)
         /\ ListAt(m) <= Size(m)
         /\ Len(All(m.hello.extensions)) \in Nat
         /\ ListAt(m) + Len(All(m.hello.extensions)) = Size(m)
         /\ Has(9, U16(m.hello.version))
         /\ Has(11, m.hello.random) /\ 11 + Len(m.hello.random) = SessionAt
         /\ Has(SessionAt, EncodeVector(m.hello.session, 1, 1))
         /\ Has(SuiteAt(m), SuitePart(m))
         /\ Has(CompressionAt(m), CompressionPart(m))
         /\ Has(SectionAt(m), U16(Len(All(m.hello.extensions))))
         /\ Has(ListAt(m), All(m.hello.extensions))
<1> DEFINE h == m.hello
           a == U16(h.version)
           b == h.random
           c == EncodeVector(h.session, 1, 1)
           d == SuitePart(m)
           e == CompressionPart(m)
           f == EncodeExtensions(h.extensions)
           s == h.session
           y == All(h.extensions)
           g == U16(Len(y))
           n == SuiteSize(m)
           k == CompressionSize(m)
<1>1. /\ Body(m) = Six(a, b, c, d, e, f)
      /\ a \in Seq(Byte) /\ Len(a) = 2
      /\ b \in Seq(Byte) /\ Len(b) = RandomSize /\ RandomSize \in Nat
      /\ c \in Seq(Byte) /\ Len(c) = 1 + Len(s)
      /\ d \in Seq(Byte) /\ Len(d) = n
      /\ e \in Seq(Byte) /\ Len(e) = k
      /\ f = g \o y
      /\ f \in Seq(Byte) /\ Len(f) = 2 + Len(y)
      /\ y \in Seq(Byte) /\ Len(y) \in Word
      /\ Len(Body(m)) = HelloHeader + 1 + Len(s) + n + k + 2 + Len(y)
  BY HelloIs DEF Written
<1>2. s \in Seq(Byte) /\ Len(s) \in Nat
  BY HelloTypes DEF Written
<1>3. g \in Seq(Byte) /\ Len(g) = 2
  BY <1>1, U16Is
<1>4. record \in Seq(Byte) /\ Has(9, Body(m)) /\ Size(m) = 9 + Len(Body(m))
  BY RecordParts DEF Size
<1>5. HelloHeader = 2 + RandomSize
  BY DEF HelloHeader
<1>6. /\ SessionAt = 9 + HelloHeader
      /\ SuiteAt(m) = SessionAt + 1 + Len(s)
      /\ CompressionAt(m) = SuiteAt(m) + n
      /\ SectionAt(m) = CompressionAt(m) + k
      /\ ListAt(m) = SectionAt(m) + 2
  BY DEF SessionAt, SuiteAt, CompressionAt, SectionAt, ListAt
<1> HIDE DEF h, a, b, c, d, e, f, g, s, y, n, k
<1>7. n \in Nat /\ k \in Nat /\ Len(y) \in Nat
  BY <1>1
<1> DEFINE p1 == SessionAt
           p2 == SuiteAt(m)
           p3 == CompressionAt(m)
           p4 == SectionAt(m)
           p5 == ListAt(m)
           z == Size(m)
<1>8. /\ p1 = 9 + 2 + RandomSize /\ p2 = p1 + 1 + Len(s) /\ p3 = p2 + n
      /\ p4 = p3 + k /\ p5 = p4 + 2
      /\ z = 9 + (2 + RandomSize + 1 + Len(s) + n + k + 2 + Len(y))
  BY <1>1, <1>4, <1>5, <1>6
<1> HIDE DEF p1, p2, p3, p4, p5, z
<1>9. /\ p1 \in Nat /\ p2 \in Nat /\ p3 \in Nat /\ p4 \in Nat /\ p5 \in Nat
      /\ p1 <= z /\ p2 <= z /\ p3 <= z /\ p4 <= z /\ p5 <= z /\ p5 + Len(y) = z
      /\ z \in Nat
  <2>1. RandomSize \in Nat /\ Len(s) \in Nat
    BY <1>1, <1>2
  <2>2. p1 \in Nat /\ p2 \in Nat /\ p1 <= p2
    BY ONLY <1>8, <2>1
  <2>3. p3 \in Nat /\ p4 \in Nat /\ p5 \in Nat /\ p2 <= p3 /\ p3 <= p4 /\ p4 <= p5
    <3>1. p2 \in Nat /\ n \in Nat /\ k \in Nat
      BY <1>7, <2>2
    <3>2. p3 = p2 + n /\ p4 = p3 + k /\ p5 = p4 + 2
      BY <1>8
    <3> QED BY ONLY <3>1, <3>2
  <2>4. z = p5 + Len(y)
    BY ONLY <1>7, <1>8, <2>1
  <2> QED BY ONLY <1>7, <2>2, <2>3, <2>4
<1>10. /\ Has(9, a)
       /\ Has(9 + Len(a), b)
       /\ Has(9 + Len(a) + Len(b), c)
       /\ Has(9 + Len(a) + Len(b) + Len(c), d)
       /\ Has(9 + Len(a) + Len(b) + Len(c) + Len(d), e)
       /\ Has(9 + Len(a) + Len(b) + Len(c) + Len(d) + Len(e), f)
  <2>1. Has(9, Six(a, b, c, d, e, f))
    BY <1>1, <1>4
  <2>2. /\ a \in Seq(Byte) /\ b \in Seq(Byte) /\ c \in Seq(Byte) /\ d \in Seq(Byte)
        /\ e \in Seq(Byte) /\ f \in Seq(Byte) /\ record \in Seq(Byte)
    BY <1>1, <1>4
  <2> DEFINE i == 9
  <2>3. Has(i, Six(a, b, c, d, e, f))
    BY <2>1
  <2> HIDE DEF i
  <2>4. SixHeld(i, a, b, c, d, e, f)
    BY ONLY <2>2, <2>3, HasSix
  <2> QED BY ONLY <2>4 DEF i, SixHeld
<1>11. /\ 9 + Len(a) = 11 /\ 9 + Len(a) + Len(b) = p1
       /\ 9 + Len(a) + Len(b) + Len(c) = p2
       /\ 9 + Len(a) + Len(b) + Len(c) + Len(d) = p3
       /\ 9 + Len(a) + Len(b) + Len(c) + Len(d) + Len(e) = p4
       /\ 11 + Len(b) = p1
  BY ONLY <1>1, <1>2, <1>7, <1>8
<1>12. Has(p4, g) /\ Has(p4 + Len(g), y)
  <2>1. Has(p4, g \o y)
    BY ONLY <1>1, <1>10, <1>11
  <2> QED BY ONLY <1>1, <1>3, <1>4, <2>1, HasParts
<1>13. Has(p5, y)
  BY ONLY <1>3, <1>8, <1>12
<1>14. /\ Has(11, b) /\ Has(p1, c) /\ Has(p2, d) /\ Has(p3, e)
  BY ONLY <1>10, <1>11
<1> QED BY <1>6, <1>7, <1>9, <1>10, <1>11, <1>12, <1>13, <1>14
        DEF h, a, b, c, d, e, f, g, s, y, n, k, p1, p2, p3, p4, p5, z

Places(m) == CHOOSE pos : Positions(Pieces(m.hello.extensions),
                                    All(m.hello.extensions), pos)
ExtensionAt(m, k) == ListAt(m) + Places(m)[k]

(* Extension k + 1 lies where extension k ends, the last one ends the      *)
(* record.                                                                 *)
LEMMA ExtensionPlaces ==
  ASSUME NEW m, Written(m), m.type \in Hellos
  PROVE  LET x == m.hello.extensions
         IN /\ Len(x) \in Nat /\ DOMAIN x = 1..Len(x)
            /\ ExtensionAt(m, 0) = ListAt(m) /\ ExtensionAt(m, Len(x)) = Size(m)
            /\ \A k \in 1..Len(x) :
                 /\ IsExtension(x[k]) /\ ContentEncodable(x[k])
                 /\ ExtensionAt(m, k - 1) \in Nat
                 /\ ExtensionAt(m, k) = ExtensionAt(m, k - 1) + Len(EncodeExtension(x[k]))
                 /\ ExtensionAt(m, k) <= Size(m)
                 /\ Has(ExtensionAt(m, k - 1), EncodeExtension(x[k]))
<1> DEFINE x == m.hello.extensions
           y == All(x)
           pos == Places(m)
           o == ListAt(m)
           z == Size(m)
<1>1. /\ x \in Seq(Extension)
      /\ \A i \in DOMAIN x : IsExtension(x[i]) /\ ContentEncodable(x[i])
  <2>1. x \in Seq(Extension)
    BY HelloTypes DEF Written
  <2>2. \A i \in DOMAIN x : IsExtension(x[i]) /\ ContentEncodable(x[i])
    BY HelloTypes DEF Written
  <2> QED BY <2>1, <2>2
<1>2. Len(EncodeExtensions(x)) <= ExtensionsHeader + 65535
  BY HelloTypes DEF Written
<1>3. /\ y \in Seq(Byte)
      /\ Len(x) \in Nat /\ Len(Pieces(x)) = Len(x)
      /\ \A i \in 1..Len(x) : Pieces(x)[i] = EncodeExtension(x[i])
      /\ \E p : Positions(Pieces(x), y, p)
  <2> HIDE DEF x
  <2> QED BY <1>1, <1>2, SectionIs
<1>4. Positions(Pieces(x), y, pos)
  BY <1>3 DEF Places
<1>5. /\ o \in Nat /\ z \in Nat /\ Len(y) \in Nat /\ o + Len(y) = z
      /\ Has(o, y) /\ record \in Seq(Byte) /\ Len(record) \in Nat
  <2>1. /\ o \in Nat /\ Len(y) \in Nat /\ o + Len(y) = z /\ Has(o, y)
    BY HelloPlaces
  <2>2. record \in Seq(Byte) /\ z \in Nat
    BY RecordParts
  <2> QED BY <2>1, <2>2
<1>6. DOMAIN x = 1..Len(x)
  BY <1>1
<1>7. \A k : ExtensionAt(m, k) = o + pos[k]
  BY DEF ExtensionAt
<1> HIDE DEF x, y, pos, o, z
<1>8. /\ pos \in [0..Len(x) -> Nat] /\ pos[0] = 0 /\ pos[Len(x)] = Len(y)
      /\ \A k \in 1..Len(x) :
           /\ pos[k] = pos[k - 1] + Len(EncodeExtension(x[k]))
           /\ pos[k] <= Len(y)
           /\ \A j \in 1..Len(EncodeExtension(x[k])) :
                y[pos[k - 1] + j] = EncodeExtension(x[k])[j]
  <2> DEFINE ss == Pieces(x)
  <2>1. Len(ss) = Len(x) /\ \A i \in 1..Len(x) : ss[i] = EncodeExtension(x[i])
    BY <1>3
  <2>2. Positions(ss, y, pos)
    BY <1>4
  <2> HIDE DEF ss
  <2>3. /\ pos \in [0..Len(ss) -> Nat] /\ pos[0] = 0 /\ pos[Len(ss)] = Len(y)
        /\ \A k \in 1..Len(ss) :
             /\ pos[k] = pos[k - 1] + Len(ss[k]) /\ pos[k] <= Len(y)
             /\ \A j \in 1..Len(ss[k]) : y[pos[k - 1] + j] = ss[k][j]
    BY <2>2 DEF Positions
  <2> QED BY ONLY <2>1, <2>3
<1>9. ExtensionAt(m, 0) = o /\ ExtensionAt(m, Len(x)) = z
  <2>1. pos[0] = 0 /\ pos[Len(x)] = Len(y)
    BY <1>8
  <2>2. ExtensionAt(m, 0) = o + pos[0] /\ ExtensionAt(m, Len(x)) = o + pos[Len(x)]
    BY <1>7
  <2> QED BY ONLY <1>5, <2>1, <2>2
<1>10. ASSUME NEW k \in 1..Len(x)
       PROVE  /\ IsExtension(x[k]) /\ ContentEncodable(x[k])
              /\ ExtensionAt(m, k - 1) \in Nat
              /\ ExtensionAt(m, k) = ExtensionAt(m, k - 1) + Len(EncodeExtension(x[k]))
              /\ ExtensionAt(m, k) <= z
              /\ Has(ExtensionAt(m, k - 1), EncodeExtension(x[k]))
  <2>1. IsExtension(x[k]) /\ ContentEncodable(x[k])
    BY <1>1, <1>6
  <2> DEFINE e == EncodeExtension(x[k])
             p == pos[k - 1]
             q == pos[k]
  <2>2. e \in Seq(Byte) /\ Len(e) \in Nat
    BY <2>1, ContentIs
  <2>3. /\ q = p + Len(e) /\ q <= Len(y)
        /\ \A j \in 1..Len(e) : y[p + j] = e[j]
    BY <1>8
  <2>4. p \in Nat /\ q \in Nat
    <3>1. k - 1 \in 0..Len(x) /\ k \in 0..Len(x)
      BY <1>3
    <3> QED BY <1>8, <3>1
  <2>5. ExtensionAt(m, k - 1) = o + p /\ ExtensionAt(m, k) = o + q
    BY <1>7
  <2> HIDE DEF e, p, q
  <2>6. /\ o + p \in Nat /\ o + q = (o + p) + Len(e) /\ o + q <= z
        /\ (o + p) + Len(e) <= o + Len(y)
    BY ONLY <1>5, <2>2, <2>3, <2>4
  <2>7. Has(o + p, e)
    <3>1. o + Len(y) <= Len(record) /\ \A j \in 1..Len(y) : record[o + j] = y[j]
      BY <1>5 DEF Has
    <3>2. ASSUME NEW j \in 1..Len(e) PROVE record[(o + p) + j] = e[j]
      <4>1. p + j \in 1..Len(y) /\ o + (p + j) = (o + p) + j
        BY ONLY <1>5, <2>2, <2>3, <2>4, <3>2
      <4> QED BY <2>3, <3>1, <4>1
    <3>3. (o + p) + Len(e) <= Len(record)
      BY ONLY <1>5, <2>2, <2>4, <2>6, <3>1
    <3> QED BY <2>2, <2>6, <3>2, <3>3 DEF Has
  <2> QED BY <2>1, <2>5, <2>6, <2>7 DEF e
<1> QED BY <1>3, <1>6, <1>9, <1>10 DEF x, o, z

(* A hello of which only some parts are known.                             *)
Part(v, r, s, u, c, x) ==
  [version |-> v, random |-> r, session |-> s, suites |-> u,
   compression |-> c, extensions |-> x]

First(x, k) == [i \in 1..k |-> x[i]]

(* The inductive invariant of RoundTrip.  Decoding what m was encoded to   *)
(* is at the place of the part that it reads next, has found the parts     *)
(* before it, and is never refused.                                        *)
Along(m) ==
  LET h == m.hello
  IN /\ step \in InHello \cup {"record", "message", "good", "judged"}
     /\ step = "record" => hello = NoHello /\ messages = <<>>
     /\ step = "message" => \/ from = 5 /\ messages = <<>>
                            \/ from = Size(m) /\ messages = <<m>>
     /\ step = "good" => messages = <<m>>
     /\ step \in InHello => /\ m.type \in Hellos
                           /\ from = 5 /\ mend = Size(m) /\ messages = <<>>
     /\ step = "fixed" => offset = 9 /\ hello = NoHello
     /\ step = "session" =>
          /\ offset = SessionAt
          /\ hello = Part(h.version, h.random, <<>>, <<>>, <<>>, <<>>)
     /\ step = "suites" =>
          /\ m.type = client_hello
          /\ offset = SuiteAt(m)
          /\ hello = Part(h.version, h.random, h.session, <<>>, <<>>, <<>>)
     /\ step = "suite" =>
          /\ m.type = server_hello
          /\ offset = SuiteAt(m)
          /\ hello = Part(h.version, h.random, h.session, <<>>, <<>>, <<>>)
     /\ step = "compression" =>
          /\ m.type = client_hello
          /\ offset = CompressionAt(m)
          /\ hello = Part(h.version, h.random, h.session, h.suites, <<>>, <<>>)
     /\ step = "extensions" =>
          /\ offset = SectionAt(m)
          /\ hello = Part(h.version, h.random, h.session, h.suites,
                          h.compression, <<>>)
     /\ step = "extension" =>
          /\ eend = Size(m)
          /\ \E k \in 0..Len(h.extensions) :
               /\ offset = ExtensionAt(m, k)
               /\ hello = Part(h.version, h.random, h.session, h.suites,
                               h.compression, First(h.extensions, k))

RoundInv == \A m \in Sent : Written(m) => Along(m)

-----------------------------------------------------------------------------
(* One lemma per action *)

LEMMA HeaderAlong ==
  ASSUME NEW m, Written(m), Along(m), DecodeMesssage
  PROVE  Along(m)'
<1>1. step = "record"
  BY DEF DecodeMesssage, Decode
<1>2. messages = <<>>
  BY <1>1 DEF Along
<1>3. /\ Len(record) = 9 + Len(Body(m)) /\ limit = Len(record) /\ At(0) = handshake
      /\ Len(Body(m)) \in Nat
  BY RecordParts DEF Size
<1>4. ~(Len(record) < PlaintextHeader) /\ ~(Len(record) < limit)
  BY <1>3 DEF PlaintextHeader
<1>5. step' = "message" /\ from' = 5 /\ messages' = <<>>
  BY <1>2, <1>3, <1>4 DEF DecodeMesssage, PlaintextHeader
<1> QED BY <1>5 DEF Along, InHello

(* A message that is no hello is its bytes.                                *)
LEMMA PlainIs ==
  ASSUME NEW m, IsMessage(m), m.type \notin Hellos
  PROVE  m = HandshakeMessage(m.type, m.data, NoHello) /\ Body(m) = m.data
BY DEF IsMessage, Hellos, Body

LEMMA HelloMessageIs ==
  ASSUME NEW m, IsMessage(m), m.type \in Hellos
  PROVE  m = HandshakeMessage(m.type, <<>>, m.hello)
BY DEF IsMessage, Hellos

LEMMA HandshakeAlong ==
  ASSUME NEW m, Written(m), Along(m), DecodeHandshake
  PROVE  Along(m)'
<1>1. step = "message"
  BY DEF DecodeHandshake, Decode
<1>2. \/ from = 5 /\ messages = <<>>
      \/ from = Size(m) /\ messages = <<m>>
  BY <1>1 DEF Along
<1>3. /\ limit = Size(m) /\ Size(m) = 9 + Len(Body(m)) /\ Len(Body(m)) \in Nat
      /\ At(5) = m.type /\ U24At(6) = Len(Body(m)) /\ Has(9, Body(m))
      /\ record \in Seq(Byte)
  BY RecordParts DEF Size
<1>4. CASE from = Size(m) /\ messages = <<m>>
  <2>1. from >= limit
    BY <1>3, <1>4
  <2>2. step' = "good" /\ messages' = <<m>>
    BY <1>4, <2>1 DEF DecodeHandshake
  <2> QED BY <2>2 DEF Along, InHello
<1>5. CASE from = 5 /\ messages = <<>>
  <2>1. ~(from >= limit)
    BY <1>3, <1>5
  <2>2. from + HandshakeHeader = 9 /\ from + 1 = 6
    BY <1>5 DEF HandshakeHeader
  <2>3. /\ from + HandshakeHeader + U24At(from + 1) = Size(m)
        /\ ~(from + HandshakeHeader + U24At(from + 1) > limit)
        /\ MessageType = m.type
    BY <1>3, <1>5, <2>2 DEF MessageType
  <2>4. CASE m.type \in Hellos
    <3>1. /\ step' = "fixed" /\ mend' = Size(m) /\ offset' = 9 /\ hello' = NoHello
          /\ UNCHANGED <<from, messages>>
      BY <2>1, <2>2, <2>3, <2>4 DEF DecodeHandshake, Hellos
    <3> QED BY <1>5, <2>4, <3>1 DEF Along, InHello
  <2>5. CASE m.type \notin Hellos
    <3>1. NextMessage(NoHello, Size(m), m.type)
      BY <2>1, <2>2, <2>3, <2>5 DEF DecodeHandshake, Hellos
    <3>2. BytesAt(9, Size(m)) = Body(m)
      BY <1>3, HasBytes
    <3>3. m = HandshakeMessage(m.type, Body(m), NoHello)
      BY <2>5, PlainIs DEF Written
    <3>4. /\ step' = "message" /\ from' = Size(m)
          /\ messages' = Append(<<>>, HandshakeMessage(m.type, Body(m), NoHello))
      BY <1>5, <2>2, <2>5, <3>1, <3>2 DEF NextMessage, Hellos
    <3>5. messages' = <<m>>
      BY <3>3, <3>4
    <3> QED BY <3>4, <3>5 DEF Along, InHello
  <2> QED BY <2>4, <2>5
<1> QED BY <1>2, <1>4, <1>5

LEMMA FixedAlong ==
  ASSUME NEW m, Written(m), Along(m), DecodeFixed
  PROVE  Along(m)'
<1> DEFINE h == m.hello
<1>1. step = "fixed"
  BY DEF DecodeFixed, Decode
<1>2. /\ m.type \in Hellos /\ from = 5 /\ mend = Size(m) /\ messages = <<>>
      /\ offset = 9 /\ hello = NoHello
  BY <1>1 DEF Along, InHello
<1>3. /\ record \in Seq(Byte) /\ limit = Size(m) /\ Size(m) \in Nat
  BY RecordParts
<1>4. /\ SessionAt \in Nat /\ SessionAt = 9 + HelloHeader /\ SessionAt <= Size(m)
      /\ Has(9, U16(h.version)) /\ Has(11, h.random)
      /\ 11 + Len(h.random) = SessionAt
  BY <1>2, HelloPlaces
<1>5. U16At(9) = h.version
  <2>1. h.version \in Word
    BY <1>2, HelloTypes DEF Written
  <2> QED BY <1>3, <1>4, <2>1, HasU16
<1>6. BytesAt(11, SessionAt) = h.random
  <2>1. BytesAt(11, 11 + Len(h.random)) = h.random
    BY <1>3, <1>4, HasBytes
  <2> QED BY <1>4, <2>1
<1>7. offset + HelloHeader = SessionAt /\ offset + 2 = 11 /\ ~(limit < SessionAt)
  BY <1>2, <1>3, <1>4
<1>8. /\ step' = "session" /\ offset' = SessionAt
      /\ hello' = [hello EXCEPT !.version = h.version, !.random = h.random]
      /\ UNCHANGED <<from, mend, eend, messages>>
  BY <1>2, <1>5, <1>6, <1>7 DEF DecodeFixed
<1>9. hello' = Part(h.version, h.random, <<>>, <<>>, <<>>, <<>>)
  BY <1>2, <1>8 DEF Part, NoHello
<1> QED BY <1>2, <1>8, <1>9 DEF Along, InHello

LEMMA SessionAlong ==
  ASSUME NEW m, Written(m), Along(m), DecodeSession
  PROVE  Along(m)'
<1> DEFINE h == m.hello
<1>1. step = "session"
  BY DEF DecodeSession, DecodeVector, Decode
<1>2. /\ m.type \in Hellos /\ from = 5 /\ mend = Size(m) /\ messages = <<>>
      /\ offset = SessionAt
      /\ hello = Part(h.version, h.random, <<>>, <<>>, <<>>, <<>>)
  BY <1>1 DEF Along, InHello
<1>3. /\ record \in Seq(Byte) /\ limit = Size(m) /\ Size(m) \in Nat /\ At(5) = m.type
  BY RecordParts
<1>4. /\ Has(offset, EncodeVector(h.session, 1, 1)) /\ SuiteAt(m) <= Size(m)
      /\ SuiteAt(m) = offset + 1 + Len(h.session)
  BY <1>2, HelloPlaces DEF SuiteAt
<1>5. h.session \in Seq(Byte) /\ VectorFits(h.session, 1, 1)
  BY <1>2, HelloTypes DEF Written
<1> DEFINE s == h.session
<1> HIDE DEF s
<1>6. /\ s \in Seq(Byte) /\ Len(s) * 1 <= 255 /\ Has(offset, EncodeVector(s, 1, 1))
      /\ limit \in Nat /\ offset + 1 + Len(s) <= limit
      /\ SuiteAt(m) = offset + 1 + Len(s)
  BY <1>3, <1>4, <1>5, BytesVector DEF s
<1>7. /\ VectorGood(offset, 1, 1) /\ VectorEnd(offset, 1) = offset + 1 + Len(s)
      /\ VectorAt(offset, 1, 1) = s
  BY ONLY <1>3, <1>6, BytesRead
<1>8. /\ step' = IF m.type = client_hello THEN "suites" ELSE "suite"
      /\ offset' = SuiteAt(m)
      /\ hello' = [hello EXCEPT !["session"] = s]
      /\ UNCHANGED <<from, mend, eend, messages>>
  BY <1>2, <1>3, <1>6, <1>7 DEF DecodeSession, DecodeVector, MessageType
<1>9. hello' = Part(h.version, h.random, s, <<>>, <<>>, <<>>)
  BY <1>2, <1>8 DEF Part
<1>10. m.type = client_hello \/ m.type = server_hello
  BY <1>2 DEF Hellos
<1>11. CASE m.type = client_hello
  <2>1. step' = "suites"
    BY <1>8, <1>11
  <2> QED BY <1>2, <1>8, <1>9, <1>11, <2>1 DEF Along, InHello, s
<1>12. CASE m.type # client_hello
  <2>1. step' = "suite" /\ m.type = server_hello
    BY <1>8, <1>10, <1>12
  <2> QED BY <1>2, <1>8, <1>9, <2>1 DEF Along, InHello, s
<1> QED BY <1>11, <1>12

LEMMA SuitesAlong ==
  ASSUME NEW m, Written(m), Along(m), DecodeSuites
  PROVE  Along(m)'
<1> DEFINE h == m.hello
<1>1. step = "suites"
  BY DEF DecodeSuites, DecodeVector, Decode
<1>2. /\ m.type = client_hello /\ m.type \in Hellos
      /\ from = 5 /\ mend = Size(m) /\ messages = <<>>
      /\ offset = SuiteAt(m)
      /\ hello = Part(h.version, h.random, h.session, <<>>, <<>>, <<>>)
  BY <1>1 DEF Along, InHello
<1>3. /\ record \in Seq(Byte) /\ limit = Size(m) /\ Size(m) \in Nat
  BY RecordParts
<1> DEFINE s == h.suites
<1>4. /\ s \in Seq(Word) /\ VectorFits(s, 2, 2)
  BY <1>2, HelloTypes DEF Written
<1>5. /\ Has(offset, EncodeVector(s, 2, 2)) /\ CompressionAt(m) <= Size(m)
      /\ CompressionAt(m) = offset + (2 + 2 * Len(s)) /\ SuiteAt(m) \in Nat
  BY <1>2, HelloPlaces DEF CompressionAt, SuiteSize, SuitePart
<1> HIDE DEF s
<1>6. /\ limit \in Nat /\ offset + 2 + 2 * Len(s) <= limit
      /\ CompressionAt(m) = offset + 2 + 2 * Len(s)
  BY <1>2, <1>3, <1>4, <1>5
<1>7. /\ VectorGood(offset, 2, 2) /\ VectorEnd(offset, 2) = offset + 2 + 2 * Len(s)
      /\ VectorAt(offset, 2, 2) = s
  <2>1. 2 \in {1, 2}
    OBVIOUS
  <2> QED BY ONLY <1>3, <1>4, <1>5, <1>6, <2>1, WordsRead
<1>8. /\ step' = "compression" /\ offset' = CompressionAt(m)
      /\ hello' = [hello EXCEPT !["suites"] = s]
      /\ UNCHANGED <<from, mend, eend, messages>>
  BY <1>6, <1>7 DEF DecodeSuites, DecodeVector
<1>9. hello' = Part(h.version, h.random, h.session, s, <<>>, <<>>)
  BY <1>2, <1>8 DEF Part
<1> QED BY <1>2, <1>8, <1>9 DEF Along, InHello, s

LEMMA CompressionAlong ==
  ASSUME NEW m, Written(m), Along(m), DecodeCompression
  PROVE  Along(m)'
<1> DEFINE h == m.hello
<1>1. step = "compression"
  BY DEF DecodeCompression, DecodeVector, Decode
<1>2. /\ m.type = client_hello /\ m.type \in Hellos
      /\ from = 5 /\ mend = Size(m) /\ messages = <<>>
      /\ offset = CompressionAt(m)
      /\ hello = Part(h.version, h.random, h.session, h.suites, <<>>, <<>>)
  BY <1>1 DEF Along, InHello
<1>3. /\ record \in Seq(Byte) /\ limit = Size(m) /\ Size(m) \in Nat
  BY RecordParts
<1> DEFINE s == h.compression
<1>4. /\ s \in Seq(Byte) /\ VectorFits(s, 1, 1)
  BY <1>2, HelloTypes DEF Written
<1>5. /\ Has(offset, EncodeVector(s, 1, 1)) /\ SectionAt(m) <= Size(m)
      /\ SectionAt(m) = offset + (1 + Len(s)) /\ CompressionAt(m) \in Nat
  BY <1>2, HelloPlaces DEF SectionAt, CompressionSize, CompressionPart
<1> HIDE DEF s
<1>6. /\ limit \in Nat /\ offset + 1 + Len(s) <= limit
      /\ SectionAt(m) = offset + 1 + Len(s) /\ Len(s) * 1 <= 255
  <2>1. Len(s) \in Nat /\ Len(s) * 1 <= 255
    BY <1>4, BytesVector
  <2> QED BY <1>2, <1>3, <1>5, <2>1
<1>7. /\ VectorGood(offset, 1, 1) /\ VectorEnd(offset, 1) = offset + 1 + Len(s)
      /\ VectorAt(offset, 1, 1) = s
  BY ONLY <1>3, <1>4, <1>5, <1>6, BytesRead
<1>8. /\ step' = "extensions" /\ offset' = SectionAt(m)
      /\ hello' = [hello EXCEPT !["compression"] = s]
      /\ UNCHANGED <<from, mend, eend, messages>>
  BY <1>6, <1>7 DEF DecodeCompression, DecodeVector
<1>9. hello' = Part(h.version, h.random, h.session, h.suites, s, <<>>)
  BY <1>2, <1>8 DEF Part
<1> QED BY <1>2, <1>8, <1>9 DEF Along, InHello, s

LEMMA SuiteAlong ==
  ASSUME NEW m, Written(m), Along(m), DecodeSuite
  PROVE  Along(m)'
<1> DEFINE h == m.hello
           n == h.suites[1]
           k == h.compression[1]
<1>1. step = "suite"
  BY DEF DecodeSuite, Decode
<1>2. /\ m.type = server_hello /\ m.type \in Hellos
      /\ from = 5 /\ mend = Size(m) /\ messages = <<>>
      /\ offset = SuiteAt(m)
      /\ hello = Part(h.version, h.random, h.session, <<>>, <<>>, <<>>)
  BY <1>1 DEF Along, InHello
<1>3. record \in Seq(Byte) /\ m.type # client_hello
  BY <1>2, RecordParts DEF client_hello, server_hello
<1>4. /\ h.suites \in Seq(Word) /\ h.compression \in Seq(Byte)
      /\ Len(h.suites) = 1 /\ Len(h.compression) = 1
  BY <1>2, HelloTypes DEF Written
<1>5. n \in Word /\ k \in Byte /\ h.suites = <<n>> /\ h.compression = <<k>>
  BY <1>4
<1>6. /\ Has(offset, U16(n)) /\ Has(offset + 2, U8(k)) /\ SuiteAt(m) \in Nat
      /\ SectionAt(m) = (offset + 2) + 1
  BY <1>2, <1>3, HelloPlaces
     DEF SectionAt, CompressionAt, SuiteSize, SuitePart, CompressionSize, CompressionPart
<1> HIDE DEF n, k
<1>7. U16At(offset) = n /\ At(offset + 2) = k
  BY <1>3, <1>5, <1>6, HasU16, HasU8
<1>8. offset + 3 = SectionAt(m)
  BY <1>2, <1>6
<1>9. /\ step' = "extensions" /\ offset' = SectionAt(m)
      /\ hello' = [hello EXCEPT !.suites = <<n>>, !.compression = <<k>>]
      /\ UNCHANGED <<from, mend, eend, messages>>
  BY <1>7, <1>8 DEF DecodeSuite
<1>10. hello' = Part(h.version, h.random, h.session, h.suites, h.compression, <<>>)
  BY <1>2, <1>5, <1>9 DEF Part
<1> QED BY <1>2, <1>9, <1>10 DEF Along, InHello

LEMMA SectionAlong ==
  ASSUME NEW m, Written(m), Along(m), DecodeSection
  PROVE  Along(m)'
<1> DEFINE h == m.hello
           x == h.extensions
<1>1. step = "extensions"
  BY DEF DecodeSection, Decode
<1>2. /\ m.type \in Hellos /\ from = 5 /\ mend = Size(m) /\ messages = <<>>
      /\ offset = SectionAt(m)
      /\ hello = Part(h.version, h.random, h.session, h.suites, h.compression, <<>>)
  BY <1>1 DEF Along, InHello
<1>3. /\ record \in Seq(Byte) /\ limit = Size(m) /\ Size(m) \in Nat
  BY RecordParts
<1>4. /\ Has(offset, U16(Len(All(x)))) /\ SectionAt(m) \in Nat /\ ListAt(m) \in Nat
      /\ ListAt(m) = SectionAt(m) + 2 /\ ListAt(m) + Len(All(x)) = Size(m)
      /\ ListAt(m) <= Size(m)
  BY <1>2, HelloPlaces DEF ListAt
<1>5. Len(All(x)) \in Word
  BY <1>2, HelloIs DEF Written
<1>6. U16At(offset) = Len(All(x))
  BY <1>3, <1>4, <1>5, HasU16
<1>7. /\ offset + ExtensionsHeader = ListAt(m)
      /\ offset + ExtensionsHeader + U16At(offset) = Size(m)
      /\ ~(limit < ListAt(m)) /\ ~(Size(m) > limit)
  BY <1>2, <1>3, <1>4, <1>6 DEF ExtensionsHeader
<1>8. /\ step' = "extension" /\ offset' = ListAt(m) /\ eend' = Size(m)
      /\ UNCHANGED <<from, mend, hello, messages>>
  BY <1>7 DEF DecodeSection
<1>9. /\ ExtensionAt(m, 0) = ListAt(m) /\ Len(x) \in Nat
  BY <1>2, ExtensionPlaces
<1>10. First(x, 0) = <<>> /\ 0 \in 0..Len(x)
  BY <1>9 DEF First
<1>11. \E k \in 0..Len(x) :
          /\ offset' = ExtensionAt(m, k)
          /\ hello' = Part(h.version, h.random, h.session, h.suites,
                           h.compression, First(x, k))
  BY <1>2, <1>8, <1>9, <1>10
<1> QED BY <1>2, <1>8, <1>11 DEF Along, InHello

LEMMA ExtensionAlong ==
  ASSUME NEW m, Written(m), Along(m), DecodeExtension
  PROVE  Along(m)'
<1> DEFINE h == m.hello
           x == h.extensions
<1>1. step = "extension" /\ offset < eend
  BY DEF DecodeExtension, Decode
<1>2. /\ m.type \in Hellos /\ from = 5 /\ mend = Size(m) /\ messages = <<>>
      /\ eend = Size(m)
      /\ \E k \in 0..Len(x) :
           /\ offset = ExtensionAt(m, k)
           /\ hello = Part(h.version, h.random, h.session, h.suites,
                           h.compression, First(x, k))
  BY <1>1 DEF Along, InHello
<1>3. /\ record \in Seq(Byte) /\ limit = Size(m) /\ Size(m) \in Nat
  BY RecordParts
<1>4. /\ Len(x) \in Nat /\ ExtensionAt(m, Len(x)) = Size(m)
      /\ \A j \in 1..Len(x) :
           /\ IsExtension(x[j]) /\ ContentEncodable(x[j])
           /\ ExtensionAt(m, j - 1) \in Nat
           /\ ExtensionAt(m, j) = ExtensionAt(m, j - 1) + Len(EncodeExtension(x[j]))
           /\ ExtensionAt(m, j) <= Size(m)
           /\ Has(ExtensionAt(m, j - 1), EncodeExtension(x[j]))
  BY <1>2, ExtensionPlaces
<1>5. PICK k \in 0..Len(x) :
        /\ offset = ExtensionAt(m, k)
        /\ hello = Part(h.version, h.random, h.session, h.suites,
                        h.compression, First(x, k))
  BY <1>2
<1>6. k # Len(x)
  BY <1>1, <1>2, <1>3, <1>4, <1>5
<1> DEFINE j == k + 1
           e == x[j]
           end == ExtensionAt(m, j)
<1>7. j \in 1..Len(x) /\ j \in 0..Len(x) /\ j - 1 = k /\ k \in Nat
  BY <1>4, <1>6
<1>8. /\ IsExtension(e) /\ ContentEncodable(e)
      /\ end = offset + Len(EncodeExtension(e)) /\ end <= Size(m)
      /\ Has(offset, EncodeExtension(e))
  BY <1>4, <1>5, <1>7
<1>9. First(x, j) = Append(First(x, k), e)
  BY <1>7 DEF First
<1>10. e = [type |-> e.type, content |-> e.content]
  BY <1>8 DEF IsExtension
<1> HIDE DEF e, end, x, h, j
<1>11. /\ limit \in Nat /\ eend \in Nat /\ end <= eend /\ eend <= limit
  BY <1>2, <1>3, <1>8
<1>12. NextExtension(With(e.type, e.content), end)
  BY <1>3, <1>8, <1>11, ExtensionDecoded
<1>13. /\ offset' = end /\ hello' = With(e.type, e.content)
       /\ UNCHANGED <<step, from, mend, eend, messages>>
  BY <1>12 DEF NextExtension
<1>14. hello' = [hello EXCEPT !.extensions = Append(@, e)]
  BY <1>10, <1>13 DEF With
<1>15. hello' = Part(h.version, h.random, h.session, h.suites, h.compression,
                     First(x, j))
  BY <1>5, <1>9, <1>14 DEF Part
<1>16. \E i \in 0..Len(x) :
          /\ offset' = ExtensionAt(m, i)
          /\ hello' = Part(h.version, h.random, h.session, h.suites,
                           h.compression, First(x, i))
  BY <1>7, <1>13, <1>15 DEF end
<1> QED BY <1>1, <1>2, <1>13, <1>16 DEF Along, InHello, x, h

LEMMA ExtensionsAlong ==
  ASSUME NEW m, Written(m), Along(m), DecodeExtensionsDone
  PROVE  Along(m)'
<1> DEFINE h == m.hello
           x == h.extensions
<1>1. step = "extension" /\ offset >= eend
  BY DEF DecodeExtensionsDone, Decode
<1>2. /\ m.type \in Hellos /\ from = 5 /\ mend = Size(m) /\ messages = <<>>
      /\ eend = Size(m)
      /\ \E k \in 0..Len(x) :
           /\ offset = ExtensionAt(m, k)
           /\ hello = Part(h.version, h.random, h.session, h.suites,
                           h.compression, First(x, k))
  BY <1>1 DEF Along, InHello
<1>3. Size(m) \in Nat /\ At(5) = m.type
  BY RecordParts
<1>4. /\ Len(x) \in Nat
      /\ \A j \in 1..Len(x) :
           /\ IsExtension(x[j]) /\ ContentEncodable(x[j])
           /\ ExtensionAt(m, j - 1) \in Nat
           /\ ExtensionAt(m, j) = ExtensionAt(m, j - 1) + Len(EncodeExtension(x[j]))
           /\ ExtensionAt(m, j) <= Size(m)
  BY <1>2, ExtensionPlaces
<1>5. PICK k \in 0..Len(x) :
        /\ offset = ExtensionAt(m, k)
        /\ hello = Part(h.version, h.random, h.session, h.suites,
                        h.compression, First(x, k))
  BY <1>2
<1>6. k = Len(x)
  <2> SUFFICES ASSUME k # Len(x) PROVE FALSE
    OBVIOUS
  <2> DEFINE j == k + 1
             n == Len(EncodeExtension(x[j]))
  <2>1. j \in 1..Len(x) /\ j - 1 = k
    BY <1>4
  <2>2. /\ IsExtension(x[j]) /\ ContentEncodable(x[j])
        /\ offset \in Nat /\ ExtensionAt(m, j) = offset + n
        /\ ExtensionAt(m, j) <= Size(m)
    BY <1>4, <1>5, <2>1
  <2>3. n \in Nat /\ n >= 4
    <3> DEFINE c == Len(EncodeContent(x[j]))
    <3>1. c \in Nat /\ n = 4 + c
      BY <2>2, ContentIs
    <3> HIDE DEF c, n
    <3> QED BY <3>1
  <2> HIDE DEF n, j
  <2>4. offset < Size(m)
    BY <1>3, <2>2, <2>3
  <2> QED BY <1>1, <1>2, <1>3, <2>2, <2>4
<1>7. First(x, Len(x)) = x
  <2>1. x \in Seq(Extension)
    BY <1>2, HelloTypes DEF Written
  <2> QED BY <2>1 DEF First
<1>8. h = Part(h.version, h.random, h.session, h.suites, h.compression, x)
  <2>1. IsHello(h)
    BY <1>2 DEF Written, IsMessage, Hellos
  <2> QED BY <2>1 DEF IsHello, Part
<1>9. hello = h
  BY <1>5, <1>6, <1>7, <1>8
<1>10. MessageType = m.type
  BY <1>2, <1>3 DEF MessageType
<1>11. m = HandshakeMessage(m.type, <<>>, h)
  BY <1>2, HelloMessageIs DEF Written
<1>12. /\ step' = "message" /\ from' = Size(m)
       /\ messages' = Append(<<>>, HandshakeMessage(m.type, <<>>, h))
  BY <1>2, <1>9, <1>10 DEF DecodeExtensionsDone, HelloDone, NextMessage, Hellos
<1>13. messages' = <<m>>
  BY <1>11, <1>12
<1> QED BY <1>12, <1>13 DEF Along, InHello

LEMMA JudgeAlong ==
  ASSUME NEW m, Along(m), Judge
  PROVE  Along(m)'
BY DEF Along, InHello, Judge

LEMMA StillAlong ==
  ASSUME NEW m, Along(m), UNCHANGED vars
  PROVE  Along(m)'
BY DEF Along, vars

LEMMA RoundInit == Init => RoundInv
<1> SUFFICES ASSUME Init, NEW m \in Sent PROVE Along(m)
  BY DEF RoundInv
<1> QED BY DEF Init, Along, InHello

LEMMA RoundStep == RoundInv /\ [Next]_vars => RoundInv'
<1> SUFFICES ASSUME RoundInv, [Next]_vars, NEW m \in Sent, Written(m)'
             PROVE  Along(m)'
  BY DEF RoundInv
<1>1. record' = record
  BY DEF Next, vars, DecodeMesssage, DecodeHandshake, DecodeFixed, DecodeSession,
     DecodeSuites, DecodeCompression, DecodeVector, DecodeSuite, DecodeSection,
     DecodeExtension, DecodeExtensionsDone, Judge, Decode, input
<1>2. Written(m)
  BY <1>1 DEF Written
<1>3. Along(m)
  BY <1>2 DEF RoundInv
<1> QED BY <1>2, <1>3, HeaderAlong, HandshakeAlong, FixedAlong, SessionAlong,
           SuitesAlong, CompressionAlong, SuiteAlong, SectionAlong, ExtensionAlong,
           ExtensionsAlong, JudgeAlong, StillAlong DEF Next

(* RoundTrip: for every message that the encoder lets through, with any    *)
(* vectors and any extensions, DecodeMesssage does not refuse its record   *)
(* and finds that message, the whole of it and nothing else.               *)
THEOREM DecodingInvertsEncoding == Spec => []RoundTrip
<1>1. RoundInv => RoundTrip
  BY SentAssumption DEF RoundInv, RoundTrip, Written, Along, InHello
<1> QED BY <1>1, RoundInit, RoundStep, PTL DEF Spec
=============================================================================
