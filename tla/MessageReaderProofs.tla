------------------------- MODULE MessageReaderProofs -------------------------
(***************************************************************************)
(* Theorems about MessageReader, for every header size, every length type  *)
(* and every stream.                                                       *)
(***************************************************************************)
EXTENDS MessageReader, TLAPS

-----------------------------------------------------------------------------
(* Sequences that are written as functions *)

LEMMA FunctionIsSeq ==
  ASSUME NEW S, NEW n \in Nat, NEW f \in [1..n -> S]
  PROVE  f \in Seq(S) /\ Len(f) = n /\ DOMAIN f = 1..n
OBVIOUS

LEMMA Grown ==
  ASSUME NEW S, NEW b \in Seq(S), NEW n \in Nat, NEW x \in S
  PROVE  LET g == b \o [i \in 1..n |-> x]
         IN /\ g \in Seq(S)
            /\ Len(g) = Len(b) + n
            /\ \A i \in 1..Len(b) : g[i] = b[i]
<1> DEFINE f == [i \in 1..n |-> x]
<1>1. f \in Seq(S) /\ Len(f) = n
  <2>1. f \in [1..n -> S]
    OBVIOUS
  <2> HIDE DEF f
  <2> QED
    BY <2>1, FunctionIsSeq
<1> HIDE DEF f
<1>2. /\ b \o f \in Seq(S)
      /\ Len(b \o f) = Len(b) + n
      /\ \A i \in 1..Len(b) : (b \o f)[i] = b[i]
  BY <1>1
<1> QED
  BY <1>2 DEF f

LEMMA Remainder ==
  ASSUME NEW n \in Nat, NEW m \in Nat
  PROVE  n % (m + 1) \in Nat /\ (n <= m => n % (m + 1) = n)
OBVIOUS

LEMMA Shifted ==
  ASSUME NEW r \in Nat, NEW s \in Nat, NEW k \in Nat, NEW i \in Nat
  PROVE  /\ r + ((k + i) - k - s) - 1 = r - s + i - 1
         /\ r - s + (k + i) - 1 = r - (s - k) + i - 1
OBVIOUS

-----------------------------------------------------------------------------
(* The stream *)

LEMMA Stream ==
  ASSUME TypeOK
  PROVE  /\ Len(wire) \in Nat
         /\ StreamSize \in Nat
         /\ \A k \in 0..Len(wire) : EndOf(k) \in Nat /\ EndOf(k) <= StreamSize
         /\ \A k \in 1..Len(wire) : /\ RecordSize(k) \in Nat
                                    /\ RecordSize(k) >= Header
                                    /\ EndOf(k) = EndOf(k - 1) + RecordSize(k)
<1>1. /\ wire \in Seq(Nat)
      /\ \A j \in 1..Len(wire), i \in 0..Len(wire) :
           i < j => EndOf(i) < EndOf(j)
      /\ \A i \in 1..Len(wire) : RecordSize(i) \in Header..(Header + MaxLength)
  BY ReaderAssumption DEF TypeOK, EndOf, RecordSize
<1>2. \A k \in 0..Len(wire) : EndOf(k) \in Nat
  BY <1>1 DEF EndOf, End
<1>3. \A k \in 0..Len(wire) : EndOf(k) <= StreamSize
  <2> TAKE k \in 0..Len(wire)
  <2>1. CASE k = Len(wire)
    BY <1>2, <2>1 DEF StreamSize
  <2>2. CASE k < Len(wire)
    <3>1. EndOf(k) < EndOf(Len(wire))
      BY <1>1, <2>2
    <3> QED
      BY <1>1, <1>2, <3>1 DEF StreamSize
  <2> QED
    BY <1>1, <2>1, <2>2
<1>4. \A k \in 1..Len(wire) : EndOf(k) = EndOf(k - 1) + RecordSize(k)
  <2> TAKE k \in 1..Len(wire)
  <2>1. k \in 0..Len(wire) /\ k - 1 \in 0..Len(wire)
    BY <1>1
  <2>2. EndOf(k) \in Nat /\ EndOf(k - 1) \in Nat
    BY <1>2, <2>1
  <2> QED
    BY <2>2 DEF RecordSize
<1> QED
  BY <1>1, <1>2, <1>3, <1>4, ReaderAssumption DEF StreamSize

(* A header at the beginning of a record gives the size of the record.     *)
LEMMA HeaderTellsSize ==
  ASSUME TypeOK, NEW k \in 0..(Len(wire) - 1)
  PROVE  /\ LengthAt(EndOf(k)) \in Nat
         /\ Header + LengthAt(EndOf(k)) = RecordSize(k + 1)
<1> DEFINE j == CHOOSE m \in 0..(Len(wire) - 1) : EndOf(m) = EndOf(k)
<1>1. j \in 0..(Len(wire) - 1) /\ EndOf(j) = EndOf(k)
  OBVIOUS
<1>2. LengthAt(EndOf(k)) = RecordSize(j + 1) - Header
  BY DEF LengthAt
<1> HIDE DEF j
<1>3. j = k
  <2>1. Len(wire) \in Nat
    BY Stream
  <2>2. \A n \in 1..Len(wire), i \in 0..Len(wire) : i < n => EndOf(i) < EndOf(n)
    BY ReaderAssumption DEF TypeOK, EndOf
  <2>3. EndOf(k) \in Nat /\ EndOf(j) \in Nat
    BY <1>1, <2>1, Stream
  <2>4. ~(j < k) /\ ~(k < j)
    BY <1>1, <2>1, <2>2, <2>3
  <2> QED
    BY <1>1, <2>1, <2>4
<1>4. RecordSize(k + 1) \in Nat /\ RecordSize(k + 1) >= Header
  <2>1. k + 1 \in 1..Len(wire)
    BY Stream
  <2> QED
    BY <2>1, Stream
<1> QED
  BY <1>2, <1>3, <1>4, ReaderAssumption

-----------------------------------------------------------------------------
(* The inductive invariant *)

(* tcp_message_size_ is the size of the record that is incomplete.         *)
MessageIsNext ==
  message # 0 => /\ Len(delivered) < Len(wire)
                 /\ message = RecordSize(Len(delivered) + 1)

ReaderInv == /\ TypeOK
             /\ received <= arrived /\ arrived <= StreamSize
             /\ BufferInBounds
             /\ BufferHoldsStream
             /\ InStep
             /\ RecordsWhole
             /\ MessageIsNext
             /\ ReadsWithinRecord

(* Numbers the steps start from.                                           *)
LEMMA Numbers ==
  ASSUME ReaderInv
  PROVE  /\ Len(wire) \in Nat /\ StreamSize \in Nat
         /\ Len(buffer) \in Nat /\ Len(delivered) \in Nat
         /\ offset \in Nat /\ size \in Nat /\ message \in Nat /\ wanted \in Nat
         /\ arrived \in Nat /\ received \in Nat
         /\ offset + size <= Len(buffer)
         /\ Len(delivered) <= Len(wire)
         /\ Header \in Nat /\ Header > 0
         /\ Len(delivered) = Len(wire) => size = 0
<1>1. /\ Len(wire) \in Nat /\ StreamSize \in Nat
      /\ StreamSize = EndOf(Len(wire))
  BY Stream DEF ReaderInv, StreamSize
<1> QED
  BY <1>1, ReaderAssumption
     DEF ReaderInv, TypeOK, BufferInBounds, InStep, RecordsWhole

(* The loop knows the size of the incomplete record, or has less than a    *)
(* header of it.                                                           *)
LEMMA KnownIsNext ==
  ASSUME ReaderInv
  PROVE  /\ Known \in Nat
         /\ \/ Known = 0 /\ size < Header
            \/ /\ Len(delivered) < Len(wire)
               /\ Known = RecordSize(Len(delivered) + 1)
               /\ Known > 0
<1> DEFINE d == Len(delivered)
<1>1. CASE message # 0
  <2>1. d < Len(wire) /\ message = RecordSize(d + 1)
    BY <1>1 DEF ReaderInv, MessageIsNext
  <2> QED
    BY <1>1, <2>1, Numbers DEF Known
<1>2. CASE message = 0 /\ size < Header
  BY <1>2 DEF Known
<1>3. CASE message = 0 /\ ~(size < Header)
  <2>1. size > 0 /\ d \in 0..(Len(wire) - 1)
    BY <1>3, Numbers
  <2>2. buffer[offset + 1] = EndOf(d)
    <3>1. buffer[offset + 1] = received - size + 1 - 1
      BY <2>1, Numbers DEF ReaderInv, BufferHoldsStream
    <3>2. received - size = EndOf(d)
      BY DEF ReaderInv, InStep
    <3> QED
      BY <3>1, <3>2, Numbers
  <2>3. Known = RecordSize(d + 1)
    BY <1>3, <2>1, <2>2, HeaderTellsSize DEF Known, ReaderInv
  <2>4. RecordSize(d + 1) \in Nat /\ RecordSize(d + 1) >= Header
    <3>1. d + 1 \in 1..Len(wire)
      BY <2>1, Numbers
    <3> QED
      BY <3>1, Stream DEF ReaderInv
  <2> QED
    BY <2>1, <2>3, <2>4, Numbers
<1> QED
  BY <1>1, <1>2, <1>3

-----------------------------------------------------------------------------
(* The steps *)

LEMMA InitInv == Init => ReaderInv
<1> SUFFICES ASSUME Init PROVE ReaderInv
  OBVIOUS
<1>1. TypeOK
  <2>1. \A S : <<>> \in Seq(S)
    OBVIOUS
  <2>2. buffer \in Seq(Nat \cup {Unwritten}) /\ delivered \in Seq(Nat)
    BY <2>1 DEF Init
  <2> QED
    BY <2>2 DEF Init, TypeOK
<1>2. StreamSize \in Nat /\ EndOf(0) = 0 /\ Len(wire) \in Nat
  BY <1>1, Stream DEF EndOf, End
<1> QED
  BY <1>1, <1>2
     DEF Init, ReaderInv, BufferInBounds, BufferHoldsStream, InStep,
         RecordsWhole, MessageIsNext, ReadsWithinRecord

(* Steps that leave the buffer and the counters alone.                     *)
LEMMA QuietStep ==
  ASSUME ReaderInv, TypeOK', received <= arrived', arrived' <= StreamSize,
         UNCHANGED <<wire, received, bufferVars, message, wanted, delivered>>,
         phase' = "read" => phase = "read"
  PROVE  ReaderInv'
BY DEF ReaderInv, bufferVars, StreamSize, EndOf, RecordSize, BufferInBounds,
       BufferHoldsStream, InStep, RecordsWhole, MessageIsNext,
       ReadsWithinRecord, LongRecords

LEMMA NetworkStep == ReaderInv /\ Network => ReaderInv'
<1> SUFFICES ASSUME ReaderInv, Network PROVE ReaderInv'
  OBVIOUS
<1>1. CASE PeerCloses
  <2>1. TypeOK'
    BY <1>1 DEF PeerCloses, ReaderInv, TypeOK, bufferVars
  <2> QED
    BY <1>1, <2>1, QuietStep DEF PeerCloses, ReaderInv
<1>2. ASSUME NEW n \in 1..StreamSize, Arrive(n) PROVE ReaderInv'
  <2>1. n \in Nat
    BY Numbers
  <2>2. TypeOK' /\ received <= arrived' /\ arrived' <= StreamSize
    BY <1>2, <2>1, Numbers DEF Arrive, ReaderInv, TypeOK, bufferVars
  <2> QED
    BY <1>2, <2>2, QuietStep DEF Arrive
<1> QED
  BY <1>1, <1>2 DEF Network

LEMMA ControlStep ==
  ReaderInv /\ (Start \/ Stop \/ Break \/ ReadEof) => ReaderInv'
<1> SUFFICES ASSUME ReaderInv, Start \/ Stop \/ Break \/ ReadEof
             PROVE  ReaderInv'
  OBVIOUS
<1>1. /\ UNCHANGED <<wire, arrived, received, bufferVars, message, wanted,
                     delivered>>
      /\ phase' = "read" => phase = "read"
      /\ phase' \in {"idle", "parse", "read", "ended"}
      /\ running' \in BOOLEAN /\ told' \in BOOLEAN /\ finished' \in BOOLEAN
  BY DEF Start, Stop, Break, ReadCancelled, ReadFailed, ReadEof, streamVars,
         ReaderInv, TypeOK
<1>2. TypeOK'
  BY <1>1 DEF ReaderInv, TypeOK, bufferVars
<1> QED
  BY <1>1, <1>2, QuietStep DEF ReaderInv

(* Making room keeps the data, and leaves room for what is wanted.         *)
LEMMA RoomMade ==
  ASSUME ReaderInv, NEW need \in Nat, UNCHANGED size,
         MoveToFront(need) \/ Enlarge(need) \/ Fits(need)
  PROVE  /\ buffer' \in Seq(Nat \cup {Unwritten})
         /\ offset' \in Nat
         /\ offset' + size + need <= Len(buffer')
         /\ \A i \in 1..size : buffer'[offset' + i] = buffer[offset + i]
<1> DEFINE Byte == Nat \cup {Unwritten}
<1>1. /\ StartOffset \in Nat /\ StartOffset <= offset
      /\ size # 0 => StartOffset = offset
      /\ Available \in Nat /\ Available = Len(buffer) - StartOffset - size
      /\ Len(buffer) \in Nat /\ size \in Nat /\ offset \in Nat
  <2>1. /\ Len(buffer) \in Nat /\ size \in Nat /\ offset \in Nat
        /\ offset + size <= Len(buffer)
    BY Numbers
  <2>2. StartOffset = IF size = 0 THEN 0 ELSE offset
    BY DEF StartOffset
  <2>3. Available = Len(buffer) - StartOffset - size
    BY DEF Available
  <2> QED
    BY <2>1, <2>2, <2>3
<1>5. /\ buffer \in Seq(Byte)
      /\ \A i \in 1..Len(buffer) : buffer[i] \in Byte
  BY DEF ReaderInv, TypeOK
<1>6. \A i \in 1..size : StartOffset + i = offset + i
  BY <1>1
<1> HIDE DEF Byte
<1>2. CASE MoveToFront(need)
  <2> DEFINE moved == [i \in 1..Len(buffer) |->
                         IF i <= size THEN buffer[StartOffset + i] ELSE buffer[i]]
  <2>1. moved \in [1..Len(buffer) -> Byte]
    <3>1. ASSUME NEW i \in 1..Len(buffer), i <= size
          PROVE  StartOffset + i \in 1..Len(buffer)
      BY <1>1, <3>1
    <3>2. \A i \in 1..Len(buffer) : i <= size => buffer[StartOffset + i] \in Byte
      BY <1>5, <3>1
    <3> QED
      BY <1>5, <3>2
  <2>2. \A i \in 1..size : moved[i] = buffer[offset + i]
    BY <1>1, <1>6
  <2>3. buffer' = moved /\ offset' = 0
    BY <1>2 DEF MoveToFront
  <2> HIDE DEF moved
  <2>4. buffer' \in Seq(Byte) /\ Len(buffer') = Len(buffer)
    BY <1>1, <2>1, <2>3, FunctionIsSeq
  <2>5. StartOffset + Available > need
    BY <1>2 DEF MoveToFront
  <2>6. offset' + size + need <= Len(buffer')
    BY <1>1, <2>3, <2>4, <2>5
  <2>7. \A i \in 1..size : buffer'[offset' + i] = buffer[offset + i]
    BY <1>1, <2>2, <2>3
  <2>8. offset' \in Nat
    BY <2>3
  <2> QED
    BY <2>4, <2>6, <2>7, <2>8 DEF Byte
<1>3. CASE Enlarge(need)
  <2>1. need - Available \in Nat
    BY <1>1, <1>3 DEF Enlarge
  <2>2. /\ buffer' \in Seq(Byte)
        /\ Len(buffer') = Len(buffer) + (need - Available)
        /\ \A i \in 1..Len(buffer) : buffer'[i] = buffer[i]
    <3> DEFINE n == need - Available
    <3>1. buffer' = buffer \o [i \in 1..n |-> Unwritten]
      BY <1>3 DEF Enlarge
    <3>2. n \in Nat /\ Unwritten \in Byte
      BY <2>1 DEF Byte
    <3> HIDE DEF n
    <3>3. /\ buffer' \in Seq(Byte)
          /\ Len(buffer') = Len(buffer) + n
          /\ \A i \in 1..Len(buffer) : buffer'[i] = buffer[i]
      BY <1>5, <3>1, <3>2, Grown
    <3> QED
      BY <3>3 DEF n
  <2>3. offset' = StartOffset
    BY <1>3 DEF Enlarge
  <2>4. offset' \in Nat /\ offset' + size + need <= Len(buffer')
    BY <1>1, <2>1, <2>2, <2>3
  <2>5. \A i \in 1..size : offset + i \in 1..Len(buffer)
    <3>1. /\ offset \in Nat /\ size \in Nat /\ Len(buffer) \in Nat
          /\ offset + size <= Len(buffer)
      BY Numbers
    <3> QED
      BY ONLY <3>1
  <2>6. \A i \in 1..size : buffer'[offset' + i] = buffer[offset + i]
    BY <1>6, <2>2, <2>3, <2>5
  <2> QED
    BY <2>2, <2>4, <2>6 DEF Byte
<1>4. CASE Fits(need)
  <2>1. buffer' = buffer /\ offset' = StartOffset /\ Available >= need
    BY <1>4 DEF Fits
  <2>2. offset' + size + need <= Len(buffer')
    BY <1>1, <2>1
  <2>3. \A i \in 1..size : buffer'[offset' + i] = buffer[offset + i]
    BY <1>6, <2>1
  <2> QED
    BY <1>1, <1>5, <2>1, <2>2, <2>3 DEF Byte
<1> QED
  BY <1>2, <1>3, <1>4

LEMMA NeedMoreStep == ReaderInv /\ NeedMore => ReaderInv'
<1> SUFFICES ASSUME ReaderInv, NeedMore PROVE ReaderInv'
  OBVIOUS
<1> DEFINE need == ReadSize(Known)
           d == Len(delivered)
<1>1. Known \in Nat /\ need \in Nat /\ need > 0
  BY KnownIsNext, Numbers DEF NeedMore, ReadSize
<1>2. /\ MoveToFront(need) \/ Enlarge(need) \/ Fits(need)
      /\ message' = Known /\ wanted' = need /\ phase' = "read"
      /\ UNCHANGED <<wire, arrived, finished, received, size, running,
                     delivered, told>>
  BY DEF NeedMore, StartRead, streamVars
<1> HIDE DEF need
<1>3. /\ buffer' \in Seq(Nat \cup {Unwritten})
      /\ offset' \in Nat
      /\ offset' + size + need <= Len(buffer')
      /\ \A i \in 1..size : buffer'[offset' + i] = buffer[offset + i]
  BY <1>1, <1>2, RoomMade
<1>4. TypeOK'
  BY <1>1, <1>2, <1>3 DEF ReaderInv, TypeOK
<1>5. BufferInBounds'
  <2>1. Len(buffer') \in Nat
    BY <1>3
  <2>2. size \in Nat /\ size' = size /\ offset' \in Nat
        /\ need \in Nat /\ need > 0 /\ wanted' = need
        /\ offset' + size + need <= Len(buffer')
    BY <1>1, <1>2, <1>3, Numbers
  <2>3. /\ offset' + size' <= Len(buffer')
        /\ wanted' > 0 /\ offset' + size' + wanted' <= Len(buffer')
    BY ONLY <2>1, <2>2
  <2> QED
    BY ONLY <2>3 DEF BufferInBounds
<1>6. BufferHoldsStream'
  BY <1>2, <1>3 DEF ReaderInv, BufferHoldsStream
<1>7. InStep' /\ RecordsWhole'
  BY <1>2 DEF ReaderInv, InStep, RecordsWhole, RecordSize, EndOf
<1>8. MessageIsNext'
  BY <1>2, KnownIsNext DEF MessageIsNext, RecordSize, EndOf
<1>9. ReadsWithinRecord'
  <2> SUFFICES ASSUME LongRecords, d < Len(wire)
               PROVE  size + need <= RecordSize(d + 1)
    BY <1>2 DEF ReadsWithinRecord, LongRecords, RecordSize, EndOf
  <2>1. CASE Known # 0
    <3>1. need = Known - size /\ Known = RecordSize(d + 1)
      BY <2>1, KnownIsNext DEF need, ReadSize
    <3>2. Known \in Nat /\ size \in Nat
      BY <2>1, KnownIsNext, Numbers
    <3> QED
      BY <3>1, <3>2
  <2>2. CASE Known = 0
    <3>1. need = Header /\ size < Header
      BY <2>2, KnownIsNext DEF need, ReadSize
    <3>2. d + 1 \in 1..Len(wire)
      BY Numbers
    <3>3. RecordSize(d + 1) \in Nat /\ RecordSize(d + 1) >= 2 * Header - 1
      <4>1. RecordSize(d + 1) \in Nat
        BY <3>2, Stream DEF ReaderInv
      <4>2. d + 1 \in DOMAIN wire
        BY <3>2, ReaderAssumption DEF ReaderInv, TypeOK
      <4> QED
        BY <4>1, <4>2 DEF LongRecords
    <3>4. size \in Nat /\ Header \in Nat
      BY Numbers
    <3> QED
      BY ONLY <3>1, <3>3, <3>4
  <2> QED
    BY <2>1, <2>2
<1>10. received' <= arrived' /\ arrived' <= StreamSize'
  BY <1>2 DEF ReaderInv, StreamSize, EndOf
<1> QED
  BY <1>4, <1>5, <1>6, <1>7, <1>8, <1>9, <1>10 DEF ReaderInv

LEMMA DeliverStep == ReaderInv /\ Deliver => ReaderInv'
<1> SUFFICES ASSUME ReaderInv, Deliver PROVE ReaderInv'
  OBVIOUS
<1> DEFINE d == Len(delivered)
<1>0. /\ Len(wire) \in Nat /\ Len(buffer) \in Nat /\ Len(delivered) \in Nat
      /\ offset \in Nat /\ size \in Nat /\ message \in Nat /\ wanted \in Nat
      /\ arrived \in Nat /\ received \in Nat /\ StreamSize \in Nat
      /\ offset + size <= Len(buffer) /\ Len(delivered) <= Len(wire)
      /\ Header \in Nat /\ Header > 0
  BY Numbers
<1>1. /\ Known \in Nat /\ Known > 0 /\ size >= Known
      /\ d < Len(wire) /\ Known = RecordSize(d + 1)
  BY KnownIsNext DEF Deliver
<1>2. /\ delivered' = Append(delivered, Passed(Known))
      /\ size' = size - Known /\ offset' = offset + Known
      /\ message' = 0 /\ phase' = "parse"
      /\ UNCHANGED <<wire, arrived, finished, received, buffer, running, wanted,
                     told>>
  BY DEF Deliver, streamVars
<1>3. Passed(Known) \in Nat /\ (Known <= MaxLength => Passed(Known) = Known)
  BY <1>1, ReaderAssumption, Remainder DEF Passed
<1>4. /\ delivered \in Seq(Nat)
      /\ delivered' \in Seq(Nat) /\ Len(delivered') = d + 1
      /\ delivered'[d + 1] = Passed(Known)
      /\ \A i \in 1..d : delivered'[i] = delivered[i]
  BY <1>2, <1>3 DEF ReaderInv, TypeOK
<1>5. TypeOK'
  BY <1>1, <1>2, <1>4, <1>0 DEF ReaderInv, TypeOK
<1>6. BufferInBounds'
  BY <1>1, <1>2, <1>0 DEF BufferInBounds
<1>7. BufferHoldsStream'
  <2> SUFFICES ASSUME NEW i \in 1..(size - Known)
               PROVE  buffer[offset + Known + i]
                        = received - (size - Known) + i - 1
    BY <1>2 DEF BufferHoldsStream
  <2>1. Known + i \in 1..size /\ i \in Nat
    BY <1>1, <1>0
  <2>2. buffer[offset + (Known + i)] = received - size + (Known + i) - 1
    BY <2>1 DEF ReaderInv, BufferHoldsStream
  <2>3. offset + (Known + i) = offset + Known + i
    BY <1>1, <2>1, <1>0
  <2>4. received - size + (Known + i) - 1 = received - (size - Known) + i - 1
    <3>1. received \in Nat /\ size \in Nat /\ Known \in Nat /\ i \in Nat
      BY <1>1, <2>1, <1>0
    <3> QED
      BY <3>1, Shifted
  <2> QED
    BY <2>2, <2>3, <2>4
<1>8. InStep'
  <2>1. d + 1 \in 1..Len(wire) /\ d \in 0..Len(wire)
    BY <1>1, <1>0
  <2>2. /\ EndOf(d + 1) = EndOf(d) + Known /\ EndOf(d) \in Nat
        /\ received - size = EndOf(d)
    <3>1. EndOf(d + 1) = EndOf((d + 1) - 1) + RecordSize(d + 1)
      BY <2>1, Stream DEF ReaderInv
    <3>2. (d + 1) - 1 = d
      BY <1>0
    <3>3. EndOf(d) \in Nat
      BY <2>1, Stream DEF ReaderInv
    <3> QED
      BY <1>1, <3>1, <3>2, <3>3 DEF ReaderInv, InStep
  <2>3. received - (size - Known) = EndOf(d + 1)
    BY <1>1, <2>2, <1>0
  <2> QED
    BY <1>2, <1>4, <2>3 DEF InStep, EndOf
<1>9. RecordsWhole'
  <2> SUFFICES /\ d + 1 <= Len(wire)
               /\ \A i \in 1..(d + 1) :
                    RecordSize(i) <= MaxLength => delivered'[i] = RecordSize(i)
    BY <1>2, <1>4 DEF RecordsWhole, RecordSize, EndOf
  <2>1. d + 1 <= Len(wire)
    BY <1>1, <1>0
  <2>2. \A i \in 1..d :
          RecordSize(i) <= MaxLength => delivered'[i] = RecordSize(i)
    BY <1>4 DEF ReaderInv, RecordsWhole
  <2>3. RecordSize(d + 1) <= MaxLength => delivered'[d + 1] = RecordSize(d + 1)
    BY <1>1, <1>3, <1>4
  <2>4. \A i \in 1..(d + 1) : i \in 1..d \/ i = d + 1
    BY <1>0
  <2> QED
    BY <2>1, <2>2, <2>3, <2>4
<1>10. MessageIsNext' /\ ReadsWithinRecord'
  BY <1>2 DEF MessageIsNext, ReadsWithinRecord
<1>11. received' <= arrived' /\ arrived' <= StreamSize'
  BY <1>2 DEF ReaderInv, StreamSize, EndOf
<1> QED
  BY <1>5, <1>6, <1>7, <1>8, <1>9, <1>10, <1>11 DEF ReaderInv

LEMMA ReadDoneStep ==
  ASSUME ReaderInv, NEW n \in 1..Len(buffer), ReadDone(n)
  PROVE  ReaderInv'
<1> DEFINE Byte == Nat \cup {Unwritten}
           filled == [i \in 1..Len(buffer) |->
                        IF i \in (offset + size + 1)..(offset + size + n)
                        THEN received + (i - offset - size) - 1 ELSE buffer[i]]
<1>0. /\ Len(wire) \in Nat /\ Len(buffer) \in Nat /\ Len(delivered) \in Nat
      /\ offset \in Nat /\ size \in Nat /\ message \in Nat /\ wanted \in Nat
      /\ arrived \in Nat /\ received \in Nat /\ StreamSize \in Nat
      /\ offset + size <= Len(buffer) /\ Len(delivered) <= Len(wire)
      /\ Header \in Nat /\ Header > 0
  BY Numbers
<1>1. /\ n \in Nat /\ received + n <= arrived /\ offset + size + n <= Len(buffer)
  BY <1>0 DEF ReadDone, Min2
<1>2. /\ buffer' = filled
      /\ received' = received + n /\ size' = size + n
      /\ phase' \in {"parse", "ended"} /\ told' \in BOOLEAN
      /\ UNCHANGED <<wire, arrived, finished, offset, message, running, wanted,
                     delivered>>
  BY DEF ReadDone, WriteBehind, streamVars, ReaderInv, TypeOK
<1>3. filled \in [1..Len(buffer) -> Byte]
  <2>1. \A i \in (offset + size + 1)..(offset + size + n) :
          received + (i - offset - size) - 1 \in Nat
    BY <1>1, <1>0
  <2>2. \A i \in 1..Len(buffer) : buffer[i] \in Byte
    BY DEF ReaderInv, TypeOK
  <2> QED
    BY <2>1, <2>2
<1>4. \A i \in 1..(size + n) : filled[offset + i] = received - size + i - 1
  <2> TAKE i \in 1..(size + n)
  <2>1. offset + i \in 1..Len(buffer) /\ i \in Nat
    BY <1>1, <1>0
  <2>2. CASE i <= size
    <3>1. offset + i \notin (offset + size + 1)..(offset + size + n)
      BY <1>1, <2>1, <2>2, <1>0
    <3>2. buffer[offset + i] = received - size + i - 1
      <4>1. i \in 1..size
        BY <2>1, <2>2, <1>0
      <4> QED
        BY <4>1 DEF ReaderInv, BufferHoldsStream
    <3> QED
      BY <2>1, <3>1, <3>2
  <2>3. CASE i > size
    <3>1. offset + i \in (offset + size + 1)..(offset + size + n)
      BY <1>1, <2>1, <2>3, <1>0
    <3>2. filled[offset + i] = received + ((offset + i) - offset - size) - 1
      BY <2>1, <3>1
    <3>3. received + ((offset + i) - offset - size) - 1 = received - size + i - 1
      <4>1. received \in Nat /\ offset \in Nat /\ size \in Nat /\ i \in Nat
        BY <2>1, <1>0
      <4> QED
        BY <4>1, Shifted
    <3> QED
      BY <3>2, <3>3
  <2> QED
    BY <2>1, <2>2, <2>3, <1>0
<1> HIDE DEF filled, Byte
<1>5. buffer' \in Seq(Byte) /\ Len(buffer') = Len(buffer)
  BY <1>2, <1>3, FunctionIsSeq, <1>0
<1>6. TypeOK'
  BY <1>1, <1>2, <1>5, <1>0 DEF ReaderInv, TypeOK, Byte
<1>7. BufferInBounds'
  BY <1>1, <1>2, <1>5, <1>0 DEF BufferInBounds
<1>8. BufferHoldsStream'
  <2>1. received' - size' = received - size
    BY <1>1, <1>2, <1>0
  <2> QED
    BY <1>2, <1>4, <2>1 DEF BufferHoldsStream
<1>9. InStep'
  <2>1. received' - size' = received - size
    BY <1>1, <1>2, <1>0
  <2> QED
    BY <1>2, <2>1 DEF ReaderInv, InStep, EndOf
<1>10. RecordsWhole' /\ MessageIsNext' /\ ReadsWithinRecord'
  BY <1>2 DEF ReaderInv, RecordsWhole, MessageIsNext, ReadsWithinRecord,
              RecordSize, EndOf
<1>11. received' <= arrived' /\ arrived' <= StreamSize'
  BY <1>1, <1>2 DEF ReaderInv, StreamSize, EndOf
<1> QED
  BY <1>6, <1>7, <1>8, <1>9, <1>10, <1>11 DEF ReaderInv

LEMMA StepInv == ReaderInv /\ [Next]_vars => ReaderInv'
<1> SUFFICES ASSUME ReaderInv, [Next]_vars PROVE ReaderInv'
  OBVIOUS
<1>1. CASE Network
  BY <1>1, NetworkStep
<1>2. CASE Start \/ Stop \/ Break
  BY <1>2, ControlStep
<1>3. CASE Loop
  BY <1>3, DeliverStep, NeedMoreStep DEF Loop
<1>4. CASE Completion
  BY <1>4, ControlStep, ReadDoneStep DEF Completion
<1>5. CASE UNCHANGED vars
  <2>1. TypeOK'
    BY <1>5 DEF vars, ReaderInv, TypeOK
  <2> QED
    BY <1>5, <2>1, QuietStep DEF vars, bufferVars, ReaderInv
<1> QED
  BY <1>1, <1>2, <1>3, <1>4, <1>5 DEF Next

LEMMA Invariant == Spec => []ReaderInv
BY InitInv, StepInv, PTL DEF Spec

-----------------------------------------------------------------------------
(* Theorems *)

(* The reader stays within its types; no size ever gets negative, which an *)
(* unsigned one of the code would turn into a huge one.                    *)
THEOREM TypeCorrect == Spec => []TypeOK
<1>1. ReaderInv => TypeOK
  BY DEF ReaderInv
<1> QED
  BY <1>1, Invariant, PTL

(* No read and no record reaches beyond the end of buffer_.                *)
THEOREM BufferNeverOverrun == Spec => []BufferInBounds
<1>1. ReaderInv => BufferInBounds
  BY DEF ReaderInv
<1> QED
  BY <1>1, Invariant, PTL

(* Growing, moving and resetting keep the bytes that are not handed over.  *)
THEOREM NoByteIsLost == Spec => []BufferHoldsStream
<1>1. ReaderInv => BufferHoldsStream
  BY DEF ReaderInv
<1> QED
  BY <1>1, Invariant, PTL

(* The loop always stands at a record's first byte, and what the handler   *)
(* was given are the first records of the stream, whole and in order.      *)
THEOREM RecordsAreWhole == Spec => [](InStep /\ RecordsWhole)
<1>1. ReaderInv => InStep /\ RecordsWhole
  BY DEF ReaderInv
<1> QED
  BY <1>1, Invariant, PTL

(* A read never insists on bytes of the record after the incomplete one.   *)
THEOREM ReadsStayInRecord == Spec => []ReadsWithinRecord
<1>1. ReaderInv => ReadsWithinRecord
  BY DEF ReaderInv
<1> QED
  BY <1>1, Invariant, PTL
=============================================================================
