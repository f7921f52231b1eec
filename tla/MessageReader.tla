--------------------------- MODULE MessageReader ---------------------------
(***************************************************************************)
(* MessageReader::DoReadStream of message_reader.hpp: a byte stream is cut *)
(* into records, each a header that holds the length of what follows it.   *)
(*                                                                         *)
(* A byte is its position in the stream, so that the buffer says which     *)
(* bytes it holds and where; a position that is no record's first byte     *)
(* would be decoded as a header of length 0.  The handler is the one of    *)
(* tls::Context, which always returns NextStep::Read; it may call Stop.    *)
(***************************************************************************)
EXTENDS Integers, Sequences

CONSTANTS Header,     \* sizeof(RawMessageType), 5 for TLS
          MaxLength,  \* MaxValueOfType<message_length>, 65535
          Wires       \* the streams a peer may send, each the sequence of
                      \* the positions behind its records

(* The position behind the first k records of w.                           *)
End(w, k) == IF k = 0 THEN 0 ELSE w[k]

ASSUME ReaderAssumption ==
  /\ Header \in Nat \ {0}
  /\ MaxLength \in Nat
  /\ Wires \subseteq Seq(Nat)
  /\ \A w \in Wires :
       /\ \A j \in 1..Len(w), i \in 0..Len(w) : i < j => End(w, i) < End(w, j)
       /\ \A i \in 1..Len(w) :
            End(w, i) - End(w, i - 1) \in Header..(Header + MaxLength)

VARIABLES wire,      \* what this peer sends
          arrived,   \* bytes of it that have reached the socket
          finished,  \* the peer has closed its direction
          received,  \* bytes that have been read into the buffer
          buffer,    \* buffer_, a position of the stream per byte
          offset,    \* data_offset_
          size,      \* data_size_
          message,   \* tcp_message_size_
          running,   \* status_ == Status::RUNNING
          phase,     \* "idle", "parse", "read" or "ended"
          wanted,    \* transfer_at_least of the running async_read
          delivered, \* history: the data_size of each NEW_MESSAGE
          told       \* history: the context called Stop or got a reason to

streamVars == <<wire, arrived, finished>>
bufferVars == <<buffer, offset, size>>
vars == <<wire, arrived, finished, received, buffer, offset, size, message,
          running, phase, wanted, delivered, told>>

Unwritten == -1

Min2(a, b) == IF a < b THEN a ELSE b

-----------------------------------------------------------------------------
(* The stream *)

EndOf(k) == End(wire, k)

RecordSize(i) == EndOf(i) - EndOf(i - 1)

StreamSize == EndOf(Len(wire))

(* The length a header at position p holds.                                *)
LengthAt(p) ==
  IF \E k \in 0..(Len(wire) - 1) : EndOf(k) = p
  THEN LET k == CHOOSE k \in 0..(Len(wire) - 1) : EndOf(k) = p
       IN RecordSize(k + 1) - Header
  ELSE 0

Init == /\ wire \in Wires
        /\ arrived = 0 /\ finished = FALSE
        /\ received = 0
        /\ buffer = <<>> /\ offset = 0 /\ size = 0
        /\ message = 0
        /\ running = FALSE
        /\ phase = "idle"
        /\ wanted = 0
        /\ delivered = <<>>
        /\ told = FALSE

(* The network brings the next n bytes, the peer closes.                   *)
Arrive(n) == /\ ~finished
             /\ arrived + n <= StreamSize
             /\ arrived' = arrived + n
             /\ UNCHANGED <<wire, finished, received, bufferVars, message,
                            running, phase, wanted, delivered, told>>

PeerCloses == /\ ~finished
              /\ arrived = StreamSize
              /\ finished' = TRUE
              /\ UNCHANGED <<wire, arrived, received, bufferVars, message,
                             running, phase, wanted, delivered, told>>

-----------------------------------------------------------------------------
(* Starting a read *)

(* Mutant: the bytes that are there already are asked for again.           *)
ReadSizeAgain(known) == IF known # 0 THEN known ELSE Header

ReadSize(known) == IF known # 0 THEN known - size ELSE Header

(* data_offset_ is reset when the buffer is empty.                         *)
StartOffset == IF size = 0 THEN 0 ELSE offset

Available == Len(buffer) - StartOffset - size

(* Mutant: data_offset_ is reset but the bytes stay where they are.        *)
ForgetToMove(readSize) ==
  /\ Available < readSize
  /\ StartOffset + Available > readSize
  /\ offset' = 0
  /\ UNCHANGED buffer

(* memmove of the data to the front.                                       *)
MoveToFront(readSize) ==
  /\ Available < readSize
  /\ StartOffset + Available > readSize
  /\ offset' = 0
  /\ buffer' = [i \in 1..Len(buffer) |->
                  IF i <= size THEN buffer[StartOffset + i] ELSE buffer[i]]

(* Mutant: the buffer grows by one byte less than is missing.              *)
EnlargeShort(readSize) ==
  /\ Available < readSize
  /\ StartOffset + Available <= readSize
  /\ offset' = StartOffset
  /\ buffer' = buffer \o [i \in 1..(readSize - Available - 1) |-> Unwritten]

Enlarge(readSize) ==
  /\ Available < readSize
  /\ StartOffset + Available <= readSize
  /\ offset' = StartOffset
  /\ buffer' = buffer \o [i \in 1..(readSize - Available) |-> Unwritten]

Fits(readSize) ==
  /\ Available >= readSize
  /\ offset' = StartOffset
  /\ UNCHANGED buffer

(* As in a release build.  A debug build also asserts that read_size is    *)
(* less than the largest length: it aborts where a header arrived alone    *)
(* and announces just that length.                                         *)
StartRead(known) ==
  /\ \/ MoveToFront(ReadSize(known))
     \/ Enlarge(ReadSize(known))
     \/ Fits(ReadSize(known))
  /\ message' = known
  /\ wanted' = ReadSize(known)
  /\ phase' = "read"
  /\ UNCHANGED <<streamVars, received, size, running, delivered, told>>

-----------------------------------------------------------------------------
(* The loop over the buffered records; one step is one iteration.          *)

(* tcp_message_size_, once enough of the header is there to know it.       *)
Known == IF message # 0 THEN message
         ELSE IF size < Header THEN 0
         ELSE Header + LengthAt(buffer[offset + 1])

NeedMore == /\ phase = "parse"
            /\ Known = 0 \/ size < Known
            /\ StartRead(Known)

(* Mutant: the size is handed over in a byte too few.                      *)
PassedNarrow(n) == n % ((MaxLength + 1) \div 2)

(* The handler's data_size is a uint16_t.                                  *)
Passed(n) == n % (MaxLength + 1)

(* Mutant: data_size_ is not reduced.                                      *)
DeliverKeepingSize ==
  /\ phase = "parse"
  /\ Known # 0 /\ size >= Known
  /\ delivered' = Append(delivered, Passed(Known))
  /\ offset' = offset + Known
  /\ message' = 0
  /\ UNCHANGED <<streamVars, received, buffer, size, running, phase, wanted,
                 told>>

(* The handler gets a whole record.  The loop does not look at status_: it *)
(* goes on when the handler has called Stop.                               *)
Deliver ==
  /\ phase = "parse"
  /\ Known # 0 /\ size >= Known
  /\ delivered' = Append(delivered, Passed(Known))
  /\ size' = size - Known
  /\ offset' = offset + Known
  /\ message' = 0
  /\ UNCHANGED <<streamVars, received, buffer, running, phase, wanted, told>>

-----------------------------------------------------------------------------
(* Start, Stop and the completion of a read *)

Start == /\ phase = "idle" /\ ~running
         /\ running' = TRUE
         /\ phase' = "parse"
         /\ UNCHANGED <<streamVars, received, bufferVars, message, wanted,
                        delivered, told>>

(* Called by Context::Stop, which closes the stream at the same time.      *)
Stop == /\ running
        /\ running' = FALSE
        /\ told' = TRUE
        /\ UNCHANGED <<streamVars, received, bufferVars, message, phase,
                       wanted, delivered>>

WriteBehind(n) ==
  buffer' = [i \in 1..Len(buffer) |->
               IF i \in (offset + size + 1)..(offset + size + n)
               THEN received + (i - offset - size) - 1 ELSE buffer[i]]

(* transfer_at_least(wanted) into all the free space behind the data.      *)
ReadDone(n) ==
  /\ phase = "read"
  /\ n >= wanted
  /\ n <= Min2(arrived - received, Len(buffer) - offset - size)
  /\ WriteBehind(n)
  /\ received' = received + n
  /\ size' = size + n
  /\ IF running THEN phase' = "parse" /\ UNCHANGED told
                ELSE phase' = "ended" /\ told' = TRUE
  /\ UNCHANGED <<streamVars, offset, message, running, wanted, delivered>>

(* Too few bytes before the end of the stream: nobody is told.             *)
ReadEof ==
  /\ phase = "read"
  /\ finished /\ arrived - received < wanted
  /\ phase' = "ended"
  /\ running' = FALSE
  /\ UNCHANGED <<streamVars, received, bufferVars, message, wanted, delivered,
                 told>>

(* The stream was closed while the read was running, or before it started, *)
(* or the connection broke.                                                *)
ReadCancelled ==
  /\ phase = "read" /\ ~running
  /\ phase' = "ended"
  /\ UNCHANGED <<streamVars, received, bufferVars, message, running, wanted,
                 delivered, told>>

ReadFailed ==
  /\ phase = "read"
  /\ phase' = "ended"
  /\ told' = TRUE
  /\ running' = FALSE
  /\ UNCHANGED <<streamVars, received, bufferVars, message, wanted, delivered>>

Network == PeerCloses \/ \E n \in 1..StreamSize : Arrive(n)
Loop == Deliver \/ NeedMore
Completion == ReadEof \/ \E n \in 1..Len(buffer) : ReadDone(n)
Break == ReadCancelled \/ ReadFailed

Next == Network \/ Start \/ Loop \/ Stop \/ Completion \/ Break

Spec == Init /\ [][Next]_vars

(* The peer sends what it has to send, and what is ready is run.           *)
FairSpec == /\ Spec
            /\ WF_vars(Network) /\ WF_vars(Start)
            /\ WF_vars(Loop) /\ WF_vars(Completion)

-----------------------------------------------------------------------------
(* Properties *)

TypeOK == /\ wire \in Wires
          /\ arrived \in Nat /\ received \in Nat /\ finished \in BOOLEAN
          /\ buffer \in Seq(Nat \cup {Unwritten})
          /\ offset \in Nat /\ size \in Nat /\ message \in Nat
          /\ wanted \in Nat
          /\ running \in BOOLEAN /\ told \in BOOLEAN
          /\ phase \in {"idle", "parse", "read", "ended"}
          /\ delivered \in Seq(Nat)

(* No access outside the vector: the data lies within the buffer and the   *)
(* space a read is given is the rest of it, large enough for what it must  *)
(* bring (the sizes are unsigned: a negative one would be a huge one).     *)
BufferInBounds ==
  /\ offset + size <= Len(buffer)
  /\ phase = "read" => /\ wanted > 0
                       /\ offset + size + wanted <= Len(buffer)

(* The data in the buffer is the unconsumed part of the stream, in order   *)
(* and without a gap, through growing, moving and resetting.               *)
BufferHoldsStream ==
  \A i \in 1..size : buffer[offset + i] = received - size + i - 1

(* The loop always stands at the first byte of a record.                   *)
InStep == received - size = EndOf(Len(delivered))

(* Records are handed over whole and in order, with their size if it fits  *)
(* the handler's argument.                                                 *)
RecordsWhole ==
  /\ Len(delivered) <= Len(wire)
  /\ \A i \in DOMAIN delivered :
       RecordSize(i) <= MaxLength => delivered[i] = RecordSize(i)

(* read_size is sizeof(RawMessageType) even if part of the next header is  *)
(* in the buffer, so only records of this size leave the reader in step.   *)
LongRecords == \A i \in DOMAIN wire : RecordSize(i) >= 2 * Header - 1

(* No read insists on bytes of the record after the one that is incomplete:*)
(* those may depend on the answer to this one.                             *)
ReadsWithinRecord ==
  LongRecords /\ phase = "read" /\ Len(delivered) < Len(wire) =>
    size + wanted <= RecordSize(Len(delivered) + 1)

(* All that the peer sends is handed over, unless the context has called   *)
(* Stop or was given a reason to.                                          *)
EveryRecordDelivered ==
  LongRecords => <>(Len(delivered) = Len(wire) \/ told)
=============================================================================
