------------------------------ MODULE TlsCodec ------------------------------
(***************************************************************************)
(* The encoder and the decoder together: a record of one message that the  *)
(* encoder wrote is given to a handler.                                    *)
(***************************************************************************)
EXTENDS TlsDecoder, TlsEncoder

CONSTANT Sent \* messages that are encoded

ASSUME SentAssumption == \A m \in Sent : IsMessage(m) /\ Encodable(m)

(* Decoding finds what the encoder wrote, with every vector and extension, *)
(* and the whole of it: what the policy looks at is what the peers mean.   *)
RoundTrip ==
  \A m \in Sent :
    record = Encode(TLS_1_2, m) =>
      /\ step \notin {"bad", "refused"}
      /\ step = "good" => messages = <<m>>
=============================================================================
