---------------------------- MODULE MCTlsContext ----------------------------
(* Instances of TlsContext for TLC.                                        *)
EXTENDS TlsContext

CONSTANTS a, b

Hello(h) == [kind |-> "hello", host |-> h]
Other(kind) == [kind |-> kind, host |-> NoHost]

ClientRecords == {Hello(a), Hello(b)} \cup
                 {Other(k) : k \in {"ccs", "data", "bad", "empty"}}

(* Two hosts differ in name only: the first hello is for a.                *)
FirstIsA(s) == \A i \in DOMAIN s :
                 s[i] = Hello(b) => \E j \in 1..(i - 1) : s[j] = Hello(a)

(* Every client stream of up to three records.                             *)
ShortClient == {s \in UNION {[1..n -> ClientRecords] : n \in 0..3} : FirstIsA(s)}

(* A handshake with a HelloRetryRequest, and one with a version 1.2 shape. *)
GoodClient == {<<Hello(a), Hello(a), Other("ccs"), Other("data")>>,
               <<Hello(a), Other("data"), Other("ccs"), Other("data")>>}

AnyClient == ShortClient \cup GoodClient \cup
             {<<Hello(a), Other("ccs"), Hello(b), Other("data")>>}

HelloServer == <<Other("hello"), Other("data")>>
LongServer == HelloServer \o <<Other("ccs"), Other("data")>>

(* The records of the first are accepted, as those of HelloServer are.     *)
OddServer == {<<Other("ccs"), Other("bad")>>,
              <<Other("bad"), Other("data")>>,
              <<Other("empty")>>}

Around(clients, servers, failures, polite) ==
  [client : clients, server : servers, failures : {failures}, polite : {polite}]

Failures == {"check", "connect", "read", "write"}

(* Whatever the peers send while everything may fail; the same with a      *)
(* client that waits; and a network without failures.                      *)
AnyWorld == Around(ShortClient, OddServer, Failures, FALSE) \cup
           Around(AnyClient, {HelloServer}, Failures, TRUE) \cup
           Around(AnyClient, {HelloServer, LongServer}, {}, TRUE)

(* A refused ServerHello.                                                  *)
UnsafeAnswer == Around({<<Hello(a)>>}, {<<Other("bad"), Other("data")>>}, {}, TRUE)
=============================================================================
