--------------------------- MODULE MCHttpHandler ---------------------------
EXTENDS HttpHandler

(* "crl" has a blacklisted address and a good one, "ocsp" is an alias or   *)
(* has an address that is too short.                                       *)
MCZone ==
  [n \in Names |->
     CASE n = "crl" -> {{"9.9.9.9", "23.1.2.3"}}
       [] n = "ocsp" -> {{"crl"}, {"1.1.1.1"}}
       [] OTHER -> {}]

(* The second caller gives up after one query.                             *)
MCAttempts == [c \in Callers |-> IF c = 1 THEN 3 ELSE 2]

(* The first is a connection of the http handler, the second of expose.    *)
MCHeads == [c \in Callers |->
              IF c = 1 THEN {<<"crl">>, <<"9.9.9.9">>, <<"evil">>, <<"site">>, <<>>}
              ELSE {<<"ocsp">>, <<"evil">>, <<"localhost">>, <<"23.1.2.3">>}]

MCChunks == [c \in Callers |-> IF c = 1 THEN 1 ELSE 0]

=============================================================================
