----------------------------- MODULE TlsPolicy -----------------------------
(***************************************************************************)
(* SecurityPolicy of tls_security_policy, and how HandleUserMessage and    *)
(* HandleServerMessage of tls_context.cpp apply it to a decoded record.    *)
(***************************************************************************)
EXTENDS TlsDefinition

lowest_allowed_version == TLS_1_2

(* TLS_ECDHE_{ECDSA,RSA}_WITH_AES_{128,256}_GCM and the three of TLS 1.3.  *)
allowed_cipher_suites ==
  {49195, 49196, 49199, 49200, 4865, 4866, 4867}

CheckCipherSuites(suites) ==
  \E i \in DOMAIN suites : suites[i] \in allowed_cipher_suites

(* HardenVersionsInternal: is there a version that is not below lowest?    *)
HardenVersionsInternal(hello, lowest) ==
  \/ hello.version >= lowest
  \/ \E i \in DOMAIN hello.extensions :
       LET e == hello.extensions[i]
       IN /\ e.type = supported_versions
          /\ \E j \in DOMAIN e.content : e.content[j] >= lowest

(* HardenVersions works on a copy of the message, which is lost, and does  *)
(* not use the answer either.                                              *)
HardenVersions(hello) == TRUE

FirstOf(messages, type) ==
  SelectSeq(messages, LAMBDA m : m.type = type)

(* The verdict on a record of a client that has no server yet: "queue"     *)
(* forwards it, "check" has the certificates of its host checked, "stop"   *)
(* ends the connection.  Only the first ClientHello of a record is looked  *)
(* at.                                                                     *)
UserVerdict(version, messages) ==
  LET hellos == FirstOf(messages, client_hello)
      hello  == Head(hellos).hello
  IN IF version < TLS_1_0 THEN "stop"
     ELSE IF hellos = <<>> THEN "queue"
     ELSE IF /\ HardenVersions(hello)
             /\ CheckCipherSuites(hello.suites)
             /\ FindHostName(hello.extensions) # <<>>
     THEN "check" ELSE "stop"

(* On a record of the server: its version is only looked at when it asks   *)
(* for another hello.                                                      *)
ServerVerdict(version, messages) ==
  LET hellos == FirstOf(messages, server_hello)
      hello  == Head(hellos).hello
  IN IF version < TLS_1_0 THEN "stop"
     ELSE IF hellos = <<>> THEN "queue"
     ELSE IF /\ HelloRetryType(hello.random) # "FOR_UNKNOWN"
             /\ hello.suites[1] \in allowed_cipher_suites
     THEN "queue" ELSE "stop"
=============================================================================
