----------------------------- MODULE HostTrust -----------------------------
(***************************************************************************)
(* What the certificate check of hood-tls-proxy promises to its caller,    *)
(* tls::Context: CheckCertificateOf(host, port, handler) calls the handler *)
(* at most once, with endpoints each of which a worker has vouched for     *)
(* under that very host name, or with none at all when the check gave up.  *)
(* Everybody who waits for the same host is served together, by the first  *)
(* endpoint that is vouched for.  Caching, name resolution and workers do  *)
(* not appear here; module CertificateCheck implements this specification. *)
(***************************************************************************)
EXTENDS Sequences

CONSTANTS Requests,   \* calls of CheckCertificateOf
          Names,      \* host names
          Endpoints,  \* remote address and port
          NoName      \* "not called yet"

VARIABLES host,       \* the name each request asks for
          answers,    \* what each request's handler was called with, in order
          vouched     \* the endpoints vouched for so far, per name

vars == <<host, answers, vouched>>

Init == /\ host = [r \in Requests |-> NoName]
        /\ answers = [r \in Requests |-> <<>>]
        /\ vouched = [n \in Names |-> {}]

Waiting(n) == {r \in Requests : host[r] = n /\ answers[r] = <<>>}

Answer(R, endpoints) ==
  answers' = [r \in Requests |-> IF r \in R THEN Append(answers[r], endpoints)
                                            ELSE answers[r]]

(* A request joins the others, or is served at once from what is known, or *)
(* refused at once when its name cannot even be asked for.                 *)
Ask(r, n) ==
  /\ host[r] = NoName
  /\ host' = [host EXCEPT ![r] = n]
  /\ \/ UNCHANGED answers
     \/ \E known \in SUBSET vouched[n] : Answer({r}, known)
  /\ UNCHANGED vouched

(* An endpoint is vouched for and everybody waiting for the name learns it.*)
Vouch(n, e) ==
  /\ vouched' = [vouched EXCEPT ![n] = @ \cup {e}]
  /\ \E known \in SUBSET vouched'[n] : e \in known /\ Answer(Waiting(n), known)
  /\ UNCHANGED host

(* The check of a name ends without an endpoint.                           *)
GiveUp(n) ==
  /\ Answer(Waiting(n), {})
  /\ UNCHANGED <<host, vouched>>

Next == \E n \in Names : \/ \E r \in Requests : Ask(r, n)
                         \/ \E e \in Endpoints : Vouch(n, e)
                         \/ GiveUp(n)

Spec == Init /\ [][Next]_vars
=============================================================================
