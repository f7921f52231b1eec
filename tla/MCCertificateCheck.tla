------------------------- MODULE MCCertificateCheck -------------------------
(* Instances of CertificateCheck for TLC.                                  *)
EXTENDS CertificateCheck

CONSTANTS r1, r2, a, b, aProxy, bProxy, x, y

(* The hosts whose lookups may end at their ".hood-proxy" names.           *)
MCFallback == [n \in Names |-> CASE n = a /\ aProxy \in Names -> aProxy
                                 [] n = b /\ bProxy \in Names -> bProxy
                                 [] OTHER -> NoName]
=============================================================================
