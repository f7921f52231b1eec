--------------------------- MODULE LookupContract ---------------------------
(***************************************************************************)
(* What CertificateCheck may rely on when it calls name_service::Resolve:  *)
(* the handler is called at least once and at most MaxCallbacks times, and *)
(* then never again.                                                       *)
(***************************************************************************)
EXTENDS Naturals

CONSTANT MaxCallbacks

VARIABLES stage,   \* "idle", "running" or "over"
          calls    \* how often the handler has been called

vars == <<stage, calls>>

Init == stage = "idle" /\ calls = 0

Begin == /\ stage = "idle"
         /\ stage' = "running"
         /\ UNCHANGED calls

(* Refused at once: the handler is called before Resolve returns.          *)
Refuse == /\ stage = "idle"
          /\ stage' = "over"
          /\ calls' = 1

Callback == /\ stage = "running"
            /\ calls < MaxCallbacks
            /\ calls' = calls + 1
            /\ stage' \in {"running", "over"}

Next == Begin \/ Refuse \/ Callback

Spec == Init /\ [][Next]_vars /\ WF_vars(Callback)
=============================================================================
