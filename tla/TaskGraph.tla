----------------------------- MODULE TaskGraph ------------------------------
(***************************************************************************)
(* What play_in_action of hood-actor.py asks of its executor: every node   *)
(* of a graph of tasks is run once, after all nodes it waits for, and the  *)
(* caller goes on when the last has been run.                              *)
(***************************************************************************)
EXTENDS Naturals

VARIABLES edges,  \* pairs of nodes: the second waits for the first
          begun,  \* per node: how often it was begun
          ended,  \* the set of those that are over
          over    \* the caller goes on

vars == <<edges, begun, ended, over>>

Nodes == {e[1] : e \in edges} \cup {e[2] : e \in edges}

Init == begun = [n \in Nodes |-> 0] /\ ended = {} /\ over = FALSE

Begin(n) == /\ begun[n] = 0
            /\ \A e \in edges : e[2] = n => e[1] \in ended
            /\ begun' = [begun EXCEPT ![n] = 1]
            /\ UNCHANGED <<edges, ended, over>>

End(n) == /\ begun[n] = 1 /\ n \notin ended
          /\ ended' = ended \cup {n}
          /\ UNCHANGED <<edges, begun, over>>

GoOn == /\ ended = Nodes
        /\ over' = TRUE
        /\ UNCHANGED <<edges, begun, ended>>

Next == (\E n \in Nodes : Begin(n) \/ End(n)) \/ GoOn

Spec == Init /\ [][Next]_vars
=============================================================================
