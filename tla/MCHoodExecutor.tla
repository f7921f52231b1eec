--------------------------- MODULE MCHoodExecutor ---------------------------
(* Instances of HoodExecutor for TLC.                                      *)
EXTENDS HoodExecutor

Names == {"a", "b"}
PerTask(x, y) == [t \in Names |-> IF t = "a" THEN x ELSE y]

Plan(tasks, before, after, actions, delay, resources, raising) ==
  [tasks |-> tasks, before |-> before, after |-> after, actions |-> actions,
   delay |-> delay, resources |-> resources, raising |-> raising]

NoNames == PerTask(<<>>, <<>>)

(* Two actions with a delay, the first of them with a page of one          *)
(* resource, beside a task without actions; two tasks side by side; two in *)
(* sequence, written down on both sides; one whose action may fail.        *)
SomePlans == {
  Plan(<<"a", "b">>, NoNames, NoNames, PerTask(2, 0), PerTask(TRUE, FALSE),
       PerTask(<<1, 0>>, <<>>), FALSE),
  Plan(<<"a", "b">>, NoNames, NoNames, PerTask(1, 1), PerTask(FALSE, FALSE),
       PerTask(<<0>>, <<1>>), FALSE),
  Plan(<<"b", "a">>, PerTask(<<"b">>, <<>>), PerTask(<<>>, <<"a">>),
       PerTask(1, 1), PerTask(TRUE, TRUE), PerTask(<<0>>, <<0>>), FALSE),
  Plan(<<"a", "b">>, NoNames, NoNames, PerTask(0, 1), PerTask(FALSE, TRUE),
       PerTask(<<>>, <<1>>), TRUE)}
=============================================================================
