-------------------------- MODULE MCMessageReader --------------------------
(* Instances of MessageReader for TLC: a header of two bytes whose length  *)
(* field counts up to 7.                                                   *)
EXTENDS MessageReader

(* Records from a bare header to one byte more than the size type holds.   *)
Sizes == {2, 3, 5, 8}

AnyWires == {<<a, a + b, a + b + c>> : a, b, c \in Sizes}
=============================================================================
