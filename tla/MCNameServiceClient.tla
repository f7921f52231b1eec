------------------------ MODULE MCNameServiceClient ------------------------
(* Instances of NameServiceClient for TLC.                                 *)
EXTENDS NameServiceClient

CONSTANTS host, long
=============================================================================
