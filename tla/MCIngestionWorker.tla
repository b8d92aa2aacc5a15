-------------------------- MODULE MCIngestionWorker --------------------------
(* A landing tree with an archive of two members that may be half copied,   *)
(* and a document of which half cannot be parsed.                           *)
EXTENDS IngestionWorker, TLC

MCReads ==
  (<<1, "half">>  :> [jobs |-> <<>>, end |-> "invalid", refused |-> 4]) @@
  (<<1, "whole">> :> [jobs |-> <<1, 2>>, end |-> "taken", refused |-> 5]) @@
  (<<2, "half">>  :> [jobs |-> <<>>, end |-> "raises", refused |-> 0]) @@
  (<<2, "whole">> :> [jobs |-> <<3>>, end |-> "taken", refused |-> 0])
=============================================================================
