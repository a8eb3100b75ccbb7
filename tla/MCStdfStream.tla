---------------------------- MODULE MCStdfStream ----------------------------
(* Model-checking values for StdfStream. *)
EXTENDS StdfStream

\* A record with no body (BPS, EPS), one that is read as another and one that
\* cannot be read (a PTR without a scaling, or without a limit, that its flags
\* do not announce), and one too long.
MCBodyLengthOf == [empty |-> 0, changed |-> 1, refused |-> 1, long |-> 4]
MCReadsAs ==
  [empty |-> "itself", changed |-> "another", refused |-> "nothing", long |-> "itself"]
MCNames == DOMAIN MCBodyLengthOf
=============================================================================
