------------------------- MODULE MCOutcomeExchange -------------------------
(* Model-checking values for OutcomeExchange. *)
EXTENDS OutcomeExchange

\* A report of an older minor that can be read, one of a newer major, one with
\* a number that is not finite, and one whose owner does not share it.
MCConsent ==
  [report \in Reports |->
     IF report = "private" THEN "NoSharing" ELSE "AggregatedContribution"]
MCSupported == [major |-> 0, minor |-> 1]
MCVersion ==
  [report \in Reports |-> [major |-> IF report = "newer" THEN 1 ELSE 0, minor |-> 0]]
=============================================================================
