---------------------------- MODULE OutcomeLedger ----------------------------
(***************************************************************************)
(* What the file exchange promises, with no files, pieces or locks in      *)
(* sight: reports whose owner lets them be shared become public, any       *)
(* report may have been carried in beside the exchange, and an ingestor    *)
(* receives reports that have come in one of these ways and whose schema   *)
(* it knows.  A report may be received any number of times, or never; and  *)
(* where texts got mixed, one that nobody wrote.                           *)
(***************************************************************************)
EXTENDS Sequences

CONSTANTS
  Reports,    \* the reports there are
  Shareable,  \* those whose consent allows transmission
  Readable,   \* those whose schema version the reading side supports
  Garbled     \* what is received in the place of texts that got mixed

VARIABLES
  published,  \* reports their owner has handed over
  carried,    \* reports that have come without being handed over
  received    \* what the ingestor has received, oldest first

vars == <<published, carried, received>>

Init ==
  /\ published = {} /\ carried = {}
  /\ received = <<>>

Publish(report) ==
  /\ report \in Shareable
  /\ published' = published \cup {report}
  /\ UNCHANGED <<carried, received>>

\* Nobody asks whether it may be shared.
Carry(report) ==
  /\ carried' = carried \cup {report}
  /\ UNCHANGED <<published, received>>

Receive(report) ==
  /\ report \in (published \cup carried) \cap Readable
  /\ received' = Append(received, report)
  /\ UNCHANGED <<published, carried>>

\* Texts get mixed only where there are texts.
ReceiveGarbled ==
  /\ published \cup carried # {}
  /\ received' = Append(received, Garbled)
  /\ UNCHANGED <<published, carried>>

Next ==
  \/ \E report \in Shareable : Publish(report)
  \/ \E report \in Reports : Carry(report)
  \/ \E report \in Readable : Receive(report)
  \/ ReceiveGarbled

Spec == Init /\ [][Next]_vars
=============================================================================
