---------------------------- MODULE ReportStream ----------------------------
(***************************************************************************)
(* What a stream of acknowledged event reports promises, with no session,  *)
(* no frames and no handshake in sight: the equipment reports a fixed      *)
(* sequence of results one at a time, the host records each of them in     *)
(* that order, and neither side is ever more than one result ahead of the  *)
(* other.  Either side may give up at any moment.                          *)
(***************************************************************************)
EXTENDS Integers, Sequences

CONSTANT Result  \* what one report carries

VARIABLES
  results,      \* the sequence the equipment reports
  recorded,     \* results the host has recorded, in order
  acked,        \* how many results the equipment knows to be received
  hostEnd, equipEnd

vars == <<results, recorded, acked, hostEnd, equipEnd>>

End == {"running", "done", "failed"}

TypeOK ==
  /\ \E k \in 0 .. Len(results) : recorded = SubSeq(results, 1, k)
  /\ acked \in 0 .. Len(results)
  /\ hostEnd \in End
  /\ equipEnd \in End

Init ==
  /\ results \in Seq(Result)
  /\ recorded = <<>>
  /\ acked = 0
  /\ hostEnd = "running"
  /\ equipEnd = "running"

\* The host records the next result: the first one, or the one after a
\* result the equipment knows to be received.
Record ==
  /\ hostEnd = "running"
  /\ Len(recorded) < Len(results)
  /\ Len(recorded) <= acked
  /\ recorded' = Append(recorded, results[Len(recorded) + 1])
  /\ UNCHANGED <<results, acked, hostEnd, equipEnd>>

HostFinishes ==
  /\ hostEnd = "running"
  /\ Len(recorded) = Len(results)
  /\ hostEnd' = "done"
  /\ UNCHANGED <<results, recorded, acked, equipEnd>>

\* The equipment learns that the host has received its current result; the
\* host may be about to record it.
Acknowledge ==
  /\ equipEnd = "running"
  /\ acked < Len(results)
  /\ acked <= Len(recorded)
  /\ acked' = acked + 1
  /\ UNCHANGED <<results, recorded, hostEnd, equipEnd>>

EquipFinishes ==
  /\ equipEnd = "running"
  /\ acked = Len(results)
  /\ equipEnd' = "done"
  /\ UNCHANGED <<results, recorded, acked, hostEnd>>

HostFails ==
  /\ hostEnd = "running"
  /\ hostEnd' = "failed"
  /\ UNCHANGED <<results, recorded, acked, equipEnd>>

EquipFails ==
  /\ equipEnd = "running"
  /\ equipEnd' = "failed"
  /\ UNCHANGED <<results, recorded, acked, hostEnd>>

Next ==
  \/ Record \/ HostFinishes \/ HostFails
  \/ Acknowledge \/ EquipFinishes \/ EquipFails

Spec == Init /\ [][Next]_vars
=============================================================================
