------------------------------ MODULE WaferRun ------------------------------
(***************************************************************************)
(* A wafer run over HSMS: the simulated tester's thread,                   *)
(* SimulatedTester::run_wafer_over_hsms (src/tpt-ate-test/src/sim.rs), and *)
(* the host thread that collects its event reports (the flow of            *)
(* src/tpt-ate-test/tests/phase1_milestone.rs).                            *)
(*                                                                         *)
(* A die is its coordinate; the outcome of a die is whether it passed.     *)
(* Every key of WaferDieMap::dies is tested, whatever its DieState.        *)
(***************************************************************************)
EXTENDS GemThreads, SequencesExt

CONSTANTS
  Coords,      \* the coordinates of the wafer's dies, sorted
  AlwaysFail,  \* FaultModel::always_fail
  CoordMod     \* number of wire values of a coordinate (2^16)

ASSUME WaferAssumption ==
  /\ Coords \in Seq(Int)
  /\ \A i, j \in DOMAIN Coords : i < j => Coords[i] < Coords[j]
  /\ CoordMod \in Nat \ {0}

VARIABLES
  acked,      \* reports whose send_event_report has returned Ok
  recorded,   \* history: the reports the host has acted on, in order
  collected   \* gem_results: the host's map from coordinate to outcome

vars == <<sessionVars, threadVars, acked, recorded, collected>>
runVars == <<acked, recorded, collected>>

----------------------------------------------------------------------------
(* Reports                                                                 *)

Passed(coord) == coord \notin AlwaysFail

\* encode_die_report sends the coordinate as u16; decode_die_report takes
\* what it finds.
WireCoord(coord) == coord % CoordMod

DieReport(coord) == <<"DIE_TESTED", WireCoord(coord), Passed(coord)>>
WaferDone == <<"WAFER_DONE">>

\* What the equipment reports after k acknowledged reports.
ReportAfter(k) == IF k < Len(Coords) THEN DieReport(Coords[k + 1]) ELSE WaferDone

AllReports == [i \in 1 .. Len(Coords) + 1 |-> ReportAfter(i - 1)]

ASSUME PayloadAssumption == \A i \in DOMAIN AllReports : AllReports[i] \in Payload
ASSUME DrawsAssumption == MaxDraws >= Len(Coords) + Len(Handshake) + 1

Init ==
  /\ ThreadInit
  /\ acked = 0
  /\ recorded = <<>>
  /\ collected = [coord \in {} |-> FALSE]

----------------------------------------------------------------------------
(* The equipment: one event report per die, then WAFER_DONE                *)

EquipReports ==
  /\ \/ EquipConnected
     \/ at[Equip] = "acknowledged" /\ acked <= Len(Coords)
  /\ Reports(ReportAfter(acked))
  /\ UNCHANGED <<shaken, served, panics>>
  /\ UNCHANGED runVars

\* send_event_report returns Ok.
EquipAcknowledged ==
  /\ Acknowledged
  /\ acked' = acked + 1
  /\ Moves(Equip, "acknowledged")
  /\ UNCHANGED <<sessionVars, shaken, served, panics, recorded, collected>>

\* Variant for a sensitivity check: the run ends without WAFER_DONE.
FinishesEarly ==
  /\ at[Equip] = "acknowledged"
  /\ acked = Len(Coords)
  /\ Ends(Equip, "done")
  /\ UNCHANGED <<shaken, served, panics>>
  /\ UNCHANGED runVars

EquipFinishes ==
  /\ at[Equip] = "acknowledged"
  /\ acked = Len(Coords) + 1
  /\ Ends(Equip, "done")
  /\ UNCHANGED <<shaken, served, panics>>
  /\ UNCHANGED runVars

----------------------------------------------------------------------------
(* The host: receive_event_report() until WAFER_DONE                       *)

\* receive_event_report skips what it is served that is no S6F11.
Skips == at[Host] = "receive" /\ Ok(Host) /\ Returned(Host).function # 11

HostReceives ==
  /\ \/ HostConnected
     \/ at[Host] = "recorded" /\ Last(recorded) # WaferDone
     \/ Skips
  /\ Hsms!ServeOne(Host)
  /\ Moves(Host, "receive")
  /\ UNCHANGED <<shaken, served, panics>>
  /\ UNCHANGED runVars

\* A die's outcome goes into gem_results; WAFER_DONE sets wafer_done_seen.
HostRecords(report) ==
  /\ at[Host] = "receive"
  /\ Receives(report)
  /\ recorded' = Append(recorded, report)
  /\ collected' = IF report = WaferDone THEN collected
                  ELSE [c \in DOMAIN collected \cup {report[2]} |->
                          IF c = report[2] THEN report[3] ELSE collected[c]]
  /\ Moves(Host, "recorded")
  /\ UNCHANGED <<sessionVars, shaken, served, panics, acked>>

\* The loop ends; the host's owner goes on to join the equipment thread and
\* keeps the session meanwhile.
HostFinishes ==
  /\ at[Host] = "recorded"
  /\ Last(recorded) = WaferDone
  /\ Moves(Host, "done")
  /\ UNCHANGED <<sessionVars, shaken, served, panics>>
  /\ UNCHANGED runVars

----------------------------------------------------------------------------
(* The specification                                                       *)

HostStep ==
  \/ HostReceives
  \/ \E report \in Payload : HostRecords(report)
  \/ HostFinishes
  \/ /\ HostSelects \/ HostShakes \/ SessionStep(Host)
     /\ UNCHANGED runVars
  \/ /\ Fails(Host, Accepts(Host))
     /\ UNCHANGED runVars

EquipStep ==
  \/ EquipReports
  \/ EquipAcknowledged
  \/ EquipFinishes
  \/ /\ EquipAccepts \/ EquipServes \/ SessionStep(Equip)
     /\ UNCHANGED runVars
  \/ /\ Fails(Equip, Accepts(Equip))
     /\ UNCHANGED runVars

Disturbance ==
  /\ \/ \E p \in Party : Panics(p)
     \/ /\ \E p \in Party, kind \in External : Hsms!ExternalFrame(p, kind)
        /\ UNCHANGED threadVars
  /\ UNCHANGED runVars

Next == HostStep \/ EquipStep \/ Disturbance

\* Both threads are scheduled; a blocked read is woken by the pipe's
\* condition variable.
Fairness == WF_vars(HostStep) /\ WF_vars(EquipStep)

Spec == Init /\ [][Next]_vars /\ Fairness

----------------------------------------------------------------------------
(* What a wafer run guarantees                                             *)

\* The run's own variables keep their types; the session's are HsmsSession's.
TypeOK ==
  /\ at \in [Party -> {"start", "select", "shake", "accept", "serve", "report",
                       "acknowledged", "receive", "recorded"} \cup Ended]
  /\ shaken \in 0 .. Len(Handshake)
  /\ served \in 0 .. 2
  /\ panics \in 0 .. MaxPanics
  /\ acked \in 0 .. Len(Coords) + 1
  /\ recorded \in Seq(Payload)
  /\ DOMAIN collected \subseteq 0 .. CoordMod - 1

\* Whoever has returned Ok, the whole wafer has been handed over: the host's
\* map holds every die with the outcome the tester computed, and nothing
\* else, even if the other side has failed since.
DoneMeansCollected ==
  (\E p \in Party : at[p] = "done") =>
    /\ DOMAIN collected = Range(Coords)
    /\ \A coord \in DOMAIN collected : collected[coord] = Passed(coord)

\* wafer.rs: "die-location data is carried through unmodified".
LocationsUnmodified == DOMAIN collected \subseteq Range(Coords)

\* The run implements the abstract stream of acknowledged reports.
Stream == INSTANCE ReportStream WITH
            Result <- Payload, results <- AllReports,
            hostEnd <- EndOf(Host), equipEnd <- EndOf(Equip)

ImplementsReportStream == Stream!Spec
=============================================================================
