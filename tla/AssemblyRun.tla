---------------------------- MODULE AssemblyRun ----------------------------
(***************************************************************************)
(* A placement run over HSMS: the host thread, AssemblyHost                *)
(* (src/tpt-ate-assembly/src/link.rs) driven by execute_plan               *)
(* (techniques.rs), and the simulated machine's thread,                    *)
(* AssemblyEquipment::run (equipment.rs).                                  *)
(*                                                                         *)
(* Unlike a wafer run, both sides send primaries in turn: the host one     *)
(* S2F41 per command of its plan, the machine one S6F11 per placement.     *)
(* Each side holds a copy of the plan of its own.  A command is its site;  *)
(* the position the machine reports is not modelled, because neither       *)
(* thread decides anything on it.                                          *)
(***************************************************************************)
EXTENDS GemThreads

CONSTANTS
  HostPlan,    \* sites, in the order of the host's commands
  EquipPlans,  \* the plans the machine may have been given
  HostRcmds,  \* AssemblyTechnique::rcmd() of the backends the host may use
  EquipRcmd   \* AssemblyTechnique::rcmd() of the machine

ASSUME PlansAssumption ==
  \A plan \in EquipPlans \cup {HostPlan} : plan \in Seq({plan[i] : i \in DOMAIN plan})
ASSUME DrawsAssumption ==
  \A plan \in EquipPlans : MaxDraws >= Len(HostPlan) + Len(plan) + Len(Handshake) + 1

VARIABLES
  rcmd,       \* rcmd() of the host's backend
  equipPlan,  \* sites, in the order of the machine's commands
  commanded,  \* commands the host has begun to place
  placed,     \* placements whose send_event_report has returned Ok
  records,    \* sites of the host's PlacementRecords, in order
  events      \* history: payloads of the event reports the host was served

plans == <<rcmd, equipPlan>>
runVars == <<plans, commanded, placed, records, events>>
vars == <<sessionVars, threadVars, runVars>>

PlaceCommand(technique, site) == <<technique, site>>
PlacementDone(site) == <<"PLACEMENT_DONE", site>>

ASSUME PayloadAssumption ==
  /\ \A technique \in HostRcmds, i \in DOMAIN HostPlan :
       PlaceCommand(technique, HostPlan[i]) \in Payload
  /\ \A plan \in EquipPlans : \A i \in DOMAIN plan : PlacementDone(plan[i]) \in Payload

Init ==
  /\ ThreadInit
  /\ rcmd \in HostRcmds
  /\ equipPlan \in EquipPlans
  /\ commanded = 0
  /\ placed = 0
  /\ records = <<>>
  /\ events = <<>>

----------------------------------------------------------------------------
(* The host: place each command of the plan, in order                      *)

\* Variant for a sensitivity check: the next command does not wait for the event.
CommandsAtOnce ==
  /\ \/ HostConnected
     \/ at[Host] \in {"recorded", "command"} /\ Ok(Host)
  /\ commanded < Len(HostPlan)
  /\ LET site == HostPlan[commanded + 1]
     IN Hsms!Transact(Host, 41, Command(PlaceCommand(rcmd, site)))
  /\ commanded' = commanded + 1
  /\ Moves(Host, "command")
  /\ UNCHANGED <<shaken, served, panics, plans, placed, records, events>>

\* gem.transact(2, 41, ...)
HostCommands ==
  /\ HostConnected \/ at[Host] = "recorded"
  /\ commanded < Len(HostPlan)
  /\ LET site == HostPlan[commanded + 1]
     IN Hsms!Transact(Host, 41, Command(PlaceCommand(rcmd, site)))
  /\ commanded' = commanded + 1
  /\ Moves(Host, "command")
  /\ UNCHANGED <<shaken, served, panics, plans, placed, records, events>>

\* The S2F42 with HCACK_OK.
CommandAccepted ==
  /\ Returned(Host).function = 42
  /\ Returned(Host).body = EquipmentReply(41)

\* Variant for a sensitivity check: any event report is the awaited one.
AnyEvent(m) == m.function = 11

\* The event await_placement_event is waiting for.
IsAwaited(m) ==
  m.function = 11 /\ m.body = Event(PlacementDone(HostPlan[commanded]))

\* What the host was served while it awaited a placement.
Served(m) == IF m.function = 11 THEN Append(events, m.body[2]) ELSE events

\* await_placement_event: wait for the first event, or for another one when
\* the last was not for the awaited site.
HostAwaits ==
  /\ call[Host] = "idle" /\ ret[Host].ok
  /\ \/ /\ at[Host] = "command"
        /\ CommandAccepted
        /\ UNCHANGED events
     \/ /\ at[Host] = "await"
        /\ ~IsAwaited(Returned(Host))
        /\ events' = Served(Returned(Host))
  /\ Hsms!ServeOne(Host)
  /\ Moves(Host, "await")
  /\ UNCHANGED <<shaken, served, panics, plans, commanded, placed, records>>

\* records.push(PlacementRecord { site_id: command.site_id, .. })
HostRecords ==
  /\ at[Host] = "await"
  /\ Ok(Host)
  /\ IsAwaited(Returned(Host))
  /\ events' = Served(Returned(Host))
  /\ records' = Append(records, HostPlan[commanded])
  /\ Moves(Host, "recorded")
  /\ UNCHANGED <<sessionVars, shaken, served, panics, plans, commanded, placed>>

\* Variant for a sensitivity check: the last command's event is not awaited.
FinishesUnplaced ==
  /\ at[Host] = "command" /\ Ok(Host) /\ CommandAccepted
  /\ commanded = Len(HostPlan)
  /\ Moves(Host, "done")
  /\ UNCHANGED <<sessionVars, shaken, served, panics>>
  /\ UNCHANGED runVars

\* place() returns the records; its caller keeps the session and joins the
\* machine's thread.
HostFinishes ==
  /\ HostConnected \/ at[Host] = "recorded"
  /\ commanded = Len(HostPlan)
  /\ Moves(Host, "done")
  /\ UNCHANGED <<sessionVars, shaken, served, panics>>
  /\ UNCHANGED runVars

----------------------------------------------------------------------------
(* The machine: one host command, one placement, one event report          *)

EquipAwaitsCommand ==
  /\ EquipConnected \/ at[Equip] = "acknowledged"
  /\ placed < Len(equipPlan)
  /\ Hsms!ServeOne(Equip)
  /\ Moves(Equip, "serve_command")
  /\ UNCHANGED <<shaken, served, panics>>
  /\ UNCHANGED runVars

\* Variant for a sensitivity check: the remote command is not compared.
AnyTechnique(m) == m.function = 41

\* serve_one has answered S2F42 by now, whatever the command says.
CommandFits(m) == m.function = 41 /\ m.body[2][1] = EquipRcmd

\* Variant for a sensitivity check: the machine goes on without a command.
PlacesOnItsOwn ==
  /\ \/ at[Equip] = "serve_command" /\ Ok(Equip) /\ CommandFits(Returned(Equip))
     \/ at[Equip] = "acknowledged" /\ placed < Len(equipPlan)
  /\ Reports(PlacementDone(equipPlan[placed + 1]))
  /\ UNCHANGED <<shaken, served, panics>>
  /\ UNCHANGED runVars

\* The machine reports the site of its own plan; the SITE parameter of the
\* host's command is parsed and dropped.
EquipPlaces ==
  /\ at[Equip] = "serve_command"
  /\ Ok(Equip)
  /\ CommandFits(Returned(Equip))
  /\ Reports(PlacementDone(equipPlan[placed + 1]))
  /\ UNCHANGED <<shaken, served, panics>>
  /\ UNCHANGED runVars

EquipAcknowledged ==
  /\ Acknowledged
  /\ placed' = placed + 1
  /\ Moves(Equip, "acknowledged")
  /\ UNCHANGED <<sessionVars, shaken, served, panics, plans, commanded, records, events>>

EquipFinishes ==
  /\ EquipConnected \/ at[Equip] = "acknowledged"
  /\ placed = Len(equipPlan)
  /\ Ends(Equip, "done")
  /\ UNCHANGED <<shaken, served, panics>>
  /\ UNCHANGED runVars

----------------------------------------------------------------------------
(* The specification                                                       *)

AcceptsInRun(p) ==
  /\ Accepts(p)
  /\ at[p] = "command" => CommandAccepted
  /\ at[p] = "serve_command" => CommandFits(Returned(p))

HostStep ==
  \/ HostCommands
  \/ HostAwaits
  \/ HostRecords
  \/ HostFinishes
  \/ /\ HostSelects \/ HostShakes \/ SessionStep(Host)
     /\ UNCHANGED runVars
  \/ /\ Fails(Host, AcceptsInRun(Host))
     /\ UNCHANGED runVars

EquipStep ==
  \/ EquipAwaitsCommand
  \/ EquipPlaces
  \/ EquipAcknowledged
  \/ EquipFinishes
  \/ /\ EquipAccepts \/ EquipServes \/ SessionStep(Equip)
     /\ UNCHANGED runVars
  \/ /\ Fails(Equip, AcceptsInRun(Equip))
     /\ UNCHANGED runVars

Disturbance ==
  /\ \/ \E p \in Party : Panics(p)
     \/ /\ \E p \in Party, kind \in External : Hsms!ExternalFrame(p, kind)
        /\ UNCHANGED threadVars
  /\ UNCHANGED runVars

Next == HostStep \/ EquipStep \/ Disturbance

\* Both threads are scheduled; a blocked read is woken by the pipe's
\* condition variable.
Fairness == WF_vars(HostStep) /\ WF_vars(EquipStep)

Spec == Init /\ [][Next]_vars /\ Fairness

----------------------------------------------------------------------------
(* What a placement run guarantees                                         *)

\* The run's own variables keep their types; the session's are HsmsSession's.
TypeOK ==
  /\ at \in [Party -> {"start", "select", "shake", "accept", "serve", "command",
                       "await", "recorded", "serve_command", "report",
                       "acknowledged"} \cup Ended]
  /\ shaken \in 0 .. Len(Handshake)
  /\ served \in 0 .. 2
  /\ panics \in 0 .. MaxPanics
  /\ rcmd \in HostRcmds
  /\ equipPlan \in EquipPlans
  /\ commanded \in 0 .. Len(HostPlan)
  /\ placed \in 0 .. Len(equipPlan)
  /\ records \in Seq({HostPlan[i] : i \in DOMAIN HostPlan})
  /\ events \in Seq(Payload)

\* The i-th record is about what the machine did for the i-th command: the
\* sites agree even when the two plans do not, because an event for another
\* site is acknowledged and passed over.
RecordsArePlacements ==
  \A i \in DOMAIN records : records[i] = HostPlan[i] /\ records[i] = equipPlan[i]

\* The machine places nothing it was not commanded to: the placement it is
\* reporting has a command of its own, and so has each one before it.
NothingUncommanded ==
  placed + (IF at[Equip] = "report" THEN 1 ELSE 0) <= commanded

\* A machine of another technique answers S2F42 with HCACK_OK and then
\* refuses; the host never takes that acknowledge for a placement.
WrongTechniquePlacesNothing ==
  rcmd # EquipRcmd => records = <<>> /\ events = <<>> /\ at[Host] # "done"

\* With one technique and one plan on both sides, an undisturbed run places
\* everything.
PlacementsComplete == (rcmd = EquipRcmd /\ equipPlan = HostPlan) => RunCompletes

\* The machine's reports are a stream of acknowledged reports like the dies of
\* a wafer.  What the host takes in is what it is served, whether it is the
\* event it awaits or one it passes over.
Stream == INSTANCE ReportStream WITH
            Result <- Payload,
            results <- [i \in DOMAIN equipPlan |-> PlacementDone(equipPlan[i])],
            recorded <- events, acked <- placed,
            hostEnd <- EndOf(Host), equipEnd <- EndOf(Equip)

ImplementsReportStream == Stream!Spec
=============================================================================
