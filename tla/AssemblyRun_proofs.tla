-------------------------- MODULE AssemblyRun_proofs --------------------------
(***************************************************************************)
(* That a placement run uses its sessions as HsmsSession allows, that its  *)
(* threads never cross primaries, that what the host records was placed at *)
(* its command, that another technique places nothing, and that the run is *)
(* a stream of acknowledged reports, for any plans, techniques and         *)
(* handshake.                                                              *)
(***************************************************************************)
EXTENDS AssemblyRun, GemThreads_proofs

\* What is placed next, by either side, is in its plan.
RunInv ==
  /\ ThreadType
  /\ rcmd \in HostRcmds /\ equipPlan \in EquipPlans
  /\ commanded \in Nat /\ placed \in Nat
  /\ at[Equip] \in {"serve_command", "report"} => placed < Len(equipPlan)

\* Commands and placement events are payloads.
LEMMA PlansArePayload ==
  /\ \A technique \in HostRcmds, k \in Nat :
       k < Len(HostPlan) => PlaceCommand(technique, HostPlan[k + 1]) \in Payload
  /\ \A plan \in EquipPlans, k \in Nat :
       k < Len(plan) => PlacementDone(plan[k + 1]) \in Payload
<1>1. ASSUME NEW plan \in EquipPlans \cup {HostPlan}, NEW k \in Nat, k < Len(plan)
      PROVE  k + 1 \in DOMAIN plan
  <2>1. plan \in Seq({plan[i] : i \in DOMAIN plan})
    BY PlansAssumption
  <2>2. Len(plan) \in Nat /\ DOMAIN plan = 1 .. Len(plan)
    BY <2>1
  <2>3. QED BY <1>1, <2>2
<1>2. QED BY <1>1, PayloadAssumption

\* A step that leaves the machine's place in its plan alone.
LEMMA PlacesKept ==
  ASSUME RunInv, NEW p \in Party, UNCHANGED <<plans, placed>>,
         UNCHANGED commanded \/ commanded' = commanded + 1,
         UNCHANGED shaken \/ shaken' = shaken + 1,
         UNCHANGED at \/ \E to : /\ Moves(p, to)
                                 /\ p = Equip => to \notin {"serve_command", "report"}
  PROVE  RunInv'
<1>1. ThreadType'
  BY ThreadsKept DEF RunInv
<1>2. at'[Equip] \in {"serve_command", "report"} => at'[Equip] = at[Equip]
  BY DEF RunInv, ThreadType, Moves, Party
<1>3. QED BY <1>1, <1>2 DEF RunInv, plans

\* The steps of the machine's thread.
LEMMA EquipKeeps ==
  ASSUME RunInv, EquipStep
  PROVE  RunInv' /\ UsesSessionStep
<1>0. Equip \in Party
  BY DEF Party
<1>1. CASE EquipAwaitsCommand
  <2>1. UsesSessionStep
    BY <1>0, <1>1, PartyMayAct DEF EquipAwaitsCommand, Hsms!Starts
  <2>2. RunInv'
    BY <1>0, <1>1, ThreadsKept DEF EquipAwaitsCommand, runVars, plans, RunInv
  <2>3. QED BY <2>1, <2>2
<1>2. CASE EquipPlaces
  <2>1. placed < Len(equipPlan)
    BY <1>2 DEF EquipPlaces, RunInv
  <2>2. UsesSessionStep
    BY <1>2, <2>1, PlansArePayload, ReportIsOne DEF EquipPlaces, RunInv
  <2>3. RunInv'
    BY <1>0, <1>2, <2>1, ThreadsKept DEF EquipPlaces, Reports, runVars, plans, RunInv
  <2>4. QED BY <2>2, <2>3
<1>3. CASE EquipAcknowledged
  <2>1. at'[Equip] = "acknowledged"
    BY <1>0, <1>3 DEF EquipAcknowledged, RunInv, ThreadType, Moves
  <2>2. RunInv'
    BY <1>0, <1>3, <2>1, ThreadsKept DEF EquipAcknowledged, RunInv, plans
  <2>3. QED BY <1>3, <2>2 DEF EquipAcknowledged, UsesSessionStep
<1>4. CASE EquipFinishes
  <2>1. RunInv'
    BY <1>0, <1>4, PlacesKept DEF EquipFinishes, Ends, runVars
  <2>2. QED BY <1>0, <1>4, <2>1, EndingIsOne DEF EquipFinishes
<1>5. CASE (EquipAccepts \/ EquipServes) /\ UNCHANGED runVars
  <2>1. RunInv'
    BY <1>0, <1>5, PlacesKept DEF EquipAccepts, EquipServes, runVars
  <2>2. QED BY <1>5, <2>1, HandshakeIsOne DEF RunInv
<1>6. CASE SessionStep(Equip) /\ UNCHANGED runVars
  <2>1. RunInv'
    BY <1>0, <1>6, PlacesKept DEF SessionStep, threadVars, runVars
  <2>2. QED BY <1>0, <1>6, <2>1, SessionStepIsOne
<1>7. CASE Fails(Equip, AcceptsInRun(Equip)) /\ UNCHANGED runVars
  <2>1. RunInv'
    BY <1>0, <1>7, PlacesKept DEF Fails, Ends, runVars
  <2>2. QED BY <1>0, <1>7, <2>1, EndingIsOne
<1>8. QED BY <1>1, <1>2, <1>3, <1>4, <1>5, <1>6, <1>7 DEF EquipStep

\* The steps of the host's thread.
LEMMA HostKeeps ==
  ASSUME RunInv, HostStep
  PROVE  RunInv' /\ UsesSessionStep
<1>0. Host \in Party /\ Host # Equip
  BY ThreadsDiffer DEF Party
<1>1. CASE HostCommands
  <2>1. Command(PlaceCommand(rcmd, HostPlan[commanded + 1])) \in Item
    BY <1>1, PlansArePayload DEF HostCommands, RunInv, Item
  <2>2. UsesSessionStep
    BY <1>0, <1>1, <2>1, TransactIsOne DEF HostCommands
  <2>3. RunInv'
    BY <1>0, <1>1, PlacesKept DEF HostCommands
  <2>4. QED BY <2>2, <2>3
<1>2. CASE HostAwaits
  <2>1. RunInv'
    BY <1>0, <1>2, PlacesKept DEF HostAwaits
  <2>2. UsesSessionStep
    BY <1>0, <1>2, PartyMayAct DEF HostAwaits, Hsms!Starts
  <2>3. QED BY <2>1, <2>2
<1>3. CASE HostRecords \/ HostFinishes
  <2>1. RunInv'
    BY <1>0, <1>3, PlacesKept DEF HostRecords, HostFinishes, runVars
  <2>2. QED BY <1>3, <2>1 DEF HostRecords, HostFinishes, UsesSessionStep
<1>4. CASE (HostSelects \/ HostShakes) /\ UNCHANGED runVars
  <2>1. RunInv'
    BY <1>0, <1>4, PlacesKept DEF HostSelects, HostShakes, runVars
  <2>2. QED BY <1>4, <2>1, HandshakeIsOne DEF RunInv
<1>5. CASE SessionStep(Host) /\ UNCHANGED runVars
  <2>1. RunInv'
    BY <1>0, <1>5, PlacesKept DEF SessionStep, threadVars, runVars
  <2>2. QED BY <1>0, <1>5, <2>1, SessionStepIsOne
<1>6. CASE Fails(Host, AcceptsInRun(Host)) /\ UNCHANGED runVars
  <2>1. RunInv'
    BY <1>0, <1>6, PlacesKept DEF Fails, Ends, runVars
  <2>2. QED BY <1>0, <1>6, <2>1, EndingIsOne
<1>7. QED BY <1>1, <1>2, <1>3, <1>4, <1>5, <1>6 DEF HostStep

\* What happens from elsewhere.
LEMMA DisturbanceKeeps ==
  ASSUME RunInv, Disturbance
  PROVE  RunInv' /\ UsesSessionStep
<1>1. ASSUME NEW p \in Party, Panics(p), UNCHANGED runVars PROVE RunInv' /\ UsesSessionStep
  BY <1>1, PlacesKept, EndingIsOne DEF Panics, Ends, runVars
<1>2. ASSUME NEW p \in Party, NEW kind \in External, Hsms!ExternalFrame(p, kind),
             UNCHANGED threadVars, UNCHANGED runVars
      PROVE  RunInv' /\ UsesSessionStep
  BY <1>2, PlacesKept, EndingIsOne DEF threadVars, runVars
<1>3. QED BY <1>1, <1>2 DEF Disturbance

\* Whatever the plans and the techniques of the two sides, whoever panics and
\* whatever arrives from elsewhere, the threads of a placement run call their
\* sessions in ways HsmsSession has: all that is proved of HsmsSession holds
\* of the run.
THEOREM AssemblyRunUsesSession == Spec => UsesSession
<1>1. Init => RunInv /\ Hsms!Init
  <2>1. Init => ThreadType /\ Hsms!Init
    BY ThreadsBegin DEF Init
  <2>2. Init => at[Equip] = "start"
    BY DEF Init, ThreadInit, Party
  <2>3. QED BY <2>1, <2>2 DEF Init, RunInv
<1>2. RunInv /\ [Next]_vars => RunInv' /\ [Hsms!Next]_(Hsms!vars)
  <2> SUFFICES ASSUME RunInv, [Next]_vars
               PROVE  RunInv' /\ (Hsms!Next \/ UNCHANGED Hsms!vars)
    OBVIOUS
  <2>1. RunInv' /\ UsesSessionStep
    <3>1. CASE UNCHANGED vars
      <4>1. Host \in Party
        BY DEF Party
      <4>2. QED BY <3>1, <4>1, PlacesKept DEF vars, threadVars, runVars, UsesSessionStep
    <3>2. QED BY <3>1, HostKeeps, EquipKeeps, DisturbanceKeeps DEF Next
  <2>2. QED BY <2>1 DEF UsesSessionStep, sessionVars, Hsms!vars
<1>3. QED BY <1>1, <1>2, PTL DEF Spec, UsesSession, Hsms!Spec

----------------------------------------------------------------------------
(* The safety of a placement run                                           *)

\* The machine's plan has no more placements than the host's.
PlansFit == \A plan \in EquipPlans : Len(plan) <= Len(HostPlan)

\* The bodies of the host's commands.
Commands == {Command(PlaceCommand(rcmd, HostPlan[i])) : i \in DOMAIN HostPlan}

\* The primaries in flight are the machine's reports, each of the placement
\* its system bytes count, the host's handshake, and a command of the host's
\* for a placement that is not reported.
Carried ==
  \A q \in Party : \A m \in Flight(q) : m.w =>
    IF m.owner = Equip
    THEN m.function = 11 /\ m.body = Event(PlacementDone(equipPlan[m.index]))
    ELSE \/ m.function \in {1, 13}
         \/ m.function = 41 /\ m.body \in Commands /\ Sent(Equip) < commanded

\* The machine is at its placed-th placement, or the one after, and each has
\* a command of its own.
Counted ==
  /\ Sent(Equip) \in {placed, placed + 1}
  /\ Sent(Equip) <= Len(equipPlan)
  /\ Sent(Equip) <= commanded
  /\ at[Equip] \in {"start", "accept", "serve"} => Sent(Equip) = 0
  /\ at[Equip] \in {"acknowledged", "done"} => Sent(Equip) = placed
  /\ at[Equip] = "serve_command" => Sent(Equip) = placed /\ placed < Len(equipPlan)
  /\ at[Equip] = "report" => Sent(Equip) = placed + 1
  /\ at[Equip] = "done" => placed = Len(equipPlan)

\* What the machine knows to be received has been, but for one report the
\* host is about to take in.
Known ==
  \/ Answered(Equip)
  \/ at[Equip] \in {"acknowledged", "done"}
  \/ at[Equip] = "report" /\ Ok(Equip)
Received == Known => Sent(Equip) <= Len(events) + 1

\* The machine has a command whose placement it has not reported, and the host
\* sends nothing more until it is.
Instructed ==
  at[Equip] = "serve_command" /\ Ok(Equip) /\ Returned(Equip).function = 41 =>
    /\ Returned(Equip).body \in Commands
    /\ Sent(Equip) < commanded
    /\ ~Offered(Equip)

\* The host has a report it has not taken in.
Holds == at[Host] = "await" /\ Ok(Host)

\* A live host has been served all that was reported but for what is offered.
Taken == IF Holds THEN Len(events) + 1 ELSE Len(events)
Heard ==
  /\ Live(Host) => Taken = IF Offered(Host) THEN Sent(Equip) - 1 ELSE Sent(Equip)
  /\ Holds =>
       /\ Returned(Host).function = 11
       /\ Returned(Host).body = Event(PlacementDone(equipPlan[Len(events) + 1]))
       /\ Len(events) < Sent(Equip)

\* The host is at its commanded-th command, and has been served as many events.
Collects ==
  /\ commanded <= Len(HostPlan)
  /\ Len(events) <= Len(equipPlan)
  /\ \A i \in DOMAIN events : events[i] = PlacementDone(equipPlan[i])
  /\ RecordsArePlacements
  /\ at[Host] \in {"start", "select", "shake"} => commanded = 0
  /\ at[Host] \in {"start", "select", "shake", "recorded", "done"} =>
       Len(records) = commanded /\ Len(events) = commanded
  /\ at[Host] = "command" => Len(records) = commanded - 1 /\ Len(events) = commanded - 1
  /\ at[Host] = "await" =>
       Len(records) = commanded - 1 /\ Len(events) \in {commanded - 1, commanded}
  /\ at[Host] = "done" => commanded = Len(HostPlan)

\* Across two techniques nothing is placed.
Refused == rcmd # EquipRcmd => Sent(Equip) = 0 /\ events = <<>> /\ records = <<>>

\* The places of each thread.
Places ==
  /\ at[Host] \in {"start", "select", "shake", "command", "await", "recorded"} \cup Ended
  /\ at[Equip] \in {"start", "accept", "serve", "serve_command", "report",
                    "acknowledged"} \cup Ended

\* What a step of the machine may disturb, and one of the host.
EquipSide == Counted /\ Received /\ Instructed
HostSide == Heard /\ Collects /\ Refused

\* The inductive invariant.
SafeInv ==
  /\ TypeOK
  /\ Places
  /\ Conversation
  /\ ~crossed
  /\ Carried
  /\ EquipSide
  /\ HostSide

\* The invariant knows the types of what it counts.
LEMMA SafeThreads ==
  ASSUME SafeInv
  PROVE  /\ ThreadType /\ Conversation /\ Sent(Equip) \in Int
         /\ commanded \in Nat /\ placed \in Nat /\ served \in Nat /\ shaken \in Nat
         /\ Len(events) \in Nat /\ Len(records) \in Nat
         /\ Len(HostPlan) \in Nat /\ Len(equipPlan) \in Nat
         /\ DOMAIN HostPlan = 1 .. Len(HostPlan) /\ DOMAIN equipPlan = 1 .. Len(equipPlan)
<1>1. ThreadType /\ Conversation /\ Sent(Equip) \in Int
  BY TwoThreads, SentFacts, HandshakeAssumption
     DEF SafeInv, Conversation, TypeOK, ThreadType
<1>2. \A plan \in EquipPlans \cup {HostPlan} :
        Len(plan) \in Nat /\ DOMAIN plan = 1 .. Len(plan)
  BY PlansAssumption
<1>3. equipPlan \in EquipPlans
  BY DEF SafeInv, TypeOK
<1>4. Len(HostPlan) \in Nat /\ Len(equipPlan) \in Nat /\ Len(Handshake) \in Nat
  BY <1>2, <1>3, HandshakeAssumption
<1>5. /\ commanded \in Nat /\ placed \in Nat /\ served \in Nat /\ shaken \in Nat
      /\ Len(events) \in Nat /\ Len(records) \in Nat
  BY <1>4 DEF SafeInv, TypeOK
<1>6. QED BY <1>1, <1>2, <1>3, <1>4, <1>5

\* A primary in flight is of the other thread.
LEMMA PrimaryOfPeer ==
  ASSUME SafeInv, NEW q \in Party, NEW m \in Flight(q), m.w
  PROVE  m.owner = Hsms!Peer(q)
<1>1. PICK i \in DOMAIN inbox[q] : m = inbox[q][i] /\ Hsms!IsData(inbox[q][i])
  BY DEF Flight
<1>2. m.owner \in Party
  BY <1>1, DataFacts DEF SafeInv, Conversation
<1>3. ASSUME m.owner = q PROVE FALSE
  <2>1. Carries(q, i, q)
    BY <1>1, <1>3 DEF Carries
  <2>2. inbox[q][i].w = (q # q)
    BY <2>1 DEF SafeInv, Conversation, Directed
  <2>3. QED BY <1>1, <2>2
<1>4. QED BY <1>2, <1>3, PeerFacts

\* What both threads may answer, each of them can.
LEMMA AllAnswerable == SafeInv => \A p \in Party : Answerable(p)
<1> SUFFICES ASSUME SafeInv, NEW m \in Flight(Equip), m.w PROVE m.function \in {1, 13, 41}
  BY DEF Answerable
<1>1. QED BY PrimaryOfPeer, TwoThreads DEF SafeInv, Carried

\* The host fades: what it takes in is for its step to show.
LEMMA HostFades ==
  ASSUME SafeInv, Fades(Host), SessionType', InCall', TypeOK', Places', crossed' => crossed,
         UNCHANGED <<plans, commanded, placed>>,
         Len(events') >= Len(events), Len(events') \in Nat,
         HostSide'
  PROVE  SafeInv'
<1>0. /\ at'[Equip] = at[Equip] /\ call'[Equip] = call[Equip] /\ ret'[Equip] = ret[Equip]
      /\ Sent(Equip)' = Sent(Equip)
      /\ \A q \in Party : Flight(q)' \subseteq Flight(q)
      /\ Offered(Equip)' <=> Offered(Equip)
      /\ Answered(Equip)' => Answered(Equip)
  BY TwoThreads, SentFacts, FadingData, FadingOffers DEF SafeInv, Conversation, Fades, Alone
<1>t. /\ Sent(Equip) \in Int /\ Len(events) \in Nat
      /\ UNCHANGED <<rcmd, equipPlan, commanded, placed>>
  BY SafeThreads DEF plans
<1>1. Conversation'
  BY TwoThreads, ConversationKept DEF SafeInv
<1>2. Carried'
  BY <1>0, <1>t DEF SafeInv, Carried, Commands
<1>3. EquipSide'
  <2>1. Counted'
    BY <1>0, <1>t DEF SafeInv, EquipSide, Counted
  <2>2. Received'
    BY <1>0, <1>t DEF SafeInv, EquipSide, Received, Known, Ok
  <2>3. Instructed'
    BY <1>0, <1>t DEF SafeInv, EquipSide, Instructed, Ok, Returned, Commands
  <2>4. QED BY <2>1, <2>2, <2>3 DEF EquipSide
<1>4. QED BY <1>1, <1>2, <1>3 DEF SafeInv

\* The host fades and takes nothing in.
LEMMA HostRests ==
  ASSUME SafeInv, Fades(Host), SessionType', InCall', TypeOK', Places', crossed' => crossed,
         UNCHANGED <<plans, commanded, placed, records, events>>,
         Live(Host)' => (Holds' <=> Holds),
         Holds' => Holds /\ UNCHANGED ret,
         Collects'
  PROVE  SafeInv'
<1>0. /\ Sent(Equip)' = Sent(Equip)
      /\ Offered(Host)' => Offered(Host)
      /\ Live(Host)' => (Offered(Host) => Offered(Host)') /\ Live(Host)
  BY TwoThreads, SentFacts, FadingOffers DEF SafeInv, Conversation
<1>t. Len(events) \in Nat /\ UNCHANGED <<rcmd, equipPlan>>
  BY SafeThreads DEF plans
<1>1. Heard'
  BY <1>0, <1>t DEF SafeInv, HostSide, Heard, Taken, Returned
<1>2. Refused'
  BY <1>0, <1>t DEF SafeInv, HostSide, Refused
<1>3. QED BY <1>1, <1>2, <1>t, HostFades DEF HostSide

\* The machine fades: what it knows to be received is for its step to show.
LEMMA EquipFades ==
  ASSUME SafeInv, Fades(Equip), SessionType', InCall', TypeOK', Places', crossed' => crossed,
         UNCHANGED <<plans, commanded, records, events>>,
         EquipSide'
  PROVE  SafeInv'
<1>0. /\ at'[Host] = at[Host] /\ call'[Host] = call[Host] /\ ret'[Host] = ret[Host]
      /\ Sent(Equip)' = Sent(Equip)
      /\ \A q \in Party : Flight(q)' \subseteq Flight(q)
      /\ Offered(Host)' <=> Offered(Host)
      /\ Live(Host)' <=> Live(Host)
  BY TwoThreads, SentFacts, FadingData, FadingOffers DEF SafeInv, Conversation, Fades, Alone, Live
<1>t. UNCHANGED <<rcmd, equipPlan>>
  BY DEF plans
<1>1. Conversation'
  BY TwoThreads, ConversationKept DEF SafeInv
<1>2. Carried'
  BY <1>0, <1>t DEF SafeInv, Carried, Commands
<1>3. Heard'
  BY <1>0, <1>t DEF SafeInv, HostSide, Heard, Holds, Taken, Returned, Ok
<1>4. Collects'
  BY <1>0, <1>t DEF SafeInv, HostSide, Collects, RecordsArePlacements
<1>5. Refused'
  BY <1>0, <1>t DEF SafeInv, HostSide, Refused
<1>6. QED BY <1>1, <1>2, <1>3, <1>4, <1>5 DEF SafeInv, HostSide

\* The host serves the report that is next.
LEMMA HostServed ==
  ASSUME SafeInv, Serves(Host), SessionType', InCall', TypeOK', UNCHANGED <<at, crossed>>,
         UNCHANGED runVars
  PROVE  SafeInv'
<1>t. /\ Sent(Equip) \in Int /\ Len(events) \in Nat
      /\ UNCHANGED <<rcmd, equipPlan, commanded, placed, records, events>>
  BY SafeThreads DEF runVars, plans
<1>0. /\ at'[Equip] = at[Equip] /\ call'[Equip] = call[Equip] /\ ret'[Equip] = ret[Equip]
      /\ Sent(Equip)' = Sent(Equip)
      /\ Live(Host) /\ Offered(Host) /\ ~Offered(Host)' /\ ~Offered(Equip) /\ ~Offered(Equip)'
      /\ Flight(Host)' \subseteq Flight(Host)
      /\ \A m \in Flight(Equip)' : m.w => m \in Flight(Equip)
  <2>1. at'[Equip] = at[Equip] /\ call'[Equip] = call[Equip] /\ ret'[Equip] = ret[Equip]
    BY TwoThreads DEF Serves, Alone
  <2>2. Sent(Equip)' = Sent(Equip)
    BY TwoThreads, SentFacts DEF SafeInv, Conversation
  <2>3. QED BY <2>1, <2>2, TwoThreads, ServingOffers DEF SafeInv
<1>1. Conversation'
  BY TwoThreads, ConversationKept DEF SafeInv
<1>2. Carried'
  BY <1>0, <1>t, TwoThreads DEF SafeInv, Carried, Commands
<1>3. call[Host] = "serve_one" /\ at[Host] = "await"
  <2>1. call[Host] = "serve_one"
    BY DEF Serves
  <2>2. QED BY <2>1, InsideFacts, TwoThreads DEF SafeInv, Conversation, CallOf, Places, Ended
<1>4. ~Holds /\ Holds' /\ Sent(Equip) = Len(events) + 1
  BY <1>0, <1>t, <1>3 DEF SafeInv, HostSide, Heard, Holds, Taken, Ok, Serves, Hsms!Ok
<1>5. /\ Returned(Host)'.function = 11
      /\ Returned(Host)'.body = Event(PlacementDone(equipPlan[Len(events) + 1]))
  <2>1. /\ inbox[Host][1] \in Flight(Host)
        /\ inbox[Host][1].w /\ inbox[Host][1].owner = Equip
        /\ inbox[Host][1].index = Sent(Equip)
    BY TwoThreads, ServingOffers DEF SafeInv
  <2>2. /\ inbox[Host][1].function = 11
        /\ inbox[Host][1].body = Event(PlacementDone(equipPlan[Sent(Equip)]))
    BY <2>1, TwoThreads DEF SafeInv, Carried
  <2>3. Returned(Host)' = inbox[Host][1]
    BY DEF Serves, Returned, Hsms!Ok
  <2>4. QED BY <1>4, <2>2, <2>3
<1>6. Heard'
  BY <1>0, <1>t, <1>4, <1>5 DEF Heard, Taken
<1>7. EquipSide'
  <2>1. Counted'
    BY <1>0, <1>t DEF SafeInv, EquipSide, Counted
  <2>2. Received'
    BY <1>0, <1>t, <1>4 DEF Received
  <2>3. Instructed'
    BY <1>0, <1>t DEF SafeInv, EquipSide, Instructed, Ok, Returned, Commands
  <2>4. QED BY <2>1, <2>2, <2>3 DEF EquipSide
<1>8. Collects' /\ Refused'
  BY <1>0, <1>t DEF SafeInv, HostSide, Collects, RecordsArePlacements, Refused
<1>9. QED BY <1>1, <1>2, <1>6, <1>7, <1>8 DEF SafeInv, HostSide, Places

\* The machine serves a primary of the handshake or a command.
LEMMA EquipServed ==
  ASSUME SafeInv, Serves(Equip), SessionType', InCall', TypeOK', UNCHANGED <<at, crossed>>,
         UNCHANGED runVars
  PROVE  SafeInv'
<1>t. /\ Sent(Equip) \in Int /\ Len(events) \in Nat
      /\ UNCHANGED <<rcmd, equipPlan, commanded, placed, records, events>>
  BY SafeThreads DEF runVars, plans
<1>0. /\ at'[Host] = at[Host] /\ call'[Host] = call[Host] /\ ret'[Host] = ret[Host]
      /\ Sent(Equip)' = Sent(Equip)
      /\ Live(Equip) /\ Offered(Equip) /\ ~Offered(Equip)' /\ ~Offered(Host) /\ ~Offered(Host)'
      /\ ~Answered(Equip)'
      /\ Flight(Equip)' \subseteq Flight(Equip)
      /\ \A m \in Flight(Host)' : m.w => m \in Flight(Host)
      /\ Live(Host)' <=> Live(Host)
  BY TwoThreads, SentFacts, ServingOffers
     DEF SafeInv, Conversation, Serves, Alone, Live
<1>1. Conversation'
  BY TwoThreads, ConversationKept DEF SafeInv
<1>2. Carried'
  BY <1>0, <1>t, TwoThreads DEF SafeInv, Carried, Commands
<1>3. call[Equip] = "serve_one" /\ Returned(Equip)' = inbox[Equip][1]
  BY DEF Serves, Returned, Hsms!Ok
<1>4. at[Equip] # "report"
  BY <1>3, InsideFacts, TwoThreads DEF SafeInv, Conversation, CallOf
<1>5. Heard'
  BY <1>0, <1>t DEF SafeInv, HostSide, Heard, Holds, Taken, Returned, Ok
<1>6. EquipSide'
  <2>1. Counted'
    BY <1>0, <1>t DEF SafeInv, EquipSide, Counted
  <2>2. Received'
    BY <1>0, <1>t, <1>4 DEF SafeInv, EquipSide, Received, Known
  <2>3. ASSUME inbox[Equip][1].function = 41
        PROVE  inbox[Equip][1].body \in Commands /\ Sent(Equip) < commanded
    <3>1. inbox[Equip][1] \in Flight(Equip) /\ inbox[Equip][1].w /\ inbox[Equip][1].owner = Host
      BY TwoThreads, ServingOffers DEF SafeInv
    <3>2. QED BY <2>3, <3>1, TwoThreads DEF SafeInv, Carried
  <2>4. Instructed'
    BY <1>0, <1>t, <1>3, <2>3 DEF Instructed, Commands
  <2>5. QED BY <2>1, <2>2, <2>4 DEF EquipSide
<1>7. Collects' /\ Refused'
  BY <1>0, <1>t DEF SafeInv, HostSide, Collects, RecordsArePlacements, Refused
<1>8. QED BY <1>1, <1>2, <1>5, <1>6, <1>7 DEF SafeInv, HostSide, Places

\* A thread that moves keeps the types when it moves to a place of its own.
LEMMA PlaceKept ==
  ASSUME SafeInv, NEW p \in Party, NEW to, Moves(p, to),
         \/ p = Host /\ to \in {"select", "shake", "command", "await", "recorded"} \cup Ended
         \/ p = Equip /\ to \in {"accept", "serve", "serve_command", "report",
                                 "acknowledged"} \cup Ended
  PROVE  /\ at' \in [Party -> {"start", "select", "shake", "accept", "serve", "command",
                               "await", "recorded", "serve_command", "report",
                               "acknowledged"} \cup Ended]
         /\ Places' /\ at'[p] = to /\ at'[Hsms!Peer(p)] = at[Hsms!Peer(p)]
BY MovesPlace, SafeThreads, TwoThreads DEF SafeInv, TypeOK, Places, Moves

\* The host sends a primary of the handshake.
LEMMA HostShakesSafely ==
  ASSUME SafeInv, HostShakes, UNCHANGED runVars
  PROVE  SafeInv'
<1>t. /\ Sent(Equip) \in Int /\ Len(events) \in Nat /\ placed \in Nat /\ shaken \in Nat
      /\ UNCHANGED <<rcmd, equipPlan, commanded, placed, records, events>>
      /\ ThreadType /\ Conversation
  BY SafeThreads DEF runVars, plans
<1>0. /\ at[Host] \in {"select", "shake"} /\ call[Host] = "idle" /\ ret[Host].ok
      /\ shaken < Len(Handshake) /\ shaken' = shaken + 1
      /\ UNCHANGED <<served, panics>>
      /\ Moves(Host, "shake") /\ Live(Host)
  BY DEF HostShakes, Accepts, Live, Ended
<1>1. ~Offered(Host) /\ Sent(Equip) = 0 /\ commanded = 0
  <2>1. commanded = 0 /\ Len(events) = 0
    BY <1>0 DEF SafeInv, HostSide, Collects
  <2>2. Sent(Equip) = 0
    BY <1>t, <2>1 DEF SafeInv, EquipSide, Counted
  <2>3. QED
    BY <1>0, <2>1, <2>2 DEF SafeInv, HostSide, Heard, Holds, Taken
<1>2. PICK function \in {1, 13} : Hsms!Transact(Host, function, Request(function))
  BY <1>0, <1>t, HandshakeAssumption DEF HostShakes
<1>3. /\ Sends(Host, function, Request(function))
      /\ SessionType' /\ InCall' /\ (crossed' => crossed)
  BY <1>0, <1>1, <1>2, <1>t, TwoThreads, TransactSends, RequestsAreItems DEF CallOf
<1>4. /\ at'[Host] = "shake" /\ at'[Equip] = at[Equip]
      /\ call'[Equip] = call[Equip] /\ ret'[Equip] = ret[Equip]
      /\ Sent(Equip)' = Sent(Equip)
  BY <1>0, <1>3, <1>t, MovesPlace, TwoThreads, SentFacts DEF Sends, Alone, Conversation
<1>5. /\ ~Offered(Host)'
      /\ Answered(Equip)' => Answered(Equip)
      /\ Flight(Host)' = Flight(Host)
      /\ \A m \in Flight(Equip)' :
           m \in Flight(Equip) \/ (m.owner = Host /\ m.function = function)
  BY <1>3, <1>t, TwoThreads, SendingOffers
<1>6. TypeOK' /\ Places'
  <2>1. shaken' \in 0 .. Len(Handshake)
    BY <1>0, <1>t, HandshakeAssumption
  <2>2. QED BY <1>0, <1>t, <2>1, TwoThreads, PlaceKept DEF SafeInv, TypeOK
<1>7. Conversation'
  BY <1>3, <1>t, TwoThreads, ConversationKept
<1>8. Carried'
  BY <1>4, <1>5, <1>t, TwoThreads DEF SafeInv, Carried, Commands
<1>9. EquipSide'
  <2>1. Counted'
    BY <1>4, <1>t DEF SafeInv, EquipSide, Counted
  <2>2. Received'
    BY <1>4, <1>5, <1>t DEF SafeInv, EquipSide, Received, Known, Ok
  <2>3. Instructed'
    BY <1>1, <1>4, <1>t DEF SafeInv, EquipSide, Instructed, Ok, Returned
  <2>4. QED BY <2>1, <2>2, <2>3 DEF EquipSide
<1>10. Heard'
  BY <1>0, <1>1, <1>4, <1>5, <1>t DEF SafeInv, HostSide, Heard, Holds, Taken
<1>11. Collects' /\ Refused'
  BY <1>0, <1>4, <1>t DEF SafeInv, HostSide, Collects, RecordsArePlacements, Refused
<1>12. QED BY <1>3, <1>6, <1>7, <1>8, <1>9, <1>10, <1>11 DEF SafeInv, HostSide

\* The host sends its next command.
LEMMA HostCommandsSafely ==
  ASSUME SafeInv, HostCommands
  PROVE  SafeInv'
<1>t. /\ Sent(Equip) \in Int /\ Len(events) \in Nat /\ commanded \in Nat
      /\ Len(HostPlan) \in Nat /\ DOMAIN HostPlan = 1 .. Len(HostPlan)
      /\ Len(records) \in Nat
      /\ UNCHANGED <<rcmd, equipPlan, placed, records, events>>
      /\ ThreadType /\ Conversation /\ InCall
  BY SafeThreads DEF HostCommands, plans, Conversation
<1>b. PICK body \in Item : body = Command(PlaceCommand(rcmd, HostPlan[commanded + 1]))
  <2>1. commanded < Len(HostPlan) /\ rcmd \in HostRcmds
    BY DEF HostCommands, SafeInv, TypeOK
  <2>2. QED BY <1>t, <2>1, PlansArePayload DEF Item
<1>0. /\ at[Host] \in {"select", "shake", "recorded"} /\ call[Host] = "idle" /\ Live(Host)
      /\ commanded < Len(HostPlan) /\ commanded' = commanded + 1
      /\ UNCHANGED <<shaken, served, panics>>
      /\ Moves(Host, "command") /\ Hsms!Transact(Host, 41, body)
  <2>1. CASE HostConnected
    BY <1>b, <2>1 DEF HostCommands, HostConnected, Accepts, Live, Ended
  <2>2. CASE at[Host] = "recorded"
    BY <1>b, <1>t, <2>2, CallFacts, TwoThreads DEF HostCommands, InCall, Live, Ended
  <2>3. QED BY <2>1, <2>2 DEF HostCommands
<1>1. ~Offered(Host) /\ Sent(Equip) = commanded
  <2>1. Len(events) = commanded /\ ~Holds
    BY <1>0 DEF SafeInv, HostSide, Collects, Holds
  <2>2. Sent(Equip) <= commanded
    BY DEF SafeInv, EquipSide, Counted
  <2>3. commanded = IF Offered(Host) THEN Sent(Equip) - 1 ELSE Sent(Equip)
    BY <1>0, <2>1 DEF SafeInv, HostSide, Heard, Taken
  <2>4. QED BY <1>t, <2>2, <2>3
<1>3. /\ Sends(Host, 41, body)
      /\ SessionType' /\ InCall' /\ (crossed' => crossed)
  BY <1>0, <1>1, <1>t, TwoThreads, TransactSends DEF CallOf
<1>4. /\ at'[Host] = "command" /\ at'[Equip] = at[Equip]
      /\ call'[Equip] = call[Equip] /\ ret'[Equip] = ret[Equip]
      /\ Sent(Equip)' = Sent(Equip)
  BY <1>0, <1>3, <1>t, MovesPlace, TwoThreads, SentFacts DEF Sends, Alone, Conversation
<1>5. /\ ~Offered(Host)'
      /\ Answered(Equip)' => Answered(Equip)
      /\ Flight(Host)' = Flight(Host)
      /\ \A m \in Flight(Equip)' :
           m \in Flight(Equip) \/ (m.owner = Host /\ m.function = 41 /\ m.body = body)
  BY <1>3, <1>t, TwoThreads, SendingOffers
<1>6. TypeOK' /\ Places'
  <2>1. commanded' \in 0 .. Len(HostPlan)
    BY <1>0, <1>t
  <2>2. QED BY <1>0, <1>t, <2>1, TwoThreads, PlaceKept DEF SafeInv, TypeOK
<1>7. Conversation'
  BY <1>3, <1>t, TwoThreads, ConversationKept
<1>8. Carried'
  <2>1. body \in Commands /\ Commands' = Commands /\ Sent(Equip)' < commanded'
    <3>1. commanded + 1 \in DOMAIN HostPlan
      BY <1>0, <1>t
    <3>2. QED BY <1>0, <1>1, <1>4, <1>b, <1>t, <3>1 DEF Commands
  <2>2. QED BY <1>5, <1>t, <2>1, TwoThreads DEF SafeInv, Carried
<1>9. EquipSide'
  <2>1. Counted'
    BY <1>0, <1>4, <1>t DEF SafeInv, EquipSide, Counted
  <2>2. Received'
    BY <1>4, <1>5, <1>t DEF SafeInv, EquipSide, Received, Known, Ok
  <2>3. Instructed'
    BY <1>1, <1>4, <1>t DEF SafeInv, EquipSide, Instructed, Ok, Returned
  <2>4. QED BY <2>1, <2>2, <2>3 DEF EquipSide
<1>10. Heard'
  BY <1>0, <1>1, <1>4, <1>5, <1>t DEF SafeInv, HostSide, Heard, Holds, Taken
<1>11. Collects'
  <2>1. Len(records) = commanded /\ Len(events) = commanded
    BY <1>0 DEF SafeInv, HostSide, Collects
  <2>2. commanded' - 1 = commanded /\ commanded' <= Len(HostPlan)
    BY <1>0, <1>t
  <2>3. QED BY <1>4, <1>t, <2>1, <2>2 DEF SafeInv, HostSide, Collects, RecordsArePlacements
<1>12. Refused'
  BY <1>4, <1>t DEF SafeInv, HostSide, Refused
<1>13. QED BY <1>3, <1>6, <1>7, <1>8, <1>9, <1>10, <1>11, <1>12 DEF SafeInv, HostSide

\* The machine reports the placement it was commanded to.
LEMMA EquipPlacesSafely ==
  ASSUME SafeInv, EquipPlaces
  PROVE  SafeInv'
<1>t. /\ Sent(Equip) \in Int /\ Len(events) \in Nat /\ commanded \in Nat /\ placed \in Nat
      /\ Len(equipPlan) \in Nat /\ equipPlan \in EquipPlans
      /\ UNCHANGED <<rcmd, equipPlan, commanded, placed, records, events>>
      /\ ThreadType /\ Conversation
  BY SafeThreads DEF EquipPlaces, runVars, plans, SafeInv, TypeOK
<1>0. /\ UNCHANGED <<shaken, served, panics>>
      /\ at[Equip] = "serve_command" /\ Moves(Equip, "report")
      /\ Ok(Equip) /\ call[Equip] = "idle" /\ Live(Equip)
      /\ Hsms!Transact(Equip, 11, Event(PlacementDone(equipPlan[placed + 1])))
  BY DEF EquipPlaces, Reports, Ok, Live, Ended
<1>1. /\ ~Offered(Equip) /\ Sent(Equip) = placed /\ placed < Len(equipPlan)
      /\ Sent(Equip) < commanded
  <2>1. Returned(Equip).function = 41
    BY DEF EquipPlaces, CommandFits
  <2>2. QED BY <1>0, <2>1 DEF SafeInv, EquipSide, Counted, Instructed
<1>2. rcmd = EquipRcmd
  <2>1. Returned(Equip).function = 41 /\ Returned(Equip).body[2][1] = EquipRcmd
    BY DEF EquipPlaces, CommandFits
  <2>2. Returned(Equip).body \in Commands
    BY <1>0, <2>1 DEF SafeInv, EquipSide, Instructed
  <2>3. PICK i \in DOMAIN HostPlan :
          Returned(Equip).body = Command(PlaceCommand(rcmd, HostPlan[i]))
    BY <2>2 DEF Commands
  <2>4. QED BY <2>1, <2>3 DEF Command, PlaceCommand
<1>3. Event(PlacementDone(equipPlan[placed + 1])) \in Item
  BY <1>1, <1>t, PlansArePayload DEF Item
<1>4. /\ Sends(Equip, 11, Event(PlacementDone(equipPlan[placed + 1])))
      /\ SessionType' /\ InCall' /\ (crossed' => crossed)
  BY <1>0, <1>1, <1>3, <1>t, TwoThreads, TransactSends DEF CallOf
<1>5. /\ at'[Equip] = "report" /\ at'[Host] = at[Host]
      /\ call'[Host] = call[Host] /\ ret'[Host] = ret[Host] /\ call'[Equip] = "transact"
      /\ Sent(Equip)' = Sent(Equip) + 1
      /\ Live(Host)' <=> Live(Host)
  <2>1. at'[Equip] = "report" /\ at'[Host] = at[Host]
    BY <1>0, <1>t, MovesPlace, TwoThreads
  <2>2. call'[Host] = call[Host] /\ ret'[Host] = ret[Host] /\ call'[Equip] = "transact"
    BY <1>4, TwoThreads DEF Sends, Alone
  <2>3. Sent(Equip)' = Sent(Equip) + 1
    BY <1>4, <1>t, TwoThreads, SentFacts DEF Conversation
  <2>4. QED BY <2>1, <2>2, <2>3 DEF Live
<1>6. /\ ~Offered(Host) /\ Offered(Host)' /\ ~Offered(Equip)' /\ ~Answered(Equip)'
      /\ Flight(Equip)' = Flight(Equip)
      /\ \A m \in Flight(Host)' :
           \/ m \in Flight(Host)
           \/ /\ m.owner = Equip /\ m.index = nextSystemBytes[Equip]
              /\ m.function = 11 /\ m.body = Event(PlacementDone(equipPlan[placed + 1]))
  BY <1>4, <1>t, TwoThreads, SendingOffers
<1>7. TypeOK' /\ Places'
  BY <1>0, <1>t, TwoThreads, PlaceKept DEF SafeInv, TypeOK
<1>8. Conversation'
  BY <1>4, <1>t, TwoThreads, ConversationKept
<1>9. Carried'
  <2>1. nextSystemBytes[Equip] = placed + 1
    BY <1>1, <1>t, TwoThreads DEF Sent, Conversation, SessionType
  <2>2. \A m \in Flight(Equip) : ~m.w
    BY <1>1, PrimaryOfPeer, TwoThreads DEF Offered
  <2>3. \A m \in Flight(Host) : m.w =>
          /\ m.owner = Equip /\ m.function = 11
          /\ m.body = Event(PlacementDone(equipPlan[m.index]))
    BY PrimaryOfPeer, TwoThreads DEF SafeInv, Carried
  <2>4. ASSUME NEW q \in Party, NEW m \in Flight(q)', m.w
        PROVE  /\ m.owner = Equip /\ m.function = 11
               /\ m.body = Event(PlacementDone(equipPlan[m.index]))
    <3>1. CASE q = Equip
      BY <1>6, <2>2, <2>4, <3>1
    <3>2. CASE q = Host
      BY <1>6, <2>1, <2>3, <2>4, <3>2
    <3>3. QED BY <3>1, <3>2, TwoThreads
  <2>5. QED BY <1>t, <2>4 DEF Carried
<1>10. EquipSide'
  BY <1>0, <1>1, <1>5, <1>6, <1>t
     DEF SafeInv, EquipSide, Counted, Received, Known, Instructed, Ok
<1>11. Heard'
  BY <1>1, <1>5, <1>6, <1>t
     DEF SafeInv, HostSide, Heard, Holds, Taken, Returned, Ok
<1>12. Collects' /\ Refused'
  BY <1>2, <1>5, <1>t DEF SafeInv, HostSide, Collects, RecordsArePlacements, Refused
<1>13. QED BY <1>4, <1>7, <1>8, <1>9, <1>10, <1>11, <1>12 DEF SafeInv, HostSide

\* What the host takes in is the event of the machine's commanded-th placement.
LEMMA EventTaken ==
  ASSUME SafeInv, Holds, events' = Served(Returned(Host))
  PROVE  /\ Len(events) = commanded - 1 /\ Len(events') = commanded
         /\ Len(events) < Sent(Equip) /\ commanded <= Len(equipPlan)
         /\ commanded \in DOMAIN HostPlan
         /\ events' = Append(events, PlacementDone(equipPlan[commanded]))
         /\ events' \in Seq(Payload)
         /\ equipPlan' = equipPlan =>
              \A i \in DOMAIN events' : events'[i] = PlacementDone(equipPlan'[i])
         /\ rcmd = EquipRcmd
         /\ IsAwaited(Returned(Host)) <=> equipPlan[commanded] = HostPlan[commanded]
<1>t. /\ Sent(Equip) \in Int /\ Len(events) \in Nat /\ commanded \in Nat
      /\ Len(HostPlan) \in Nat /\ DOMAIN HostPlan = 1 .. Len(HostPlan)
      /\ Len(equipPlan) \in Nat
      /\ events \in Seq(Payload) /\ equipPlan \in EquipPlans
  BY SafeThreads DEF SafeInv, TypeOK
<1>1. /\ Returned(Host).function = 11
      /\ Returned(Host).body = Event(PlacementDone(equipPlan[Len(events) + 1]))
      /\ Len(events) < Sent(Equip)
  BY DEF SafeInv, HostSide, Heard
<1>2. Sent(Equip) <= commanded /\ Sent(Equip) <= Len(equipPlan)
  BY DEF SafeInv, EquipSide, Counted
<1>3. Len(events) \in {commanded - 1, commanded} /\ commanded <= Len(HostPlan)
  BY DEF SafeInv, HostSide, Collects, Holds
<1>4. /\ Len(events) = commanded - 1 /\ Len(events) + 1 = commanded
      /\ commanded <= Len(equipPlan) /\ commanded \in DOMAIN HostPlan
      /\ Len(events) < Len(equipPlan)
  BY <1>1, <1>2, <1>3, <1>t
<1>5. events' = Append(events, PlacementDone(equipPlan[commanded]))
  BY <1>1, <1>4 DEF Served, Event
<1>6. PlacementDone(equipPlan[commanded]) \in Payload
  <2>1. PlacementDone(equipPlan[Len(events) + 1]) \in Payload
    BY <1>4, <1>t, PlansArePayload
  <2>2. QED BY <1>4, <2>1
<1>7. events' \in Seq(Payload) /\ Len(events') = commanded
  BY <1>4, <1>5, <1>6, <1>t
<1>8. \A i \in DOMAIN events' : events'[i] = PlacementDone(equipPlan[i])
  <2>1. \A i \in DOMAIN events' : \/ i \in DOMAIN events /\ events'[i] = events[i]
                                  \/ /\ i = commanded
                                     /\ events'[i] = PlacementDone(equipPlan[commanded])
    BY <1>4, <1>5, <1>6, <1>t
  <2>2. QED BY <2>1 DEF SafeInv, HostSide, Collects
<1>9. rcmd = EquipRcmd
  BY <1>1, <1>t DEF SafeInv, HostSide, Refused
<1>10. IsAwaited(Returned(Host)) <=> equipPlan[commanded] = HostPlan[commanded]
  BY <1>1, <1>4 DEF IsAwaited, Event, PlacementDone
<1>11. QED BY <1>1, <1>4, <1>5, <1>7, <1>8, <1>9, <1>10

\* The host awaits an event, the first one or the one after an event of
\* another site.
LEMMA HostAwaitsSafely ==
  ASSUME SafeInv, HostAwaits
  PROVE  SafeInv'
<1>t. /\ Sent(Equip) \in Int /\ Len(events) \in Nat /\ commanded \in Nat
      /\ UNCHANGED <<rcmd, equipPlan, commanded, placed, records>>
      /\ UNCHANGED <<shaken, served, panics, crossed>>
      /\ ThreadType /\ Conversation
  BY SafeThreads DEF HostAwaits, plans, Hsms!ServeOne
<1>0. /\ Ok(Host) /\ Live(Host) /\ Moves(Host, "await")
      /\ Hsms!Enters(Host, "serve_one") /\ UNCHANGED <<inbox, nextSystemBytes>>
  BY DEF HostAwaits, Hsms!ServeOne, Live, Ended, Ok
<1>1. Quiet(Host) /\ SessionType' /\ InCall'
  <2>1. /\ "await" \in DOMAIN CallOf /\ CallOf["await"] = "serve_one"
        /\ "serve_one" \in Hsms!Operation
    BY DEF CallOf, Hsms!Operation
  <2>2. QED BY <1>0, <1>t, <2>1, TwoThreads, StartsQuietly
<1>2. /\ at'[Host] = "await" /\ Places'
      /\ at' \in [Party -> {"start", "select", "shake", "accept", "serve", "command",
                            "await", "recorded", "serve_command", "report",
                            "acknowledged"} \cup Ended]
  BY <1>0, TwoThreads, PlaceKept
<1>3. ~Holds'
  BY <1>0, <1>t, TwoThreads DEF Hsms!Enters, Holds, Ok, Conversation, SessionType
<1>4. CASE at[Host] = "command" /\ UNCHANGED events
  <2>1. TypeOK'
    BY <1>2, <1>4, <1>t DEF SafeInv, TypeOK
  <2>2. ~Holds
    BY <1>4 DEF Holds
  <2>3. Collects'
    BY <1>2, <1>4, <1>t DEF SafeInv, HostSide, Collects, RecordsArePlacements
  <2>4. QED BY <1>1, <1>2, <1>3, <1>4, <1>t, <2>1, <2>2, <2>3, HostRests DEF Quiet, plans
<1>5. CASE at[Host] = "await" /\ events' = Served(Returned(Host))
  <2>1. Holds
    BY <1>0, <1>5 DEF Holds
  <2>2. /\ Len(events) = commanded - 1 /\ Len(events') = commanded
        /\ commanded <= Len(equipPlan) /\ events' \in Seq(Payload)
        /\ \A i \in DOMAIN events' : events'[i] = PlacementDone(equipPlan'[i])
        /\ rcmd = EquipRcmd
    BY <1>5, <1>t, <2>1, EventTaken
  <2>3. TypeOK'
    BY <1>2, <1>t, <2>2 DEF SafeInv, TypeOK
  <2>4. Heard'
    <3>1. /\ Sent(Equip)' = Sent(Equip)
          /\ Offered(Host)' => Offered(Host)
          /\ Live(Host)' => (Offered(Host) => Offered(Host)') /\ Live(Host)
      BY <1>1, <1>t, TwoThreads, SentFacts, FadingOffers DEF Quiet, Conversation
    <3>2. Taken' = Taken
      BY <1>3, <1>t, <2>1, <2>2 DEF Taken
    <3>3. QED BY <1>3, <3>1, <3>2 DEF SafeInv, HostSide, Heard
  <2>5. Collects'
    <3>1. Len(records) = commanded - 1 /\ commanded <= Len(HostPlan)
      BY <1>5 DEF SafeInv, HostSide, Collects
    <3>2. QED BY <1>2, <1>t, <2>2, <3>1
          DEF SafeInv, HostSide, Collects, RecordsArePlacements
  <2>6. Refused'
    BY <1>t, <2>2 DEF Refused
  <2>7. QED BY <1>1, <1>2, <1>t, <2>2, <2>3, <2>4, <2>5, <2>6, HostFades
        DEF HostSide, Quiet, plans
<1>6. QED BY <1>4, <1>5 DEF HostAwaits

\* The host records the placement whose event it awaited.
LEMMA HostRecordsSafely ==
  ASSUME SafeInv, HostRecords
  PROVE  SafeInv'
<1>t. /\ Sent(Equip) \in Int /\ Len(events) \in Nat /\ commanded \in Nat
      /\ UNCHANGED <<rcmd, equipPlan, commanded, placed>>
      /\ UNCHANGED <<shaken, served, panics, crossed, call, ret, inbox, nextSystemBytes>>
      /\ ThreadType /\ Conversation
      /\ records \in Seq({HostPlan[i] : i \in DOMAIN HostPlan})
  BY SafeThreads DEF HostRecords, plans, sessionVars, SafeInv, TypeOK
<1>0. /\ Holds /\ Ok(Host) /\ at[Host] = "await" /\ call[Host] = "idle" /\ ret[Host].ok
      /\ Moves(Host, "recorded") /\ IsAwaited(Returned(Host)) /\ Live(Host)
      /\ events' = Served(Returned(Host)) /\ records' = Append(records, HostPlan[commanded])
  BY DEF HostRecords, Holds, Ok, Live, Ended
<1>1. Fades(Host) /\ SessionType' /\ InCall'
  BY <1>0, <1>t, TwoThreads, IdleMoves DEF Ended
<1>2. /\ at'[Host] = "recorded" /\ Places' /\ ~Holds'
      /\ at' \in [Party -> {"start", "select", "shake", "accept", "serve", "command",
                            "await", "recorded", "serve_command", "report",
                            "acknowledged"} \cup Ended]
  BY <1>0, TwoThreads, PlaceKept DEF Holds
<1>3. /\ Len(events) = commanded - 1 /\ Len(events') = commanded
      /\ commanded <= Len(equipPlan) /\ events' \in Seq(Payload)
      /\ commanded \in DOMAIN HostPlan
      /\ \A i \in DOMAIN events' : events'[i] = PlacementDone(equipPlan'[i])
      /\ rcmd = EquipRcmd /\ equipPlan[commanded] = HostPlan[commanded]
  BY <1>0, <1>t, EventTaken
<1>4. /\ Len(records') = commanded
      /\ records' \in Seq({HostPlan[i] : i \in DOMAIN HostPlan})
      /\ \A i \in DOMAIN records' : \/ i \in DOMAIN records /\ records'[i] = records[i]
                                    \/ i = commanded /\ records'[i] = HostPlan[commanded]
  <2>1. Len(records) = commanded - 1
    BY <1>0 DEF SafeInv, HostSide, Collects
  <2>2. QED BY <1>0, <1>3, <1>t, <2>1
<1>5. RecordsArePlacements'
  BY <1>3, <1>4, <1>t DEF SafeInv, HostSide, Collects, RecordsArePlacements
<1>6. TypeOK'
  BY <1>2, <1>3, <1>4, <1>t DEF SafeInv, TypeOK
<1>7. Heard'
  <2>1. /\ Sent(Equip)' = Sent(Equip)
        /\ Offered(Host)' => Offered(Host)
        /\ Live(Host)' => (Offered(Host) => Offered(Host)') /\ Live(Host)
    BY <1>1, <1>t, TwoThreads, SentFacts, FadingOffers DEF Conversation
  <2>2. Taken' = Taken
    BY <1>0, <1>2, <1>3, <1>t DEF Taken
  <2>3. QED BY <1>2, <2>1, <2>2 DEF SafeInv, HostSide, Heard
<1>8. Collects'
  BY <1>2, <1>3, <1>4, <1>5, <1>t DEF SafeInv, HostSide, Collects
<1>9. Refused'
  BY <1>3, <1>t DEF Refused
<1>10. QED BY <1>1, <1>2, <1>3, <1>6, <1>7, <1>8, <1>9, <1>t, HostFades DEF HostSide, plans

\* The host selects.
LEMMA HostSelectsSafely ==
  ASSUME SafeInv, HostSelects, UNCHANGED runVars
  PROVE  SafeInv'
<1>t. /\ UNCHANGED <<rcmd, equipPlan, commanded, placed, records, events>>
      /\ ThreadType /\ Conversation
  BY SafeThreads DEF runVars, plans
<1>1. /\ at[Host] = "start" /\ Hsms!Enters(Host, "select") /\ Hsms!Draws(Host)
      /\ Hsms!Writes(Host, Hsms!Control("SelectReq")) /\ Moves(Host, "select")
      /\ UNCHANGED <<shaken, served, panics, crossed>>
      /\ Live(Host)
  BY DEF HostSelects, Hsms!Select, Live, Ended
<1>2. "select" \in DOMAIN CallOf /\ CallOf["select"] = "select" /\ "select" \in Hsms!Operation
  BY DEF CallOf, Hsms!Operation
<1>3. Fades(Host) /\ SessionType' /\ InCall'
  BY <1>1, <1>2, <1>t, TwoThreads, StartsQuietly DEF Quiet
<1>4. at'[Host] = "select" /\ Places' /\ TypeOK'
  BY <1>1, <1>t, TwoThreads, PlaceKept DEF SafeInv, TypeOK
<1>5. Collects'
  BY <1>1, <1>4, <1>t DEF SafeInv, HostSide, Collects, RecordsArePlacements
<1>6. QED BY <1>1, <1>3, <1>4, <1>5, <1>t, HostRests DEF Holds, plans

\* The host returns, with its records or an error.
LEMMA HostStops ==
  ASSUME SafeInv, \/ HostFinishes
                  \/ Fails(Host, AcceptsInRun(Host)) /\ UNCHANGED runVars
                  \/ Panics(Host) /\ UNCHANGED runVars
  PROVE  SafeInv'
<1>t. /\ ThreadType /\ Conversation /\ InCall
      /\ UNCHANGED <<rcmd, equipPlan, commanded, placed, records, events>>
  BY SafeThreads DEF HostFinishes, runVars, plans, Conversation
<1>1. PICK to \in Ended :
        /\ Moves(Host, to) /\ call[Host] = "idle" /\ at[Host] \notin Ended
        /\ UNCHANGED <<call, ret, inbox, nextSystemBytes, crossed, shaken, served>>
        /\ panics' \in 0 .. MaxPanics
        /\ to = "done" => at[Host] \in {"select", "shake", "recorded"}
                          /\ commanded = Len(HostPlan)
  <2>1. CASE HostFinishes
    <3>1. call[Host] = "idle" /\ at[Host] \in {"select", "shake", "recorded"}
      BY <1>t, <2>1, TwoThreads, CallFacts DEF HostFinishes, HostConnected
    <3>2. QED BY <2>1, <3>1 DEF HostFinishes, sessionVars, Ended, SafeInv, TypeOK
  <2>2. CASE Fails(Host, AcceptsInRun(Host)) \/ Panics(Host)
    BY <2>2, PanicAssumption DEF Fails, Panics, Ends, Hsms!Drop, Ended, SafeInv, TypeOK
  <2>3. QED BY <2>1, <2>2
<1>2. Fades(Host) /\ SessionType' /\ InCall'
  BY <1>1, <1>t, TwoThreads, IdleMoves DEF Ended
<1>3. at'[Host] = to /\ Places' /\ TypeOK'
  BY <1>1, <1>t, TwoThreads, PlaceKept DEF SafeInv, TypeOK
<1>4. Collects'
  BY <1>1, <1>3, <1>t DEF SafeInv, HostSide, Collects, RecordsArePlacements, Ended
<1>5. ~Holds' /\ ~Live(Host)'
  BY <1>3 DEF Holds, Live, Ended
<1>6. QED BY <1>1, <1>2, <1>3, <1>4, <1>5, <1>t, HostRests DEF plans

\* The machine accepts, serves the handshake and awaits its next command.
LEMMA EquipStarts ==
  ASSUME SafeInv, \/ (EquipAccepts \/ EquipServes) /\ UNCHANGED runVars
                  \/ EquipAwaitsCommand
  PROVE  SafeInv'
<1>t. /\ ThreadType /\ Conversation /\ InCall /\ Sent(Equip) \in Int /\ placed \in Nat
      /\ UNCHANGED <<rcmd, equipPlan, commanded, placed, records, events>>
  BY SafeThreads DEF EquipAwaitsCommand, runVars, plans, Conversation
<1>1. PICK op \in Hsms!Operation, to \in DOMAIN CallOf :
        /\ op # "transact" /\ CallOf[to] = op /\ Moves(Equip, to) /\ Hsms!Enters(Equip, op)
        /\ UNCHANGED <<inbox, nextSystemBytes, shaken, panics, crossed>>
        /\ Live(Equip) /\ at[Equip] \in {"start", "accept", "serve", "acknowledged"}
        /\ to \in {"accept", "serve", "serve_command"} /\ served' \in 0 .. 2
        /\ to # "serve_command" => at[Equip] # "acknowledged"
        /\ to = "serve_command" => placed < Len(equipPlan)
  <2>1. CASE EquipAccepts
    BY <2>1 DEF EquipAccepts, Hsms!AcceptSelect, CallOf, Hsms!Operation, Live, Ended,
                SafeInv, TypeOK
  <2>2. CASE EquipServes
    <3>1. served' \in 0 .. 2
      BY <2>2 DEF EquipServes, SafeInv, TypeOK
    <3>2. QED BY <2>2, <3>1
          DEF EquipServes, Hsms!ServeOne, CallOf, Hsms!Operation, Live, Ended, Ok
  <2>3. CASE EquipAwaitsCommand
    <3>1. at[Equip] \in {"serve", "acknowledged"} /\ Live(Equip) /\ placed < Len(equipPlan)
      BY <1>t, <2>3, TwoThreads
         DEF EquipAwaitsCommand, EquipConnected, Ok, Live, Ended, InCall
    <3>2. /\ Moves(Equip, "serve_command") /\ Hsms!Enters(Equip, "serve_one")
          /\ UNCHANGED <<inbox, nextSystemBytes, shaken, served, panics, crossed>>
      BY <2>3 DEF EquipAwaitsCommand, Hsms!ServeOne
    <3>3. QED BY <3>1, <3>2 DEF CallOf, Hsms!Operation, SafeInv, TypeOK
  <2>4. QED BY <2>1, <2>2, <2>3
<1>2. Quiet(Equip) /\ SessionType' /\ InCall'
  BY <1>1, <1>t, TwoThreads, StartsQuietly
<1>3. /\ at'[Equip] = to /\ Places' /\ TypeOK'
  BY <1>1, <1>t, TwoThreads, PlaceKept DEF SafeInv, TypeOK
<1>4. /\ Fades(Equip) /\ Sent(Equip)' = Sent(Equip)
      /\ Answered(Equip)' => Answered(Equip)
      /\ ~Ok(Equip)'
  <2>1. call'[Equip] = op /\ op # "idle"
    BY <1>1, <1>t, TwoThreads DEF Hsms!Enters, Conversation, SessionType, Hsms!Operation
  <2>2. QED BY <1>2, <1>t, <2>1, TwoThreads, FadingOffers, SentFacts
        DEF Quiet, Conversation, Ok
<1>5. Sent(Equip) = placed
  BY <1>1, <1>t DEF SafeInv, EquipSide, Counted
<1>6. Counted'
  BY <1>1, <1>3, <1>4, <1>5, <1>t DEF SafeInv, EquipSide, Counted
<1>7. Received'
  BY <1>1, <1>3, <1>4, <1>t DEF SafeInv, EquipSide, Received, Known
<1>8. Instructed'
  BY <1>4 DEF Instructed
<1>9. QED BY <1>1, <1>3, <1>4, <1>2, <1>6, <1>7, <1>8, <1>t, EquipFades DEF EquipSide, plans

\* The machine counts a placement, or returns.
LEMMA EquipStops ==
  ASSUME SafeInv, \/ EquipFinishes
                  \/ EquipAcknowledged
                  \/ Fails(Equip, AcceptsInRun(Equip)) /\ UNCHANGED runVars
                  \/ Panics(Equip) /\ UNCHANGED runVars
  PROVE  SafeInv'
<1>t. /\ ThreadType /\ Conversation /\ InCall /\ Sent(Equip) \in Int /\ placed \in Nat
      /\ Len(equipPlan) \in Nat /\ Len(events) \in Nat
      /\ UNCHANGED <<rcmd, equipPlan, commanded, records, events>>
  BY SafeThreads DEF EquipFinishes, EquipAcknowledged, runVars, plans, Conversation
<1>1. PICK to \in {"acknowledged"} \cup Ended :
        /\ Moves(Equip, to) /\ call[Equip] = "idle" /\ at[Equip] \notin Ended
        /\ UNCHANGED <<call, ret, inbox, nextSystemBytes, crossed, shaken, served>>
        /\ panics' \in 0 .. MaxPanics
        /\ to = "acknowledged" => at[Equip] = "report" /\ ret[Equip].ok /\ placed' = placed + 1
        /\ to # "acknowledged" => placed' = placed
        /\ to = "done" => at[Equip] \in {"serve", "acknowledged"} /\ placed = Len(equipPlan)
  <2>1. CASE EquipFinishes
    <3>1. call[Equip] = "idle" /\ at[Equip] \in {"serve", "acknowledged"}
      BY <1>t, <2>1, TwoThreads, CallFacts DEF EquipFinishes, EquipConnected, Ok
    <3>2. QED BY <2>1, <3>1
          DEF EquipFinishes, Ends, Hsms!Drop, runVars, Ended, SafeInv, TypeOK
  <2>2. CASE EquipAcknowledged
    BY <2>2 DEF EquipAcknowledged, Acknowledged, Accepts, sessionVars, Ended, SafeInv, TypeOK
  <2>3. CASE (Fails(Equip, AcceptsInRun(Equip)) \/ Panics(Equip)) /\ UNCHANGED runVars
    BY <2>3, PanicAssumption
       DEF Fails, Panics, Ends, Hsms!Drop, runVars, Ended, SafeInv, TypeOK
  <2>4. QED BY <2>1, <2>2, <2>3
<1>2. Fades(Equip) /\ SessionType' /\ InCall'
  BY <1>1, <1>t, TwoThreads, IdleMoves DEF Ended
<1>3. /\ at'[Equip] = to /\ Places'
      /\ at' \in [Party -> {"start", "select", "shake", "accept", "serve", "command",
                            "await", "recorded", "serve_command", "report",
                            "acknowledged"} \cup Ended]
  BY <1>1, TwoThreads, PlaceKept
<1>4. /\ Sent(Equip)' = Sent(Equip)
      /\ Answered(Equip)' <=> Answered(Equip)
  BY <1>1 DEF Sent, Answered, Flight
<1>5. Counted' /\ placed' \in 0 .. Len(equipPlan')
  BY <1>1, <1>3, <1>4, <1>t DEF SafeInv, EquipSide, Counted, Ended, TypeOK
<1>6. TypeOK'
  BY <1>1, <1>3, <1>5, <1>t DEF SafeInv, TypeOK
<1>7. Received'
  <2>1. CASE at[Equip] = "serve"
    BY <1>4, <1>t, <2>1 DEF SafeInv, EquipSide, Counted, Received
  <2>2. CASE at[Equip] # "serve"
    <3>1. Known' => Known
      BY <1>1, <1>3, <1>4, <2>2 DEF Known, Ended, Ok
    <3>2. QED BY <1>4, <1>t, <3>1 DEF SafeInv, EquipSide, Received
  <2>3. QED BY <2>1, <2>2
<1>8. Instructed'
  BY <1>3 DEF Instructed, Ended
<1>9. QED BY <1>1, <1>2, <1>3, <1>5, <1>6, <1>7, <1>8, <1>t, EquipFades DEF EquipSide, plans

\* One iteration of a read loop.
LEMMA SessionStepsSafely ==
  ASSUME SafeInv, NEW p \in Party, SessionStep(p), UNCHANGED runVars
  PROVE  SafeInv'
<1>t. /\ ThreadType /\ Conversation /\ InCall /\ Answerable(p)
      /\ UNCHANGED <<rcmd, equipPlan, commanded, placed, records, events>>
  BY SafeThreads, AllAnswerable DEF Conversation, runVars, plans
<1>1. /\ Serves(p) \/ Quiet(p)
      /\ SessionType' /\ InCall' /\ UNCHANGED <<at, shaken, served, panics, crossed>>
      /\ call[p] # "idle"
  BY <1>t, SessionStepIs
<1>2. TypeOK' /\ Places'
  BY <1>1, <1>t DEF SafeInv, TypeOK, Places
<1>3. CASE Serves(p)
  BY <1>1, <1>2, <1>3, TwoThreads, HostServed, EquipServed
<1>4. CASE Quiet(p) /\ p = Host
  <2>1. ~Holds
    BY <1>1, <1>4 DEF Holds, Ok
  <2>2. ~Holds'
    BY <1>1, <1>4, <1>t, InsideFacts DEF Holds, Ok, Quiet, CallOf
  <2>3. Collects'
    BY <1>1, <1>t DEF SafeInv, HostSide, Collects, RecordsArePlacements
  <2>4. QED BY <1>1, <1>2, <1>4, <1>t, <2>1, <2>2, <2>3, HostRests DEF Quiet, plans
<1>5. CASE Quiet(p) /\ p = Equip
  <2>1. /\ Fades(Equip) /\ Sent(Equip)' = Sent(Equip)
        /\ Answered(Equip)' => Answered(Equip)
    BY <1>5, <1>t, TwoThreads, FadingOffers, SentFacts DEF Quiet, Conversation
  <2>2. at[Equip] = "report" /\ Ok(Equip)' => Answered(Equip)
    BY <1>1, <1>5, <1>t, InsideFacts DEF Ok, Quiet, CallOf
  <2>3. at[Equip] = "serve_command" => ~Ok(Equip)'
    BY <1>1, <1>5, <1>t, InsideFacts DEF Ok, Quiet, CallOf
  <2>4. Counted'
    BY <1>1, <1>t, <2>1 DEF SafeInv, EquipSide, Counted
  <2>5. Received'
    BY <1>1, <1>t, <2>1, <2>2 DEF SafeInv, EquipSide, Received, Known
  <2>6. Instructed'
    BY <1>1, <2>3 DEF Instructed
  <2>7. QED BY <1>1, <1>2, <1>t, <2>1, <2>4, <2>5, <2>6, EquipFades DEF EquipSide, plans
<1>6. QED BY <1>1, <1>3, <1>4, <1>5, TwoThreads

\* Something arrives from elsewhere, or nothing happens.
LEMMA NothingElse ==
  ASSUME SafeInv, UNCHANGED <<threadVars, runVars>>,
         \/ \E p \in Party, kind \in External : Hsms!ExternalFrame(p, kind)
         \/ UNCHANGED sessionVars
  PROVE  SafeInv'
<1>t. /\ ThreadType /\ Conversation
      /\ UNCHANGED <<at, shaken, served, panics>>
      /\ UNCHANGED <<rcmd, equipPlan, commanded, placed, records, events>>
  BY SafeThreads DEF threadVars, runVars, plans
<1>2. TypeOK' /\ Places'
  BY <1>t DEF SafeInv, TypeOK, Places
<1>3. Collects'
  BY <1>t DEF SafeInv, HostSide, Collects, RecordsArePlacements
<1>4. CASE UNCHANGED sessionVars
  <2>1. UNCHANGED <<call, ret, inbox, nextSystemBytes, crossed>>
    BY <1>4 DEF sessionVars
  <2>2. Conversation'
    BY <1>t, <2>1
       DEF Conversation, SessionType, InCall, Directed, OneFrame, Pending, Ahead, Carries,
           Sent, Live
  <2>3. Carried'
    BY <1>t, <2>1 DEF SafeInv, Carried, Flight, Commands, Sent
  <2>4. EquipSide'
    BY <1>t, <2>1
       DEF SafeInv, EquipSide, Counted, Received, Known, Instructed, Ok, Sent,
           Answered, Offered, Flight, Commands, Returned
  <2>5. Heard' /\ Refused'
    BY <1>t, <2>1
       DEF SafeInv, HostSide, Heard, Holds, Taken, Refused, Ok, Sent, Live, Offered,
           Flight, Returned
  <2>6. QED BY <1>2, <1>3, <2>1, <2>2, <2>3, <2>4, <2>5 DEF SafeInv, HostSide
<1>5. CASE \E p \in Party, kind \in External : Hsms!ExternalFrame(p, kind)
  <2>1. PICK p \in Party : \E kind \in External : Hsms!ExternalFrame(p, kind)
    BY <1>5
  <2>2. /\ Fades(p) /\ SessionType' /\ InCall' /\ UNCHANGED crossed
        /\ UNCHANGED <<call, ret, nextSystemBytes>>
    BY <1>t, <2>1, ArrivesQuietly DEF Hsms!ExternalFrame
  <2>3. CASE p = Host
    BY <1>2, <1>3, <1>t, <2>2, <2>3, HostRests DEF Holds, Ok, plans
  <2>4. CASE p = Equip
    <3>1. /\ Sent(Equip)' = Sent(Equip)
          /\ (Answered(Equip)' => Answered(Equip)) /\ (Offered(Equip)' => Offered(Equip))
      BY <1>t, <2>2, <2>4, TwoThreads, FadingOffers, SentFacts DEF Conversation
    <3>2. EquipSide'
      BY <1>t, <2>2, <3>1
         DEF SafeInv, EquipSide, Counted, Received, Known, Instructed, Ok, Returned, Commands
    <3>3. QED BY <1>2, <1>t, <2>2, <2>4, <3>2, EquipFades DEF plans
  <2>5. QED BY <2>3, <2>4, TwoThreads
<1>6. QED BY <1>4, <1>5

\* Every step of a run keeps the invariant.
LEMMA SafeKept ==
  ASSUME SafeInv, [Next]_vars
  PROVE  SafeInv'
<1>1. CASE HostStep
  <2>1. CASE HostCommands \/ HostAwaits \/ HostRecords \/ HostFinishes
    BY <2>1, HostCommandsSafely, HostAwaitsSafely, HostRecordsSafely, HostStops
  <2>2. CASE (HostSelects \/ HostShakes \/ SessionStep(Host)) /\ UNCHANGED runVars
    BY <2>2, HostSelectsSafely, HostShakesSafely, SessionStepsSafely, TwoThreads
  <2>3. CASE Fails(Host, AcceptsInRun(Host)) /\ UNCHANGED runVars
    BY <2>3, HostStops
  <2>4. QED BY <1>1, <2>1, <2>2, <2>3 DEF HostStep
<1>2. CASE EquipStep
  <2>1. CASE EquipAwaitsCommand \/ EquipPlaces \/ EquipAcknowledged \/ EquipFinishes
    BY <2>1, EquipStarts, EquipPlacesSafely, EquipStops
  <2>2. CASE (EquipAccepts \/ EquipServes \/ SessionStep(Equip)) /\ UNCHANGED runVars
    BY <2>2, EquipStarts, SessionStepsSafely, TwoThreads
  <2>3. CASE Fails(Equip, AcceptsInRun(Equip)) /\ UNCHANGED runVars
    BY <2>3, EquipStops
  <2>4. QED BY <1>2, <2>1, <2>2, <2>3 DEF EquipStep
<1>3. CASE Disturbance
  <2>1. ASSUME NEW p \in Party, Panics(p), UNCHANGED runVars PROVE SafeInv'
    BY <2>1, TwoThreads, HostStops, EquipStops
  <2>2. CASE /\ \E p \in Party, kind \in External : Hsms!ExternalFrame(p, kind)
             /\ UNCHANGED threadVars /\ UNCHANGED runVars
    BY <2>2, NothingElse
  <2>3. QED BY <1>3, <2>1, <2>2 DEF Disturbance
<1>4. CASE UNCHANGED vars
  BY <1>4, NothingElse DEF vars
<1>5. QED BY <1>1, <1>2, <1>3, <1>4 DEF Next

\* It holds before the first one.
LEMMA SafeBegins == Init => SafeInv
<1> SUFFICES ASSUME Init PROVE SafeInv
  OBVIOUS
<1>1. /\ at = [p \in Party |-> "start"] /\ at[Host] = "start" /\ at[Equip] = "start"
      /\ shaken = 0 /\ served = 0 /\ panics = 0 /\ commanded = 0 /\ placed = 0
      /\ records = <<>> /\ events = <<>> /\ rcmd \in HostRcmds /\ equipPlan \in EquipPlans
      /\ \A p \in Party : inbox[p] = <<>> /\ nextSystemBytes[p] = 1 /\ call[p] = "idle"
      /\ Host \in Party /\ Equip \in Party
  BY TwoThreads DEF Init, ThreadInit, Hsms!Init, Party, Hsms!Party
<1>2. Len(HostPlan) \in Nat /\ Len(equipPlan) \in Nat /\ Len(Handshake) \in Nat
  BY <1>1, PlansAssumption, HandshakeAssumption
<1>3. Conversation /\ ~crossed
  BY ConversationBegins DEF Init
<1>4. TypeOK /\ Places
  BY <1>1, <1>2, PanicAssumption DEF TypeOK, Places
<1>5. (\A q \in Party : Flight(q) = {}) /\ Sent(Equip) = 0
  BY <1>1 DEF Flight, Sent
<1>6. Carried
  BY <1>5 DEF Carried
<1>7. EquipSide
  BY <1>1, <1>2, <1>5
     DEF EquipSide, Counted, Received, Known, Instructed, Answered, Ok
<1>8. Heard
  BY <1>1, <1>5 DEF Heard, Holds, Taken, Offered
<1>9. Collects /\ Refused
  BY <1>1, <1>2, <1>5 DEF Collects, Refused, RecordsArePlacements
<1>10. QED BY <1>3, <1>4, <1>6, <1>7, <1>8, <1>9 DEF SafeInv, HostSide

\* The inductive invariant of a placement run.
LEMMA Safety == Spec => []SafeInv
BY SafeBegins, SafeKept, PTL DEF Spec

\* Whatever the plans and the techniques, whoever panics and whatever control
\* frames arrive, the threads of a placement run keep to their places and the
\* run's variables to their types: the host never commands, and the machine
\* never counts, more than its plan has.
THEOREM AssemblyTypeCorrect == Spec => []TypeOK
<1>1. SafeInv => TypeOK
  BY DEF SafeInv
<1>2. QED BY <1>1, Safety, PTL

\* Both threads of a placement run send primaries, in turn: neither sends one
\* while one of the other's is unanswered, so no transact takes an event report
\* or a command for its secondary.
THEOREM AssemblyNeverCrosses == Spec => []NeverCrosses
<1>1. SafeInv => NeverCrosses
  BY DEF SafeInv, NeverCrosses
<1>2. QED BY <1>1, Safety, PTL

\* Each PlacementRecord execute_plan has pushed is of the site both plans have
\* at its place, whatever else the two plans disagree in.
THEOREM PlacementRecords == Spec => []RecordsArePlacements
<1>1. SafeInv => RecordsArePlacements
  BY DEF SafeInv, HostSide, Collects
<1>2. QED BY <1>1, Safety, PTL

\* The machine reports no placement before the host has commanded as many.
THEOREM PlacesAsCommanded == Spec => []NothingUncommanded
<1>1. SafeInv => NothingUncommanded
  <2> SUFFICES ASSUME SafeInv PROVE NothingUncommanded
    OBVIOUS
  <2>1. Sent(Equip) \in Int /\ placed \in Nat /\ commanded \in Nat
    BY SafeThreads
  <2>2. QED BY <2>1 DEF SafeInv, EquipSide, Counted, NothingUncommanded
<1>2. QED BY <1>1, Safety, PTL

\* A host whose backend is of another technique than the machine never takes
\* the S2F42 for a placement: it records nothing, hears of none, and does not
\* return Ok.  Only a plan with nothing in it is executed by any machine.
THEOREM WrongTechniqueRefused ==
  ASSUME HostPlan # <<>>
  PROVE  Spec => []WrongTechniquePlacesNothing
<1>1. SafeInv => WrongTechniquePlacesNothing
  <2> SUFFICES ASSUME SafeInv, rcmd # EquipRcmd
               PROVE  records = <<>> /\ events = <<>> /\ at[Host] # "done"
    BY DEF WrongTechniquePlacesNothing
  <2>1. events = <<>> /\ records = <<>>
    BY DEF SafeInv, HostSide, Refused
  <2>2. Len(HostPlan) # 0
    BY PlansAssumption
  <2>3. QED BY <2>1, <2>2 DEF SafeInv, HostSide, Collects
<1>2. QED BY <1>1, Safety, PTL

----------------------------------------------------------------------------
(* A placement run is a stream of acknowledged reports                     *)

\* The placements a machine reports are a sequence of payloads.
LEMMA PlacementsFacts ==
  ASSUME equipPlan \in EquipPlans
  PROVE  /\ [i \in DOMAIN equipPlan |-> PlacementDone(equipPlan[i])] \in Seq(Payload)
         /\ Len([i \in DOMAIN equipPlan |-> PlacementDone(equipPlan[i])]) = Len(equipPlan)
         /\ \A i \in 1 .. Len(equipPlan) :
              [j \in DOMAIN equipPlan |-> PlacementDone(equipPlan[j])][i]
                = PlacementDone(equipPlan[i])
<1>1. PICK n \in Nat : n = Len(equipPlan) /\ DOMAIN equipPlan = 1 .. n
  BY PlansAssumption
<1>2. [i \in 1 .. n |-> PlacementDone(equipPlan[i])] \in [1 .. n -> Payload]
  BY <1>1, PayloadAssumption
<1>3. QED BY <1>1, <1>2

\* A step that ends no thread, takes no event in and counts no placement is
\* none of the stream's.
LEMMA StreamStutters ==
  ASSUME SafeInv, UNCHANGED <<equipPlan, events, placed>>,
         \/ UNCHANGED at
         \/ \E p \in Party : \E to : to \notin Ended /\ at[p] \notin Ended /\ Moves(p, to)
  PROVE  UNCHANGED Stream!vars
<1>1. UNCHANGED <<EndOf(Host), EndOf(Equip)>>
  <2>1. CASE UNCHANGED at
    BY <2>1 DEF EndOf
  <2>2. CASE \E p \in Party : \E to : to \notin Ended /\ at[p] \notin Ended /\ Moves(p, to)
    BY <2>2, SafeThreads, TwoThreads, MovesPlace DEF EndOf
  <2>3. QED BY <2>1, <2>2
<1>2. QED BY <1>1 DEF Stream!vars

\* A thread that ends does so in the stream.
LEMMA StreamEnds ==
  ASSUME SafeInv, NEW p \in Party, at[p] \notin Ended, UNCHANGED <<equipPlan, events, placed>>,
         \/ Moves(p, "failed")
         \/ p = Host /\ Moves(p, "done") /\ Len(events) = Len(equipPlan)
         \/ p = Equip /\ Moves(p, "done") /\ placed = Len(equipPlan)
  PROVE  Stream!Next
<1>0. Len([i \in DOMAIN equipPlan |-> PlacementDone(equipPlan[i])]) = Len(equipPlan)
  BY PlacementsFacts DEF SafeInv, TypeOK
<1>1. PICK to \in Ended : Moves(p, to)
  BY DEF Ended
<1>2. at'[p] = to /\ at'[Hsms!Peer(p)] = at[Hsms!Peer(p)]
  BY <1>1, SafeThreads, MovesPlace
<1>3. to = "failed" \/ (p = Host /\ to = "done" /\ Len(events) = Len(equipPlan))
        \/ (p = Equip /\ to = "done" /\ placed = Len(equipPlan))
  BY <1>1, <1>2, SafeThreads, MovesPlace DEF Ended
<1>4. CASE p = Host
  <2>1. /\ EndOf(Host) = "running" /\ EndOf(Host)' = to
        /\ EndOf(Equip)' = EndOf(Equip)
    BY <1>2, <1>4, TwoThreads DEF EndOf
  <2>2. Stream!HostFails \/ Stream!HostFinishes
    BY <1>0, <1>3, <1>4, <2>1, TwoThreads DEF Stream!HostFails, Stream!HostFinishes
  <2>3. QED BY <2>2 DEF Stream!Next
<1>5. CASE p = Equip
  <2>1. /\ EndOf(Equip) = "running" /\ EndOf(Equip)' = to
        /\ EndOf(Host)' = EndOf(Host)
    BY <1>2, <1>5, TwoThreads DEF EndOf
  <2>2. Stream!EquipFails \/ Stream!EquipFinishes
    BY <1>0, <1>3, <1>5, <2>1, TwoThreads DEF Stream!EquipFails, Stream!EquipFinishes
  <2>3. QED BY <2>2 DEF Stream!Next
<1>6. QED BY <1>4, <1>5, TwoThreads

\* The event the host takes in, awaited or passed over, is the stream's next.
LEMMA StreamRecords ==
  ASSUME SafeInv, Holds, events' = Served(Returned(Host)), UNCHANGED <<equipPlan, placed>>,
         NEW to, to \notin Ended, Moves(Host, to)
  PROVE  Stream!Next
<1>1. /\ Len(events) = commanded - 1 /\ Len(events) < Sent(Equip)
      /\ commanded <= Len(equipPlan)
      /\ events' = Append(events, PlacementDone(equipPlan[commanded]))
  BY EventTaken
<1>2. PICK n \in Nat : /\ n = Len(events) /\ commanded = n + 1
                       /\ placed \in Nat /\ Sent(Equip) \in Int /\ Len(equipPlan) \in Nat
  BY <1>1, SafeThreads
<1>3. n <= placed /\ n < Len(equipPlan) /\ n + 1 \in 1 .. Len(equipPlan)
  <2>1. Sent(Equip) \in {placed, placed + 1}
    BY DEF SafeInv, EquipSide, Counted
  <2>2. QED BY <1>1, <1>2, <2>1
<1>4. /\ EndOf(Host) = "running" /\ EndOf(Host)' = "running"
      /\ EndOf(Equip)' = EndOf(Equip)
  <2>1. at'[Host] = to /\ at'[Equip] = at[Equip]
    BY SafeThreads, TwoThreads, MovesPlace
  <2>2. QED BY <2>1 DEF EndOf, Holds, Ended
<1>5. Len([i \in DOMAIN equipPlan |-> PlacementDone(equipPlan[i])]) = Len(equipPlan)
      /\ [i \in DOMAIN equipPlan |-> PlacementDone(equipPlan[i])][n + 1]
           = PlacementDone(equipPlan[commanded])
  BY <1>2, <1>3, PlacementsFacts DEF SafeInv, TypeOK
<1>6. Stream!Record
  BY <1>1, <1>2, <1>3, <1>4, <1>5 DEF Stream!Record
<1>7. QED BY <1>6 DEF Stream!Next

\* Each step of a run is a step of the stream or none of its.
LEMMA StreamStep ==
  ASSUME SafeInv, PlansFit, [Next]_vars
  PROVE  Stream!Next \/ UNCHANGED Stream!vars
<1>0. /\ Len(events) \in Nat /\ Len(equipPlan) \in Nat /\ Len(HostPlan) \in Nat
      /\ placed \in Nat /\ Sent(Equip) \in Int
      /\ ThreadType /\ Conversation /\ Host \in Party /\ Equip \in Party
      /\ equipPlan \in EquipPlans
  BY SafeThreads, TwoThreads DEF SafeInv, TypeOK
<1>1. CASE HostRecords
  BY <1>1, StreamRecords DEF HostRecords, Holds, plans, Ended
<1>2. CASE HostAwaits
  <2>1. Moves(Host, "await") /\ UNCHANGED <<equipPlan, placed>> /\ Ok(Host)
    BY <1>2 DEF HostAwaits, plans, Ok
  <2>2. CASE at[Host] = "await" /\ events' = Served(Returned(Host))
    BY <2>1, <2>2, StreamRecords DEF Holds, Ended
  <2>3. CASE at[Host] = "command" /\ UNCHANGED events
    BY <1>0, <2>1, <2>3, StreamStutters DEF Ended
  <2>4. QED BY <1>2, <2>2, <2>3 DEF HostAwaits
<1>3. CASE EquipAcknowledged
  <2>1. /\ at[Equip] = "report" /\ Ok(Equip) /\ Moves(Equip, "acknowledged")
        /\ placed' = placed + 1 /\ UNCHANGED <<equipPlan, events>>
    BY <1>3 DEF EquipAcknowledged, Acknowledged, Accepts, Ok, plans
  <2>2. placed <= Len(events) /\ placed < Len(equipPlan)
    BY <1>0, <2>1 DEF SafeInv, EquipSide, Counted, Received, Known
  <2>3. /\ EndOf(Equip) = "running" /\ EndOf(Equip)' = "running"
        /\ EndOf(Host)' = EndOf(Host)
    BY <1>0, <2>1, TwoThreads, MovesPlace DEF EndOf, Ended
  <2>4. Len([i \in DOMAIN equipPlan |-> PlacementDone(equipPlan[i])]) = Len(equipPlan)
    BY <1>0, PlacementsFacts
  <2>5. Stream!Acknowledge
    BY <2>1, <2>2, <2>3, <2>4 DEF Stream!Acknowledge
  <2>6. QED BY <2>5 DEF Stream!Next
<1>4. CASE HostFinishes
  <2>1. /\ at[Host] \in {"select", "shake", "recorded"} /\ Moves(Host, "done")
        /\ UNCHANGED <<equipPlan, events, placed>> /\ commanded = Len(HostPlan)
    BY <1>4 DEF HostFinishes, HostConnected, runVars, plans
  <2>2. Len(events) = Len(HostPlan) /\ Len(events) <= Len(equipPlan)
    BY <2>1 DEF SafeInv, HostSide, Collects
  <2>3. Len(events) = Len(equipPlan)
    BY <1>0, <2>2 DEF PlansFit
  <2>4. QED BY <1>0, <2>1, <2>3, StreamEnds DEF Ended
<1>5. CASE EquipFinishes
  <2>1. /\ at[Equip] \in {"serve", "acknowledged"} /\ Moves(Equip, "done")
        /\ UNCHANGED <<equipPlan, events, placed>> /\ placed = Len(equipPlan)
    BY <1>5 DEF EquipFinishes, EquipConnected, Ends, runVars, plans
  <2>2. QED BY <1>0, <2>1, StreamEnds DEF Ended
<1>6. ASSUME NEW p \in Party, UNCHANGED runVars, Panics(p) \/ \E acceptable : Fails(p, acceptable)
      PROVE  Stream!Next
  BY <1>6, StreamEnds DEF Panics, Fails, Ends, runVars, plans
<1>7. CASE \/ HostCommands
           \/ (HostSelects \/ HostShakes) /\ UNCHANGED runVars
           \/ EquipAwaitsCommand
           \/ EquipPlaces
           \/ (EquipAccepts \/ EquipServes) /\ UNCHANGED runVars
  <2>1. UNCHANGED <<equipPlan, events, placed>>
    BY <1>7 DEF HostCommands, EquipAwaitsCommand, EquipPlaces, runVars, plans
  <2>2. \E p \in Party : \E to : to \notin Ended /\ at[p] \notin Ended /\ Moves(p, to)
    BY <1>0, <1>7
       DEF HostCommands, HostConnected, HostSelects, HostShakes, EquipAwaitsCommand,
           EquipConnected, EquipPlaces, Reports, EquipAccepts, EquipServes, Ended
  <2>3. QED BY <2>1, <2>2, StreamStutters
<1>8. CASE \/ \E p \in Party : SessionStep(p) /\ UNCHANGED runVars
           \/ UNCHANGED <<threadVars, runVars>>
           \/ UNCHANGED vars
  <2>1. UNCHANGED <<equipPlan, events, placed, at>>
    BY <1>8 DEF SessionStep, threadVars, runVars, vars, plans
  <2>2. QED BY <2>1, StreamStutters
<1>9. CASE HostStep
  BY <1>0, <1>1, <1>2, <1>4, <1>6, <1>7, <1>8, <1>9 DEF HostStep
<1>10. CASE EquipStep
  BY <1>0, <1>3, <1>5, <1>6, <1>7, <1>8, <1>10 DEF EquipStep
<1>11. CASE Disturbance
  BY <1>6, <1>8, <1>11 DEF Disturbance
<1>12. QED BY <1>8, <1>9, <1>10, <1>11 DEF Next

\* A placement run implements the stream of acknowledged reports: the host is
\* served the machine's placements in their order, and neither side is ever
\* more than one ahead of the other.  Where the machine has more placements
\* than the host has commands, the host returns before the stream is over.
THEOREM AssemblyIsReportStream ==
  ASSUME PlansFit
  PROVE  Spec => ImplementsReportStream
<1>1. Init => Stream!Init
  BY PlacementsFacts, TwoThreads DEF Init, ThreadInit, Stream!Init, EndOf, Ended
<1>2. SafeInv /\ [Next]_vars => [Stream!Next]_(Stream!vars)
  BY StreamStep
<1>3. QED BY <1>1, <1>2, Safety, PTL DEF Spec, ImplementsReportStream, Stream!Spec
=============================================================================
