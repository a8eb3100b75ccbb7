---------------------------- MODULE WaferRun_proofs ----------------------------
(***************************************************************************)
(* That a wafer run uses its sessions as HsmsSession allows, that its      *)
(* threads never cross primaries, that the host collects the wafer, and    *)
(* that the run is a stream of acknowledged reports, for any wafer.        *)
(***************************************************************************)
EXTENDS WaferRun, GemThreads_proofs

\* What the tester reports next is a report of its run.
RunInv ==
  /\ ThreadType
  /\ acked \in Nat
  /\ at[Equip] \notin {"acknowledged"} \cup Ended => acked <= Len(Coords)

\* Each report of the run is a payload.
LEMMA ReportsArePayload ==
  ASSUME NEW k \in Nat, k <= Len(Coords)
  PROVE  ReportAfter(k) \in Payload
<1>1. Len(Coords) \in Nat
  BY WaferAssumption
<1>2. k + 1 \in DOMAIN AllReports /\ AllReports[k + 1] = ReportAfter(k)
  BY <1>1 DEF AllReports
<1>3. QED BY <1>2, PayloadAssumption

\* The steps of the equipment's thread.
LEMMA EquipKeeps ==
  ASSUME RunInv, EquipStep
  PROVE  RunInv' /\ UsesSessionStep
<1>0. Host \in Party /\ Equip \in Party
  BY DEF Party
<1>1. CASE EquipReports
  <2>1. acked <= Len(Coords)
    BY <1>1 DEF EquipReports, EquipConnected, RunInv, Ended
  <2>2. UsesSessionStep
    BY <1>1, <2>1, ReportsArePayload, ReportIsOne DEF EquipReports, RunInv
  <2>3. RunInv'
    BY <1>0, <1>1, <2>1, ThreadsKept DEF EquipReports, Reports, RunInv, runVars
  <2>4. QED BY <2>2, <2>3
<1>2. CASE EquipAcknowledged
  <2>1. RunInv'
    BY <1>0, <1>2, ThreadsKept DEF EquipAcknowledged, RunInv, ThreadType, Moves
  <2>2. QED BY <1>2, <2>1 DEF EquipAcknowledged, UsesSessionStep
<1>3. CASE EquipFinishes
  <2>1. RunInv'
    BY <1>0, <1>3, ThreadsKept
       DEF EquipFinishes, Ends, RunInv, runVars, ThreadType, Moves, Ended
  <2>2. QED BY <1>0, <1>3, <2>1, EndingIsOne DEF EquipFinishes
<1>4. CASE (EquipAccepts \/ EquipServes) /\ UNCHANGED runVars
  <2>1. at[Equip] \notin {"acknowledged"} \cup Ended
    BY <1>4 DEF EquipAccepts, EquipServes, Ended
  <2>2. RunInv'
    BY <1>0, <1>4, <2>1, ThreadsKept DEF EquipAccepts, EquipServes, RunInv, runVars
  <2>3. QED BY <1>4, <2>2, HandshakeIsOne DEF RunInv
<1>5. CASE SessionStep(Equip) /\ UNCHANGED runVars
  <2>1. RunInv'
    BY <1>0, <1>5, ThreadsKept DEF SessionStep, threadVars, RunInv, runVars
  <2>2. QED BY <1>0, <1>5, <2>1, SessionStepIsOne
<1>6. CASE Fails(Equip, Accepts(Equip)) /\ UNCHANGED runVars
  <2>1. RunInv'
    BY <1>0, <1>6, ThreadsKept DEF Fails, Ends, RunInv, runVars, ThreadType, Moves, Ended
  <2>2. QED BY <1>0, <1>6, <2>1, EndingIsOne
<1>7. QED BY <1>1, <1>2, <1>3, <1>4, <1>5, <1>6 DEF EquipStep

\* A step that is the host's leaves the equipment's thread where it is.
LEMMA OthersKeep ==
  ASSUME RunInv, UNCHANGED acked, UNCHANGED shaken \/ shaken' = shaken + 1,
         UNCHANGED at \/ \E to : Moves(Host, to)
  PROVE  RunInv'
<1>1. Host \in Party /\ Equip \in Party /\ Host # Equip
  BY ThreadsDiffer DEF Party
<1>2. at'[Equip] = at[Equip]
  BY <1>1 DEF RunInv, ThreadType, Moves
<1>3. ThreadType'
  BY <1>1, ThreadsKept DEF RunInv
<1>4. QED BY <1>2, <1>3 DEF RunInv

\* The steps of the host's thread.
LEMMA HostKeeps ==
  ASSUME RunInv, HostStep
  PROVE  RunInv' /\ UsesSessionStep
<1>0. Host \in Party
  BY DEF Party
<1>1. CASE HostReceives
  <2>1. RunInv'
    BY <1>1, OthersKeep DEF HostReceives, runVars
  <2>2. UsesSessionStep
    BY <1>0, <1>1, PartyMayAct DEF HostReceives, Hsms!Starts
  <2>3. QED BY <2>1, <2>2
<1>2. CASE (\E report \in Payload : HostRecords(report)) \/ HostFinishes
  <2>1. RunInv'
    BY <1>2, OthersKeep DEF HostRecords, HostFinishes, runVars
  <2>2. UNCHANGED sessionVars
    BY <1>2 DEF HostRecords, HostFinishes
  <2>3. QED BY <2>1, <2>2 DEF UsesSessionStep
<1>3. CASE (HostSelects \/ HostShakes) /\ UNCHANGED runVars
  <2>1. RunInv'
    BY <1>3, OthersKeep DEF HostSelects, HostShakes, runVars
  <2>2. QED BY <1>3, <2>1, HandshakeIsOne DEF RunInv
<1>4. CASE SessionStep(Host) /\ UNCHANGED runVars
  <2>1. RunInv'
    BY <1>4, OthersKeep DEF SessionStep, threadVars, runVars
  <2>2. QED BY <1>0, <1>4, <2>1, SessionStepIsOne
<1>5. CASE Fails(Host, Accepts(Host)) /\ UNCHANGED runVars
  <2>1. RunInv'
    BY <1>5, OthersKeep DEF Fails, Ends, runVars
  <2>2. QED BY <1>0, <1>5, <2>1, EndingIsOne
<1>6. QED BY <1>1, <1>2, <1>3, <1>4, <1>5 DEF HostStep

\* What happens from elsewhere.
LEMMA DisturbanceKeeps ==
  ASSUME RunInv, Disturbance
  PROVE  RunInv' /\ UsesSessionStep
<1>1. ASSUME NEW p \in Party, Panics(p), UNCHANGED runVars PROVE RunInv' /\ UsesSessionStep
  <2>1. p = Host \/ p = Equip
    BY DEF Party
  <2>2. RunInv'
    <3>1. CASE p = Host
      BY <1>1, <3>1, OthersKeep DEF Panics, Ends, runVars
    <3>2. CASE p = Equip
      BY <1>1, <3>2, ThreadsKept DEF Panics, Ends, RunInv, runVars, ThreadType, Moves, Ended, Party
    <3>3. QED BY <2>1, <3>1, <3>2
  <2>3. QED BY <1>1, <2>2, EndingIsOne
<1>2. ASSUME NEW p \in Party, NEW kind \in External, Hsms!ExternalFrame(p, kind),
             UNCHANGED threadVars, UNCHANGED runVars
      PROVE  RunInv' /\ UsesSessionStep
  BY <1>2, OthersKeep, EndingIsOne DEF threadVars, runVars
<1>3. QED BY <1>1, <1>2 DEF Disturbance

\* Whatever the wafer, whoever panics and whatever arrives from elsewhere, the
\* threads of a wafer run call their sessions in ways HsmsSession has: all
\* that is proved of HsmsSession holds of the run.
THEOREM WaferRunUsesSession == Spec => UsesSession
<1>1. Init => RunInv /\ Hsms!Init
  <2>1. Init => ThreadType /\ Hsms!Init
    BY ThreadsBegin DEF Init
  <2>2. Init => acked = 0 /\ Len(Coords) \in Nat
    BY WaferAssumption DEF Init
  <2>3. QED BY <2>1, <2>2 DEF RunInv
<1>2. RunInv /\ [Next]_vars => RunInv' /\ [Hsms!Next]_(Hsms!vars)
  <2> SUFFICES ASSUME RunInv, [Next]_vars
               PROVE  RunInv' /\ (Hsms!Next \/ UNCHANGED Hsms!vars)
    OBVIOUS
  <2>1. RunInv' /\ UsesSessionStep
    <3>1. CASE UNCHANGED vars
      BY <3>1, OthersKeep DEF vars, threadVars, UsesSessionStep
    <3>2. QED BY <3>1, HostKeeps, EquipKeeps, DisturbanceKeeps DEF Next
  <2>2. QED BY <2>1 DEF UsesSessionStep, sessionVars, Hsms!vars
<1>3. QED BY <1>1, <1>2, PTL DEF Spec, UsesSession, Hsms!Spec

----------------------------------------------------------------------------
(* The safety of a wafer run                                               *)

\* The equipment serves two primaries of a handshake before it reports; a
\* third one would cross the first report.
HandshakeFits == Len(Handshake) <= 2

\* Every die has a coordinate the wire can carry.
CoordsFit == \A i \in DOMAIN Coords : Coords[i] \in 0 .. CoordMod - 1

\* The primaries in flight are the equipment's reports, each the one that its
\* system bytes count, and the host's handshake.
Carried ==
  \A q \in Party : \A m \in Flight(q) : m.w =>
    IF m.owner = Equip THEN m.function = 11 /\ m.body = Event(ReportAfter(m.index - 1))
    ELSE m.function \in {1, 13}

\* The equipment is at its acked-th report, or the one after.
Counted ==
  /\ Sent(Equip) \in {acked, acked + 1}
  /\ Sent(Equip) <= Len(Coords) + 1
  /\ at[Equip] \in {"start", "accept", "serve"} => Sent(Equip) = 0
  /\ at[Equip] \in {"acknowledged", "done"} => Sent(Equip) = acked /\ acked > 0
  /\ at[Equip] = "report" => Sent(Equip) = acked + 1
  /\ at[Equip] = "done" => acked = Len(Coords) + 1

\* What the equipment knows to be received has been, but for one report the
\* host is about to record.
Known ==
  \/ Answered(Equip)
  \/ at[Equip] \in {"acknowledged", "done"}
  \/ at[Equip] = "report" /\ Ok(Equip)
Received == Known => Sent(Equip) <= Len(recorded) + 1

\* The host has a report it has not recorded.
Holds == at[Host] = "receive" /\ Ok(Host)

\* A live host has been served all that was reported but for what is offered.
Taken == IF Holds THEN Len(recorded) + 1 ELSE Len(recorded)
Heard ==
  /\ Live(Host) => Taken = IF Offered(Host) THEN Sent(Equip) - 1 ELSE Sent(Equip)
  /\ Holds =>
       /\ Returned(Host).function = 11
       /\ Returned(Host).body = Event(ReportAfter(Len(recorded)))
       /\ Len(recorded) < Sent(Equip)

\* A live equipment that has reported nothing has served all of the handshake
\* but for what is offered; once it reports, the handshake is over.
Answers == IF at[Equip] = "serve" /\ ~Ok(Equip) THEN served - 1 ELSE served
Shaken ==
  /\ Live(Equip) /\ at[Equip] \in {"start", "accept", "serve"} =>
       Answers = IF Offered(Equip) THEN shaken - 1 ELSE shaken
  /\ Sent(Equip) > 0 => shaken = Len(Handshake) /\ ~Offered(Equip)

\* The host has recorded the reports of the run in their order, and its map
\* holds the dies among them.
Collects ==
  /\ Len(recorded) <= Len(Coords) + 1
  /\ \A i \in DOMAIN recorded : recorded[i] = ReportAfter(i - 1)
  /\ at[Host] = "recorded" => Len(recorded) > 0
  /\ at[Host] = "done" => Len(recorded) = Len(Coords) + 1
  /\ DOMAIN collected =
       {WireCoord(Coords[i]) : i \in {j \in DOMAIN Coords : j <= Len(recorded)}}
  /\ CoordsFit => \A coord \in DOMAIN collected : collected[coord] = Passed(coord)

\* What a step of the equipment may disturb, and one of the host.
EquipSide == Counted /\ Received /\ Shaken
HostSide == Heard /\ Collects

\* The places of each thread.
Places ==
  /\ at[Host] \in {"start", "select", "shake", "receive", "recorded"} \cup Ended
  /\ at[Equip] \in {"start", "accept", "serve", "report", "acknowledged"} \cup Ended

\* The inductive invariant.
SafeInv ==
  /\ TypeOK
  /\ Places
  /\ Conversation
  /\ ~crossed
  /\ Carried
  /\ EquipSide
  /\ HostSide

\* The host fades: it records nothing, and holds what it held.
LEMMA HostFades ==
  ASSUME SafeInv, Fades(Host), SessionType', InCall', TypeOK', Places', crossed' => crossed,
         UNCHANGED <<shaken, served, acked, recorded, collected>>,
         Live(Host)' => (Holds' <=> Holds),
         Holds' => Holds /\ UNCHANGED ret,
         at'[Host] = "recorded" => Len(recorded) > 0,
         at'[Host] = "done" => Len(recorded) = Len(Coords) + 1
  PROVE  SafeInv'
<1>0. /\ at'[Equip] = at[Equip] /\ call'[Equip] = call[Equip] /\ ret'[Equip] = ret[Equip]
      /\ Sent(Equip)' = Sent(Equip)
      /\ \A q \in Party : Flight(q)' \subseteq Flight(q)
      /\ Offered(Host)' => Offered(Host)
      /\ Live(Host)' => (Offered(Host) => Offered(Host)') /\ Live(Host)
      /\ Offered(Equip)' <=> Offered(Equip)
      /\ Answered(Equip)' => Answered(Equip)
      /\ Live(Equip)' <=> Live(Equip)
  BY TwoThreads, SentFacts, FadingData, FadingOffers DEF SafeInv, Conversation, Fades, Alone, Live
<1>1. Conversation'
  BY TwoThreads, ConversationKept DEF SafeInv
<1>2. Carried'
  BY <1>0 DEF SafeInv, Carried
<1>3. EquipSide'
  BY <1>0 DEF SafeInv, EquipSide, Counted, Received, Known, Shaken, Answers, Ok
<1>4. Heard'
  BY <1>0 DEF SafeInv, HostSide, Heard, Taken, Returned
<1>5. Collects'
  BY DEF SafeInv, HostSide, Collects
<1>6. QED BY <1>1, <1>2, <1>3, <1>4, <1>5 DEF SafeInv, HostSide

\* The equipment fades: what it knows to be received is for its step to show.
LEMMA EquipFades ==
  ASSUME SafeInv, Fades(Equip), SessionType', InCall', TypeOK', Places', crossed' => crossed,
         UNCHANGED <<shaken, recorded, collected>>,
         EquipSide'
  PROVE  SafeInv'
<1>0. /\ at'[Host] = at[Host] /\ call'[Host] = call[Host] /\ ret'[Host] = ret[Host]
      /\ Sent(Equip)' = Sent(Equip)
      /\ \A q \in Party : Flight(q)' \subseteq Flight(q)
      /\ Offered(Host)' <=> Offered(Host)
      /\ Live(Host)' <=> Live(Host)
  BY TwoThreads, SentFacts, FadingData, FadingOffers DEF SafeInv, Conversation, Fades, Alone, Live
<1>1. Conversation'
  BY TwoThreads, ConversationKept DEF SafeInv
<1>2. Carried'
  BY <1>0 DEF SafeInv, Carried
<1>3. Heard'
  BY <1>0 DEF SafeInv, HostSide, Heard, Holds, Taken, Returned, Ok
<1>4. Collects'
  BY <1>0 DEF SafeInv, HostSide, Collects
<1>5. QED BY <1>1, <1>2, <1>3, <1>4 DEF SafeInv, HostSide

\* What both threads may answer, each of them can.
LEMMA AllAnswerable == SafeInv => \A p \in Party : Answerable(p)
<1> SUFFICES ASSUME SafeInv, NEW m \in Flight(Equip), m.w PROVE m.function \in {1, 13, 41}
  BY DEF Answerable
<1>1. m.owner = Host
  <2>1. PICK i \in DOMAIN inbox[Equip] : m = inbox[Equip][i] /\ Hsms!IsData(inbox[Equip][i])
    BY DEF Flight
  <2>2. m.owner \in Party
    BY <2>1, TwoThreads, DataFacts DEF SafeInv, Conversation
  <2>3. ASSUME m.owner = Equip PROVE FALSE
    <3>1. Carries(Equip, i, Equip)
      BY <2>1, <2>3 DEF Carries
    <3>2. inbox[Equip][i].w = (Equip # Equip)
      BY <3>1, TwoThreads DEF SafeInv, Conversation, Directed
    <3>3. QED BY <2>1, <3>2
  <2>4. QED BY <2>2, <2>3, TwoThreads
<1>2. QED BY <1>1, TwoThreads DEF SafeInv, Carried

\* The host serves the report that is next.
LEMMA HostServed ==
  ASSUME SafeInv, Serves(Host), SessionType', InCall', TypeOK', UNCHANGED <<at, crossed>>,
         UNCHANGED <<shaken, served, acked, recorded, collected>>
  PROVE  SafeInv'
<1>0. /\ at'[Equip] = at[Equip] /\ call'[Equip] = call[Equip] /\ ret'[Equip] = ret[Equip]
      /\ Sent(Equip)' = Sent(Equip) /\ Sent(Equip) \in Int /\ Len(recorded) \in Int
      /\ Live(Host) /\ Offered(Host) /\ ~Offered(Host)' /\ ~Offered(Equip) /\ ~Offered(Equip)'
      /\ Flight(Host)' \subseteq Flight(Host)
      /\ \A m \in Flight(Equip)' : m.w => m \in Flight(Equip)
      /\ Live(Equip)' <=> Live(Equip)
  <2>1. /\ at'[Equip] = at[Equip] /\ call'[Equip] = call[Equip] /\ ret'[Equip] = ret[Equip]
        /\ Live(Equip)' <=> Live(Equip)
    BY TwoThreads DEF Serves, Alone, Live
  <2>2. Sent(Equip)' = Sent(Equip) /\ Sent(Equip) \in Int
    BY TwoThreads, SentFacts DEF SafeInv, Conversation
  <2>3. Len(recorded) \in Int
    BY DEF SafeInv, TypeOK
  <2>4. QED BY <2>1, <2>2, <2>3, TwoThreads, ServingOffers DEF SafeInv
<1>1. Conversation'
  BY TwoThreads, ConversationKept DEF SafeInv
<1>2. Carried'
  BY <1>0, TwoThreads DEF SafeInv, Carried
<1>3. call[Host] = "serve_one" /\ at[Host] = "receive"
  <2>1. call[Host] = "serve_one"
    BY DEF Serves
  <2>2. QED BY <2>1, InsideFacts, TwoThreads DEF SafeInv, Conversation, CallOf, Places, Ended
<1>4. ~Holds /\ Holds' /\ Sent(Equip) = Len(recorded) + 1
  BY <1>0, <1>3 DEF SafeInv, HostSide, Heard, Holds, Taken, Ok, Serves, Hsms!Ok
<1>5. /\ Returned(Host)'.function = 11
      /\ Returned(Host)'.body = Event(ReportAfter(Len(recorded)))
  <2>1. /\ inbox[Host][1] \in Flight(Host)
        /\ inbox[Host][1].w /\ inbox[Host][1].owner = Equip
        /\ inbox[Host][1].index = Sent(Equip)
    BY TwoThreads, ServingOffers DEF SafeInv
  <2>2. /\ inbox[Host][1].function = 11
        /\ inbox[Host][1].body = Event(ReportAfter(Sent(Equip) - 1))
    BY <2>1, TwoThreads DEF SafeInv, Carried
  <2>3. Returned(Host)' = inbox[Host][1]
    BY DEF Serves, Returned, Hsms!Ok
  <2>4. Sent(Equip) - 1 = Len(recorded)
    BY <1>0, <1>4
  <2>5. QED BY <2>2, <2>3, <2>4
<1>6. Heard'
  BY <1>0, <1>4, <1>5 DEF Heard, Taken
<1>7. EquipSide'
  BY <1>0, <1>4
     DEF SafeInv, EquipSide, Counted, Received, Known, Shaken, Answers, Ok
<1>8. Collects'
  BY DEF SafeInv, HostSide, Collects
<1>9. QED BY <1>1, <1>2, <1>6, <1>7, <1>8 DEF SafeInv, HostSide, Places

\* The equipment serves a primary of the handshake.
LEMMA EquipServed ==
  ASSUME SafeInv, Serves(Equip), SessionType', InCall', TypeOK', UNCHANGED <<at, crossed>>,
         UNCHANGED <<shaken, served, acked, recorded, collected>>
  PROVE  SafeInv'
<1>0. /\ at'[Host] = at[Host] /\ call'[Host] = call[Host] /\ ret'[Host] = ret[Host]
      /\ Sent(Equip)' = Sent(Equip) /\ Sent(Equip) \in Int
      /\ Live(Equip) /\ Offered(Equip) /\ ~Offered(Equip)' /\ ~Offered(Host) /\ ~Offered(Host)'
      /\ ~Answered(Equip)'
      /\ Flight(Equip)' \subseteq Flight(Equip)
      /\ \A m \in Flight(Host)' : m.w => m \in Flight(Host)
      /\ Live(Host)' <=> Live(Host)
  BY TwoThreads, SentFacts, ServingOffers
     DEF SafeInv, Conversation, Serves, Alone, Live
<1>1. Conversation'
  BY TwoThreads, ConversationKept DEF SafeInv
<1>2. Carried'
  BY <1>0, TwoThreads DEF SafeInv, Carried
<1>3. call[Equip] = "serve_one" /\ at[Equip] = "serve" /\ Ok(Equip)' /\ ~Ok(Equip)
  <2>1. call[Equip] = "serve_one" /\ Ok(Equip)'
    BY DEF Serves, Ok, Hsms!Ok
  <2>2. at[Equip] \in {"serve", "receive"}
    BY <2>1, InsideFacts, TwoThreads DEF SafeInv, Conversation, CallOf, Places, Ended
  <2>3. QED BY <2>1, <2>2 DEF SafeInv, Places, Ended, Ok
<1>6. Heard'
  BY <1>0 DEF SafeInv, HostSide, Heard, Holds, Taken, Returned, Ok
<1>7. EquipSide'
  BY <1>0, <1>3
     DEF SafeInv, EquipSide, Counted, Received, Known, Shaken, Answers, TypeOK
<1>8. Collects'
  BY <1>0 DEF SafeInv, HostSide, Collects
<1>9. QED BY <1>1, <1>2, <1>6, <1>7, <1>8 DEF SafeInv, HostSide, Places

\* The host sends a primary of the handshake.
LEMMA HostShakesSafely ==
  ASSUME SafeInv, HandshakeFits, HostShakes, UNCHANGED runVars
  PROVE  SafeInv'
<1>0. /\ at[Host] \in {"select", "shake"} /\ call[Host] = "idle" /\ ret[Host].ok
      /\ shaken < Len(Handshake) /\ shaken' = shaken + 1
      /\ UNCHANGED <<served, panics, acked, recorded, collected>>
      /\ Moves(Host, "shake") /\ Live(Host)
  BY DEF HostShakes, Accepts, runVars, Live, Ended
<1>t. /\ Sent(Equip) \in Int /\ Len(recorded) \in Int /\ shaken \in Int /\ Len(Handshake) \in Int
      /\ ThreadType
  BY <1>0, SentFacts, TwoThreads DEF SafeInv, Conversation, TypeOK, ThreadType, Counted, EquipSide
<1>1. ~Offered(Host) /\ Sent(Equip) = 0
  <2>1. Sent(Equip) = 0
    BY <1>0, <1>t DEF SafeInv, EquipSide, Counted, Shaken, TypeOK
  <2>2. QED
    BY <1>0, <1>t, <2>1 DEF SafeInv, HostSide, Heard, Holds, Taken, TypeOK
<1>2. PICK function \in {1, 13} : Hsms!Transact(Host, function, Request(function))
  BY HandshakeAssumption, <1>0 DEF HostShakes, SafeInv, TypeOK
<1>3. /\ Sends(Host, function, Request(function))
      /\ SessionType' /\ InCall' /\ (crossed' => crossed)
  BY <1>0, <1>1, <1>2, <1>t, TwoThreads, TransactSends, RequestsAreItems DEF SafeInv, CallOf
<1>4. /\ at'[Host] = "shake" /\ at'[Equip] = at[Equip]
      /\ call'[Equip] = call[Equip] /\ ret'[Equip] = ret[Equip]
      /\ Sent(Equip)' = Sent(Equip)
      /\ Live(Equip)' <=> Live(Equip)
  BY <1>0, <1>3, <1>t, MovesPlace, TwoThreads, SentFacts
     DEF Sends, Alone, Live, SafeInv, Conversation
<1>5. /\ ~Offered(Host)' /\ ~Offered(Equip) /\ Offered(Equip)'
      /\ Answered(Equip)' => Answered(Equip)
      /\ Flight(Host)' = Flight(Host)
      /\ \A m \in Flight(Equip)' :
           m \in Flight(Equip) \/ (m.owner = Host /\ m.function = function)
  BY <1>3, TwoThreads, SendingOffers DEF SafeInv
<1>6. TypeOK' /\ Places'
  <2>1. shaken' \in 0 .. Len(Handshake)
    BY <1>0, <1>t DEF SafeInv, TypeOK
  <2>2. TypeOK'
    BY <1>0, <2>1 DEF SafeInv, TypeOK, Moves
  <2>3. QED BY <1>4, <2>2 DEF SafeInv, Places
<1>7. Conversation'
  BY <1>3, TwoThreads, ConversationKept DEF SafeInv
<1>8. Carried'
  BY <1>5, TwoThreads DEF SafeInv, Carried
<1>9. EquipSide'
  BY <1>0, <1>1, <1>4, <1>5, <1>t
     DEF SafeInv, EquipSide, Counted, Received, Known, Shaken, Answers, Ok, TypeOK
<1>10. HostSide'
  BY <1>0, <1>1, <1>4, <1>5, <1>t
     DEF SafeInv, HostSide, Heard, Holds, Taken, Collects
<1>11. QED BY <1>3, <1>6, <1>7, <1>8, <1>9, <1>10 DEF SafeInv

\* The equipment sends its next report.
LEMMA EquipReportsSafely ==
  ASSUME SafeInv, HandshakeFits, EquipReports
  PROVE  SafeInv'
<1>0. /\ UNCHANGED <<shaken, served, panics, acked, recorded, collected>>
      /\ Moves(Equip, "report") /\ Ok(Equip) /\ Live(Equip)
      /\ \/ at[Equip] = "serve" /\ served = 2
         \/ at[Equip] = "acknowledged" /\ acked <= Len(Coords)
      /\ Hsms!Transact(Equip, 11, Event(ReportAfter(acked)))
  BY TwoThreads
     DEF EquipReports, EquipConnected, Reports, runVars, Ok, Live, Ended,
         Hsms!Transact, Hsms!Enters, SafeInv, Conversation, InCall
<1>t. /\ Sent(Equip) \in Int /\ Len(recorded) \in Int /\ shaken \in Int /\ Len(Handshake) \in Int
      /\ acked \in Nat /\ Len(Coords) \in Nat /\ shaken <= Len(Handshake)
      /\ ThreadType
  BY SentFacts, TwoThreads, WaferAssumption, HandshakeAssumption
     DEF SafeInv, Conversation, TypeOK, ThreadType
<1>1. /\ ~Offered(Equip) /\ shaken = Len(Handshake)
      /\ Sent(Equip) = acked /\ acked <= Len(Coords)
  BY <1>0, <1>t DEF SafeInv, EquipSide, Counted, Shaken, Answers, HandshakeFits
<1>2. Event(ReportAfter(acked)) \in Item
  BY <1>1, <1>t, ReportsArePayload DEF Item
<1>3. /\ Sends(Equip, 11, Event(ReportAfter(acked)))
      /\ SessionType' /\ InCall' /\ (crossed' => crossed)
  BY <1>0, <1>1, <1>2, <1>t, TwoThreads, TransactSends DEF SafeInv, CallOf
<1>4. /\ at'[Equip] = "report" /\ at'[Host] = at[Host]
      /\ call'[Host] = call[Host] /\ ret'[Host] = ret[Host] /\ call'[Equip] = "transact"
      /\ Sent(Equip)' = Sent(Equip) + 1
      /\ Live(Host)' <=> Live(Host)
  <2>1. at'[Equip] = "report" /\ at'[Host] = at[Host]
    BY <1>0, <1>t, MovesPlace, TwoThreads
  <2>2. call'[Host] = call[Host] /\ ret'[Host] = ret[Host] /\ call'[Equip] = "transact"
    BY <1>3, TwoThreads DEF Sends, Alone
  <2>3. Sent(Equip)' = Sent(Equip) + 1
    BY <1>3, TwoThreads, SentFacts DEF SafeInv, Conversation
  <2>4. QED BY <2>1, <2>2, <2>3 DEF Live
<1>5. /\ ~Offered(Host) /\ Offered(Host)' /\ ~Offered(Equip)' /\ ~Answered(Equip)'
      /\ Flight(Equip)' = Flight(Equip)
      /\ \A m \in Flight(Host)' :
           \/ m \in Flight(Host)
           \/ /\ m.owner = Equip /\ m.index = nextSystemBytes[Equip]
              /\ m.function = 11 /\ m.body = Event(ReportAfter(acked))
  BY <1>3, TwoThreads, SendingOffers DEF SafeInv
<1>6. TypeOK' /\ Places'
  BY <1>0, <1>4, <1>t DEF SafeInv, TypeOK, Places, Moves
<1>7. Conversation'
  BY <1>3, TwoThreads, ConversationKept DEF SafeInv
<1>8. Carried'
  <2>1. nextSystemBytes[Equip] - 1 = acked
    BY <1>1 DEF Sent
  <2>2. QED BY <1>5, <2>1, TwoThreads DEF SafeInv, Carried
<1>9. EquipSide'
  BY <1>0, <1>1, <1>4, <1>5, <1>t
     DEF SafeInv, EquipSide, Counted, Received, Known, Shaken, Ok
<1>10. HostSide'
  BY <1>0, <1>1, <1>4, <1>5, <1>t
     DEF SafeInv, HostSide, Heard, Holds, Taken, Collects, Returned, Ok
<1>11. QED BY <1>3, <1>6, <1>7, <1>8, <1>9, <1>10 DEF SafeInv

\* The invariant knows the threads' types.
LEMMA SafeThreads ==
  SafeInv => /\ ThreadType /\ Conversation /\ Sent(Equip) \in Int
             /\ acked \in Nat /\ served \in Nat /\ shaken \in Nat
             /\ Len(recorded) \in Nat /\ Len(Coords) \in Nat
BY TwoThreads, SentFacts, WaferAssumption, HandshakeAssumption
   DEF SafeInv, Conversation, TypeOK, ThreadType

\* A thread that moves keeps the types when it moves to a place of its own.
LEMMA PlaceKept ==
  ASSUME SafeInv, NEW p \in Party, NEW to, Moves(p, to),
         \/ p = Host /\ to \in {"select", "shake", "receive", "recorded"} \cup Ended
         \/ p = Equip /\ to \in {"accept", "serve", "report", "acknowledged"} \cup Ended
  PROVE  /\ at' \in [Party -> {"start", "select", "shake", "accept", "serve", "report",
                               "acknowledged", "receive", "recorded"} \cup Ended]
         /\ Places' /\ at'[p] = to /\ at'[Hsms!Peer(p)] = at[Hsms!Peer(p)]
BY MovesPlace, SafeThreads, TwoThreads DEF SafeInv, TypeOK, Places, Moves

\* WAFER_DONE is the report after those of the dies.
LEMMA DoneIsLast ==
  ASSUME NEW k \in Nat, k <= Len(Coords)
  PROVE  ReportAfter(k) = WaferDone <=> k = Len(Coords)
<1>1. Len(Coords) \in Nat
  BY WaferAssumption
<1>2. \A coord : DieReport(coord)[1] = "DIE_TESTED" /\ WaferDone[1] = "WAFER_DONE"
  BY DEF DieReport, WaferDone
<1>3. \A coord : DieReport(coord) # WaferDone
  BY <1>2
<1>4. QED BY <1>1, <1>3 DEF ReportAfter

\* The host's steps other than those above.
LEMMA HostStarts ==
  ASSUME SafeInv, \/ HostSelects /\ UNCHANGED runVars
                  \/ HostReceives
  PROVE  SafeInv'
<1>0. SafeInv /\ ThreadType /\ Conversation
  BY SafeThreads
<1>1. CASE HostSelects /\ UNCHANGED runVars
  <2>1. /\ at[Host] = "start" /\ Hsms!Enters(Host, "select") /\ Hsms!Draws(Host)
        /\ Hsms!Writes(Host, Hsms!Control("SelectReq")) /\ Moves(Host, "select")
        /\ UNCHANGED <<shaken, served, panics, acked, recorded, collected, crossed>>
        /\ Live(Host)
    BY <1>1 DEF HostSelects, Hsms!Select, runVars, Live, Ended
  <2>2. "select" \in DOMAIN CallOf /\ CallOf["select"] = "select" /\ "select" \in Hsms!Operation
    BY DEF CallOf, Hsms!Operation
  <2>3. Fades(Host) /\ SessionType' /\ InCall'
    BY <1>0, <2>1, <2>2, TwoThreads, StartsQuietly DEF Quiet
  <2>4. /\ at'[Host] = "select" /\ Places'
        /\ TypeOK'
    BY <1>0, <2>1, TwoThreads, PlaceKept DEF SafeInv, TypeOK
  <2>5. QED BY <2>1, <2>3, <2>4, HostFades DEF Holds
<1>2. CASE HostReceives
  <2>1. /\ Ok(Host) /\ ~Holds
        /\ Hsms!Enters(Host, "serve_one") /\ Moves(Host, "receive")
        /\ UNCHANGED <<inbox, nextSystemBytes>>
        /\ UNCHANGED <<shaken, served, panics, acked, recorded, collected, crossed>>
    <3>1. CASE HostConnected \/ at[Host] = "recorded"
      BY <1>0, <1>2, <3>1, TwoThreads
         DEF HostReceives, HostConnected, Accepts, Hsms!ServeOne, Hsms!Enters, runVars,
             Holds, Ok, Conversation, InCall
    <3>2. CASE Skips
      BY <3>2 DEF Skips, SafeInv, HostSide, Heard, Holds
    <3>3. QED BY <1>2, <3>1, <3>2 DEF HostReceives
  <2>2. Live(Host)
    BY <1>2, <2>1 DEF HostReceives, HostConnected, Skips, Live, Ended, Ok
  <2>3. /\ "receive" \in DOMAIN CallOf /\ CallOf["receive"] = "serve_one"
        /\ "serve_one" \in Hsms!Operation
    BY DEF CallOf, Hsms!Operation
  <2>4. Quiet(Host) /\ SessionType' /\ InCall'
    BY <1>0, <2>1, <2>2, <2>3, TwoThreads, StartsQuietly
  <2>5. /\ at'[Host] = "receive" /\ Places' /\ TypeOK'
    BY <1>0, <2>1, TwoThreads, PlaceKept DEF SafeInv, TypeOK
  <2>6. ~Holds'
    BY <1>0, <2>1, TwoThreads DEF Hsms!Enters, Holds, Ok, Conversation, SessionType
  <2>7. QED BY <2>1, <2>4, <2>5, <2>6, HostFades DEF Quiet
<1>3. QED BY <1>1, <1>2

\* The host returns, with the wafer's map or an error.
LEMMA HostStops ==
  ASSUME SafeInv, \/ HostFinishes
                  \/ (Fails(Host, Accepts(Host)) \/ Panics(Host)) /\ UNCHANGED runVars
  PROVE  SafeInv'
<1>0. ThreadType /\ Conversation /\ Len(recorded) \in Nat /\ Len(Coords) \in Nat
  BY SafeThreads
<1>1. PICK to \in Ended :
        /\ Moves(Host, to) /\ call[Host] = "idle" /\ at[Host] \notin Ended
        /\ UNCHANGED <<call, ret, inbox, nextSystemBytes, crossed, shaken, served, runVars>>
        /\ panics' \in 0 .. MaxPanics
        /\ to = "done" => at[Host] = "recorded" /\ Last(recorded) = WaferDone
  <2>1. CASE HostFinishes
    BY <1>0, <2>1, TwoThreads, CallFacts
       DEF HostFinishes, sessionVars, Ended, Conversation, SafeInv, TypeOK
  <2>2. CASE (Fails(Host, Accepts(Host)) \/ Panics(Host)) /\ UNCHANGED runVars
    BY <2>2, PanicAssumption DEF Fails, Panics, Ends, Hsms!Drop, Ended, SafeInv, TypeOK
  <2>3. QED BY <2>1, <2>2
<1>2. Fades(Host) /\ SessionType' /\ InCall'
  BY <1>0, <1>1, TwoThreads, IdleMoves DEF Ended
<1>3. at'[Host] = to /\ Places' /\ TypeOK'
  BY <1>1, TwoThreads, PlaceKept DEF SafeInv, TypeOK, runVars
<1>4. ASSUME to = "done" PROVE Len(recorded) = Len(Coords) + 1
  <2>1. /\ Len(recorded) > 0 /\ Len(recorded) <= Len(Coords) + 1
        /\ recorded \in Seq(Payload) /\ Last(recorded) = WaferDone
    BY <1>1, <1>4 DEF SafeInv, HostSide, Collects, TypeOK
  <2>2. Len(recorded) \in DOMAIN recorded
    BY <2>1
  <2>3. ReportAfter(Len(recorded) - 1) = WaferDone
    BY <2>1, <2>2 DEF SafeInv, HostSide, Collects, Last
  <2>4. QED BY <1>0, <2>1, <2>3, DoneIsLast
<1>5. QED BY <1>1, <1>2, <1>3, <1>4, HostFades DEF Holds, Live, runVars, Ended

\* A coordinate the wire can carry arrives as it is.
LEMMA WireIsCoord ==
  ASSUME NEW coord \in 0 .. CoordMod - 1
  PROVE  WireCoord(coord) = coord
<1>1. ASSUME NEW n \in Nat \ {0}, NEW a \in 0 .. n - 1 PROVE a % n = a
  OBVIOUS
<1>2. CoordMod \in Nat \ {0}
  BY WaferAssumption
<1>3. QED BY <1>1, <1>2 DEF WireCoord

\* The host's map stays that of the dies it has recorded.
LEMMA CollectsNext ==
  ASSUME SafeInv, NEW report, report = ReportAfter(Len(recorded)),
         Len(recorded) <= Len(Coords), report \in Payload,
         recorded' = Append(recorded, report),
         collected' = IF report = WaferDone THEN collected
                      ELSE [c \in DOMAIN collected \cup {report[2]} |->
                              IF c = report[2] THEN report[3] ELSE collected[c]],
         at'[Host] = "recorded"
  PROVE  Collects' /\ DOMAIN collected' \subseteq 0 .. CoordMod - 1
<1>1. PICK k \in Nat : k = Len(recorded) /\ k <= Len(Coords) /\ Len(Coords) \in Nat
  BY SafeThreads
<1>2. recorded \in Seq(Payload) /\ DOMAIN Coords = 1 .. Len(Coords) /\ CoordMod \in Nat \ {0}
  BY WaferAssumption DEF SafeInv, TypeOK
<1>3. /\ Len(recorded') = k + 1
      /\ \A i \in DOMAIN recorded' : recorded'[i] = ReportAfter(i - 1)
  <2>1. /\ Len(recorded') = k + 1
        /\ \A i \in DOMAIN recorded' : \/ i \in DOMAIN recorded /\ recorded'[i] = recorded[i]
                                       \/ i = k + 1 /\ recorded'[i] = report
    BY <1>1, <1>2
  <2>2. k + 1 - 1 = k
    BY <1>1
  <2>3. QED BY <1>1, <2>1, <2>2 DEF SafeInv, HostSide, Collects
<1>4. /\ DOMAIN collected' =
           {WireCoord(Coords[i]) : i \in {j \in DOMAIN Coords : j <= k + 1}}
      /\ CoordsFit => \A coord \in DOMAIN collected' : collected'[coord] = Passed(coord)
  <2>0. /\ DOMAIN collected =
             {WireCoord(Coords[i]) : i \in {j \in DOMAIN Coords : j <= k}}
        /\ CoordsFit => \A coord \in DOMAIN collected : collected[coord] = Passed(coord)
    BY <1>1 DEF SafeInv, HostSide, Collects
  <2>1. CASE k = Len(Coords)
    <3>1. collected' = collected
      BY <1>1, <2>1, DoneIsLast
    <3>2. \A j \in DOMAIN Coords : j <= k /\ j <= k + 1
      BY <1>1, <1>2, <2>1
    <3>3. QED BY <2>0, <3>1, <3>2
  <2>2. CASE k < Len(Coords)
    <3>1. report # WaferDone /\ report = DieReport(Coords[k + 1])
      BY <1>1, <2>2, DoneIsLast DEF ReportAfter
    <3>2. PICK c1 : c1 = Coords[k + 1]
      OBVIOUS
    <3>3. report[2] = WireCoord(c1) /\ report[3] = Passed(c1)
      BY <3>1, <3>2 DEF DieReport
    <3>4. \A j \in DOMAIN Coords : j <= k + 1 <=> j <= k \/ j = k + 1
      BY <1>1, <1>2
    <3>5. k + 1 \in DOMAIN Coords /\ DOMAIN collected' = DOMAIN collected \cup {WireCoord(c1)}
      BY <1>1, <1>2, <2>2, <3>1, <3>3
    <3>6. DOMAIN collected' =
            {WireCoord(Coords[i]) : i \in {j \in DOMAIN Coords : j <= k + 1}}
      BY <2>0, <3>2, <3>4, <3>5
    <3>7. ASSUME CoordsFit, NEW coord \in DOMAIN collected'
          PROVE  collected'[coord] = Passed(coord)
      <4>1. c1 \in 0 .. CoordMod - 1
        BY <3>2, <3>5, <3>7 DEF CoordsFit
      <4>2. WireCoord(c1) = c1
        BY <4>1, WireIsCoord
      <4>3. QED BY <2>0, <3>1, <3>3, <3>5, <3>7, <4>2
    <3>8. QED BY <3>6, <3>7
  <2>3. k = Len(Coords) \/ k < Len(Coords)
    BY <1>1
  <2>4. QED BY <2>1, <2>2, <2>3, Zenon
<1>5. DOMAIN collected' \subseteq 0 .. CoordMod - 1
  <2>1. \A i \in DOMAIN Coords : Coords[i] \in Int
    BY WaferAssumption
  <2>2. \A i \in DOMAIN Coords : WireCoord(Coords[i]) \in 0 .. CoordMod - 1
    BY <1>2, <2>1 DEF WireCoord
  <2>3. QED BY <1>4, <2>2
<1>6. PICK n \in Nat : n = k + 1 /\ Len(recorded') = n /\ n > 0 /\ n <= Len(Coords) + 1
  BY <1>1, <1>3
<1>7. QED BY <1>3, <1>4, <1>5, <1>6 DEF Collects

\* The host records the report it holds.
LEMMA HostRecordsSafely ==
  ASSUME SafeInv, NEW report \in Payload, HostRecords(report)
  PROVE  SafeInv'
<1>0. ThreadType /\ Conversation /\ Len(recorded) \in Nat /\ Len(Coords) \in Nat
      /\ Sent(Equip) \in Int /\ recorded \in Seq(Payload)
  BY SafeThreads DEF SafeInv, TypeOK
<1>1. /\ Holds /\ Returned(Host).body = Event(report)
      /\ Moves(Host, "recorded") /\ recorded' = Append(recorded, report)
      /\ UNCHANGED <<sessionVars, shaken, served, panics, acked>>
  BY DEF HostRecords, Receives, Holds
<1>2. /\ call[Host] = "idle" /\ ret[Host].ok /\ at[Host] = "receive"
      /\ UNCHANGED <<call, ret, inbox, nextSystemBytes, crossed>>
  BY <1>1 DEF Holds, Ok, sessionVars
<1>3. Fades(Host) /\ SessionType' /\ InCall'
  BY <1>0, <1>1, <1>2, TwoThreads, IdleMoves DEF Ended
<1>4. /\ at'[Host] = "recorded" /\ at'[Equip] = at[Equip] /\ Places'
      /\ at' \in [Party -> {"start", "select", "shake", "accept", "serve", "report",
                            "acknowledged", "receive", "recorded"} \cup Ended]
  BY <1>1, TwoThreads, PlaceKept
<1>5. report = ReportAfter(Len(recorded)) /\ Len(recorded) < Sent(Equip)
  BY <1>1 DEF SafeInv, HostSide, Heard, Event
<1>6. Len(recorded) <= Len(Coords)
  BY <1>0, <1>5 DEF SafeInv, EquipSide, Counted
<1>7. Collects' /\ DOMAIN collected' \subseteq 0 .. CoordMod - 1
  BY <1>1, <1>4, <1>5, <1>6, CollectsNext DEF HostRecords
<1>8. TypeOK'
  BY <1>0, <1>1, <1>4, <1>7 DEF SafeInv, TypeOK
<1>9. /\ Sent(Equip)' = Sent(Equip) /\ Len(recorded') = Len(recorded) + 1
      /\ Flight(Host)' = Flight(Host) /\ Flight(Equip)' = Flight(Equip)
      /\ (Offered(Host)' <=> Offered(Host)) /\ (Offered(Equip)' <=> Offered(Equip))
      /\ (Answered(Equip)' <=> Answered(Equip)) /\ (Live(Equip)' <=> Live(Equip))
      /\ Live(Host)
  BY <1>0, <1>1, <1>2, <1>4
     DEF Sent, Flight, Offered, Answered, Live, Ended
<1>10. Conversation'
  BY <1>0, <1>3, TwoThreads, ConversationKept
<1>11. Carried'
  BY <1>9, TwoThreads DEF SafeInv, Carried
<1>12. EquipSide'
  BY <1>0, <1>1, <1>2, <1>4, <1>9
     DEF SafeInv, EquipSide, Counted, Received, Known, Shaken, Answers, Ok
<1>13. Heard'
  BY <1>0, <1>1, <1>4, <1>9 DEF SafeInv, HostSide, Heard, Holds, Taken
<1>14. QED BY <1>2, <1>4, <1>7, <1>8, <1>10, <1>11, <1>12, <1>13 DEF SafeInv, HostSide

\* The equipment's steps other than those above.
LEMMA EquipStarts ==
  ASSUME SafeInv, EquipAccepts \/ EquipServes, UNCHANGED runVars
  PROVE  SafeInv'
<1>0. SafeInv /\ ThreadType /\ Conversation /\ Sent(Equip) \in Int /\ shaken \in Nat
  BY SafeThreads
<1>1. PICK op \in Hsms!Operation, to \in DOMAIN CallOf :
        /\ op # "transact" /\ CallOf[to] = op /\ Moves(Equip, to) /\ Hsms!Enters(Equip, op)
        /\ UNCHANGED <<inbox, nextSystemBytes, shaken, panics, crossed>>
        /\ UNCHANGED <<acked, recorded, collected>>
        /\ Live(Equip) /\ at[Equip] \in {"start", "accept", "serve"}
        /\ \/ to = "accept" /\ op = "accept_select" /\ at[Equip] = "start" /\ served' = served
           \/ /\ to = "serve" /\ op = "serve_one" /\ at[Equip] # "start" /\ Ok(Equip)
              /\ served < 2 /\ served' = served + 1
  <2>1. CASE EquipAccepts /\ UNCHANGED runVars
    BY <2>1 DEF EquipAccepts, Hsms!AcceptSelect, CallOf, Hsms!Operation, runVars, Live, Ended
  <2>2. CASE EquipServes /\ UNCHANGED runVars
    BY <2>2 DEF EquipServes, Hsms!ServeOne, CallOf, Hsms!Operation, runVars, Live, Ended, Ok
  <2>3. QED BY <2>1, <2>2
<1>2. Quiet(Equip) /\ SessionType' /\ InCall'
  BY <1>0, <1>1, TwoThreads, StartsQuietly
<1>3. /\ at'[Equip] = to /\ Places'
      /\ at' \in [Party -> {"start", "select", "shake", "accept", "serve", "report",
                            "acknowledged", "receive", "recorded"} \cup Ended]
  BY <1>1, TwoThreads, PlaceKept
<1>4. served' \in 0 .. 2
  BY <1>1 DEF SafeInv, TypeOK
<1>5. TypeOK'
  BY <1>1, <1>3, <1>4 DEF SafeInv, TypeOK
<1>6. /\ Fades(Equip) /\ Sent(Equip)' = Sent(Equip)
      /\ (Answered(Equip)' => Answered(Equip)) /\ (Offered(Equip)' => Offered(Equip))
      /\ (Live(Equip)' => (Offered(Equip) => Offered(Equip)'))
      /\ call'[Equip] # "idle"
  <2>1. call'[Equip] = op /\ op # "idle"
    BY <1>0, <1>1, TwoThreads DEF Hsms!Enters, Conversation, SessionType, Hsms!Operation
  <2>2. QED BY <1>0, <1>2, <2>1, TwoThreads, FadingOffers, SentFacts DEF Quiet, Conversation
<1>7. EquipSide'
  <2>1. Counted'
    BY <1>0, <1>1, <1>3, <1>6 DEF SafeInv, EquipSide, Counted
  <2>2. Sent(Equip) = 0
    BY <1>1 DEF SafeInv, EquipSide, Counted
  <2>3. Received'
    BY <1>0, <1>1, <1>6, <2>2, SafeThreads DEF Received
  <2>4. ~Ok(Equip)'
    BY <1>6 DEF Ok
  <2>5. Shaken'
    <3>1. Answers' = Answers
      BY <1>1, <1>3, <2>4, SafeThreads DEF Answers
    <3>2. QED BY <1>1, <1>6, <2>2, <3>1 DEF SafeInv, EquipSide, Shaken
  <2>6. QED BY <2>1, <2>3, <2>5 DEF EquipSide
<1>8. QED BY <1>1, <1>2, <1>3, <1>5, <1>6, <1>7, EquipFades

\* The equipment counts a report, or returns.
LEMMA EquipStops ==
  ASSUME SafeInv, \/ EquipFinishes
                  \/ EquipAcknowledged
                  \/ (Fails(Equip, Accepts(Equip)) \/ Panics(Equip)) /\ UNCHANGED runVars
  PROVE  SafeInv'
<1>0. /\ ThreadType /\ Conversation /\ Len(recorded) \in Nat /\ Len(Coords) \in Nat
      /\ Sent(Equip) \in Int /\ acked \in Nat /\ InCall
  BY SafeThreads DEF Conversation
<1>1. PICK to \in {"acknowledged"} \cup Ended :
        /\ Moves(Equip, to) /\ call[Equip] = "idle" /\ at[Equip] \notin Ended
        /\ UNCHANGED <<call, ret, inbox, nextSystemBytes, crossed, shaken, served>>
        /\ UNCHANGED <<recorded, collected>>
        /\ panics' \in 0 .. MaxPanics
        /\ to = "acknowledged" => at[Equip] = "report" /\ ret[Equip].ok /\ acked' = acked + 1
        /\ to # "acknowledged" => acked' = acked
        /\ to = "done" => at[Equip] = "acknowledged" /\ acked = Len(Coords) + 1
  <2>1. CASE EquipFinishes
    BY <1>0, <2>1, TwoThreads, CallFacts
       DEF EquipFinishes, Ends, Hsms!Drop, runVars, Ended, SafeInv, TypeOK
  <2>2. CASE EquipAcknowledged
    BY <2>2 DEF EquipAcknowledged, Acknowledged, Accepts, sessionVars, Ended, SafeInv, TypeOK
  <2>3. CASE (Fails(Equip, Accepts(Equip)) \/ Panics(Equip)) /\ UNCHANGED runVars
    BY <2>3, PanicAssumption
       DEF Fails, Panics, Ends, Hsms!Drop, runVars, Ended, SafeInv, TypeOK
  <2>4. QED BY <2>1, <2>2, <2>3
<1>2. Fades(Equip) /\ SessionType' /\ InCall'
  BY <1>0, <1>1, TwoThreads, IdleMoves DEF Ended
<1>3. /\ at'[Equip] = to /\ Places'
      /\ at' \in [Party -> {"start", "select", "shake", "accept", "serve", "report",
                            "acknowledged", "receive", "recorded"} \cup Ended]
  BY <1>1, TwoThreads, PlaceKept
<1>4. /\ Sent(Equip)' = Sent(Equip)
      /\ (Answered(Equip)' <=> Answered(Equip)) /\ (Offered(Equip)' <=> Offered(Equip))
  BY <1>1 DEF Sent, Answered, Offered, Flight
<1>5. Counted' /\ acked' \in 0 .. Len(Coords) + 1
  BY <1>0, <1>1, <1>3, <1>4 DEF SafeInv, EquipSide, Counted, Ended, TypeOK
<1>6. TypeOK'
  BY <1>1, <1>3, <1>5 DEF SafeInv, TypeOK
<1>7. Received'
  <2>1. Known' => Known
    BY <1>1, <1>3, <1>4 DEF Known, Ended, Ok
  <2>2. QED BY <1>1, <1>4, <2>1 DEF SafeInv, EquipSide, Received
<1>8. Shaken'
  BY <1>1, <1>3, <1>4 DEF SafeInv, EquipSide, Shaken, Ended
<1>9. QED BY <1>1, <1>2, <1>3, <1>5, <1>6, <1>7, <1>8, EquipFades DEF EquipSide

\* One iteration of a read loop.
LEMMA SessionStepsSafely ==
  ASSUME SafeInv, NEW p \in Party, SessionStep(p), UNCHANGED runVars
  PROVE  SafeInv'
<1>0. ThreadType /\ Conversation /\ InCall /\ Answerable(p)
  BY SafeThreads, AllAnswerable DEF Conversation
<1>1. /\ Serves(p) \/ Quiet(p)
      /\ SessionType' /\ InCall' /\ UNCHANGED <<at, shaken, served, panics, crossed>>
      /\ call[p] # "idle"
  BY <1>0, SessionStepIs
<1>2. UNCHANGED <<acked, recorded, collected>>
  BY DEF runVars
<1>3. TypeOK' /\ Places'
  BY <1>1, <1>2 DEF SafeInv, TypeOK, Places
<1>4. CASE Serves(p)
  BY <1>1, <1>2, <1>3, <1>4, TwoThreads, HostServed, EquipServed
<1>5. CASE Quiet(p) /\ p = Host
  <2>1. ~Holds
    BY <1>1, <1>5 DEF Holds, Ok
  <2>2. ~Holds'
    BY <1>0, <1>1, <1>5, InsideFacts DEF Holds, Ok, Quiet, CallOf
  <2>3. at'[Host] = "recorded" => Len(recorded) > 0
    BY <1>0, <1>1, <1>5, InsideFacts
  <2>4. at'[Host] # "done"
    BY <1>0, <1>1, <1>5, InsideFacts DEF Ended
  <2>5. QED BY <1>1, <1>2, <1>3, <1>5, <2>1, <2>2, <2>3, <2>4, HostFades DEF Quiet
<1>6. CASE Quiet(p) /\ p = Equip
  <2>1. /\ Fades(Equip) /\ Sent(Equip)' = Sent(Equip)
        /\ (Answered(Equip)' => Answered(Equip)) /\ (Offered(Equip)' => Offered(Equip))
        /\ Live(Equip)' => Live(Equip) /\ (Offered(Equip) => Offered(Equip)')
    BY <1>0, <1>6, TwoThreads, FadingOffers, SentFacts DEF Quiet, Conversation
  <2>2. ~Ok(Equip)
    BY <1>1, <1>6 DEF Ok
  <2>3. at[Equip] = "serve" => ~Ok(Equip)'
    BY <1>0, <1>1, <1>6, InsideFacts DEF Ok, Quiet, CallOf
  <2>4. at[Equip] = "report" /\ Ok(Equip)' => Answered(Equip)
    BY <1>0, <1>1, <1>6, InsideFacts DEF Ok, Quiet, CallOf
  <2>5. Counted'
    BY <1>1, <1>2, <2>1 DEF SafeInv, EquipSide, Counted
  <2>6. Received'
    BY <1>1, <1>2, <2>1, <2>4 DEF SafeInv, EquipSide, Received, Known
  <2>7. Shaken'
    BY <1>1, <1>2, <2>1, <2>2, <2>3 DEF SafeInv, EquipSide, Shaken, Answers
  <2>8. QED BY <1>1, <1>2, <1>3, <2>1, <2>5, <2>6, <2>7, EquipFades DEF EquipSide
<1>7. QED BY <1>1, <1>4, <1>5, <1>6, TwoThreads

\* Something arrives from elsewhere, or nothing happens.
LEMMA NothingElse ==
  ASSUME SafeInv, UNCHANGED <<threadVars, runVars>>,
         \/ \E p \in Party, kind \in External : Hsms!ExternalFrame(p, kind)
         \/ UNCHANGED sessionVars
  PROVE  SafeInv'
<1>0. ThreadType /\ Conversation
  BY SafeThreads
<1>1. UNCHANGED <<at, shaken, served, panics, acked, recorded, collected>>
  BY DEF threadVars, runVars
<1>2. TypeOK' /\ Places'
  BY <1>1 DEF SafeInv, TypeOK, Places
<1>3. CASE UNCHANGED sessionVars
  <2>1. UNCHANGED <<call, ret, inbox, nextSystemBytes, crossed>>
    BY <1>3 DEF sessionVars
  <2>2. Conversation'
    BY <1>0, <1>1, <2>1
       DEF Conversation, SessionType, InCall, Directed, OneFrame, Pending, Ahead, Carries,
           Sent, Live
  <2>3. Carried'
    BY <2>1 DEF SafeInv, Carried, Flight
  <2>4. EquipSide'
    BY <1>1, <2>1
       DEF SafeInv, EquipSide, Counted, Received, Known, Shaken, Answers, Ok, Sent, Live,
           Answered, Offered, Flight
  <2>5. HostSide'
    BY <1>1, <2>1
       DEF SafeInv, HostSide, Heard, Holds, Taken, Collects, Ok, Sent, Live, Offered,
           Flight, Returned
  <2>6. QED BY <1>2, <2>1, <2>2, <2>3, <2>4, <2>5 DEF SafeInv
<1>4. CASE \E p \in Party, kind \in External : Hsms!ExternalFrame(p, kind)
  <2>1. PICK p \in Party : \E kind \in External : Hsms!ExternalFrame(p, kind)
    BY <1>4
  <2>2. /\ Fades(p) /\ SessionType' /\ InCall' /\ UNCHANGED crossed
        /\ UNCHANGED <<call, ret, nextSystemBytes>>
    BY <1>0, <1>1, <2>1, ArrivesQuietly DEF Hsms!ExternalFrame
  <2>3. CASE p = Host
    BY <1>1, <1>2, <2>2, <2>3, HostFades DEF SafeInv, HostSide, Collects, Holds, Ok
  <2>4. CASE p = Equip
    <3>1. /\ Sent(Equip)' = Sent(Equip)
          /\ (Answered(Equip)' => Answered(Equip)) /\ (Offered(Equip)' => Offered(Equip))
          /\ Live(Equip)' => Live(Equip) /\ (Offered(Equip) => Offered(Equip)')
      BY <1>0, <2>2, <2>4, TwoThreads, FadingOffers, SentFacts DEF Conversation
    <3>2. EquipSide'
      BY <1>1, <2>2, <3>1
         DEF SafeInv, EquipSide, Counted, Received, Known, Shaken, Answers, Ok
    <3>3. QED BY <1>1, <1>2, <2>2, <2>4, <3>2, EquipFades
  <2>5. QED BY <2>3, <2>4, TwoThreads
<1>5. QED BY <1>3, <1>4

\* Every step of a run keeps the invariant.
LEMMA SafeKept ==
  ASSUME SafeInv, HandshakeFits, [Next]_vars
  PROVE  SafeInv'
<1>1. CASE HostStep
  <2>1. CASE HostReceives \/ HostFinishes \/ \E report \in Payload : HostRecords(report)
    BY <2>1, HostStarts, HostStops, HostRecordsSafely
  <2>2. CASE (HostSelects \/ HostShakes \/ SessionStep(Host)) /\ UNCHANGED runVars
    BY <2>2, HostStarts, HostShakesSafely, SessionStepsSafely, TwoThreads
  <2>3. CASE Fails(Host, Accepts(Host)) /\ UNCHANGED runVars
    BY <2>3, HostStops
  <2>4. QED BY <1>1, <2>1, <2>2, <2>3 DEF HostStep
<1>2. CASE EquipStep
  <2>1. CASE EquipReports \/ EquipAcknowledged \/ EquipFinishes
    BY <2>1, EquipReportsSafely, EquipStops
  <2>2. CASE (EquipAccepts \/ EquipServes \/ SessionStep(Equip)) /\ UNCHANGED runVars
    BY <2>2, EquipStarts, SessionStepsSafely, TwoThreads
  <2>3. CASE Fails(Equip, Accepts(Equip)) /\ UNCHANGED runVars
    BY <2>3, EquipStops
  <2>4. QED BY <1>2, <2>1, <2>2, <2>3 DEF EquipStep
<1>3. CASE Disturbance
  <2>1. ASSUME NEW p \in Party, Panics(p), UNCHANGED runVars PROVE SafeInv'
    BY <2>1, TwoThreads, HostStops, EquipStops
  <2>2. CASE /\ \E p \in Party, kind \in External : Hsms!ExternalFrame(p, kind)
             /\ UNCHANGED threadVars /\ UNCHANGED runVars
    BY <2>2, NothingElse
  <2>3. QED BY <1>3, <2>1, <2>2 DEF Disturbance
<1>4. CASE UNCHANGED vars
  BY <1>4, NothingElse DEF vars, runVars
<1>5. QED BY <1>1, <1>2, <1>3, <1>4 DEF Next

\* It holds before the first one.
LEMMA SafeBegins == Init => SafeInv
<1> SUFFICES ASSUME Init PROVE SafeInv
  OBVIOUS
<1>0. Len(Coords) \in Nat /\ Len(Handshake) \in Nat
  BY WaferAssumption, HandshakeAssumption
<1>1. /\ at = [p \in Party |-> "start"] /\ at[Host] = "start" /\ at[Equip] = "start"
      /\ shaken = 0 /\ served = 0 /\ panics = 0 /\ acked = 0 /\ recorded = <<>>
      /\ collected = [coord \in {} |-> FALSE]
      /\ \A p \in Party : inbox[p] = <<>> /\ nextSystemBytes[p] = 1 /\ call[p] = "idle"
      /\ Host \in Party /\ Equip \in Party
  BY TwoThreads DEF Init, ThreadInit, Hsms!Init, Party, Hsms!Party
<1>2. Conversation /\ ~crossed
  BY ConversationBegins DEF Init
<1>3. TypeOK /\ Places
  BY <1>0, <1>1, PanicAssumption DEF TypeOK, Places
<1>4. /\ \A q \in Party : Flight(q) = {}
      /\ Sent(Equip) = 0
  BY <1>1 DEF Flight, Sent
<1>5. Carried
  BY <1>4 DEF Carried
<1>6. EquipSide
  BY <1>0, <1>1, <1>4
     DEF EquipSide, Counted, Received, Known, Shaken, Answers, Answered, Offered, Ok
<1>7. Heard
  BY <1>1, <1>4 DEF Heard, Holds, Taken, Offered
<1>8. Collects
  BY <1>0, <1>1 DEF Collects
<1>9. QED BY <1>2, <1>3, <1>5, <1>6, <1>7, <1>8 DEF SafeInv, HostSide

\* The inductive invariant of a wafer run.
LEMMA Safety ==
  ASSUME HandshakeFits
  PROVE  Spec => []SafeInv
BY SafeBegins, SafeKept, PTL DEF Spec

\* Whatever the wafer, whoever panics and whatever control frames arrive, the
\* threads of a wafer run keep to their places and the run's variables to
\* their types: no report is acknowledged twice, and no coordinate outside of
\* the wire's range is collected.
THEOREM WaferTypeCorrect ==
  ASSUME HandshakeFits
  PROVE  Spec => []TypeOK
<1>1. SafeInv => TypeOK
  BY DEF SafeInv
<1>2. QED BY <1>1, Safety, PTL

\* Neither thread of a wafer run sends a primary while one of the other's is
\* unanswered, so no transact takes a report for its secondary.
THEOREM WaferNeverCrosses ==
  ASSUME HandshakeFits
  PROVE  Spec => []NeverCrosses
<1>1. SafeInv => NeverCrosses
  BY DEF SafeInv, NeverCrosses
<1>2. QED BY <1>1, Safety, PTL

\* When either thread has returned Ok, the host's map holds every die of the
\* wafer with the outcome the tester computed and nothing else, also when the
\* other thread has failed since, provided each coordinate fits on the wire.
THEOREM WaferCollected ==
  ASSUME HandshakeFits, CoordsFit
  PROVE  Spec => []DoneMeansCollected
<1>1. SafeInv => DoneMeansCollected
  <2> SUFFICES ASSUME SafeInv, NEW p \in Party, at[p] = "done"
               PROVE  /\ DOMAIN collected = Range(Coords)
                      /\ \A coord \in DOMAIN collected : collected[coord] = Passed(coord)
    BY DEF DoneMeansCollected
  <2>0. Len(recorded) \in Nat /\ Len(Coords) \in Nat /\ DOMAIN Coords = 1 .. Len(Coords)
    BY SafeThreads, WaferAssumption
  <2>1. Len(recorded) >= Len(Coords)
    <3>1. CASE p = Host
      BY <2>0, <3>1 DEF SafeInv, HostSide, Collects
    <3>2. CASE p = Equip
      BY <2>0, <3>2 DEF SafeInv, EquipSide, Counted, Received, Known
    <3>3. QED BY <3>1, <3>2, TwoThreads
  <2>2. \A j \in DOMAIN Coords : j <= Len(recorded)
    BY <2>0, <2>1
  <2>3. \A j \in DOMAIN Coords : WireCoord(Coords[j]) = Coords[j]
    BY WireIsCoord DEF CoordsFit
  <2>4. DOMAIN collected = {Coords[j] : j \in DOMAIN Coords}
    BY <2>2, <2>3 DEF SafeInv, HostSide, Collects
  <2>5. QED BY <2>4 DEF Range, SafeInv, HostSide, Collects
<1>2. QED BY <1>1, Safety, PTL

----------------------------------------------------------------------------
(* A wafer run is a stream of acknowledged reports                         *)

\* The reports of a run are a sequence of payloads.
LEMMA ReportsFacts ==
  /\ AllReports \in Seq(Payload) /\ Len(AllReports) = Len(Coords) + 1
  /\ \A k \in Nat : k <= Len(Coords) => AllReports[k + 1] = ReportAfter(k)
<1>1. PICK n \in Nat : n = Len(Coords) + 1
  BY WaferAssumption
<1>2. DOMAIN AllReports = 1 .. n
  BY <1>1 DEF AllReports
<1>3. AllReports = [i \in 1 .. n |-> ReportAfter(i - 1)]
  BY <1>1 DEF AllReports
<1>4. AllReports \in [1 .. n -> Payload]
  BY <1>2, <1>3, PayloadAssumption
<1>5. AllReports \in Seq(Payload) /\ Len(AllReports) = n
  BY <1>2, <1>4
<1>6. ASSUME NEW k \in Nat, k <= Len(Coords) PROVE AllReports[k + 1] = ReportAfter(k)
  <2>1. k + 1 \in 1 .. n /\ k + 1 - 1 = k
    BY <1>1, <1>6, WaferAssumption
  <2>2. QED BY <1>3, <2>1
<1>7. QED BY <1>1, <1>5, <1>6

\* A step that ends no thread, records nothing and acknowledges nothing is
\* none of the stream's.
LEMMA StreamStutters ==
  ASSUME SafeInv, UNCHANGED <<recorded, acked>>,
         \/ UNCHANGED at
         \/ \E p \in Party : \E to : to \notin Ended /\ at[p] \notin Ended /\ Moves(p, to)
  PROVE  UNCHANGED Stream!vars
<1>1. UNCHANGED <<EndOf(Host), EndOf(Equip)>>
  <2>1. CASE UNCHANGED at
    BY <2>1 DEF EndOf
  <2>2. CASE \E p \in Party : \E to : to \notin Ended /\ at[p] \notin Ended /\ Moves(p, to)
    BY <2>2, SafeThreads, TwoThreads, MovesPlace DEF EndOf
  <2>3. QED BY <2>1, <2>2
<1>2. QED BY <1>1 DEF Stream!vars

\* A thread that ends does so in the stream.
LEMMA StreamEnds ==
  ASSUME SafeInv, NEW p \in Party, at[p] \notin Ended, UNCHANGED <<recorded, acked>>,
         \/ Moves(p, "failed")
         \/ p = Host /\ Moves(p, "done") /\ Len(recorded) = Len(Coords) + 1
         \/ p = Equip /\ Moves(p, "done") /\ acked = Len(Coords) + 1
  PROVE  Stream!Next
<1>1. PICK to \in Ended : Moves(p, to)
  BY DEF Ended
<1>2. at'[p] = to /\ at'[Hsms!Peer(p)] = at[Hsms!Peer(p)]
  BY <1>1, SafeThreads, MovesPlace
<1>3. to = "failed" \/ (p = Host /\ to = "done" /\ Len(recorded) = Len(Coords) + 1)
        \/ (p = Equip /\ to = "done" /\ acked = Len(Coords) + 1)
  BY <1>1, <1>2, SafeThreads, MovesPlace DEF Ended
<1>4. CASE p = Host
  <2>1. /\ EndOf(Host) = "running" /\ EndOf(Host)' = to
        /\ EndOf(Equip)' = EndOf(Equip)
    BY <1>2, <1>4, TwoThreads DEF EndOf
  <2>2. Stream!HostFails \/ Stream!HostFinishes
    BY <1>3, <1>4, <2>1, ReportsFacts, TwoThreads DEF Stream!HostFails, Stream!HostFinishes
  <2>3. QED BY <2>2 DEF Stream!Next
<1>5. CASE p = Equip
  <2>1. /\ EndOf(Equip) = "running" /\ EndOf(Equip)' = to
        /\ EndOf(Host)' = EndOf(Host)
    BY <1>2, <1>5, TwoThreads DEF EndOf
  <2>2. Stream!EquipFails \/ Stream!EquipFinishes
    BY <1>3, <1>5, <2>1, ReportsFacts, TwoThreads DEF Stream!EquipFails, Stream!EquipFinishes
  <2>3. QED BY <2>2 DEF Stream!Next
<1>6. QED BY <1>4, <1>5, TwoThreads

\* Each step of a run is a step of the stream or none of its.
LEMMA StreamStep ==
  ASSUME SafeInv, [Next]_vars
  PROVE  Stream!Next \/ UNCHANGED Stream!vars
<1>0. /\ Len(recorded) \in Nat /\ Len(Coords) \in Nat /\ acked \in Nat /\ Sent(Equip) \in Int
      /\ ThreadType /\ Conversation /\ Host \in Party /\ Equip \in Party
  BY SafeThreads, TwoThreads
<1>1. ASSUME NEW report \in Payload, HostRecords(report) PROVE Stream!Next
  <2>1. /\ Holds /\ Returned(Host).body = Event(report)
        /\ Moves(Host, "recorded") /\ recorded' = Append(recorded, report) /\ UNCHANGED acked
    BY <1>1 DEF HostRecords, Receives, Holds
  <2>2. /\ report = ReportAfter(Len(recorded)) /\ Len(recorded) < Sent(Equip)
    BY <2>1 DEF SafeInv, HostSide, Heard, Event
  <2>3. Len(recorded) <= acked /\ Len(recorded) <= Len(Coords)
    BY <1>0, <2>2 DEF SafeInv, EquipSide, Counted
  <2>4. report = AllReports[Len(recorded) + 1] /\ Len(recorded) < Len(AllReports)
    BY <1>0, <2>2, <2>3, ReportsFacts
  <2>5. /\ EndOf(Host) = "running" /\ EndOf(Host)' = "running"
        /\ EndOf(Equip)' = EndOf(Equip)
    BY <1>0, <2>1, TwoThreads, MovesPlace DEF EndOf, Holds, Ended
  <2>6. Stream!Record
    BY <2>1, <2>3, <2>4, <2>5 DEF Stream!Record
  <2>7. QED BY <2>6 DEF Stream!Next
<1>2. CASE EquipAcknowledged
  <2>1. /\ at[Equip] = "report" /\ Ok(Equip) /\ Moves(Equip, "acknowledged")
        /\ acked' = acked + 1 /\ UNCHANGED recorded
    BY <1>2 DEF EquipAcknowledged, Acknowledged, Accepts, Ok
  <2>2. acked <= Len(recorded) /\ acked < Len(AllReports)
    BY <1>0, <2>1, ReportsFacts DEF SafeInv, EquipSide, Counted, Received, Known
  <2>3. /\ EndOf(Equip) = "running" /\ EndOf(Equip)' = "running"
        /\ EndOf(Host)' = EndOf(Host)
    BY <1>0, <2>1, TwoThreads, MovesPlace DEF EndOf, Ended
  <2>4. Stream!Acknowledge
    BY <2>1, <2>2, <2>3 DEF Stream!Acknowledge
  <2>5. QED BY <2>4 DEF Stream!Next
<1>3. CASE HostFinishes
  <2>1. /\ at[Host] = "recorded" /\ Moves(Host, "done") /\ UNCHANGED <<recorded, acked>>
        /\ Last(recorded) = WaferDone
    BY <1>3 DEF HostFinishes, runVars
  <2>2. /\ Len(recorded) > 0 /\ Len(recorded) <= Len(Coords) + 1
        /\ recorded \in Seq(Payload)
    BY <2>1 DEF SafeInv, HostSide, Collects, TypeOK
  <2>3. ReportAfter(Len(recorded) - 1) = WaferDone
    <3>1. Len(recorded) \in DOMAIN recorded
      BY <2>2
    <3>2. QED BY <2>1, <2>2, <3>1 DEF SafeInv, HostSide, Collects, Last
  <2>4. Len(recorded) = Len(Coords) + 1
    BY <1>0, <2>2, <2>3, DoneIsLast
  <2>5. QED BY <1>0, <2>1, <2>4, StreamEnds DEF Ended
<1>4. CASE EquipFinishes
  BY <1>0, <1>4, StreamEnds DEF EquipFinishes, Ends, Ended, runVars
<1>5. ASSUME NEW p \in Party, UNCHANGED runVars, Panics(p) \/ \E acceptable : Fails(p, acceptable)
      PROVE  Stream!Next
  BY <1>5, StreamEnds DEF Panics, Fails, Ends, runVars
<1>6. CASE \/ HostReceives
           \/ (HostSelects \/ HostShakes) /\ UNCHANGED runVars
           \/ EquipReports
           \/ (EquipAccepts \/ EquipServes) /\ UNCHANGED runVars
  <2>1. UNCHANGED <<recorded, acked>>
    BY <1>6 DEF HostReceives, EquipReports, runVars
  <2>2. \E p \in Party : \E to : to \notin Ended /\ at[p] \notin Ended /\ Moves(p, to)
    BY <1>0, <1>6
       DEF HostReceives, HostConnected, Skips, HostSelects, HostShakes, EquipReports,
           EquipConnected, Reports, EquipAccepts, EquipServes, Ended
  <2>3. QED BY <2>1, <2>2, StreamStutters
<1>7. CASE \/ \E p \in Party : SessionStep(p) /\ UNCHANGED runVars
           \/ UNCHANGED <<threadVars, runVars>>
           \/ UNCHANGED vars
  <2>1. UNCHANGED <<recorded, acked, at>>
    BY <1>7 DEF SessionStep, threadVars, runVars, vars
  <2>2. QED BY <2>1, StreamStutters
<1>8. CASE HostStep
  BY <1>0, <1>1, <1>3, <1>5, <1>6, <1>7, <1>8 DEF HostStep
<1>9. CASE EquipStep
  BY <1>0, <1>2, <1>4, <1>5, <1>6, <1>7, <1>9 DEF EquipStep
<1>10. CASE Disturbance
  BY <1>5, <1>7, <1>10 DEF Disturbance
<1>11. QED BY <1>7, <1>8, <1>9, <1>10 DEF Next

\* A wafer run implements the stream of acknowledged reports: the host records
\* the run's reports in their order, and neither side is ever more than one
\* report ahead of the other.
THEOREM WaferIsReportStream ==
  ASSUME HandshakeFits
  PROVE  Spec => ImplementsReportStream
<1>1. Init => Stream!Init
  BY ReportsFacts, TwoThreads
     DEF Init, ThreadInit, Stream!Init, EndOf, Ended
<1>2. SafeInv /\ [Next]_vars => [Stream!Next]_(Stream!vars)
  BY StreamStep
<1>3. QED BY <1>1, <1>2, Safety, PTL DEF Spec, ImplementsReportStream, Stream!Spec
=============================================================================
