----------------------------- MODULE GemThreads -----------------------------
(***************************************************************************)
(* What the host and the equipment thread of every run have in common: a   *)
(* GEM session over HSMS (src/tpt-ate-comm/src/secs/gem.rs), the           *)
(* handshake, and how a thread ends.  WaferRun and AssemblyRun extend this *)
(* module with what the two threads do once they are connected.            *)
(*                                                                         *)
(* at[p] names the call thread p made last; the code after the call runs   *)
(* as one step with the start of the next call, because it is local to the *)
(* thread.  Where a thread records or acknowledges something in between,   *)
(* that is a step of its own.                                              *)
(***************************************************************************)
EXTENDS Integers, Sequences, FiniteSets

CONSTANTS
  Host, Equip,     \* the two threads
  Handshake,       \* functions of the S1 primaries the host sends, in order
  Payload,         \* what event reports and host commands carry
  SystemBytesMod, MaxDraws,
  External, MaxExternal,
  MaxPanics        \* bound: how many threads end for reasons of their own

ASSUME HandshakeAssumption == Handshake \in Seq({1, 13})
ASSUME PanicAssumption == MaxPanics \in Nat
ASSUME ThreadsDiffer == Host # Equip

VARIABLES
  state, nextSystemBytes, call, ret, inbox, dropped, injected, separated, crossed,
  at,        \* the call a thread made last, or how it ended
  shaken,    \* handshake primaries the host has sent
  served,    \* handshake primaries the equipment has begun to serve
  panics     \* threads that have ended for reasons of their own

sessionVars ==
  <<state, nextSystemBytes, call, ret, inbox, dropped, injected, separated, crossed>>
threadVars == <<at, shaken, served, panics>>

----------------------------------------------------------------------------
(* SECS-II items (gem.rs body builders), told apart by their kind          *)

NoItem == <<>>
Event(payload) == <<"S6F11", payload>>
Command(payload) == <<"S2F41", payload>>

Item ==
  {<<kind>> : kind \in {"S1F1", "S1F2", "S1F13", "S1F14", "S2F42", "S6F12"}}
    \cup {Event(payload) : payload \in Payload}
    \cup {Command(payload) : payload \in Payload}

Party == {Host, Equip}

Hsms == INSTANCE HsmsSession WITH
          Functions <- {1, 11, 13, 41}, Bodies <- Item, NoBody <- NoItem

\* What HsmsSession assumes of the rest.
ASSUME SessionAssumption ==
  /\ SystemBytesMod \in Nat \ {0} /\ MaxDraws \in Nat /\ MaxExternal \in Nat
  /\ External \subseteq Hsms!ExternalKinds

----------------------------------------------------------------------------
(* Threads and their calls                                                 *)

Ended == {"done", "failed"}

Ok(p) == call[p] = "idle" /\ ret[p].ok

\* The body and the function of the data frame the last call returned.
Returned(p) == ret[p].frame

Moves(p, to) == at' = [at EXCEPT ![p] = to]

ThreadInit ==
  /\ Hsms!Init
  /\ at = [p \in Party |-> "start"]
  /\ shaken = 0
  /\ served = 0
  /\ panics = 0

----------------------------------------------------------------------------
(* Serving (EquipmentGem::serve_one, HostGem::receive_event_report,        *)
(* HostGem::serve_event_reports)                                           *)

\* Variant for a sensitivity check: S1F13 is not answered.
NoS1F14(function) ==
  CASE function = 1 -> <<"S1F2">>
    [] function = 41 -> <<"S2F42">>
    [] OTHER -> NoItem

\* Variant for a sensitivity check: S2F41 is not answered.
NoS2F42(function) ==
  CASE function = 1 -> <<"S1F2">>
    [] function = 13 -> <<"S1F14">>
    [] OTHER -> NoItem

\* EquipmentGem looks at the function alone and leaves other primaries
\* unanswered.
EquipmentReply(function) ==
  CASE function = 1 -> <<"S1F2">>
    [] function = 13 -> <<"S1F14">>
    [] function = 41 -> <<"S2F42">>
    [] OTHER -> NoItem

\* HostGem acknowledges whatever it serves.
HostReply(function) == <<"S6F12">>

MakeReply(p, m) ==
  IF ~Hsms!WantsReply(m) THEN NoItem
  ELSE IF p = Host THEN HostReply(m.function) ELSE EquipmentReply(m.function)

\* One iteration of the read loop p is inside.
SessionStep(p) ==
  /\ \/ Hsms!SelectAnswered(p)
     \/ Hsms!SelectFails(p)
     \/ Hsms!AcceptsRequest(p)
     \/ Hsms!AcceptFails(p)
     \/ Hsms!ReceivesReply(p)
     \/ Hsms!TransactFails(p)
     \/ inbox[p] # <<>> /\ Hsms!ServesPrimary(p, MakeReply(p, Head(inbox[p])))
     \/ Hsms!RejectsFrame(p)
     \/ Hsms!AnswersLinktest(p)
     \/ Hsms!AnswersSelect(p)
     \/ Hsms!Deselects(p)
     \/ Hsms!ServeFails(p)
     \/ Hsms!ReadsEof(p)
  /\ UNCHANGED threadVars

----------------------------------------------------------------------------
(* The handshake                                                           *)

\* session.select()
HostSelects ==
  /\ at[Host] = "start"
  /\ Hsms!Select(Host)
  /\ Moves(Host, "select")
  /\ UNCHANGED <<shaken, served, panics>>

Request(function) == IF function = 1 THEN <<"S1F1">> ELSE <<"S1F13">>

\* online_data and establish_communications fail unless the body of the
\* reply is the one they parse; neither looks at its function.
ReplyParses == Returned(Host).body = EquipmentReply(Handshake[shaken])

\* What p's code takes from the call it made last: Ok, a handshake reply that
\* parses, an S6F12 for a report.
Accepts(p) ==
  /\ ret[p].ok
  /\ at[p] = "shake" => ReplyParses
  /\ at[p] = "report" => Returned(p).function = 12

\* online_data(), establish_communications()
HostShakes ==
  /\ at[Host] \in {"select", "shake"}
  /\ call[Host] = "idle" /\ Accepts(Host)
  /\ shaken < Len(Handshake)
  /\ LET function == Handshake[shaken + 1]
     IN Hsms!Transact(Host, function, Request(function))
  /\ shaken' = shaken + 1
  /\ Moves(Host, "shake")
  /\ UNCHANGED <<served, panics>>

HostConnected ==
  /\ at[Host] \in {"select", "shake"}
  /\ call[Host] = "idle" /\ Accepts(Host)
  /\ shaken = Len(Handshake)

\* session.accept_select()
EquipAccepts ==
  /\ at[Equip] = "start"
  /\ Hsms!AcceptSelect(Equip)
  /\ Moves(Equip, "accept")
  /\ UNCHANGED <<shaken, served, panics>>

\* Variant for a sensitivity check: the handshake loop runs once too often.
ServesThrice ==
  /\ at[Equip] \in {"accept", "serve"}
  /\ Ok(Equip)
  /\ served <= 2
  /\ Hsms!ServeOne(Equip)
  /\ served' = served + 1
  /\ Moves(Equip, "serve")
  /\ UNCHANGED <<shaken, panics>>

\* while served < 2 { gem.serve_one()?; served += 1 }
EquipServes ==
  /\ at[Equip] \in {"accept", "serve"}
  /\ Ok(Equip)
  /\ served < 2
  /\ Hsms!ServeOne(Equip)
  /\ served' = served + 1
  /\ Moves(Equip, "serve")
  /\ UNCHANGED <<shaken, panics>>

EquipConnected == at[Equip] = "serve" /\ Ok(Equip) /\ served = 2

----------------------------------------------------------------------------
(* Event reports (EquipmentGem::send_event_report)                         *)

Reports(payload) ==
  /\ Hsms!Transact(Equip, 11, Event(payload))
  /\ Moves(Equip, "report")

\* Variant for a sensitivity check: a report counts as acknowledged once it is sent.
FireAndForget == at[Equip] = "report"

\* transact returned the S6F12 with DACKN 0.
Acknowledged ==
  at[Equip] = "report" /\ call[Equip] = "idle" /\ Accepts(Equip)

\* The S6F11 the host has been served; other primaries are skipped.
Receives(payload) ==
  /\ Ok(Host)
  /\ Returned(Host).function = 11
  /\ Returned(Host).body = Event(payload)

----------------------------------------------------------------------------
(* Endings                                                                 *)

\* Variant for a sensitivity check: a session can be dropped inside a call.
EndsInsideCall(p, how) ==
  /\ dropped' = [dropped EXCEPT ![p] = TRUE]
  /\ UNCHANGED <<state, nextSystemBytes, call, ret, inbox, injected, separated, crossed>>
  /\ Moves(p, how)

\* The thread's function returns: the session and its pipe end are dropped.
Ends(p, how) ==
  /\ Hsms!Drop(p)
  /\ Moves(p, how)

\* Anything else is passed on as an error, and the thread returns it.
Fails(p, acceptable) ==
  /\ at[p] \notin Ended \cup {"start"}
  /\ call[p] = "idle"
  /\ ~acceptable
  /\ Ends(p, "failed")
  /\ UNCHANGED <<shaken, served, panics>>

\* The thread panics between two calls (a failed assertion of its owner).
Panics(p) ==
  /\ panics < MaxPanics
  /\ panics' = panics + 1
  /\ at[p] \notin Ended
  /\ Ends(p, "failed")
  /\ UNCHANGED <<shaken, served>>

----------------------------------------------------------------------------
(* What every run guarantees                                               *)

\* Both sides may send primaries, but never across each other: none is sent
\* while one of the other side is unanswered.  So every transact of a run
\* returns its own secondary (HsmsSession's ReplyAnswersPrimary).
NeverCrosses == ~crossed

\* Each thread returns, whatever the other does: a thread never waits for a
\* peer that has ended or that waits for it.
ThreadsEnd == \A p \in Party : <>(at[p] \in Ended)

\* Undisturbed, both threads return Ok.
RunCompletes ==
  [](panics = 0 /\ injected = 0) => <>(\A p \in Party : at[p] = "done")

\* Every step of a run uses the sessions as HsmsSession allows, so what is
\* proved of HsmsSession holds of the run.
UsesSession == Hsms!Spec

EndOf(p) == IF at[p] \in Ended THEN at[p] ELSE "running"
=============================================================================
