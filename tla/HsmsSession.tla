---------------------------- MODULE HsmsSession ----------------------------
(***************************************************************************)
(* Two HsmsSession values (src/tpt-ate-comm/src/secs/hsms.rs) joined by    *)
(* the in-memory duplex pipe of transport.rs, each owned by one thread     *)
(* that calls the session's operations in any order it likes.              *)
(*                                                                         *)
(* A thread is either idle or inside one of the four blocking operations.  *)
(* One step starts an operation (up to its first blocking read), and one   *)
(* step is one iteration of an operation's read loop: read a frame from    *)
(* the own inbox, write at most one frame to the peer's, and loop, return  *)
(* Ok or return Err.  A session is private to its thread and each inbox    *)
(* has one reader and one writer, so nothing can be observed between the   *)
(* read, the write and the assignment of such a step.                      *)
(*                                                                         *)
(* A frame keeps what the code decides on.  The system bytes of a data     *)
(* frame are the pair <<owner, index>>: owner's session drew them as the   *)
(* index-th value of its counter, and only index % SystemBytesMod is on    *)
(* the wire.  The system bytes of control frames are never compared, and   *)
(* the stream byte never matters to the session; both are left out.        *)
(***************************************************************************)
EXTENDS Integers, Sequences, FiniteSets

CONSTANTS
  Host,            \* the thread that selects
  Equip,           \* the thread that accepts the select
  Functions,       \* the function bytes primaries are sent with
  Bodies,          \* SECS-II items a data frame may carry
  NoBody,          \* the absent item, Option::None
  SystemBytesMod,  \* number of wire values of the system bytes (2^32)
  MaxDraws,        \* bound: how many system bytes each session draws
  External,        \* control frames that reach a session from elsewhere
  MaxExternal      \* bound: how many such frames arrive

Party == {Host, Equip}
Peer(p) == IF p = Host THEN Equip ELSE Host

ExternalKinds ==
  {"SelectReq", "LinktestReq", "LinktestRsp", "RejectReq", "SeparateReq",
   "Malformed"}

ASSUME PartiesDiffer == Host # Equip
ASSUME FunctionsAreWireBytes == Functions \subseteq 0 .. 127
ASSUME BodyAssumption == NoBody \notin Bodies
ASSUME CountsAssumption ==
  /\ SystemBytesMod \in Nat \ {0}
  /\ MaxDraws \in Nat
  /\ MaxExternal \in Nat
ASSUME ExternalAssumption == External \subseteq ExternalKinds

VARIABLES
  state,      \* HsmsSession::state of each session
  nextSystemBytes,  \* HsmsSession::next_system_bytes, before it wraps
  call,       \* the operation each thread is inside, or "idle"
  ret,        \* what the last operation of each thread returned
  inbox,      \* frames in flight to each thread
  dropped,    \* whether a thread has dropped its session
  injected,   \* number of external frames so far
  separated,  \* history: some session has processed a Separate.req
  crossed     \* history: some primary was sent towards one still unanswered

vars == <<state, nextSystemBytes, call, ret, inbox, dropped, injected, separated, crossed>>

----------------------------------------------------------------------------
(* Frames, calls and returns                                               *)

DataFrame ==
  [stype : {"Data"}, owner : Party, index : Nat, w : BOOLEAN,
   function : 0 .. 127, body : Bodies \cup {NoBody}]

SelectStatus == {"Selected", "AlreadySelected"}

ControlFrame ==
  [stype : ExternalKinds] \cup [stype : {"SelectRsp"}, status : SelectStatus]

Frame == DataFrame \cup ControlFrame

Control(kind) == [stype |-> kind]
SelectRsp(status) == [stype |-> "SelectRsp", status |-> status]

IsData(m) == m.stype = "Data"
IsPrimary(m) == IsData(m) /\ m.w

HsmsState == {"ConnectedNotSelected", "Selected"}
Operation == {"select", "accept_select", "transact", "serve_one"}

NoFrame == [stype |-> "None"]
Return == [op : Operation \cup {"none"}, ok : BOOLEAN, frame : DataFrame \cup {NoFrame}]

NoReturn == [op |-> "none", ok |-> FALSE, frame |-> NoFrame]
Ok(op, m) == [op |-> op, ok |-> TRUE, frame |-> m]
Err(op) == [op |-> op, ok |-> FALSE, frame |-> NoFrame]

Init ==
  /\ state = [p \in Party |-> "ConnectedNotSelected"]
  /\ nextSystemBytes = [p \in Party |-> 1]
  /\ call = [p \in Party |-> "idle"]
  /\ ret = [p \in Party |-> NoReturn]
  /\ inbox = [p \in Party |-> <<>>]
  /\ dropped = [p \in Party |-> FALSE]
  /\ injected = 0
  /\ separated = FALSE
  /\ crossed = FALSE

----------------------------------------------------------------------------
(* Pieces the operations share                                             *)

\* An operation begins and does not return yet.
Enters(p, op) ==
  /\ call[p] = "idle"
  /\ ~dropped[p]
  /\ call' = [call EXCEPT ![p] = op]
  /\ ret' = [ret EXCEPT ![p] = NoReturn]

Returns(p, r) ==
  /\ call' = [call EXCEPT ![p] = "idle"]
  /\ ret' = [ret EXCEPT ![p] = r]

\* Frames written by p land at the end of the peer's inbox.
Writes(p, m) == inbox' = [inbox EXCEPT ![Peer(p)] = Append(@, m)]

\* p consumes the frame at the head of its inbox and writes nothing.
Reads(p) == inbox' = [inbox EXCEPT ![p] = Tail(@)]

\* p consumes the frame at the head of its inbox and answers with m.
Answers(p, m) ==
  inbox' = [inbox EXCEPT ![p] = Tail(@), ![Peer(p)] = Append(@, m)]

\* next_system_bytes(): hand out the counter, then add one.
Draws(p) ==
  /\ nextSystemBytes[p] <= MaxDraws
  /\ nextSystemBytes' = [nextSystemBytes EXCEPT ![p] = @ + 1]

\* The system bytes p's current select or transact is waiting for.
Awaited(p) == nextSystemBytes[p] - 1

HeadIs(p, kinds) == inbox[p] # <<>> /\ Head(inbox[p]).stype \in kinds

----------------------------------------------------------------------------
(* Select (hsms.rs select, accept_select)                                  *)

Select(p) ==
  /\ p = Host
  /\ Enters(p, "select")
  /\ Draws(p)
  /\ Writes(p, Control("SelectReq"))
  /\ UNCHANGED <<state, dropped, injected, separated, crossed>>

\* The first Select.rsp is taken as the answer, whatever its system bytes.
SelectAnswered(p) ==
  /\ call[p] = "select"
  /\ HeadIs(p, {"SelectRsp"})
  /\ Reads(p)
  /\ \/ /\ Head(inbox[p]).status = "Selected"
        /\ state' = [state EXCEPT ![p] = "Selected"]
        /\ Returns(p, Ok("select", NoFrame))
     \/ /\ Head(inbox[p]).status # "Selected"
        /\ UNCHANGED state
        /\ Returns(p, Err("select"))
  /\ UNCHANGED <<nextSystemBytes, dropped, injected, separated, crossed>>

SelectFails(p) ==
  /\ call[p] = "select"
  /\ inbox[p] # <<>>
  /\ ~HeadIs(p, {"SelectRsp", "LinktestReq"})
  /\ Reads(p)
  /\ Returns(p, Err("select"))
  /\ UNCHANGED <<state, nextSystemBytes, dropped, injected, separated, crossed>>

AcceptSelect(p) ==
  /\ p = Equip
  /\ Enters(p, "accept_select")
  /\ UNCHANGED <<state, nextSystemBytes, inbox, dropped, injected, separated, crossed>>

\* Variant for a sensitivity check: the equipment answers and stays unselected.
AnswersUnselected(p) ==
  /\ call[p] = "accept_select"
  /\ HeadIs(p, {"SelectReq"})
  /\ Answers(p, SelectRsp("Selected"))
  /\ Returns(p, Ok("accept_select", NoFrame))
  /\ UNCHANGED <<state, nextSystemBytes, dropped, injected, separated, crossed>>

AcceptsRequest(p) ==
  /\ call[p] = "accept_select"
  /\ HeadIs(p, {"SelectReq"})
  /\ Answers(p, SelectRsp("Selected"))
  /\ state' = [state EXCEPT ![p] = "Selected"]
  /\ Returns(p, Ok("accept_select", NoFrame))
  /\ UNCHANGED <<nextSystemBytes, dropped, injected, separated, crossed>>

AcceptFails(p) ==
  /\ call[p] = "accept_select"
  /\ inbox[p] # <<>>
  /\ ~HeadIs(p, {"SelectReq", "LinktestReq"})
  /\ Reads(p)
  /\ Returns(p, Err("accept_select"))
  /\ UNCHANGED <<state, nextSystemBytes, dropped, injected, separated, crossed>>

----------------------------------------------------------------------------
(* A primary and its secondary (hsms.rs transact, await_reply)             *)

\* Variant for a sensitivity check: the state is not looked at.
MayAlways(p) == TRUE

\* Only a Selected session may send or serve data.
MayCarryData(p) == state[p] = "Selected"

\* transact and serve_one return SecsError::NotSelected at once otherwise.
NotSelected(p, op) ==
  /\ call[p] = "idle"
  /\ ~dropped[p]
  /\ ~MayCarryData(p)
  /\ Returns(p, Err(op))
  /\ UNCHANGED <<state, nextSystemBytes, inbox, dropped, injected, separated, crossed>>

\* The secondary p is waiting for.
IsSecondaryFor(p, m) == IsData(m) /\ ~m.w /\ m.owner = p /\ m.index = Awaited(p)

\* p would send a primary although one of the peer's is unserved in p's
\* inbox, or the peer waits for a secondary that is not on its way.
Crosses(p) ==
  \/ \E i \in DOMAIN inbox[p] : IsPrimary(inbox[p][i])
  \/ /\ call[Peer(p)] = "transact"
     /\ ~ \E i \in DOMAIN inbox[Peer(p)] :
            IsSecondaryFor(Peer(p), inbox[Peer(p)][i])

Transact(p, function, body) ==
  /\ MayCarryData(p)
  /\ Enters(p, "transact")
  /\ Draws(p)
  /\ Writes(p, [stype |-> "Data", owner |-> p, index |-> nextSystemBytes[p], w |-> TRUE,
                function |-> function, body |-> body])
  /\ crossed' = (crossed \/ Crosses(p))
  /\ UNCHANGED <<state, dropped, injected, separated>>

\* Variant for a sensitivity check: the first data frame is taken as the reply.
AnyData(p, m) == IsData(m)

\* await_reply's match: a data frame with the same system bytes on the
\* wire; neither the W-bit nor the function is looked at.
Matches(p, m) ==
  IsData(m) /\ m.index % SystemBytesMod = Awaited(p) % SystemBytesMod

\* transact hands out the function and the body of the frame it consumed.
ReceivesReply(p) ==
  /\ call[p] = "transact"
  /\ inbox[p] # <<>>
  /\ Matches(p, Head(inbox[p]))
  /\ Reads(p)
  /\ Returns(p, Ok("transact", Head(inbox[p])))
  /\ UNCHANGED <<state, nextSystemBytes, dropped, injected, separated, crossed>>

\* Data with other system bytes, and every control frame await_reply has no
\* branch for: the operation fails and nothing is written.
TransactFails(p) ==
  /\ call[p] = "transact"
  /\ inbox[p] # <<>>
  /\ ~Matches(p, Head(inbox[p]))
  /\ ~HeadIs(p, {"LinktestReq", "SelectReq", "SeparateReq"})
  /\ Reads(p)
  /\ Returns(p, Err("transact"))
  /\ UNCHANGED <<state, nextSystemBytes, dropped, injected, separated, crossed>>

----------------------------------------------------------------------------
(* Serving a primary (hsms.rs serve_one)                                   *)

ServeOne(p) ==
  /\ MayCarryData(p)
  /\ Enters(p, "serve_one")
  /\ UNCHANGED <<state, nextSystemBytes, inbox, dropped, injected, separated, crossed>>

\* Variant for a sensitivity check: the header does not mask the function.
UnmaskedFunction(function) == function + 1

\* function + 1, then masked to seven bits when the header is encoded.
SecondaryFunction(function) == (function + 1) % 128

\* The secondary echoes the primary's system bytes.
Secondary(m, reply) ==
  [m EXCEPT !.w = FALSE, !.function = SecondaryFunction(@), !.body = reply]

\* Variant for a sensitivity check: every data frame is answered.
AlwaysReplies(m) == TRUE

\* reply is what make_reply returns; it is only asked when the W-bit is set.
WantsReply(m) == m.w

ServesPrimary(p, reply) ==
  /\ call[p] = "serve_one"
  /\ HeadIs(p, {"Data"})
  /\ LET m == Head(inbox[p])
     IN /\ WantsReply(m) \/ reply = NoBody
        /\ IF reply = NoBody THEN Reads(p) ELSE Answers(p, Secondary(m, reply))
        /\ Returns(p, Ok("serve_one", m))
  /\ UNCHANGED <<state, nextSystemBytes, dropped, injected, separated, crossed>>

\* serve_one rejects what it has no branch for and keeps reading.
RejectsFrame(p) ==
  /\ call[p] = "serve_one"
  /\ HeadIs(p, {"SelectRsp", "LinktestRsp", "RejectReq"})
  /\ Answers(p, Control("RejectReq"))
  /\ UNCHANGED <<state, nextSystemBytes, call, ret, dropped, injected, separated, crossed>>

----------------------------------------------------------------------------
(* What the read loops have in common                                      *)

AnswersLinktest(p) ==
  /\ call[p] # "idle"
  /\ HeadIs(p, {"LinktestReq"})
  /\ Answers(p, Control("LinktestRsp"))
  /\ UNCHANGED <<state, nextSystemBytes, call, ret, dropped, injected, separated, crossed>>

AnswersSelect(p) ==
  /\ call[p] \in {"transact", "serve_one"}
  /\ HeadIs(p, {"SelectReq"})
  /\ Answers(p, SelectRsp("AlreadySelected"))
  /\ UNCHANGED <<state, nextSystemBytes, call, ret, dropped, injected, separated, crossed>>

Deselects(p) ==
  /\ call[p] \in {"transact", "serve_one"}
  /\ HeadIs(p, {"SeparateReq"})
  /\ Reads(p)
  /\ state' = [state EXCEPT ![p] = "ConnectedNotSelected"]
  /\ separated' = TRUE
  /\ Returns(p, Err(call[p]))
  /\ UNCHANGED <<nextSystemBytes, dropped, injected, crossed>>

\* A frame that does not decode is consumed whole before the error; the
\* other operations fail on it in their own branch for unexpected frames.
ServeFails(p) ==
  /\ call[p] = "serve_one"
  /\ HeadIs(p, {"Malformed"})
  /\ Reads(p)
  /\ Returns(p, Err("serve_one"))
  /\ UNCHANGED <<state, nextSystemBytes, dropped, injected, separated, crossed>>

\* Variant for a sensitivity check: dropping an end closes the inbox of its own side.
OwnEndClosed(p) ==
  /\ call[p] # "idle"
  /\ inbox[p] = <<>>
  /\ dropped[p]
  /\ Returns(p, Err(call[p]))
  /\ UNCHANGED <<state, nextSystemBytes, inbox, dropped, injected, separated, crossed>>

\* read_exact_counted finds the pipe closed and drained.
ReadsEof(p) ==
  /\ call[p] # "idle"
  /\ inbox[p] = <<>>
  /\ dropped[Peer(p)]
  /\ Returns(p, Err(call[p]))
  /\ UNCHANGED <<state, nextSystemBytes, inbox, dropped, injected, separated, crossed>>

----------------------------------------------------------------------------
(* The pipe and the world around                                           *)

\* Dropping a DuplexHalf closes the inbox of the peer, never its own: what
\* the peer writes afterwards is accepted and never read.
Drop(p) ==
  /\ call[p] = "idle"
  /\ ~dropped[p]
  /\ dropped' = [dropped EXCEPT ![p] = TRUE]
  /\ UNCHANGED <<state, nextSystemBytes, call, ret, inbox, injected, separated, crossed>>

\* A control frame this crate never sends by itself but has a branch for.
ExternalFrame(p, kind) ==
  /\ injected < MaxExternal
  /\ ~dropped[Peer(p)]
  /\ injected' = injected + 1
  /\ inbox' = [inbox EXCEPT ![p] = Append(@, Control(kind))]
  /\ UNCHANGED <<state, nextSystemBytes, call, ret, dropped, separated, crossed>>

----------------------------------------------------------------------------
(* The specification                                                       *)

Starts(p) ==
  \/ Select(p)
  \/ AcceptSelect(p)
  \/ \E function \in Functions, body \in Bodies \cup {NoBody} :
       Transact(p, function, body)
  \/ ServeOne(p)
  \/ \E op \in {"transact", "serve_one"} : NotSelected(p, op)

Continues(p) ==
  \/ SelectAnswered(p)
  \/ SelectFails(p)
  \/ AcceptsRequest(p)
  \/ AcceptFails(p)
  \/ ReceivesReply(p)
  \/ TransactFails(p)
  \/ \E reply \in Bodies \cup {NoBody} : ServesPrimary(p, reply)
  \/ RejectsFrame(p)
  \/ AnswersLinktest(p)
  \/ AnswersSelect(p)
  \/ Deselects(p)
  \/ ServeFails(p)
  \/ ReadsEof(p)

Next ==
  \E p \in Party :
    \/ Starts(p)
    \/ Continues(p)
    \/ Drop(p)
    \/ \E kind \in External : ExternalFrame(p, kind)

Spec == Init /\ [][Next]_vars

----------------------------------------------------------------------------
(* What the two sessions guarantee                                         *)

\* Every variable keeps its type; in particular a data frame always carries
\* a seven-bit function, also when the primary's function was 127.
TypeOK ==
  /\ state \in [Party -> HsmsState]
  /\ nextSystemBytes \in [Party -> 1 .. MaxDraws + 1]
  /\ call \in [Party -> Operation \cup {"idle"}]
  /\ ret \in [Party -> Return]
  /\ inbox \in [Party -> Seq(Frame)]
  /\ dropped \in [Party -> BOOLEAN]
  /\ injected \in 0 .. MaxExternal
  /\ separated \in BOOLEAN
  /\ crossed \in BOOLEAN

\* transact returns only the secondary the peer computed for the very
\* primary this call sent: never one for an earlier call that failed, never
\* a primary of the peer.  It needs that no primary was sent towards one
\* still unanswered (crossed), and that no secondary is left over from a
\* whole lap of the counter ago: that takes as many failed transacts as the
\* counter has values.
ReplyAnswersPrimary ==
  ~crossed =>
    \A p \in Party :
      (ret[p].op = "transact" /\ ret[p].ok) =>
        /\ ~ret[p].frame.w
        /\ ret[p].frame.owner = p
        /\ ret[p].frame.index = Awaited(p)

\* The two ends never disagree on the selection in the harmful direction:
\* until a Separate.req is processed, a selected host faces a selected
\* equipment, so what the host sends is served rather than refused.
SelectionAgrees ==
  (~separated /\ state[Host] = "Selected") => state[Equip] = "Selected"

\* No end finds SECS-II data at the head of its inbox while it is still
\* waiting for its half of the select: the equipment, Selected first, may
\* already be sending, but its Select.rsp is always ahead of its data.
NoDataBeforeSelection ==
  ~separated =>
    \A p \in Party :
      (/\ call[p] \in {"select", "accept_select"}
       /\ state[p] # "Selected"
       /\ inbox[p] # <<>>) => ~IsData(Head(inbox[p]))

\* A transaction has one token.  Its primary travels to the peer of the
\* session that drew the system bytes, its secondary back to that session,
\* and the two are never in flight together nor twice, so no primary is
\* answered twice and no secondary is answered at all.
OneTokenPerTransaction ==
  \A p \in Party : \A i \in DOMAIN inbox[p] :
    LET m == inbox[p][i]
    IN IsData(m) =>
         /\ m.owner = IF m.w THEN Peer(p) ELSE p
         /\ m.index < nextSystemBytes[m.owner]
         /\ \A q \in Party : \A j \in DOMAIN inbox[q] :
              LET n == inbox[q][j]
              IN (IsData(n) /\ n.owner = m.owner /\ n.index = m.index) =>
                   (p = q /\ i = j)
=============================================================================
