------------------------- MODULE HsmsSession_proofs -------------------------
(***************************************************************************)
(* Proofs about HsmsSession, for every value of its constants.             *)
(***************************************************************************)
EXTENDS HsmsSession, TLAPS

----------------------------------------------------------------------------
(* The two parties and the pipe between them                               *)

\* Each party has exactly one peer, and it is its peer's peer.
LEMMA PeerFacts ==
  \A p \in Party :
    /\ Peer(p) \in Party
    /\ Peer(p) # p
    /\ Peer(Peer(p)) = p
    /\ \A q \in Party : q = p \/ q = Peer(p)
BY PartiesDiffer DEF Party, Peer

\* The inboxes hold frames.
InboxType == inbox \in [Party -> Seq(Frame)]

\* What writing a frame does to the two inboxes.
LEMMA WritesEffect ==
  ASSUME InboxType, NEW p \in Party, NEW m \in Frame, Writes(p, m)
  PROVE  /\ InboxType'
         /\ inbox'[p] = inbox[p]
         /\ inbox'[Peer(p)] = Append(inbox[Peer(p)], m)
BY PeerFacts DEF InboxType, Writes

\* What consuming the head frame does to the two inboxes.
LEMMA ReadsEffect ==
  ASSUME InboxType, NEW p \in Party, inbox[p] # <<>>, Reads(p)
  PROVE  /\ InboxType'
         /\ inbox'[p] = Tail(inbox[p])
         /\ inbox'[Peer(p)] = inbox[Peer(p)]
BY PeerFacts DEF InboxType, Reads

\* What answering the head frame does to the two inboxes.
LEMMA AnswersEffect ==
  ASSUME InboxType, NEW p \in Party, inbox[p] # <<>>, NEW m \in Frame,
         Answers(p, m)
  PROVE  /\ InboxType'
         /\ inbox'[p] = Tail(inbox[p])
         /\ inbox'[Peer(p)] = Append(inbox[Peer(p)], m)
<1>1. Peer(p) \in Party /\ Peer(p) # p
  BY PeerFacts
<1>2. Tail(inbox[p]) \in Seq(Frame) /\ Append(inbox[Peer(p)], m) \in Seq(Frame)
  BY <1>1 DEF InboxType
<1>3. QED BY <1>1, <1>2 DEF InboxType, Answers

\* Drawing system bytes keeps the counter within its bound.
LEMMA DrawsEffect ==
  ASSUME nextSystemBytes \in [Party -> 1 .. MaxDraws + 1], NEW p \in Party, Draws(p)
  PROVE  /\ nextSystemBytes' \in [Party -> 1 .. MaxDraws + 1]
         /\ nextSystemBytes'[p] = nextSystemBytes[p] + 1
         /\ nextSystemBytes'[Peer(p)] = nextSystemBytes[Peer(p)]
<1>1. nextSystemBytes[p] + 1 \in 1 .. MaxDraws + 1
  BY CountsAssumption DEF Draws
<1>2. QED BY <1>1, PeerFacts DEF Draws

\* The head of a nonempty inbox is a frame, and a data frame if it says so.
LEMMA HeadFacts ==
  ASSUME InboxType, NEW p \in Party, inbox[p] # <<>>
  PROVE  /\ Head(inbox[p]) \in Frame
         /\ IsData(Head(inbox[p])) => Head(inbox[p]) \in DataFrame
<1>1. Head(inbox[p]) \in Frame
  BY DEF InboxType
<1>2. \A m \in Frame : IsData(m) => m \in DataFrame
  BY DEF Frame, DataFrame, ControlFrame, IsData, ExternalKinds
<1>3. QED BY <1>1, <1>2

\* The control frames the sessions write are frames.
LEMMA ControlFrames ==
  /\ \A kind \in ExternalKinds : Control(kind) \in Frame
  /\ \A status \in SelectStatus : SelectRsp(status) \in Frame
BY DEF Frame, ControlFrame, Control, SelectRsp

\* A secondary built from a data frame is a data frame.
LEMMA SecondaryType ==
  ASSUME NEW m \in DataFrame, NEW reply \in Bodies \cup {NoBody}
  PROVE  /\ Secondary(m, reply) \in DataFrame
         /\ Secondary(m, reply).w = FALSE
         /\ Secondary(m, reply).owner = m.owner
         /\ Secondary(m, reply).index = m.index
<1>1. m.function \in 0 .. 127
  BY DEF DataFrame
<1>2. SecondaryFunction(m.function) \in 0 .. 127
  BY <1>1 DEF SecondaryFunction
<1>3. QED BY <1>2 DEF Secondary, DataFrame

----------------------------------------------------------------------------
(* Type correctness                                                        *)

\* Every step of every operation, of the pipe and of the external frames
\* keeps the types.
LEMMA TypePreserved == TypeOK /\ [Next]_vars => TypeOK'
<1> SUFFICES ASSUME TypeOK, [Next]_vars PROVE TypeOK'
  OBVIOUS
<1> USE DEF TypeOK
<1>0. InboxType
  BY DEF InboxType
<1>1. ASSUME NEW p \in Party, Select(p) PROVE TypeOK'
  <2>1. InboxType'
    BY <1>0, <1>1, WritesEffect, ControlFrames DEF Select, ExternalKinds
  <2>2. nextSystemBytes' \in [Party -> 1 .. MaxDraws + 1]
    BY <1>1, DrawsEffect DEF Select
  <2>3. QED
    BY <1>1, <2>1, <2>2
       DEF Select, Enters, InboxType, Operation, Return, NoReturn
<1>2. ASSUME NEW p \in Party, AcceptSelect(p) PROVE TypeOK'
  BY <1>2 DEF AcceptSelect, Enters, Operation, Return, NoReturn
<1>3. ASSUME NEW p \in Party, NEW function \in Functions,
             NEW body \in Bodies \cup {NoBody}, Transact(p, function, body)
      PROVE  TypeOK'
  <2> DEFINE m == [stype |-> "Data", owner |-> p, index |-> nextSystemBytes[p],
                   w |-> TRUE, function |-> function, body |-> body]
  <2>1. m \in Frame
    BY FunctionsAreWireBytes DEF Frame, DataFrame
  <2>2. Writes(p, m)
    BY <1>3 DEF Transact
  <2>3. InboxType'
    BY <1>0, <2>1, <2>2, WritesEffect
  <2>4. nextSystemBytes' \in [Party -> 1 .. MaxDraws + 1]
    BY <1>3, DrawsEffect DEF Transact
  <2>5. crossed' \in BOOLEAN
    BY <1>3 DEF Transact
  <2>6. QED
    BY <1>3, <2>3, <2>4, <2>5
       DEF Transact, Enters, InboxType, Operation, Return, NoReturn
<1>4. ASSUME NEW p \in Party, ServeOne(p) PROVE TypeOK'
  BY <1>4 DEF ServeOne, Enters, Operation, Return, NoReturn
<1>5. ASSUME NEW p \in Party, NEW op \in {"transact", "serve_one"},
             NotSelected(p, op)
      PROVE  TypeOK'
  BY <1>5 DEF NotSelected, Returns, Err, Return, Operation
<1>6. ASSUME NEW p \in Party, SelectAnswered(p) PROVE TypeOK'
  <2>1. InboxType'
    BY <1>0, <1>6, ReadsEffect DEF SelectAnswered, HeadIs
  <2>2. Ok("select", NoFrame) \in Return /\ Err("select") \in Return
    BY DEF Ok, Err, Return, Operation
  <2>3. ret' \in [Party -> Return] /\ call' \in [Party -> Operation \cup {"idle"}]
    BY <1>6, <2>2 DEF SelectAnswered, Returns
  <2>4. state' \in [Party -> HsmsState]
    BY <1>6 DEF SelectAnswered, HsmsState
  <2>5. QED
    BY <1>6, <2>1, <2>3, <2>4 DEF SelectAnswered, InboxType
<1>7. ASSUME NEW p \in Party, SelectFails(p) PROVE TypeOK'
  BY <1>0, <1>7, ReadsEffect
     DEF SelectFails, Returns, Err, Return, Operation, InboxType
<1>8. ASSUME NEW p \in Party, AcceptsRequest(p) PROVE TypeOK'
  BY <1>0, <1>8, AnswersEffect, ControlFrames
     DEF AcceptsRequest, HeadIs, Returns, Ok, Return, Operation, InboxType,
         HsmsState, SelectStatus
<1>9. ASSUME NEW p \in Party, AcceptFails(p) PROVE TypeOK'
  BY <1>0, <1>9, ReadsEffect
     DEF AcceptFails, Returns, Err, Return, Operation, InboxType
<1>10. ASSUME NEW p \in Party, ReceivesReply(p) PROVE TypeOK'
  <2>1. Head(inbox[p]) \in DataFrame
    BY <1>0, <1>10, HeadFacts DEF ReceivesReply, Matches
  <2>2. QED
    BY <1>0, <1>10, <2>1, ReadsEffect
       DEF ReceivesReply, Returns, Ok, Return, Operation, InboxType
<1>11. ASSUME NEW p \in Party, TransactFails(p) PROVE TypeOK'
  BY <1>0, <1>11, ReadsEffect
     DEF TransactFails, Returns, Err, Return, Operation, InboxType
<1>12. ASSUME NEW p \in Party, NEW reply \in Bodies \cup {NoBody},
              ServesPrimary(p, reply)
       PROVE  TypeOK'
  <2>1. Head(inbox[p]) \in DataFrame
    BY <1>0, <1>12, HeadFacts DEF ServesPrimary, HeadIs, IsData
  <2>2. Secondary(Head(inbox[p]), reply) \in Frame
    BY <2>1, SecondaryType DEF Frame
  <2>3. InboxType'
    BY <1>0, <1>12, <2>2, ReadsEffect, AnswersEffect DEF ServesPrimary, HeadIs
  <2>4. QED
    BY <1>12, <2>1, <2>3
       DEF ServesPrimary, Returns, Ok, Return, Operation, InboxType
<1>13. ASSUME NEW p \in Party, RejectsFrame(p) PROVE TypeOK'
  BY <1>0, <1>13, AnswersEffect, ControlFrames
     DEF RejectsFrame, HeadIs, InboxType, ExternalKinds
<1>14. ASSUME NEW p \in Party, AnswersLinktest(p) PROVE TypeOK'
  BY <1>0, <1>14, AnswersEffect, ControlFrames
     DEF AnswersLinktest, HeadIs, InboxType, ExternalKinds
<1>15. ASSUME NEW p \in Party, AnswersSelect(p) PROVE TypeOK'
  BY <1>0, <1>15, AnswersEffect, ControlFrames
     DEF AnswersSelect, HeadIs, InboxType, SelectStatus
<1>16. ASSUME NEW p \in Party, Deselects(p) PROVE TypeOK'
  BY <1>0, <1>16, ReadsEffect
     DEF Deselects, HeadIs, Returns, Err, Return, Operation, InboxType,
         HsmsState
<1>17. ASSUME NEW p \in Party, ServeFails(p) PROVE TypeOK'
  BY <1>0, <1>17, ReadsEffect
     DEF ServeFails, HeadIs, Returns, Err, Return, Operation, InboxType
<1>18. ASSUME NEW p \in Party, ReadsEof(p) PROVE TypeOK'
  BY <1>18 DEF ReadsEof, Returns, Err, Return, Operation
<1>19. ASSUME NEW p \in Party, Drop(p) PROVE TypeOK'
  BY <1>19 DEF Drop
<1>20. ASSUME NEW p \in Party, NEW kind \in External, ExternalFrame(p, kind)
       PROVE  TypeOK'
  <2>1. Control(kind) \in Frame
    BY ControlFrames, ExternalAssumption
  <2>2. QED
    BY <1>20, <2>1, CountsAssumption DEF ExternalFrame
<1>21. CASE UNCHANGED vars
  BY <1>21 DEF vars
<1>22. QED
  BY <1>1, <1>2, <1>3, <1>4, <1>5, <1>6, <1>7, <1>8, <1>9, <1>10, <1>11,
     <1>12, <1>13, <1>14, <1>15, <1>16, <1>17, <1>18, <1>19, <1>20, <1>21
     DEF Next, Starts, Continues

\* The initial state has the types.
LEMMA InitTypeOK == Init => TypeOK
<1> SUFFICES ASSUME Init PROVE TypeOK
  OBVIOUS
<1>1. nextSystemBytes \in [Party -> 1 .. MaxDraws + 1] /\ injected \in 0 .. MaxExternal
  BY CountsAssumption DEF Init
<1>2. NoReturn \in Return
  BY DEF NoReturn, Return
<1>3. inbox \in [Party -> Seq(Frame)]
  BY DEF Init
<1>4. QED BY <1>1, <1>2, <1>3 DEF Init, TypeOK, HsmsState

\* Every variable of the two sessions keeps its type.
THEOREM TypeCorrect == Spec => []TypeOK
BY InitTypeOK, TypePreserved, PTL DEF Spec
----------------------------------------------------------------------------
(* Reply integrity                                                         *)

\* The secondary of q's k-th transaction.
SecondaryOf(q, k, m) == IsData(m) /\ ~m.w /\ m.owner = q /\ m.index = k

\* In s, that secondary is ahead of every primary.
Covered(q, k, s) ==
  \A i \in DOMAIN s :
    IsPrimary(s[i]) => \E j \in 1 .. i - 1 : SecondaryOf(q, k, s[j])

\* While no primary has crossed, a session that waits for its secondary has
\* that secondary ahead of any primary of the peer.
SecondaryAhead ==
  ~crossed =>
    \A q \in Party : call[q] = "transact" => Covered(q, Awaited(q), inbox[q])

\* Data in q's inbox: primaries are the peer's, secondaries answer q's own
\* primaries, and both carry system bytes that were drawn.
WellDirected(q, m) ==
  IsData(m) =>
    /\ m.owner = IF m.w THEN Peer(q) ELSE q
    /\ 1 <= m.index
    /\ m.index < nextSystemBytes[m.owner]

AllWellDirected == \A q \in Party : \A i \in DOMAIN inbox[q] : WellDirected(q, inbox[q][i])

\* The inductive invariant behind ReplyAnswersPrimary.
ReplyInv == TypeOK /\ AllWellDirected /\ SecondaryAhead /\ ReplyAnswersPrimary

\* Below the modulus, the wire tells drawn system bytes apart.
LEMMA SystemBytesDistinct ==
  ASSUME NEW k \in Nat \ {0}, NEW a \in 1 .. k, NEW b \in 1 .. k, a % k = b % k
  PROVE  a = b
<1>1. k % k = 0
  OBVIOUS
<1>2. a < k => a % k = a
  OBVIOUS
<1>3. b < k => b % k = b
  OBVIOUS
<1>4. QED BY <1>1, <1>2, <1>3

\* Consuming a frame that is not the secondary keeps it ahead.
LEMMA CoveredTail ==
  ASSUME NEW q, NEW k, NEW s \in Seq(Frame), s # <<>>, Covered(q, k, s),
         ~SecondaryOf(q, k, Head(s))
  PROVE  Covered(q, k, Tail(s))
<1> SUFFICES ASSUME NEW i \in DOMAIN Tail(s), IsPrimary(Tail(s)[i])
             PROVE  \E j \in 1 .. i - 1 : SecondaryOf(q, k, Tail(s)[j])
  BY DEF Covered
<1>1. i + 1 \in DOMAIN s /\ Tail(s)[i] = s[i + 1] /\ i \in 1 .. Len(s) - 1
  OBVIOUS
<1>2. PICK j \in 1 .. i : SecondaryOf(q, k, s[j])
  BY <1>1 DEF Covered
<1>3. j # 1
  BY <1>2
<1>4. j - 1 \in 1 .. i - 1 /\ Tail(s)[j - 1] = s[j]
  BY <1>1, <1>2, <1>3
<1>5. QED BY <1>2, <1>4

\* Appending a frame keeps the secondary ahead, unless the frame is a
\* primary and the secondary is not on its way.
LEMMA CoveredAppend ==
  ASSUME NEW q, NEW k, NEW s \in Seq(Frame), NEW m \in Frame, Covered(q, k, s),
         ~IsPrimary(m) \/ \E j \in DOMAIN s : SecondaryOf(q, k, s[j])
  PROVE  Covered(q, k, Append(s, m))
<1> SUFFICES ASSUME NEW i \in DOMAIN Append(s, m), IsPrimary(Append(s, m)[i])
             PROVE  \E j \in 1 .. i - 1 : SecondaryOf(q, k, Append(s, m)[j])
  BY DEF Covered
<1>1. CASE i \in DOMAIN s
  <2>1. PICK j \in 1 .. i - 1 : SecondaryOf(q, k, s[j])
    BY <1>1 DEF Covered
  <2>2. Append(s, m)[j] = s[j]
    BY <1>1
  <2>3. QED BY <2>1, <2>2
<1>2. CASE i = Len(s) + 1
  <2>1. PICK j \in DOMAIN s : SecondaryOf(q, k, s[j])
    BY <1>2
  <2>2. j \in 1 .. i - 1 /\ Append(s, m)[j] = s[j]
    BY <1>2
  <2>3. QED BY <2>1, <2>2
<1>3. QED BY <1>1, <1>2

\* What one step may do to one inbox.
InboxKept(q) == inbox'[q] = inbox[q]
InboxRead(q) == inbox[q] # <<>> /\ inbox'[q] = Tail(inbox[q])
InboxGains(q, m) == inbox'[q] = Append(inbox[q], m)

\* Direction survives a step that only raises the counters and adds at most
\* well-directed frames.
LEMMA DirectionKept ==
  ASSUME TypeOK, TypeOK', AllWellDirected,
         \A q \in Party : nextSystemBytes[q] <= nextSystemBytes'[q],
         \A q \in Party :
           \/ InboxKept(q)
           \/ InboxRead(q)
           \/ \E m \in Frame : InboxGains(q, m) /\ WellDirected(q, m)'
  PROVE  AllWellDirected'
<1> SUFFICES ASSUME NEW q \in Party, NEW i \in DOMAIN inbox'[q]
             PROVE  WellDirected(q, inbox[q][i])'
  BY DEF AllWellDirected
<1>0. inbox[q] \in Seq(Frame)
  BY DEF TypeOK
<1>1. \A m \in Frame : WellDirected(q, m) => WellDirected(q, m)'
  <2> SUFFICES ASSUME NEW m \in Frame, IsData(m), WellDirected(q, m)
               PROVE  WellDirected(q, m)'
    BY DEF WellDirected
  <2>1. m \in DataFrame
    BY DEF Frame, DataFrame, ControlFrame, IsData, ExternalKinds
  <2>2. m.owner \in Party /\ m.index \in Nat
    BY <2>1 DEF DataFrame
  <2>3. nextSystemBytes[m.owner] \in Int /\ nextSystemBytes'[m.owner] \in Int
    BY <2>2 DEF TypeOK
  <2>4. m.index < nextSystemBytes'[m.owner]
    BY <2>2, <2>3 DEF WellDirected
  <2>5. QED BY <2>4 DEF WellDirected
<1>2. CASE InboxKept(q)
  BY <1>0, <1>1, <1>2 DEF InboxKept, AllWellDirected
<1>3. CASE InboxRead(q)
  <2>1. i + 1 \in DOMAIN inbox[q] /\ inbox'[q][i] = inbox[q][i + 1]
    BY <1>0, <1>3 DEF InboxRead
  <2>2. inbox[q][i + 1] \in Frame /\ WellDirected(q, inbox[q][i + 1])
    BY <1>0, <2>1 DEF AllWellDirected
  <2>3. QED BY <1>1, <2>1, <2>2
<1>4. CASE \E m \in Frame : InboxGains(q, m) /\ WellDirected(q, m)'
  <2>1. PICK m \in Frame : InboxGains(q, m) /\ WellDirected(q, m)'
    BY <1>4
  <2>2. CASE i \in DOMAIN inbox[q]
    <3>1. inbox'[q][i] = inbox[q][i] /\ inbox[q][i] \in Frame
      BY <1>0, <2>1, <2>2 DEF InboxGains
    <3>2. QED BY <1>1, <2>2, <3>1 DEF AllWellDirected
  <2>3. CASE i = Len(inbox[q]) + 1
    BY <1>0, <2>1, <2>3 DEF InboxGains
  <2>4. QED BY <1>0, <2>1, <2>2, <2>3 DEF InboxGains
<1>5. QED BY <1>2, <1>3, <1>4
\* The three effects under which the parts of ReplyInv are kept: what the
\* step adds to an inbox is well directed,
DirectionEffect ==
  \A q \in Party :
    /\ nextSystemBytes[q] <= nextSystemBytes'[q]
    /\ \/ InboxKept(q)
       \/ InboxRead(q)
       \/ \E m \in Frame : InboxGains(q, m) /\ WellDirected(q, m)'

\* a session waiting for a secondary has waited before, and loses no data
\* frame and gains no primary,
AheadEffect ==
  /\ crossed' = crossed
  /\ \A q \in Party : call'[q] = "transact" =>
       /\ call[q] = "transact"
       /\ nextSystemBytes'[q] = nextSystemBytes[q]
       /\ \/ InboxKept(q)
          \/ InboxRead(q) /\ ~IsData(Head(inbox[q]))
          \/ \E m \in Frame : InboxGains(q, m) /\ ~IsPrimary(m)

\* and no transact returns Ok.
ReplyEffect ==
  /\ crossed' = crossed
  /\ \A q \in Party :
       \/ ret'[q] = ret[q] /\ nextSystemBytes'[q] = nextSystemBytes[q]
       \/ ~(ret'[q].op = "transact" /\ ret'[q].ok)

\* Under AheadEffect, no primary overtakes an awaited secondary.
LEMMA AheadKept ==
  ASSUME TypeOK, SecondaryAhead, AheadEffect
  PROVE  SecondaryAhead'
<1> SUFFICES ASSUME ~crossed, NEW q \in Party, call'[q] = "transact"
             PROVE  Covered(q, Awaited(q)', inbox'[q])
  BY DEF SecondaryAhead, AheadEffect
<1>1. Awaited(q)' = Awaited(q) /\ call[q] = "transact"
  BY DEF AheadEffect, Awaited
<1>2. Covered(q, Awaited(q), inbox[q]) /\ inbox[q] \in Seq(Frame)
  BY <1>1 DEF SecondaryAhead, TypeOK
<1>3. CASE InboxKept(q)
  BY <1>1, <1>2, <1>3 DEF InboxKept
<1>4. CASE InboxRead(q) /\ ~IsData(Head(inbox[q]))
  <2>1. ~SecondaryOf(q, Awaited(q), Head(inbox[q]))
    BY <1>4 DEF SecondaryOf
  <2>2. QED BY <1>1, <1>2, <1>4, <2>1, CoveredTail DEF InboxRead
<1>5. CASE \E m \in Frame : InboxGains(q, m) /\ ~IsPrimary(m)
  BY <1>1, <1>2, <1>5, CoveredAppend DEF InboxGains
<1>6. QED BY <1>3, <1>4, <1>5 DEF AheadEffect

\* Under ReplyEffect, what transact calls have returned stays right.
LEMMA ReplyKept ==
  ASSUME TypeOK, ReplyAnswersPrimary, ReplyEffect
  PROVE  ReplyAnswersPrimary'
BY DEF ReplyAnswersPrimary, ReplyEffect, Awaited

\* Under all three, the invariant is kept.
LEMMA ReplyInvKept ==
  ASSUME ReplyInv, TypeOK', DirectionEffect, AheadEffect, ReplyEffect
  PROVE  ReplyInv'
<1>1. AllWellDirected'
  BY DirectionKept DEF ReplyInv, DirectionEffect
<1>2. SecondaryAhead'
  BY AheadKept DEF ReplyInv
<1>3. ReplyAnswersPrimary'
  BY ReplyKept DEF ReplyInv
<1>4. QED BY <1>1, <1>2, <1>3 DEF ReplyInv

\* A control frame is no data frame, so it is well directed and no primary.
LEMMA ControlIsNoData ==
  /\ \A kind \in ExternalKinds : ~IsData(Control(kind))
  /\ \A status \in SelectStatus : ~IsData(SelectRsp(status))
BY DEF IsData, Control, SelectRsp, ExternalKinds

\* Every step but Transact, ReceivesReply and ServesPrimary has the three
\* effects: it starts an operation, fails one, or moves control frames.
LEMMA ControlSteps ==
  ASSUME TypeOK, NEW p \in Party,
         \/ Select(p) \/ AcceptSelect(p) \/ ServeOne(p)
         \/ \E op \in {"transact", "serve_one"} : NotSelected(p, op)
         \/ SelectAnswered(p) \/ SelectFails(p) \/ AcceptsRequest(p)
         \/ AcceptFails(p) \/ TransactFails(p) \/ RejectsFrame(p)
         \/ AnswersLinktest(p) \/ AnswersSelect(p) \/ Deselects(p)
         \/ ServeFails(p) \/ ReadsEof(p) \/ Drop(p)
         \/ \E kind \in External : ExternalFrame(p, kind)
  PROVE  DirectionEffect /\ AheadEffect /\ ReplyEffect
<1> USE DEF DirectionEffect, AheadEffect, ReplyEffect, InboxKept, InboxRead, InboxGains
<1>0. /\ InboxType
      /\ \A q \in Party : nextSystemBytes[q] \in Int
      /\ p \in DOMAIN call /\ p \in DOMAIN ret
  BY DEF TypeOK, InboxType
<1>1. CASE Select(p)
  <2>1. Control("SelectReq") \in Frame /\ ~IsData(Control("SelectReq"))
    BY ControlFrames, ControlIsNoData DEF ExternalKinds
  <2>2. /\ inbox'[p] = inbox[p]
        /\ inbox'[Peer(p)] = Append(inbox[Peer(p)], Control("SelectReq"))
    BY <1>0, <1>1, <2>1, WritesEffect DEF Select
  <2>3. /\ nextSystemBytes'[p] = nextSystemBytes[p] + 1
        /\ nextSystemBytes'[Peer(p)] = nextSystemBytes[Peer(p)]
    BY <1>1, DrawsEffect DEF Select, TypeOK
  <2>4. /\ call'[p] = "select" /\ call'[Peer(p)] = call[Peer(p)]
        /\ ret'[p] = NoReturn /\ ret'[Peer(p)] = ret[Peer(p)]
    BY <1>0, <1>1, PeerFacts DEF Select, Enters, TypeOK
  <2>5. \A q \in Party : WellDirected(q, Control("SelectReq"))'
    BY <2>1 DEF WellDirected
  <2>6. DirectionEffect
    BY <1>0, <2>1, <2>2, <2>3, <2>5, PeerFacts
  <2>7. AheadEffect
    BY <1>1, <2>1, <2>2, <2>3, <2>4, PeerFacts DEF Select, IsPrimary
  <2>8. ReplyEffect
    BY <1>1, <2>3, <2>4, PeerFacts DEF Select, NoReturn
  <2>9. QED BY <2>6, <2>7, <2>8
<1>2. CASE AcceptSelect(p) \/ ServeOne(p)
  BY <1>0, <1>2, PeerFacts DEF AcceptSelect, ServeOne, Enters, NoReturn, TypeOK
<1>3. CASE \E op \in {"transact", "serve_one"} : NotSelected(p, op)
  BY <1>0, <1>3, PeerFacts DEF NotSelected, Returns, Err, TypeOK
<1>4. ASSUME Reads(p), inbox[p] # <<>>, NEW r, Returns(p, r),
             ~(r.op = "transact" /\ r.ok),
             UNCHANGED <<nextSystemBytes, crossed>>
      PROVE  DirectionEffect /\ AheadEffect /\ ReplyEffect
  <2>1. inbox'[p] = Tail(inbox[p]) /\ inbox'[Peer(p)] = inbox[Peer(p)]
    BY <1>0, <1>4, ReadsEffect
  <2>2. /\ call'[p] = "idle" /\ call'[Peer(p)] = call[Peer(p)]
        /\ ret'[p] = r /\ ret'[Peer(p)] = ret[Peer(p)]
    BY <1>0, <1>4, PeerFacts DEF Returns, TypeOK
  <2>3. QED BY <1>0, <1>4, <2>1, <2>2, PeerFacts
<1>5. CASE SelectAnswered(p)
  BY <1>4, <1>5 DEF SelectAnswered, HeadIs, Ok, Err
<1>6. CASE SelectFails(p) \/ AcceptFails(p) \/ TransactFails(p) \/ ServeFails(p)
  BY <1>4, <1>6 DEF SelectFails, AcceptFails, TransactFails, ServeFails, HeadIs, Err
<1>7. CASE Deselects(p)
  BY <1>4, <1>7 DEF Deselects, HeadIs, Err
<1>8. ASSUME NEW m \in Frame, ~IsData(m), Answers(p, m), inbox[p] # <<>>,
             ~IsData(Head(inbox[p])), UNCHANGED <<nextSystemBytes, crossed>>,
             \/ UNCHANGED <<call, ret>>
             \/ Returns(p, Ok("accept_select", NoFrame))
      PROVE  DirectionEffect /\ AheadEffect /\ ReplyEffect
  <2>1. /\ inbox'[p] = Tail(inbox[p])
        /\ inbox'[Peer(p)] = Append(inbox[Peer(p)], m)
    BY <1>0, <1>8, AnswersEffect
  <2>2. /\ call'[Peer(p)] = call[Peer(p)] /\ ret'[Peer(p)] = ret[Peer(p)]
        /\ \/ call'[p] = call[p] /\ ret'[p] = ret[p]
           \/ call'[p] = "idle" /\ ret'[p].op = "accept_select"
    BY <1>0, <1>8, PeerFacts DEF Returns, Ok, TypeOK
  <2>3. QED
    BY <1>0, <1>8, <2>1, <2>2, PeerFacts DEF WellDirected, IsPrimary
<1>9. CASE AcceptsRequest(p)
  <2>1. SelectRsp("Selected") \in Frame /\ ~IsData(SelectRsp("Selected"))
    BY ControlFrames, ControlIsNoData DEF SelectStatus
  <2>2. QED BY <1>8, <1>9, <2>1 DEF AcceptsRequest, HeadIs, IsData
<1>10. CASE AnswersSelect(p)
  <2>1. SelectRsp("AlreadySelected") \in Frame /\ ~IsData(SelectRsp("AlreadySelected"))
    BY ControlFrames, ControlIsNoData DEF SelectStatus
  <2>2. QED BY <1>8, <1>10, <2>1 DEF AnswersSelect, HeadIs, IsData
<1>11. CASE AnswersLinktest(p)
  <2>1. Control("LinktestRsp") \in Frame /\ ~IsData(Control("LinktestRsp"))
    BY ControlFrames, ControlIsNoData DEF ExternalKinds
  <2>2. QED BY <1>8, <1>11, <2>1 DEF AnswersLinktest, HeadIs, IsData
<1>12. CASE RejectsFrame(p)
  <2>1. Control("RejectReq") \in Frame /\ ~IsData(Control("RejectReq"))
    BY ControlFrames, ControlIsNoData DEF ExternalKinds
  <2>2. QED BY <1>8, <1>12, <2>1 DEF RejectsFrame, HeadIs, IsData
<1>13. CASE ReadsEof(p)
  BY <1>0, <1>13, PeerFacts DEF ReadsEof, Returns, Err, TypeOK
<1>14. CASE Drop(p)
  BY <1>0, <1>14, PeerFacts DEF Drop
<1>15. CASE \E kind \in External : ExternalFrame(p, kind)
  <2>1. PICK kind \in External : ExternalFrame(p, kind)
    BY <1>15
  <2>2. Control(kind) \in Frame /\ ~IsData(Control(kind))
    BY ControlFrames, ControlIsNoData, ExternalAssumption
  <2>3. /\ inbox'[p] = Append(inbox[p], Control(kind))
        /\ inbox'[Peer(p)] = inbox[Peer(p)]
    BY <1>0, <2>1, PeerFacts DEF ExternalFrame, InboxType
  <2>4. \A q \in Party : WellDirected(q, Control(kind))'
    BY <2>2 DEF WellDirected
  <2>5. DirectionEffect
    BY <1>0, <2>1, <2>2, <2>3, <2>4, PeerFacts DEF ExternalFrame
  <2>6. AheadEffect
    BY <2>1, <2>2, <2>3, PeerFacts DEF ExternalFrame, IsPrimary
  <2>7. ReplyEffect
    BY <2>1 DEF ExternalFrame
  <2>8. QED BY <2>5, <2>6, <2>7
<1>16. QED
  BY <1>1, <1>2, <1>3, <1>5, <1>6, <1>7, <1>9, <1>10, <1>11, <1>12, <1>13, <1>14, <1>15
\* serve_one returns the primary and appends at most its secondary: to the
\* session that drew the system bytes, and never ahead of a primary.
LEMMA ServeStep ==
  ASSUME ReplyInv, TypeOK', NEW p \in Party, NEW reply \in Bodies \cup {NoBody},
         ServesPrimary(p, reply)
  PROVE  ReplyInv'
<1> USE DEF DirectionEffect, AheadEffect, ReplyEffect, InboxKept, InboxRead, InboxGains
<1>0. /\ InboxType
      /\ inbox[p] # <<>>
      /\ \A q \in Party : nextSystemBytes[q] \in Int
      /\ UNCHANGED <<nextSystemBytes, crossed>>
  BY DEF ReplyInv, TypeOK, InboxType, ServesPrimary, HeadIs
<1>1. PICK m \in DataFrame : m = Head(inbox[p]) /\ IsData(m)
  BY <1>0, HeadFacts DEF ServesPrimary, HeadIs, IsData
<1> DEFINE s == Secondary(m, reply)
<1>2. /\ call'[p] = "idle" /\ call'[Peer(p)] = call[Peer(p)]
      /\ ret'[p].op = "serve_one" /\ ret'[Peer(p)] = ret[Peer(p)]
  BY PeerFacts DEF ReplyInv, TypeOK, ServesPrimary, Returns, Ok
<1>3. CASE reply = NoBody
  <2>1. inbox'[p] = Tail(inbox[p]) /\ inbox'[Peer(p)] = inbox[Peer(p)]
    BY <1>0, <1>3, ReadsEffect DEF ServesPrimary
  <2>2. DirectionEffect /\ AheadEffect /\ ReplyEffect
    BY <1>0, <1>2, <2>1, PeerFacts
  <2>3. QED BY <2>2, ReplyInvKept
<1>4. CASE reply # NoBody
  <2>1. s \in DataFrame /\ ~s.w /\ s.owner = m.owner /\ s.index = m.index /\ m.w
    BY <1>1, <1>4, SecondaryType DEF ServesPrimary, WantsReply
  <2>2. /\ inbox'[p] = Tail(inbox[p])
        /\ inbox'[Peer(p)] = Append(inbox[Peer(p)], s)
    BY <1>0, <1>1, <1>4, <2>1, AnswersEffect DEF ServesPrimary, Frame
  <2>3. WellDirected(p, m)
    <3>1. 1 \in DOMAIN inbox[p] /\ inbox[p][1] = m
      BY <1>0, <1>1 DEF InboxType
    <3>2. QED BY <3>1 DEF ReplyInv, AllWellDirected
  <2>4. WellDirected(Peer(p), s)'
    BY <1>0, <1>1, <2>1, <2>3, PeerFacts DEF WellDirected
  <2>5. DirectionEffect
    BY <1>0, <2>1, <2>2, <2>4, PeerFacts DEF Frame
  <2>6. AheadEffect
    BY <1>0, <1>2, <2>1, <2>2, PeerFacts DEF Frame, IsPrimary
  <2>7. ReplyEffect
    BY <1>0, <1>2, PeerFacts
  <2>8. QED BY <2>5, <2>6, <2>7, ReplyInvKept
<1>5. QED BY <1>3, <1>4

\* A primary that crosses nothing is sent to an empty-handed peer or behind
\* the secondary that peer waits for.
LEMMA TransactStep ==
  ASSUME ReplyInv, TypeOK', NEW p \in Party, NEW function \in Functions,
         NEW body \in Bodies \cup {NoBody}, Transact(p, function, body)
  PROVE  ReplyInv'
<1> USE DEF InboxKept, InboxRead, InboxGains
<1>0. /\ InboxType
      /\ \A q \in Party : nextSystemBytes[q] \in Int /\ nextSystemBytes[q] >= 1
  BY DEF ReplyInv, TypeOK, InboxType
<1>1. PICK m \in DataFrame :
        m = [stype |-> "Data", owner |-> p, index |-> nextSystemBytes[p],
             w |-> TRUE, function |-> function, body |-> body]
  <2>1. nextSystemBytes[p] \in Nat
    BY <1>0, CountsAssumption DEF ReplyInv, TypeOK
  <2>2. QED BY <2>1, FunctionsAreWireBytes DEF DataFrame
<1>2. /\ inbox'[p] = inbox[p]
      /\ inbox'[Peer(p)] = Append(inbox[Peer(p)], m)
  BY <1>0, <1>1, WritesEffect DEF Transact, Frame
<1>3. /\ nextSystemBytes'[p] = nextSystemBytes[p] + 1
      /\ nextSystemBytes'[Peer(p)] = nextSystemBytes[Peer(p)]
  BY DrawsEffect DEF Transact, ReplyInv, TypeOK
<1>4. /\ call'[Peer(p)] = call[Peer(p)]
      /\ ret'[p] = NoReturn /\ ret'[Peer(p)] = ret[Peer(p)]
      /\ crossed' = (crossed \/ Crosses(p))
  BY PeerFacts DEF ReplyInv, TypeOK, Transact, Enters
<1>5. AllWellDirected'
  <2>1. WellDirected(Peer(p), m)'
    BY <1>0, <1>1, <1>3, PeerFacts DEF WellDirected
  <2>2. DirectionEffect
    BY <1>0, <1>1, <1>2, <1>3, <2>1, PeerFacts DEF DirectionEffect, Frame
  <2>3. QED BY <2>2, DirectionKept DEF ReplyInv, DirectionEffect
<1>6. SecondaryAhead'
  <2> SUFFICES ASSUME ~crossed', NEW q \in Party, call'[q] = "transact"
               PROVE  Covered(q, Awaited(q)', inbox'[q])
    BY DEF SecondaryAhead
  <2>1. ~crossed /\ ~Crosses(p)
    BY <1>4 DEF ReplyInv, TypeOK
  <2>2. CASE q = p
    BY <1>2, <2>1, <2>2 DEF Covered, Crosses
  <2>3. CASE q = Peer(p)
    <3>1. call[q] = "transact" /\ Awaited(q)' = Awaited(q) /\ inbox[q] \in Seq(Frame)
      BY <1>0, <1>3, <1>4, <2>3 DEF Awaited, InboxType
    <3>2. Covered(q, Awaited(q), inbox[q])
      BY <2>1, <3>1 DEF ReplyInv, SecondaryAhead
    <3>3. \E j \in DOMAIN inbox[q] : SecondaryOf(q, Awaited(q), inbox[q][j])
      BY <2>1, <2>3, <3>1 DEF Crosses, IsSecondaryFor, SecondaryOf
    <3>4. QED BY <1>1, <1>2, <2>3, <3>1, <3>2, <3>3, CoveredAppend DEF Frame
  <2>4. QED BY <2>2, <2>3, PeerFacts
<1>7. ReplyAnswersPrimary'
  <2> SUFFICES ASSUME ~crossed', NEW q \in Party, ret'[q].op = "transact", ret'[q].ok
               PROVE  /\ ~ret'[q].frame.w
                      /\ ret'[q].frame.owner = q
                      /\ ret'[q].frame.index = Awaited(q)'
    BY DEF ReplyAnswersPrimary
  <2>1. ~crossed
    BY <1>4 DEF ReplyInv, TypeOK
  <2>2. q = Peer(p)
    BY <1>4, PeerFacts DEF NoReturn
  <2>3. ret'[q] = ret[q] /\ Awaited(q)' = Awaited(q)
    BY <1>3, <1>4, <2>2 DEF Awaited
  <2>4. QED BY <2>1, <2>3 DEF ReplyInv, ReplyAnswersPrimary
<1>8. QED BY <1>5, <1>6, <1>7 DEF ReplyInv

\* What transact accepts is its own secondary: a primary of the peer would
\* have that secondary ahead of it, and other system bytes differ on the
\* wire.
LEMMA ReceiveStep ==
  ASSUME MaxDraws <= SystemBytesMod, ReplyInv, TypeOK', NEW p \in Party,
         ReceivesReply(p)
  PROVE  ReplyInv'
<1> USE DEF InboxKept, InboxRead, InboxGains
<1> DEFINE m == Head(inbox[p])
<1>0. /\ InboxType
      /\ inbox[p] # <<>>
      /\ \A q \in Party : nextSystemBytes[q] \in 1 .. MaxDraws + 1
      /\ UNCHANGED <<nextSystemBytes, crossed>>
  BY DEF ReplyInv, TypeOK, InboxType, ReceivesReply
<1>1. m \in DataFrame /\ IsData(m)
  BY <1>0, HeadFacts DEF ReceivesReply, Matches
<1>2. inbox'[p] = Tail(inbox[p]) /\ inbox'[Peer(p)] = inbox[Peer(p)]
  BY <1>0, ReadsEffect DEF ReceivesReply
<1>3. /\ call'[p] = "idle" /\ call'[Peer(p)] = call[Peer(p)]
      /\ ret'[p] = Ok("transact", m) /\ ret'[Peer(p)] = ret[Peer(p)]
  BY PeerFacts DEF ReplyInv, TypeOK, ReceivesReply, Returns
<1>4. AllWellDirected'
  <2>1. DirectionEffect
    BY <1>0, <1>2, PeerFacts DEF DirectionEffect
  <2>2. QED BY <2>1, DirectionKept DEF ReplyInv, DirectionEffect
<1>5. SecondaryAhead'
  <2>1. AheadEffect
    BY <1>0, <1>2, <1>3, PeerFacts DEF AheadEffect
  <2>2. QED BY <2>1, AheadKept DEF ReplyInv
<1>6. ReplyAnswersPrimary'
  <2> SUFFICES ASSUME ~crossed
               PROVE  ~m.w /\ m.owner = p /\ m.index = Awaited(p)
    BY <1>0, <1>3, PeerFacts DEF ReplyInv, ReplyAnswersPrimary, Awaited, Ok
  <2>1. 1 \in DOMAIN inbox[p] /\ inbox[p][1] = m
    BY <1>0 DEF InboxType
  <2>2. ~m.w
    <3>1. Covered(p, Awaited(p), inbox[p])
      BY DEF ReplyInv, SecondaryAhead, ReceivesReply
    <3>2. QED BY <1>1, <2>1, <3>1 DEF Covered, IsPrimary
  <2>3. m.owner = p /\ 1 <= m.index /\ m.index < nextSystemBytes[p]
    BY <1>1, <2>1, <2>2 DEF ReplyInv, AllWellDirected, WellDirected
  <2>4. m.index % SystemBytesMod = Awaited(p) % SystemBytesMod
    BY DEF ReceivesReply, Matches
  <2>5. m.index \in 1 .. SystemBytesMod /\ Awaited(p) \in 1 .. SystemBytesMod
    BY <1>0, <1>1, <2>3, CountsAssumption DEF Awaited, DataFrame
  <2>6. m.index = Awaited(p)
    BY <2>4, <2>5, SystemBytesDistinct, CountsAssumption
  <2>7. QED BY <2>2, <2>3, <2>6
<1>7. QED BY <1>4, <1>5, <1>6 DEF ReplyInv

\* As long as a session draws no more system bytes than the wire can tell
\* apart, and no primary crosses another, transact returns only the
\* secondary the peer computed for the very primary the call has sent.
THEOREM ReplyIntegrity ==
  ASSUME MaxDraws <= SystemBytesMod
  PROVE  Spec => []ReplyAnswersPrimary
<1>1. Init => ReplyInv
  <2> SUFFICES ASSUME Init PROVE ReplyInv
    OBVIOUS
  <2>1. TypeOK
    BY InitTypeOK
  <2>2. AllWellDirected /\ SecondaryAhead /\ ReplyAnswersPrimary
    BY DEF Init, AllWellDirected, SecondaryAhead, ReplyAnswersPrimary, NoReturn
  <2>3. QED BY <2>1, <2>2 DEF ReplyInv
<1>2. ReplyInv /\ [Next]_vars => ReplyInv'
  <2> SUFFICES ASSUME ReplyInv, [Next]_vars PROVE ReplyInv'
    OBVIOUS
  <2>0. TypeOK /\ TypeOK'
    BY TypePreserved DEF ReplyInv
  <2>1. CASE UNCHANGED vars
    BY <2>0, <2>1
       DEF vars, ReplyInv, AllWellDirected, WellDirected, SecondaryAhead,
           Awaited, ReplyAnswersPrimary
  <2>2. CASE Next
    <3>1. PICK p \in Party :
            Starts(p) \/ Continues(p) \/ Drop(p)
              \/ \E kind \in External : ExternalFrame(p, kind)
      BY <2>2 DEF Next
    <3>2. CASE \E function \in Functions, body \in Bodies \cup {NoBody} :
                 Transact(p, function, body)
      BY <2>0, <3>2, TransactStep
    <3>3. CASE ReceivesReply(p)
      BY <2>0, <3>3, ReceiveStep
    <3>4. CASE \E reply \in Bodies \cup {NoBody} : ServesPrimary(p, reply)
      BY <2>0, <3>4, ServeStep
    <3>5. CASE \/ Select(p) \/ AcceptSelect(p) \/ ServeOne(p)
               \/ \E op \in {"transact", "serve_one"} : NotSelected(p, op)
               \/ SelectAnswered(p) \/ SelectFails(p) \/ AcceptsRequest(p)
               \/ AcceptFails(p) \/ TransactFails(p) \/ RejectsFrame(p)
               \/ AnswersLinktest(p) \/ AnswersSelect(p) \/ Deselects(p)
               \/ ServeFails(p) \/ ReadsEof(p) \/ Drop(p)
               \/ \E kind \in External : ExternalFrame(p, kind)
      BY <2>0, <3>5, ControlSteps, ReplyInvKept
    <3>6. QED BY <3>1, <3>2, <3>3, <3>4, <3>5 DEF Starts, Continues
  <2>3. QED BY <2>1, <2>2
<1>3. ReplyInv => ReplyAnswersPrimary
  BY DEF ReplyInv
<1>4. QED BY <1>1, <1>2, <1>3, PTL DEF Spec
----------------------------------------------------------------------------
(* Agreement on the selection                                              *)

\* A Select.rsp that selects whoever awaits one.
Grants(m) == m.stype = "SelectRsp" /\ m.status = "Selected"

\* A granting Select.rsp is in s, ahead of all data.
GrantAhead(s) ==
  \E i \in DOMAIN s : Grants(s[i]) /\ \A j \in 1 .. i - 1 : ~IsData(s[j])

\* Who may be inside which operation.
CallsAllowed ==
  /\ call[Host] # "accept_select"
  /\ call[Equip] # "select"
  /\ \A p \in Party : call[p] \in {"transact", "serve_one"} => state[p] = "Selected"

\* Before the equipment is selected, nothing of a selected session exists;
\* afterwards the host is selected or about to be.
NothingBefore ==
  (~separated /\ state[Equip] # "Selected") =>
    /\ state[Host] # "Selected"
    /\ \A i \in DOMAIN inbox[Host] : ~Grants(inbox[Host][i]) /\ ~IsData(inbox[Host][i])
    /\ \A i \in DOMAIN inbox[Equip] : ~IsData(inbox[Equip][i])

GrantPending ==
  (~separated /\ state[Equip] = "Selected" /\ state[Host] # "Selected") =>
    GrantAhead(inbox[Host])

\* The inductive invariant behind SelectionAgrees and NoDataBeforeSelection.
SelectionInv == TypeOK /\ CallsAllowed /\ NothingBefore /\ GrantPending

\* Consuming anything but the grant keeps it ahead.
LEMMA GrantTail ==
  ASSUME NEW s \in Seq(Frame), s # <<>>, GrantAhead(s), ~Grants(Head(s))
  PROVE  GrantAhead(Tail(s))
<1>1. PICK i \in DOMAIN s : Grants(s[i]) /\ \A j \in 1 .. i - 1 : ~IsData(s[j])
  BY DEF GrantAhead
<1>2. i # 1 /\ i \in 1 .. Len(s)
  BY <1>1
<1>3. i - 1 \in DOMAIN Tail(s) /\ Tail(s)[i - 1] = s[i]
  BY <1>2
<1>4. \A j \in 1 .. (i - 1) - 1 : Tail(s)[j] = s[j + 1] /\ j + 1 \in 1 .. i - 1
  BY <1>2
<1>5. QED BY <1>1, <1>3, <1>4 DEF GrantAhead

\* Appending a frame keeps the grant ahead.
LEMMA GrantAppend ==
  ASSUME NEW s \in Seq(Frame), NEW m \in Frame, GrantAhead(s)
  PROVE  GrantAhead(Append(s, m))
<1>1. PICK i \in DOMAIN s : Grants(s[i]) /\ \A j \in 1 .. i - 1 : ~IsData(s[j])
  BY DEF GrantAhead
<1>2. i \in DOMAIN Append(s, m) /\ \A j \in 1 .. i : Append(s, m)[j] = s[j]
  OBVIOUS
<1>3. QED BY <1>1, <1>2 DEF GrantAhead

\* A grant sent into an inbox without data is ahead of all data.
LEMMA GrantSent ==
  ASSUME NEW s \in Seq(Frame), NEW m \in Frame, Grants(m),
         \A i \in DOMAIN s : ~IsData(s[i])
  PROVE  GrantAhead(Append(s, m))
<1>1. Len(s) + 1 \in DOMAIN Append(s, m) /\ Append(s, m)[Len(s) + 1] = m
  OBVIOUS
<1>2. \A j \in 1 .. (Len(s) + 1) - 1 : Append(s, m)[j] = s[j] /\ j \in DOMAIN s
  OBVIOUS
<1>3. QED BY <1>1, <1>2 DEF GrantAhead

\* What a step that selects nobody may do: lose no grant the host needs, and
\* send grants and data only once the equipment is selected.
SelectionEffect ==
  /\ state' = state
  /\ separated' = separated
  /\ \A q \in Party :
       \/ InboxKept(q)
       \/ InboxRead(q) /\ ((q = Host /\ state[Host] # "Selected") =>
                             ~Grants(Head(inbox[q])))
       \/ \E m \in Frame :
            /\ InboxGains(q, m)
            /\ (IsData(m) \/ Grants(m)) => (separated \/ state[Equip] = "Selected")

\* Such a step keeps what is known about the selection.
LEMMA SelectionKept ==
  ASSUME SelectionInv, TypeOK', CallsAllowed', SelectionEffect
  PROVE  SelectionInv'
<1>0. /\ Host \in Party /\ Equip \in Party
      /\ \A q \in Party : inbox[q] \in Seq(Frame)
  BY DEF Party, SelectionInv, TypeOK
<1>1. NothingBefore'
  <2> SUFFICES ASSUME ~separated, state[Equip] # "Selected"
               PROVE  /\ state[Host] # "Selected"
                      /\ \A i \in DOMAIN inbox'[Host] :
                           ~Grants(inbox'[Host][i]) /\ ~IsData(inbox'[Host][i])
                      /\ \A i \in DOMAIN inbox'[Equip] : ~IsData(inbox'[Equip][i])
    BY DEF NothingBefore, SelectionEffect
  <2>1. NothingBefore
    BY DEF SelectionInv
  <2>2. ASSUME NEW q \in Party, NEW i \in DOMAIN inbox'[q]
        PROVE  \/ \E j \in DOMAIN inbox[q] : inbox'[q][i] = inbox[q][j]
               \/ ~IsData(inbox'[q][i]) /\ ~Grants(inbox'[q][i])
    <3>1. CASE InboxKept(q)
      BY <2>2, <3>1 DEF InboxKept
    <3>2. CASE InboxRead(q)
      BY <1>0, <2>2, <3>2 DEF InboxRead
    <3>3. CASE \E m \in Frame : InboxGains(q, m) /\ ~IsData(m) /\ ~Grants(m)
      BY <1>0, <2>2, <3>3 DEF InboxGains
    <3>4. QED BY <3>1, <3>2, <3>3 DEF SelectionEffect
  <2>3. QED BY <1>0, <2>1, <2>2 DEF NothingBefore
<1>2. GrantPending'
  <2> SUFFICES ASSUME ~separated, state[Equip] = "Selected", state[Host] # "Selected"
               PROVE  GrantAhead(inbox'[Host])
    BY DEF GrantPending, SelectionEffect
  <2>1. GrantAhead(inbox[Host])
    BY DEF SelectionInv, GrantPending
  <2>2. CASE InboxKept(Host)
    BY <2>1, <2>2 DEF InboxKept
  <2>3. CASE InboxRead(Host) /\ ~Grants(Head(inbox[Host]))
    BY <1>0, <2>1, <2>3, GrantTail DEF InboxRead
  <2>4. CASE \E m \in Frame : InboxGains(Host, m)
    BY <1>0, <2>1, <2>4, GrantAppend DEF InboxGains
  <2>5. QED BY <1>0, <2>2, <2>3, <2>4 DEF SelectionEffect
<1>3. QED BY <1>1, <1>2 DEF SelectionInv

\* Every step leaves the threads inside operations they may be inside.
LEMMA CallsKept ==
  ASSUME TypeOK, CallsAllowed, [Next]_vars
  PROVE  CallsAllowed'
<1> USE DEF CallsAllowed, TypeOK
<1>0. Host \in Party /\ Equip \in Party /\ Host # Equip
  BY PartiesDiffer DEF Party
<1>1. ASSUME NEW p \in Party, NEW op,
             call' = [call EXCEPT ![p] = op], UNCHANGED state,
             op \in {"transact", "serve_one"} => state[p] = "Selected",
             op = "select" => p = Host,
             op = "accept_select" => p = Equip
      PROVE  CallsAllowed'
  BY <1>0, <1>1
<1>2. ASSUME NEW p \in Party, call' = [call EXCEPT ![p] = "idle"],
             NEW s, state' = [state EXCEPT ![p] = s]
      PROVE  CallsAllowed'
  BY <1>0, <1>2
<1>3. ASSUME NEW p \in Party, Starts(p) PROVE CallsAllowed'
  <2>1. CASE Select(p)
    BY <1>1, <2>1 DEF Select, Enters
  <2>2. CASE AcceptSelect(p)
    BY <1>1, <2>2 DEF AcceptSelect, Enters
  <2>3. CASE \E function \in Functions, body \in Bodies \cup {NoBody} :
               Transact(p, function, body)
    BY <1>1, <2>3 DEF Transact, Enters, MayCarryData
  <2>4. CASE ServeOne(p)
    BY <1>1, <2>4 DEF ServeOne, Enters, MayCarryData
  <2>5. CASE \E op \in {"transact", "serve_one"} : NotSelected(p, op)
    BY <1>1, <2>5 DEF NotSelected, Returns
  <2>6. QED BY <1>3, <2>1, <2>2, <2>3, <2>4, <2>5 DEF Starts
<1>4. ASSUME NEW p \in Party, Continues(p) PROVE CallsAllowed'
  <2>1. CASE SelectAnswered(p)
    BY <1>1, <1>2, <2>1 DEF SelectAnswered, Returns
  <2>2. CASE AcceptsRequest(p)
    BY <1>2, <2>2 DEF AcceptsRequest, Returns
  <2>3. CASE Deselects(p)
    BY <1>2, <2>3 DEF Deselects, Returns
  <2>4. CASE \/ SelectFails(p) \/ AcceptFails(p) \/ ReceivesReply(p)
             \/ TransactFails(p) \/ ServeFails(p) \/ ReadsEof(p)
             \/ \E reply \in Bodies \cup {NoBody} : ServesPrimary(p, reply)
    BY <1>1, <2>4
       DEF SelectFails, AcceptFails, ReceivesReply, TransactFails, ServeFails,
           ReadsEof, ServesPrimary, Returns
  <2>5. CASE RejectsFrame(p) \/ AnswersLinktest(p) \/ AnswersSelect(p)
    BY <2>5 DEF RejectsFrame, AnswersLinktest, AnswersSelect
  <2>6. QED BY <1>4, <2>1, <2>2, <2>3, <2>4, <2>5 DEF Continues
<1>5. CASE \E p \in Party : Drop(p) \/ \E kind \in External : ExternalFrame(p, kind)
  BY <1>5 DEF Drop, ExternalFrame
<1>6. CASE UNCHANGED vars
  BY <1>6 DEF vars
<1>7. QED BY <1>3, <1>4, <1>5, <1>6 DEF Next
\* Writing a control frame that grants nothing is no business of the
\* selection, whether or not a frame is consumed first.
LEMMA HarmlessFrames ==
  /\ \A kind \in ExternalKinds :
       ~IsData(Control(kind)) /\ ~Grants(Control(kind)) /\ Control(kind) \in Frame
  /\ LET m == SelectRsp("AlreadySelected")
     IN ~IsData(m) /\ ~Grants(m) /\ m \in Frame
BY ControlFrames, ControlIsNoData
   DEF Grants, Control, SelectRsp, ExternalKinds, SelectStatus

\* Every step but a successful select, an accepted one and a Separate.req
\* selects nobody.
LEMMA SelectionSteps ==
  ASSUME SelectionInv, NEW p \in Party,
         \/ Select(p) \/ AcceptSelect(p) \/ ServeOne(p)
         \/ \E op \in {"transact", "serve_one"} : NotSelected(p, op)
         \/ \E function \in Functions, body \in Bodies \cup {NoBody} :
              Transact(p, function, body)
         \/ SelectAnswered(p) /\ Head(inbox[p]).status # "Selected"
         \/ SelectFails(p) \/ AcceptFails(p) \/ ReceivesReply(p)
         \/ TransactFails(p) \/ RejectsFrame(p)
         \/ \E reply \in Bodies \cup {NoBody} : ServesPrimary(p, reply)
         \/ AnswersLinktest(p) \/ AnswersSelect(p)
         \/ ServeFails(p) \/ ReadsEof(p) \/ Drop(p)
         \/ \E kind \in External : ExternalFrame(p, kind)
  PROVE  SelectionEffect
<1> USE DEF SelectionEffect, InboxKept, InboxRead, InboxGains
<1>0. InboxType /\ Host \in Party /\ Equip \in Party
  BY DEF SelectionInv, TypeOK, InboxType, Party
<1>a. state[p] = "Selected" => separated \/ state[Equip] = "Selected"
  BY DEF SelectionInv, NothingBefore, Party
<1>1. ASSUME inbox' = inbox, UNCHANGED <<state, separated>>
      PROVE  SelectionEffect
  BY <1>1
<1>2. ASSUME Reads(p), inbox[p] # <<>>, UNCHANGED <<state, separated>>,
             (p = Host /\ state[Host] # "Selected") => ~Grants(Head(inbox[p]))
      PROVE  SelectionEffect
  BY <1>0, <1>2, ReadsEffect, PeerFacts
<1>3. ASSUME NEW m \in Frame, UNCHANGED <<state, separated>>,
             (IsData(m) \/ Grants(m)) => (separated \/ state[Equip] = "Selected"),
             \/ Writes(p, m)
             \/ /\ Answers(p, m) /\ inbox[p] # <<>>
                /\ (p = Host /\ state[Host] # "Selected") => ~Grants(Head(inbox[p]))
      PROVE  SelectionEffect
  BY <1>0, <1>3, WritesEffect, AnswersEffect, PeerFacts
<1>4. CASE Select(p)
  BY <1>3, <1>4, HarmlessFrames DEF Select, ExternalKinds
<1>5. CASE \/ AcceptSelect(p) \/ ServeOne(p) \/ ReadsEof(p) \/ Drop(p)
           \/ \E op \in {"transact", "serve_one"} : NotSelected(p, op)
  BY <1>1, <1>5 DEF AcceptSelect, ServeOne, ReadsEof, Drop, NotSelected
<1>6. CASE \E function \in Functions, body \in Bodies \cup {NoBody} :
             Transact(p, function, body)
  <2>1. PICK function \in Functions, body \in Bodies \cup {NoBody} :
          Transact(p, function, body)
    BY <1>6
  <2>2. nextSystemBytes[p] \in Nat
    BY CountsAssumption DEF SelectionInv, TypeOK
  <2>3. PICK m \in DataFrame :
          m = [stype |-> "Data", owner |-> p, index |-> nextSystemBytes[p],
               w |-> TRUE, function |-> function, body |-> body]
    BY <2>2, FunctionsAreWireBytes DEF DataFrame
  <2>4. QED BY <1>3, <1>a, <2>1, <2>3 DEF Transact, MayCarryData, Frame
<1>7. CASE SelectAnswered(p) /\ Head(inbox[p]).status # "Selected"
  BY <1>2, <1>7 DEF SelectAnswered, HeadIs, Grants
<1>8. CASE SelectFails(p)
  BY <1>2, <1>8 DEF SelectFails, HeadIs, Grants
<1>9. CASE AcceptFails(p)
  <2>1. p # Host
    BY <1>9 DEF AcceptFails, SelectionInv, CallsAllowed
  <2>2. QED BY <1>2, <1>9, <2>1 DEF AcceptFails
<1>10. CASE ReceivesReply(p) \/ TransactFails(p) \/ ServeFails(p)
  <2>1. state[p] = "Selected"
    BY <1>10 DEF ReceivesReply, TransactFails, ServeFails, SelectionInv, CallsAllowed
  <2>2. QED
    BY <1>2, <1>10, <2>1 DEF ReceivesReply, TransactFails, ServeFails, HeadIs
<1>11. CASE RejectsFrame(p) \/ AnswersSelect(p)
  <2>1. state[p] = "Selected"
    BY <1>11 DEF RejectsFrame, AnswersSelect, SelectionInv, CallsAllowed
  <2>2. QED
    BY <1>3, <1>11, <2>1, HarmlessFrames
       DEF RejectsFrame, AnswersSelect, HeadIs, ExternalKinds
<1>12. CASE AnswersLinktest(p)
  BY <1>3, <1>12, HarmlessFrames DEF AnswersLinktest, HeadIs, Grants, ExternalKinds
<1>13. CASE \E reply \in Bodies \cup {NoBody} : ServesPrimary(p, reply)
  <2>1. PICK reply \in Bodies \cup {NoBody} : ServesPrimary(p, reply)
    BY <1>13
  <2>2. state[p] = "Selected" /\ inbox[p] # <<>>
    BY <2>1 DEF ServesPrimary, HeadIs, SelectionInv, CallsAllowed
  <2>3. PICK m \in DataFrame : m = Head(inbox[p])
    BY <1>0, <2>1, <2>2, HeadFacts DEF ServesPrimary, HeadIs, IsData
  <2>4. Secondary(m, reply) \in Frame
    BY SecondaryType DEF Frame
  <2>5. QED BY <1>2, <1>3, <1>a, <2>1, <2>2, <2>3, <2>4 DEF ServesPrimary
<1>14. CASE \E kind \in External : ExternalFrame(p, kind)
  <2>1. PICK kind \in External : ExternalFrame(p, kind)
    BY <1>14
  <2>2. ~IsData(Control(kind)) /\ ~Grants(Control(kind)) /\ Control(kind) \in Frame
    BY HarmlessFrames, ExternalAssumption
  <2>3. /\ inbox'[p] = Append(inbox[p], Control(kind))
        /\ inbox'[Peer(p)] = inbox[Peer(p)]
    BY <1>0, <2>1, PeerFacts DEF ExternalFrame, InboxType
  <2>4. QED BY <2>1, <2>2, <2>3, PeerFacts DEF ExternalFrame
<1>15. QED
  BY <1>4, <1>5, <1>6, <1>7, <1>8, <1>9, <1>10, <1>11, <1>12, <1>13, <1>14

\* The host becomes Selected on a grant, which only a selected equipment
\* has sent.
LEMMA HostSelectedStep ==
  ASSUME SelectionInv, TypeOK', CallsAllowed', NEW p \in Party,
         SelectAnswered(p), Head(inbox[p]).status = "Selected"
  PROVE  SelectionInv'
<1>0. InboxType /\ Host \in Party /\ Equip \in Party /\ Host # Equip
  BY PartiesDiffer DEF SelectionInv, TypeOK, InboxType, Party
<1>1. p = Host /\ inbox[p] # <<>>
  BY DEF SelectAnswered, HeadIs, SelectionInv, CallsAllowed, Party
<1>2. separated \/ state[Equip] = "Selected"
  <2>1. 1 \in DOMAIN inbox[p] /\ inbox[p][1] = Head(inbox[p])
    BY <1>0, <1>1 DEF InboxType
  <2>2. Grants(inbox[Host][1])
    BY <1>1, <2>1 DEF SelectAnswered, HeadIs, Grants
  <2>3. QED BY <1>1, <2>1, <2>2 DEF SelectionInv, NothingBefore
<1>3. /\ state'[Host] = "Selected" /\ state'[Equip] = state[Equip]
      /\ separated' = separated
  BY <1>0, <1>1 DEF SelectAnswered, SelectionInv, TypeOK
<1>4. QED
  BY <1>2, <1>3 DEF SelectionInv, NothingBefore, GrantPending

\* The equipment becomes Selected as it sends the grant, into an inbox that
\* holds no data unless it was selected before.
LEMMA EquipSelectedStep ==
  ASSUME SelectionInv, TypeOK', CallsAllowed', NEW p \in Party, AcceptsRequest(p)
  PROVE  SelectionInv'
<1>0. InboxType /\ Host \in Party /\ Equip \in Party /\ Host # Equip
  BY PartiesDiffer DEF SelectionInv, TypeOK, InboxType, Party
<1>1. p = Equip /\ Peer(p) = Host /\ inbox[p] # <<>>
  BY <1>0 DEF AcceptsRequest, HeadIs, SelectionInv, CallsAllowed, Party, Peer
<1>2. SelectRsp("Selected") \in Frame /\ Grants(SelectRsp("Selected"))
  BY ControlFrames DEF SelectStatus, Grants, SelectRsp
<1>3. inbox'[Host] = Append(inbox[Host], SelectRsp("Selected"))
  BY <1>0, <1>1, <1>2, AnswersEffect DEF AcceptsRequest
<1>4. /\ state'[Equip] = "Selected" /\ state'[Host] = state[Host]
      /\ separated' = separated
  BY <1>0, <1>1 DEF AcceptsRequest, SelectionInv, TypeOK
<1>5. GrantPending'
  <2> SUFFICES ASSUME ~separated, state[Host] # "Selected"
               PROVE  GrantAhead(inbox'[Host])
    BY <1>4 DEF GrantPending
  <2>0. inbox[Host] \in Seq(Frame)
    BY <1>0 DEF InboxType
  <2>1. CASE state[Equip] = "Selected"
    BY <1>2, <1>3, <2>0, <2>1, GrantAppend DEF SelectionInv, GrantPending
  <2>2. CASE state[Equip] # "Selected"
    BY <1>2, <1>3, <2>0, <2>2, GrantSent DEF SelectionInv, NothingBefore
  <2>3. QED BY <2>1, <2>2
<1>6. QED BY <1>4, <1>5 DEF SelectionInv, NothingBefore

\* SelectionInv holds in every reachable state.
LEMMA SelectionInvariant == Spec => []SelectionInv
<1>1. Init => SelectionInv
  <2> SUFFICES ASSUME Init PROVE SelectionInv
    OBVIOUS
  <2>1. Host \in Party /\ Equip \in Party
    BY DEF Party
  <2>2. CallsAllowed /\ NothingBefore /\ GrantPending
    BY <2>1 DEF Init, CallsAllowed, NothingBefore, GrantPending
  <2>3. QED BY <2>2, InitTypeOK DEF SelectionInv
<1>2. SelectionInv /\ [Next]_vars => SelectionInv'
  <2> SUFFICES ASSUME SelectionInv, [Next]_vars PROVE SelectionInv'
    OBVIOUS
  <2>0. TypeOK' /\ CallsAllowed'
    BY TypePreserved, CallsKept DEF SelectionInv
  <2>1. CASE UNCHANGED vars
    BY <2>1
       DEF vars, SelectionInv, TypeOK, CallsAllowed, NothingBefore, GrantPending
  <2>2. CASE Next
    <3>1. PICK p \in Party :
            Starts(p) \/ Continues(p) \/ Drop(p)
              \/ \E kind \in External : ExternalFrame(p, kind)
      BY <2>2 DEF Next
    <3>2. CASE SelectAnswered(p) /\ Head(inbox[p]).status = "Selected"
      BY <2>0, <3>2, HostSelectedStep
    <3>3. CASE AcceptsRequest(p)
      BY <2>0, <3>3, EquipSelectedStep
    <3>4. CASE Deselects(p)
      <4>1. separated'
        BY <3>4 DEF Deselects
      <4>2. QED BY <2>0, <4>1 DEF SelectionInv, NothingBefore, GrantPending
    <3>5. CASE SelectionEffect
      BY <2>0, <3>5, SelectionKept
    <3>6. QED
      BY <3>1, <3>2, <3>3, <3>4, <3>5, SelectionSteps DEF Starts, Continues
  <2>3. QED BY <2>1, <2>2
<1>3. QED BY <1>1, <1>2, PTL DEF Spec

\* Until a Separate.req is processed, a selected host faces a selected
\* equipment.
THEOREM SelectionAgreement == Spec => []SelectionAgrees
<1>1. SelectionInv => SelectionAgrees
  BY DEF SelectionInv, NothingBefore, SelectionAgrees
<1>2. QED BY <1>1, SelectionInvariant, PTL

\* Until a Separate.req is processed, an end that still waits for its half of
\* the select never finds data at the head of its inbox.
THEOREM SelectBeforeData == Spec => []NoDataBeforeSelection
<1>1. SelectionInv => NoDataBeforeSelection
  <2> SUFFICES ASSUME SelectionInv, ~separated, NEW p \in Party,
                      call[p] \in {"select", "accept_select"},
                      state[p] # "Selected", inbox[p] # <<>>
               PROVE  ~IsData(Head(inbox[p]))
    BY DEF NoDataBeforeSelection
  <2>1. 1 \in DOMAIN inbox[p] /\ inbox[p][1] = Head(inbox[p])
    BY DEF SelectionInv, TypeOK
  <2>2. CASE state[Equip] # "Selected"
    BY <2>1, <2>2 DEF SelectionInv, NothingBefore, Party
  <2>3. CASE state[Equip] = "Selected"
    <3>1. p = Host
      BY <2>3 DEF Party
    <3>2. GrantAhead(inbox[p])
      BY <2>3, <3>1 DEF SelectionInv, GrantPending
    <3>3. PICK i \in DOMAIN inbox[p] :
            Grants(inbox[p][i]) /\ \A j \in 1 .. i - 1 : ~IsData(inbox[p][j])
      BY <3>2 DEF GrantAhead
    <3>4. CASE i = 1
      BY <2>1, <3>3, <3>4 DEF Grants, IsData
    <3>5. CASE i # 1
      <4>1. 1 \in 1 .. i - 1
        BY <3>5 DEF SelectionInv, TypeOK
      <4>2. QED BY <2>1, <3>3, <4>1
    <3>6. QED BY <3>4, <3>5
  <2>4. QED BY <2>2, <2>3
<1>2. QED BY <1>1, SelectionInvariant, PTL

----------------------------------------------------------------------------
(* Tokens: a transaction has one, also when the counter wraps, when         *)
(* primaries cross, and whatever control frames arrive.                    *)

\* Data frames of one transaction, a primary or its secondary.
SameToken(m, n) == IsData(m) /\ IsData(n) /\ m.owner = n.owner /\ m.index = n.index

\* Of each transaction, at most one data frame is in flight.
TokensDiffer ==
  \A p, q \in Party : \A i \in DOMAIN inbox[p], j \in DOMAIN inbox[q] :
    SameToken(inbox[p][i], inbox[q][j]) => p = q /\ i = j

\* The inductive invariant behind OneTokenPerTransaction.
TokenInv == TypeOK /\ AllWellDirected /\ TokensDiffer

\* What b's inbox gains is of no transaction in flight, or of that of the
\* frame its peer reads in the same step.
Passes(b, m) ==
  \A q \in Party : \A k \in DOMAIN inbox[q] :
    SameToken(m, inbox[q][k]) => q = Peer(b) /\ k = 1 /\ InboxRead(q)

\* What a step does to the tokens: one inbox may gain one frame.
TokenEffect ==
  \E b \in Party :
    /\ InboxKept(Peer(b)) \/ InboxRead(Peer(b))
    /\ \/ InboxKept(b) \/ InboxRead(b)
       \/ \E m \in Frame : InboxGains(b, m) /\ Passes(b, m)

\* A frame has the token it has, whichever of the two is looked at first.
LEMMA SameTokenFacts ==
  /\ \A m, n : SameToken(m, n) => SameToken(n, m)
  /\ \A l, m, n : SameToken(l, m) /\ SameToken(m, n) => SameToken(l, n)
BY DEF SameToken

\* How far the frames of q's inbox move up in a step.
Shift(q) == IF InboxRead(q) THEN 1 ELSE 0

\* In an inbox that is kept or read, every frame was there before.
LEMMA ShiftFacts ==
  ASSUME InboxType, NEW q \in Party, InboxKept(q) \/ InboxRead(q),
         NEW i \in DOMAIN inbox'[q]
  PROVE  /\ i \in Nat \ {0} /\ Shift(q) \in {0, 1}
         /\ i + Shift(q) \in DOMAIN inbox[q]
         /\ inbox'[q][i] = inbox[q][i + Shift(q)]
<1>0. inbox[q] \in Seq(Frame)
  BY DEF InboxType
<1>1. CASE InboxRead(q)
  BY <1>0, <1>1 DEF InboxRead, Shift
<1>2. CASE InboxKept(q) /\ ~InboxRead(q)
  BY <1>0, <1>2 DEF InboxKept, Shift
<1>3. QED BY <1>1, <1>2

\* Under TokenEffect the tokens still differ.
LEMMA TokensKept ==
  ASSUME InboxType, TokensDiffer, TokenEffect
  PROVE  TokensDiffer'
<1>1. PICK b \in Party :
        /\ InboxKept(Peer(b)) \/ InboxRead(Peer(b))
        /\ \/ InboxKept(b) \/ InboxRead(b)
           \/ \E m \in Frame : InboxGains(b, m) /\ Passes(b, m)
  BY DEF TokenEffect
<1>2. CASE InboxKept(b) \/ InboxRead(b)
  <2>1. \A q \in Party : InboxKept(q) \/ InboxRead(q)
    BY <1>1, <1>2, PeerFacts
  <2> SUFFICES ASSUME NEW p \in Party, NEW q \in Party,
                      NEW i \in DOMAIN inbox'[p], NEW j \in DOMAIN inbox'[q],
                      SameToken(inbox'[p][i], inbox'[q][j])
               PROVE  p = q /\ i = j
    BY DEF TokensDiffer
  <2>2. /\ i \in Nat /\ i + Shift(p) \in DOMAIN inbox[p]
        /\ inbox'[p][i] = inbox[p][i + Shift(p)] /\ Shift(p) \in {0, 1}
    BY <2>1, ShiftFacts
  <2>3. /\ j \in Nat /\ j + Shift(q) \in DOMAIN inbox[q]
        /\ inbox'[q][j] = inbox[q][j + Shift(q)]
    BY <2>1, ShiftFacts
  <2>4. p = q /\ i + Shift(p) = j + Shift(q)
    BY <2>2, <2>3 DEF TokensDiffer
  <2>5. i + Shift(p) = j + Shift(p)
    BY <2>4
  <2>6. QED BY <2>2, <2>3, <2>4, <2>5
<1>3. CASE \E m \in Frame : InboxGains(b, m) /\ Passes(b, m)
  <2>1. PICK m \in Frame : InboxGains(b, m) /\ Passes(b, m)
    BY <1>3
  <2> DEFINE a == Peer(b)
  <2>2. a \in Party /\ a # b /\ \A q \in Party : q = a \/ q = b
    BY PeerFacts
  <2>3. inbox[a] \in Seq(Frame) /\ inbox[b] \in Seq(Frame)
    BY <2>2 DEF InboxType
  <2>4. \A i \in DOMAIN inbox'[a] :
          /\ i \in Nat \ {0} /\ Shift(a) \in {0, 1}
          /\ i + Shift(a) \in DOMAIN inbox[a]
          /\ inbox'[a][i] = inbox[a][i + Shift(a)]
    BY <1>1, <2>2, ShiftFacts
  <2>5. \A i \in DOMAIN inbox'[b] :
          \/ i \in DOMAIN inbox[b] /\ inbox'[b][i] = inbox[b][i]
          \/ i = Len(inbox[b]) + 1 /\ inbox'[b][i] = m
    BY <2>1, <2>3 DEF InboxGains
  <2>6. \A i \in DOMAIN inbox'[a] : ~SameToken(m, inbox'[a][i])
    <3> SUFFICES ASSUME NEW i \in DOMAIN inbox'[a], SameToken(m, inbox'[a][i])
                 PROVE  FALSE
      OBVIOUS
    <3>1. i + Shift(a) = 1 /\ InboxRead(a)
      BY <2>1, <2>2, <2>4 DEF Passes
    <3>2. QED BY <2>4, <3>1 DEF Shift
  <2>7. \A i \in DOMAIN inbox[b] : ~SameToken(m, inbox[b][i])
    BY <2>1, <2>2 DEF Passes
  <2>8. ASSUME NEW i \in DOMAIN inbox'[a], NEW j \in DOMAIN inbox'[b]
        PROVE  ~SameToken(inbox'[a][i], inbox'[b][j])
    <3>1. CASE j \in DOMAIN inbox[b] /\ inbox'[b][j] = inbox[b][j]
      BY <2>2, <2>4, <3>1 DEF TokensDiffer
    <3>2. CASE inbox'[b][j] = m
      BY <2>6, <3>2, SameTokenFacts
    <3>3. QED BY <2>5, <3>1, <3>2
  <2>9. ASSUME NEW i \in DOMAIN inbox'[a], NEW j \in DOMAIN inbox'[a],
               SameToken(inbox'[a][i], inbox'[a][j])
        PROVE  i = j
    <3>1. i + Shift(a) = j + Shift(a)
      BY <2>2, <2>4, <2>9 DEF TokensDiffer
    <3>2. QED BY <2>4, <3>1 DEF Shift
  <2>10. ASSUME NEW i \in DOMAIN inbox'[b], NEW j \in DOMAIN inbox'[b],
                SameToken(inbox'[b][i], inbox'[b][j])
         PROVE  i = j
    <3>1. CASE i \in DOMAIN inbox[b] /\ j \in DOMAIN inbox[b]
      <4>1. inbox'[b][i] = inbox[b][i] /\ inbox'[b][j] = inbox[b][j]
        BY <2>1, <2>3, <3>1 DEF InboxGains
      <4>2. QED BY <2>2, <2>10, <3>1, <4>1 DEF TokensDiffer
    <3>2. CASE i \notin DOMAIN inbox[b] /\ j \in DOMAIN inbox[b]
      <4>1. inbox'[b][i] = m /\ inbox'[b][j] = inbox[b][j]
        BY <2>1, <2>3, <2>5, <3>2 DEF InboxGains
      <4>2. QED BY <2>7, <2>10, <3>2, <4>1
    <3>3. CASE i \in DOMAIN inbox[b] /\ j \notin DOMAIN inbox[b]
      <4>1. inbox'[b][j] = m /\ inbox'[b][i] = inbox[b][i]
        BY <2>1, <2>3, <2>5, <3>3 DEF InboxGains
      <4>2. QED BY <2>7, <2>10, <3>3, <4>1, SameTokenFacts
    <3>4. CASE i \notin DOMAIN inbox[b] /\ j \notin DOMAIN inbox[b]
      BY <2>5, <3>4
    <3>5. QED BY <3>1, <3>2, <3>3, <3>4
  <2> SUFFICES ASSUME NEW p \in Party, NEW q \in Party,
                      NEW i \in DOMAIN inbox'[p], NEW j \in DOMAIN inbox'[q],
                      SameToken(inbox'[p][i], inbox'[q][j])
               PROVE  p = q /\ i = j
    BY DEF TokensDiffer
  <2>11. CASE p = a /\ q = a
    BY <2>9, <2>11
  <2>12. CASE p = b /\ q = b
    BY <2>10, <2>12
  <2>13. CASE p = a /\ q = b
    BY <2>8, <2>13
  <2>14. CASE p = b /\ q = a
    BY <2>8, <2>14, SameTokenFacts
  <2>15. QED BY <2>2, <2>11, <2>12, <2>13, <2>14
<1>4. QED BY <1>1, <1>2, <1>3

----------------------------------------------------------------------------
(* The steps and the tokens                                                *)

\* A step that moves only control frames, or reads, has the effect.
LEMMA ControlTokens ==
  ASSUME TypeOK, NEW p \in Party,
         \/ Select(p) \/ AcceptSelect(p) \/ ServeOne(p)
         \/ \E op \in {"transact", "serve_one"} : NotSelected(p, op)
         \/ SelectAnswered(p) \/ SelectFails(p) \/ AcceptsRequest(p)
         \/ AcceptFails(p) \/ ReceivesReply(p) \/ TransactFails(p)
         \/ RejectsFrame(p) \/ AnswersLinktest(p) \/ AnswersSelect(p)
         \/ Deselects(p) \/ ServeFails(p) \/ ReadsEof(p) \/ Drop(p)
         \/ \E kind \in External : ExternalFrame(p, kind)
  PROVE  TokenEffect
<1>0. InboxType
  BY DEF TypeOK, InboxType
<1>1. \A m \in Frame, b \in Party : ~IsData(m) => Passes(b, m)
  BY DEF Passes, SameToken
<1>2. CASE UNCHANGED inbox
  BY <1>2, PeerFacts DEF TokenEffect, InboxKept
<1>3. ASSUME Reads(p), inbox[p] # <<>> PROVE TokenEffect
  BY <1>0, <1>3, ReadsEffect, PeerFacts DEF TokenEffect, InboxKept, InboxRead
<1>4. ASSUME NEW m \in Frame, ~IsData(m), Answers(p, m), inbox[p] # <<>>
      PROVE  TokenEffect
  <2>1. InboxRead(p) /\ InboxGains(Peer(p), m)
    BY <1>0, <1>4, AnswersEffect DEF InboxRead, InboxGains
  <2>2. Passes(Peer(p), m)
    BY <1>1, <1>4, PeerFacts
  <2>3. QED BY <2>1, <2>2, PeerFacts DEF TokenEffect
<1>5. ASSUME NEW m \in Frame, ~IsData(m), NEW b \in Party,
             InboxKept(Peer(b)), InboxGains(b, m)
      PROVE  TokenEffect
  BY <1>1, <1>5 DEF TokenEffect
<1>6. CASE Select(p)
  <2>1. Control("SelectReq") \in Frame /\ ~IsData(Control("SelectReq"))
    BY ControlFrames, ControlIsNoData DEF ExternalKinds
  <2>2. InboxKept(p) /\ InboxGains(Peer(p), Control("SelectReq"))
    BY <1>0, <1>6, <2>1, WritesEffect DEF Select, InboxKept, InboxGains
  <2>3. QED BY <1>5, <2>1, <2>2, PeerFacts
<1>7. CASE \/ AcceptSelect(p) \/ ServeOne(p) \/ ReadsEof(p) \/ Drop(p)
           \/ \E op \in {"transact", "serve_one"} : NotSelected(p, op)
  BY <1>2, <1>7 DEF AcceptSelect, ServeOne, NotSelected, ReadsEof, Drop
<1>8. CASE \/ SelectAnswered(p) \/ SelectFails(p) \/ AcceptFails(p)
           \/ ReceivesReply(p) \/ TransactFails(p) \/ Deselects(p) \/ ServeFails(p)
  BY <1>3, <1>8
     DEF SelectAnswered, SelectFails, AcceptFails, ReceivesReply, TransactFails,
         Deselects, ServeFails, HeadIs
<1>9. CASE AcceptsRequest(p) \/ AnswersSelect(p)
  <2>1. \A status \in SelectStatus :
          SelectRsp(status) \in Frame /\ ~IsData(SelectRsp(status))
    BY ControlFrames, ControlIsNoData
  <2>2. QED BY <1>4, <1>9, <2>1 DEF AcceptsRequest, AnswersSelect, HeadIs, SelectStatus
<1>10. CASE AnswersLinktest(p) \/ RejectsFrame(p)
  <2>1. \A kind \in ExternalKinds : Control(kind) \in Frame /\ ~IsData(Control(kind))
    BY ControlFrames, ControlIsNoData
  <2>2. QED BY <1>4, <1>10, <2>1 DEF AnswersLinktest, RejectsFrame, HeadIs, ExternalKinds
<1>11. CASE \E kind \in External : ExternalFrame(p, kind)
  <2>1. PICK kind \in External : ExternalFrame(p, kind)
    BY <1>11
  <2>2. Control(kind) \in Frame /\ ~IsData(Control(kind))
    BY ControlFrames, ControlIsNoData, ExternalAssumption
  <2>3. InboxGains(p, Control(kind)) /\ InboxKept(Peer(p))
    BY <1>0, <2>1, PeerFacts DEF ExternalFrame, InboxType, InboxKept, InboxGains
  <2>4. QED BY <1>5, <2>2, <2>3
<1>12. QED BY <1>6, <1>7, <1>8, <1>9, <1>10, <1>11

\* Data in flight carries system bytes below the counter of the session that
\* drew them, so a new primary is of no transaction in flight.
LEMMA TransactTokens ==
  ASSUME TokenInv, NEW p \in Party, NEW function \in Functions,
         NEW body \in Bodies \cup {NoBody}, Transact(p, function, body)
  PROVE  TokenEffect /\ DirectionEffect
<1>0. InboxType /\ \A q \in Party : nextSystemBytes[q] \in Nat \ {0}
  BY CountsAssumption DEF TokenInv, TypeOK, InboxType
<1>1. PICK m \in DataFrame :
        m = [stype |-> "Data", owner |-> p, index |-> nextSystemBytes[p],
             w |-> TRUE, function |-> function, body |-> body]
  BY <1>0, FunctionsAreWireBytes DEF DataFrame
<1>2. InboxKept(p) /\ InboxGains(Peer(p), m)
  BY <1>0, <1>1, WritesEffect DEF Transact, Frame, InboxKept, InboxGains
<1>3. /\ nextSystemBytes'[p] = nextSystemBytes[p] + 1
      /\ nextSystemBytes'[Peer(p)] = nextSystemBytes[Peer(p)]
  BY DrawsEffect DEF Transact, TokenInv, TypeOK
<1>4. Passes(Peer(p), m)
  <2> SUFFICES ASSUME NEW q \in Party, NEW k \in DOMAIN inbox[q],
                      SameToken(m, inbox[q][k])
               PROVE  FALSE
    BY DEF Passes
  <2>1. WellDirected(q, inbox[q][k])
    BY DEF TokenInv, AllWellDirected
  <2>2. inbox[q][k].owner = p /\ inbox[q][k].index = nextSystemBytes[p]
    BY <1>1 DEF SameToken
  <2>3. nextSystemBytes[p] < nextSystemBytes[p]
    BY <2>1, <2>2 DEF WellDirected, SameToken
  <2>4. QED BY <1>0, <2>3
<1>5. TokenEffect
  BY <1>1, <1>2, <1>4, PeerFacts DEF TokenEffect, Frame
<1>6. WellDirected(Peer(p), m)'
  BY <1>0, <1>1, <1>3, PeerFacts DEF WellDirected
<1>7. DirectionEffect
  BY <1>0, <1>1, <1>2, <1>3, <1>6, PeerFacts DEF DirectionEffect, Frame
<1>8. QED BY <1>5, <1>7

\* A secondary takes the place of the primary it answers.
LEMMA ServeTokens ==
  ASSUME TokenInv, NEW p \in Party, NEW reply \in Bodies \cup {NoBody},
         ServesPrimary(p, reply)
  PROVE  TokenEffect /\ DirectionEffect
<1>0. /\ InboxType
      /\ inbox[p] # <<>>
      /\ \A q \in Party : nextSystemBytes[q] \in Int
      /\ UNCHANGED nextSystemBytes
  BY DEF TokenInv, TypeOK, InboxType, ServesPrimary, HeadIs
<1>1. PICK m \in DataFrame : m = Head(inbox[p]) /\ IsData(m)
  BY <1>0, HeadFacts DEF ServesPrimary, HeadIs, IsData
<1>2. 1 \in DOMAIN inbox[p] /\ inbox[p][1] = m
  BY <1>0, <1>1 DEF InboxType
<1> DEFINE s == Secondary(m, reply)
<1>3. CASE reply = NoBody
  <2>1. InboxRead(p) /\ InboxKept(Peer(p))
    BY <1>0, <1>3, ReadsEffect DEF ServesPrimary, InboxRead, InboxKept
  <2>2. QED BY <1>0, <2>1, PeerFacts DEF TokenEffect, DirectionEffect
<1>4. CASE reply # NoBody
  <2>1. s \in DataFrame /\ ~s.w /\ s.owner = m.owner /\ s.index = m.index /\ m.w
    BY <1>1, <1>4, SecondaryType DEF ServesPrimary, WantsReply
  <2>2. InboxRead(p) /\ InboxGains(Peer(p), s)
    BY <1>0, <1>1, <1>4, <2>1, AnswersEffect
       DEF ServesPrimary, Frame, InboxRead, InboxGains
  <2>3. IsData(s) /\ SameToken(m, s)
    BY <1>1, <2>1 DEF SameToken, IsData, DataFrame
  <2>4. Passes(Peer(p), s)
    <3> SUFFICES ASSUME NEW q \in Party, NEW k \in DOMAIN inbox[q],
                        SameToken(s, inbox[q][k])
                 PROVE  q = p /\ k = 1
      BY <2>2, PeerFacts DEF Passes
    <3>1. SameToken(inbox[p][1], inbox[q][k])
      BY <1>2, <2>3, SameTokenFacts
    <3>2. QED BY <1>2, <3>1 DEF TokenInv, TokensDiffer
  <2>5. TokenEffect
    BY <2>1, <2>2, <2>4, PeerFacts DEF TokenEffect, Frame
  <2>6. WellDirected(p, m)
    BY <1>2 DEF TokenInv, AllWellDirected
  <2>7. WellDirected(Peer(p), s)'
    BY <1>0, <1>1, <2>1, <2>6, PeerFacts DEF WellDirected
  <2>8. DirectionEffect
    BY <1>0, <2>1, <2>2, <2>7, PeerFacts DEF DirectionEffect, Frame
  <2>9. QED BY <2>5, <2>8
<1>5. QED BY <1>3, <1>4

\* The invariant holds in every reachable state.
LEMMA TokenInvariant == Spec => []TokenInv
<1>1. Init => TokenInv
  <2> SUFFICES ASSUME Init PROVE TokenInv
    OBVIOUS
  <2>1. TypeOK
    BY InitTypeOK
  <2>2. AllWellDirected /\ TokensDiffer
    BY DEF Init, AllWellDirected, TokensDiffer
  <2>3. QED BY <2>1, <2>2 DEF TokenInv
<1>2. TokenInv /\ [Next]_vars => TokenInv'
  <2> SUFFICES ASSUME TokenInv, [Next]_vars PROVE TokenInv'
    OBVIOUS
  <2>0. TypeOK /\ TypeOK' /\ InboxType
    BY TypePreserved DEF TokenInv, TypeOK, InboxType
  <2>1. CASE UNCHANGED vars
    BY <2>0, <2>1 DEF vars, TokenInv, AllWellDirected, WellDirected, TokensDiffer
  <2>2. CASE TokenEffect /\ DirectionEffect
    BY <2>0, <2>2, TokensKept, DirectionKept DEF TokenInv, DirectionEffect
  <2>3. CASE Next
    <3>1. PICK p \in Party :
            Starts(p) \/ Continues(p) \/ Drop(p)
              \/ \E kind \in External : ExternalFrame(p, kind)
      BY <2>3 DEF Next
    <3>2. CASE \E function \in Functions, body \in Bodies \cup {NoBody} :
                 Transact(p, function, body)
      BY <2>2, <3>2, TransactTokens
    <3>3. CASE \E reply \in Bodies \cup {NoBody} : ServesPrimary(p, reply)
      BY <2>2, <3>3, ServeTokens
    <3>4. CASE ReceivesReply(p)
      <4>1. InboxRead(p) /\ InboxKept(Peer(p)) /\ UNCHANGED nextSystemBytes
        BY <2>0, <3>4, ReadsEffect DEF ReceivesReply, InboxRead, InboxKept
      <4>2. \A q \in Party : nextSystemBytes[q] \in Int
        BY <2>0 DEF TypeOK
      <4>3. DirectionEffect
        BY <4>1, <4>2, PeerFacts DEF DirectionEffect
      <4>4. QED BY <2>0, <2>2, <3>4, <4>3, ControlTokens
    <3>5. CASE \/ Select(p) \/ AcceptSelect(p) \/ ServeOne(p)
               \/ \E op \in {"transact", "serve_one"} : NotSelected(p, op)
               \/ SelectAnswered(p) \/ SelectFails(p) \/ AcceptsRequest(p)
               \/ AcceptFails(p) \/ TransactFails(p) \/ RejectsFrame(p)
               \/ AnswersLinktest(p) \/ AnswersSelect(p) \/ Deselects(p)
               \/ ServeFails(p) \/ ReadsEof(p) \/ Drop(p)
               \/ \E kind \in External : ExternalFrame(p, kind)
      BY <2>0, <2>2, <3>5, ControlTokens, ControlSteps
    <3>6. QED BY <3>1, <3>2, <3>3, <3>4, <3>5 DEF Starts, Continues
  <2>4. QED BY <2>1, <2>3
<1>3. QED BY <1>1, <1>2, PTL DEF Spec

\* No primary is answered twice and no secondary at all: at every moment at
\* most one frame of a transaction is in flight, on its way to the side that
\* is to act on it.
THEOREM OneToken == Spec => []OneTokenPerTransaction
<1>1. TokenInv => OneTokenPerTransaction
  <2> SUFFICES ASSUME TokenInv, NEW p \in Party, NEW i \in DOMAIN inbox[p],
                      IsData(inbox[p][i])
               PROVE  /\ inbox[p][i].owner = IF inbox[p][i].w THEN Peer(p) ELSE p
                      /\ inbox[p][i].index < nextSystemBytes[inbox[p][i].owner]
                      /\ \A q \in Party : \A j \in DOMAIN inbox[q] :
                           (/\ IsData(inbox[q][j])
                            /\ inbox[q][j].owner = inbox[p][i].owner
                            /\ inbox[q][j].index = inbox[p][i].index) =>
                              p = q /\ i = j
    BY DEF OneTokenPerTransaction
  <2>1. WellDirected(p, inbox[p][i])
    BY DEF TokenInv, AllWellDirected
  <2>2. QED BY <2>1 DEF TokenInv, TokensDiffer, SameToken, WellDirected
<1>2. QED BY <1>1, TokenInvariant, PTL
=============================================================================
