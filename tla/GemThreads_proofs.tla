--------------------------- MODULE GemThreads_proofs ---------------------------
(***************************************************************************)
(* What the runs' proofs share: that the steps every run has in common use *)
(* the sessions as HsmsSession allows, and what two threads that answer    *)
(* each other's primaries have in flight at any moment.                    *)
(***************************************************************************)
EXTENDS GemThreads, TLAPS

\* Every thread is somewhere, and handshake primaries are counted.
ThreadType ==
  /\ at = [p \in Party |-> at[p]]
  /\ shaken \in Nat

\* What a step of a run is to its two sessions.
UsesSessionStep == Hsms!Next \/ UNCHANGED sessionVars

\* A step of a session is one, whoever takes it.
LEMMA PartyMayAct ==
  ASSUME NEW p \in Party,
         \/ Hsms!Starts(p) \/ Hsms!Continues(p) \/ Hsms!Drop(p)
         \/ \E kind \in External : Hsms!ExternalFrame(p, kind)
  PROVE  UsesSessionStep
<1>1. p \in Hsms!Party
  BY DEF Party, Hsms!Party
<1>2. QED BY <1>1 DEF UsesSessionStep, Hsms!Next

\* A GEM session answers with an item or not at all.
LEMMA RepliesAreItems ==
  ASSUME NEW p, NEW m
  PROVE  MakeReply(p, m) \in Item \cup {NoItem}
BY DEF MakeReply, HostReply, EquipmentReply, Item

\* The handshake's primaries carry items.
LEMMA RequestsAreItems ==
  ASSUME NEW function \in {1, 13}
  PROVE  Request(function) \in Item
BY DEF Request, Item

\* One iteration of a read loop is a step of the session.
LEMMA SessionStepIsOne ==
  ASSUME NEW p \in Party, SessionStep(p)
  PROVE  UsesSessionStep
<1>1. CASE inbox[p] # <<>> /\ Hsms!ServesPrimary(p, MakeReply(p, Head(inbox[p])))
  <2>1. MakeReply(p, Head(inbox[p])) \in Item \cup {NoItem}
    BY RepliesAreItems
  <2>2. Hsms!Continues(p)
    BY <1>1, <2>1 DEF Hsms!Continues
  <2>3. QED BY <2>2, PartyMayAct
<1>2. CASE ~(inbox[p] # <<>> /\ Hsms!ServesPrimary(p, MakeReply(p, Head(inbox[p]))))
  <2>1. Hsms!Continues(p)
    BY <1>2 DEF SessionStep, Hsms!Continues
  <2>2. QED BY <2>1, PartyMayAct
<1>3. QED BY <1>1, <1>2

\* A transact with an item and one of the functions of GEM is a step.
LEMMA TransactIsOne ==
  ASSUME NEW p \in Party, NEW function \in {1, 11, 13, 41}, NEW body \in Item,
         Hsms!Transact(p, function, body)
  PROVE  UsesSessionStep
<1>1. Hsms!Starts(p)
  BY DEF Hsms!Starts
<1>2. QED BY <1>1, PartyMayAct

\* An event report with a payload of the run is one.
LEMMA ReportIsOne ==
  ASSUME NEW payload \in Payload, Reports(payload)
  PROVE  UsesSessionStep
<1>1. Event(payload) \in Item /\ Equip \in Party
  BY DEF Item, Party
<1>2. QED BY <1>1, TransactIsOne DEF Reports

\* So are the steps of the handshake.
LEMMA HandshakeIsOne ==
  ASSUME ThreadType, HostSelects \/ HostShakes \/ EquipAccepts \/ EquipServes
  PROVE  UsesSessionStep
<1>1. Host \in Party /\ Equip \in Party
  BY DEF Party
<1>2. CASE HostSelects
  BY <1>1, <1>2, PartyMayAct DEF HostSelects, Hsms!Starts
<1>3. CASE HostShakes
  <2>1. Handshake[shaken + 1] \in {1, 13}
    BY <1>3, HandshakeAssumption DEF HostShakes, ThreadType
  <2>2. QED BY <1>1, <1>3, <2>1, RequestsAreItems, TransactIsOne DEF HostShakes
<1>4. CASE EquipAccepts \/ EquipServes
  BY <1>1, <1>4, PartyMayAct DEF EquipAccepts, EquipServes, Hsms!Starts
<1>5. QED BY <1>2, <1>3, <1>4

\* And the ways a thread ends, and what comes from elsewhere.
LEMMA EndingIsOne ==
  ASSUME NEW p \in Party,
         \/ \E how : Ends(p, how)
         \/ \E acceptable : Fails(p, acceptable)
         \/ Panics(p)
         \/ \E kind \in External : Hsms!ExternalFrame(p, kind)
  PROVE  UsesSessionStep
BY PartyMayAct DEF Ends, Fails, Panics

\* A run begins with fresh sessions.
LEMMA ThreadsBegin == ThreadInit => ThreadType /\ Hsms!Init
BY DEF ThreadInit, ThreadType

\* The common steps keep the threads' types.
LEMMA ThreadsKept ==
  ASSUME ThreadType, NEW p \in Party,
         UNCHANGED at \/ \E to : Moves(p, to),
         UNCHANGED shaken \/ shaken' = shaken + 1
  PROVE  ThreadType'
BY DEF ThreadType, Moves

----------------------------------------------------------------------------
(* The conversation of two threads                                         *)

\* The call a thread is inside of, by the name of the call it made last.
CallOf ==
  [select |-> "select", shake |-> "transact", accept |-> "accept_select",
   serve |-> "serve_one", report |-> "transact", receive |-> "serve_one",
   command |-> "transact", await |-> "serve_one", serve_command |-> "serve_one"]

\* A thread that is inside of a call or took the last one's Ok; any other
\* does nothing but end.
Live(p) == at[p] \notin Ended /\ (at[p] = "start" \/ call[p] # "idle" \/ ret[p].ok)

\* How many system bytes p has drawn; the latest ones are of this number.
Sent(p) == nextSystemBytes[p] - 1

\* The i-th frame in q's inbox is of a transaction of p.
Carries(q, i, p) == Hsms!IsData(inbox[q][i]) /\ inbox[q][i].owner = p

\* The data in flight to q.
Flight(q) == {inbox[q][i] : i \in {k \in DOMAIN inbox[q] : Hsms!IsData(inbox[q][k])}}

\* A primary of the peer is on its way to q; a secondary is on its way to p.
Offered(q) == \E m \in Flight(q) : m.owner = Hsms!Peer(q)
Answered(p) == \E m \in Flight(p) : m.owner = p

\* What HsmsSession says of the types of the variables that follow.
SessionType ==
  /\ call \in [Party -> Hsms!Operation \cup {"idle"}]
  /\ ret \in [Party -> Hsms!Return]
  /\ inbox \in [Party -> Seq(Hsms!Frame)]
  /\ nextSystemBytes \in [Party -> Nat]

\* A thread is inside of the call it made last or of none.
InCall ==
  \A p \in Party :
    /\ call[p] # "idle" => at[p] \in DOMAIN CallOf /\ call[p] = CallOf[at[p]]
    /\ at[p] \in {"recorded", "acknowledged"} => ret[p].ok

\* Data in flight is of the latest transaction of its owner, which waits for
\* it unless it is about to end.
Directed ==
  \A p, q \in Party : \A i \in DOMAIN inbox[q] :
    Carries(q, i, p) =>
      /\ inbox[q][i].w = (p # q)
      /\ inbox[q][i].index = Sent(p)
      /\ Live(p) => call[p] = "transact"

\* Of each thread at most one data frame is in flight.
OneFrame ==
  \A p, q, r \in Party : \A i \in DOMAIN inbox[q], j \in DOMAIN inbox[r] :
    Carries(q, i, p) /\ Carries(r, j, p) => q = r /\ i = j

\* A thread that waits for a live one has its frame in flight.
Pending ==
  \A p \in Party :
    call[p] = "transact" /\ Live(Hsms!Peer(p)) =>
      \E q \in Party : \E i \in DOMAIN inbox[q] : Carries(q, i, p)

\* A thread that waits finds its secondary ahead of its peer's primary.
Ahead ==
  \A q \in Party : \A i \in DOMAIN inbox[q] :
    call[q] = "transact" /\ Carries(q, i, Hsms!Peer(q)) =>
      \E j \in 1 .. i - 1 : Carries(q, j, q)

\* The invariant of the conversation, whoever ends and whatever arrives.
Conversation == SessionType /\ InCall /\ Directed /\ OneFrame /\ Pending /\ Ahead

----------------------------------------------------------------------------
(* What a step of one thread does to the conversation                      *)

\* The peer of p is left as it is.
Alone(p) ==
  LET q == Hsms!Peer(p)
  IN /\ call'[q] = call[q] /\ ret'[q] = ret[q] /\ at'[q] = at[q]
     /\ nextSystemBytes'[q] = nextSystemBytes[q]

\* No data is added to q's inbox, and d frames are taken from it.
Moved(q, d) ==
  /\ \A i \in DOMAIN inbox'[q] :
       Hsms!IsData(inbox'[q][i]) =>
         i + d \in DOMAIN inbox[q] /\ inbox'[q][i] = inbox[q][i + d]
  /\ \A k \in DOMAIN inbox[q] :
       Hsms!IsData(inbox[q][k]) /\ k > d =>
         k - d \in DOMAIN inbox'[q] /\ inbox'[q][k - d] = inbox[q][k]

\* p starts no transaction and answers none.
Fades(p) ==
  /\ Alone(p)
  /\ (p = Host /\ at[p] = "start") \/ nextSystemBytes'[p] = nextSystemBytes[p]
  /\ Moved(Hsms!Peer(p), 0)
  /\ call'[p] = "transact" => call[p] = "transact"
  /\ Live(p)' => Live(p)
  /\ \/ /\ Moved(p, 0) \/ (Moved(p, 1) /\ inbox[p] # <<>> /\ ~Hsms!IsData(inbox[p][1]))
        /\ Live(p)' /\ call[p] = "transact" => call'[p] = "transact"
     \/ /\ Moved(p, 1) /\ inbox[p] # <<>>
        /\ Hsms!IsData(inbox[p][1])
        /\ call'[p] # "transact"
        /\ Live(p)' => Carries(p, 1, p)

\* p serves a data frame and answers it.
Serves(p) ==
  /\ Alone(p)
  /\ nextSystemBytes'[p] = nextSystemBytes[p]
  /\ call[p] = "serve_one" /\ call'[p] = "idle"
  /\ at'[p] = at[p]
  /\ inbox[p] # <<>> /\ Hsms!IsData(inbox[p][1])
  /\ ret'[p] = Hsms!Ok("serve_one", inbox[p][1])
  /\ inbox'[p] = Tail(inbox[p])
  /\ \E m \in Hsms!Frame :
       /\ Hsms!IsData(m) /\ ~m.w
       /\ m.owner = inbox[p][1].owner /\ m.index = inbox[p][1].index
       /\ inbox'[Hsms!Peer(p)] = Append(inbox[Hsms!Peer(p)], m)

\* p sends a primary; no primary of its peer is on its way to it.
Sends(p, function, body) ==
  /\ Alone(p)
  /\ nextSystemBytes'[p] = nextSystemBytes[p] + 1
  /\ Live(p) /\ call[p] = "idle" /\ call'[p] = "transact"
  /\ ~Offered(p)
  /\ inbox'[p] = inbox[p]
  /\ \E m \in Hsms!Frame :
       /\ Hsms!IsData(m) /\ m.w /\ m.owner = p /\ m.index = nextSystemBytes[p]
       /\ m.function = function /\ m.body = body
       /\ inbox'[Hsms!Peer(p)] = Append(inbox[Hsms!Peer(p)], m)

\* Each party has exactly one peer.
LEMMA PeerFacts ==
  ASSUME NEW p \in Party
  PROVE  /\ Hsms!Peer(p) \in Party /\ Hsms!Peer(p) # p /\ Hsms!Peer(Hsms!Peer(p)) = p
         /\ \A q \in Party : q = p \/ q = Hsms!Peer(p)
BY ThreadsDiffer DEF Party, Hsms!Peer

\* Data frames are records of data.
LEMMA FrameData ==
  ASSUME NEW m \in Hsms!Frame, Hsms!IsData(m)
  PROVE  /\ m \in Hsms!DataFrame
         /\ m.owner \in Party /\ m.index \in Nat /\ m.w \in BOOLEAN
<1>1. m \in Hsms!DataFrame
  BY DEF Hsms!Frame, Hsms!DataFrame, Hsms!ControlFrame, Hsms!IsData, Hsms!ExternalKinds
<1>2. QED BY <1>1 DEF Hsms!DataFrame, Hsms!Party, Party

\* The data frames of an inbox are.
LEMMA DataFacts ==
  ASSUME SessionType, NEW q \in Party, NEW i \in DOMAIN inbox[q], Hsms!IsData(inbox[q][i])
  PROVE  /\ inbox[q][i] \in Hsms!DataFrame
         /\ inbox[q][i].owner \in Party /\ inbox[q][i].index \in Nat
         /\ inbox[q][i].w \in BOOLEAN
<1>1. inbox[q][i] \in Hsms!Frame
  BY DEF SessionType
<1>2. QED BY <1>1, FrameData

\* A thread that has not started or has ended is inside of no call.
LEMMA CallFacts ==
  ASSUME InCall, NEW p \in Party, at[p] \in Ended \cup {"start", "recorded", "acknowledged"}
  PROVE  call[p] = "idle"
BY DEF InCall, CallOf, Ended

\* A live thread that is not waiting has no frame in flight.
LEMMA NoneOwned ==
  ASSUME SessionType, Directed, NEW p \in Party, Live(p), call[p] # "transact",
         NEW q \in Party, NEW i \in DOMAIN inbox[q]
  PROVE  ~Carries(q, i, p)
BY DEF Directed, Carries

\* A step of a thread that sends no data keeps the conversation in order.
LEMMA FadingKeepsConversation ==
  ASSUME Conversation, NEW p \in Party, Fades(p), SessionType', InCall'
  PROVE  Conversation'
<1>0. PICK o \in Party :
        /\ o = Hsms!Peer(p) /\ o # p /\ Hsms!Peer(o) = p
        /\ \A q \in Party : q = p \/ q = o
  BY PeerFacts
<1>1. PICK d \in {0, 1} :
        /\ Moved(p, d)
        /\ d = 1 => inbox[p] # <<>>
        /\ d = 1 /\ Hsms!IsData(inbox[p][1]) =>
             call'[p] # "transact" /\ (Live(p)' => Carries(p, 1, p))
        /\ Live(p)' /\ call[p] = "transact" /\ call'[p] # "transact" => d = 1 /\ Carries(p, 1, p)
  BY DEF Fades
<1> DEFINE D(q) == IF q = p THEN d ELSE 0
<1>2. \A q \in Party : Moved(q, D(q)) /\ D(q) \in {0, 1}
  BY <1>0, <1>1 DEF Fades
<1> HIDE DEF D
<1>3. \A q \in Party : \A i \in DOMAIN inbox'[q] :
        Hsms!IsData(inbox'[q][i]) =>
          /\ i + D(q) \in DOMAIN inbox[q]
          /\ inbox'[q][i] = inbox[q][i + D(q)]
  BY <1>2 DEF Moved
<1>4. \A q \in Party : \A k \in DOMAIN inbox[q] :
        Hsms!IsData(inbox[q][k]) /\ k > D(q) =>
          /\ k - D(q) \in DOMAIN inbox'[q]
          /\ inbox'[q][k - D(q)] = inbox[q][k]
  BY <1>2 DEF Moved
<1>5. \A q \in Party : (Live(q)' => Live(q)) /\ (call'[q] = "transact" => call[q] = "transact")
  BY <1>0 DEF Fades, Alone, Live
<1>6. \A q, r \in Party : \A i \in DOMAIN inbox[q] :
        Carries(q, i, r) => nextSystemBytes'[r] = nextSystemBytes[r]
  <2>1. at[p] = "start" => Live(p) /\ call[p] # "transact"
    BY CallFacts DEF Conversation, Live, Ended
  <2>2. at[p] = "start" => \A q \in Party : \A i \in DOMAIN inbox[q] : ~Carries(q, i, p)
    BY <2>1, NoneOwned DEF Conversation
  <2>3. QED BY <1>0, <2>2 DEF Fades, Alone
<1>7. Directed'
  <2> SUFFICES ASSUME NEW r \in Party, NEW q \in Party, NEW i \in DOMAIN inbox'[q],
                      Carries(q, i, r)'
               PROVE  /\ inbox'[q][i].w = (r # q)
                      /\ inbox'[q][i].index = Sent(r)'
                      /\ Live(r)' => call'[r] = "transact"
    BY DEF Directed
  <2> DEFINE k == i + D(q)
  <2>1. k \in DOMAIN inbox[q] /\ inbox'[q][i] = inbox[q][k] /\ Carries(q, k, r)
    BY <1>3 DEF Carries
  <2>2. /\ inbox[q][k].w = (r # q) /\ inbox[q][k].index = Sent(r)
        /\ Live(r) => call[r] = "transact"
    BY <2>1 DEF Conversation, Directed
  <2>3. Sent(r)' = Sent(r)
    BY <1>6, <2>1 DEF Sent
  <2>4. ASSUME Live(r)' PROVE call'[r] = "transact"
    <3>1. call[r] = "transact"
      BY <1>5, <2>2, <2>4
    <3>2. CASE r # p
      BY <1>0, <3>1, <3>2 DEF Fades, Alone
    <3>3. CASE r = p
      <4>1. SUFFICES ASSUME call'[p] # "transact" PROVE FALSE
        BY <3>3
      <4>2. d = 1 /\ Carries(p, 1, p)
        BY <1>1, <2>4, <3>1, <3>3, <4>1
      <4>3. 1 \in DOMAIN inbox[p]
        BY <1>1, <4>2 DEF Conversation, SessionType
      <4>4. q = p /\ k = 1
        BY <2>1, <3>3, <4>2, <4>3 DEF Conversation, OneFrame
      <4>5. k = i + 1 /\ i \in Nat \ {0}
        BY <4>2, <4>4 DEF D, SessionType
      <4>6. QED BY <4>4, <4>5
    <3>4. QED BY <3>2, <3>3
  <2>5. QED BY <2>1, <2>2, <2>3, <2>4
<1>8. OneFrame'
  <2> SUFFICES ASSUME NEW r \in Party, NEW q \in Party, NEW s \in Party,
                      NEW i \in DOMAIN inbox'[q], NEW j \in DOMAIN inbox'[s],
                      Carries(q, i, r)', Carries(s, j, r)'
               PROVE  q = s /\ i = j
    BY DEF OneFrame
  <2>1. /\ i + D(q) \in DOMAIN inbox[q] /\ Carries(q, i + D(q), r)
        /\ j + D(s) \in DOMAIN inbox[s] /\ Carries(s, j + D(s), r)
    BY <1>3 DEF Carries
  <2>2. q = s /\ i + D(q) = j + D(s)
    BY <2>1 DEF Conversation, OneFrame
  <2>3. i \in Nat /\ j \in Nat /\ D(q) \in Nat
    BY <1>2 DEF SessionType
  <2>4. QED BY <2>2, <2>3
<1>9. Pending'
  <2> SUFFICES ASSUME NEW r \in Party, call'[r] = "transact", Live(Hsms!Peer(r))'
               PROVE  \E q \in Party : \E i \in DOMAIN inbox'[q] : Carries(q, i, r)'
    BY DEF Pending
  <2>1. call[r] = "transact" /\ Live(Hsms!Peer(r))
    BY <1>5, PeerFacts
  <2>0. PICK q \in Party : \E k \in DOMAIN inbox[q] : Carries(q, k, r)
    BY <2>1 DEF Conversation, Pending
  <2>2. PICK k \in DOMAIN inbox[q] : Carries(q, k, r)
    BY <2>0
  <2>3. k > D(q)
    <3>1. k \in Nat \ {0}
      BY DEF Conversation, SessionType
    <3>2. SUFFICES ASSUME q = p, d = 1, k = 1 PROVE FALSE
      BY <1>2, <3>1 DEF D
    <3>3. Hsms!IsData(inbox[p][1])
      BY <2>2, <3>2 DEF Carries
    <3>4. call'[p] # "transact" /\ (Live(p)' => Carries(p, 1, p))
      BY <1>1, <3>2, <3>3
    <3>5. r # p
      BY <3>4
    <3>6. Hsms!Peer(r) = p
      BY <1>0, <3>5, PeerFacts
    <3>7. Carries(p, 1, p)
      BY <3>4, <3>6
    <3>8. QED BY <2>2, <3>2, <3>5, <3>7 DEF Carries
  <2>4. k - D(q) \in DOMAIN inbox'[q] /\ Carries(q, k - D(q), r)'
    BY <1>4, <2>2, <2>3 DEF Carries
  <2>5. QED BY <2>4
<1>10. Ahead'
  <2> SUFFICES ASSUME NEW q \in Party, NEW i \in DOMAIN inbox'[q],
                      call'[q] = "transact", Carries(q, i, Hsms!Peer(q))'
               PROVE  \E j \in 1 .. i - 1 : Carries(q, j, q)'
    BY DEF Ahead
  <2>0. i \in Nat \ {0} /\ D(q) \in {0, 1}
    BY <1>2 DEF SessionType
  <2>1. PICK n \in DOMAIN inbox[q] : n = i + D(q) /\ Carries(q, n, Hsms!Peer(q))
    BY <1>3 DEF Carries
  <2>2. call[q] = "transact"
    BY <1>5
  <2>3. PICK k \in 1 .. n - 1 : Carries(q, k, q)
    BY <2>1, <2>2 DEF Conversation, Ahead
  <2>4. n \in 1 .. Len(inbox[q]) /\ k \in DOMAIN inbox[q]
    BY <2>1, <2>3 DEF Conversation, SessionType
  <2>5. k > D(q)
    <3>1. SUFFICES ASSUME q = p, d = 1, k = 1 PROVE FALSE
      BY <1>2, <2>0, <2>3 DEF D
    <3>2. QED BY <1>1, <2>3, <3>1 DEF Carries
  <2>6. k - D(q) \in DOMAIN inbox'[q] /\ Carries(q, k - D(q), q)'
    BY <1>4, <2>3, <2>4, <2>5 DEF Carries
  <2>7. k - D(q) \in 1 .. i - 1
    BY <2>0, <2>1, <2>3, <2>4, <2>5
  <2>8. QED BY <2>6, <2>7
<1>11. QED BY <1>7, <1>8, <1>9, <1>10 DEF Conversation

\* What a live thread serves is the primary of its peer.
LEMMA ServedIsPrimary ==
  ASSUME SessionType, InCall, Directed, NEW p \in Party,
         call[p] = "serve_one", inbox[p] # <<>>, Hsms!IsData(inbox[p][1])
  PROVE  /\ 1 \in DOMAIN inbox[p] /\ Live(p)
         /\ Carries(p, 1, Hsms!Peer(p)) /\ inbox[p][1].w /\ Offered(p)
         /\ inbox[p][1].index = Sent(Hsms!Peer(p))
         /\ Live(Hsms!Peer(p)) => call[Hsms!Peer(p)] = "transact"
<1>1. 1 \in DOMAIN inbox[p]
  BY DEF SessionType
<1>2. Live(p)
  BY CallFacts DEF Live
<1>3. inbox[p][1].owner \in Party
  BY <1>1, DataFacts
<1>4. Carries(p, 1, Hsms!Peer(p))
  BY <1>1, <1>2, <1>3, NoneOwned, PeerFacts DEF Carries
<1>5. Offered(p)
  BY <1>1, <1>4 DEF Offered, Flight, Carries
<1>6. QED BY <1>1, <1>2, <1>4, <1>5, PeerFacts DEF Directed

\* So does one that answers what it reads.
LEMMA ServingKeepsConversation ==
  ASSUME Conversation, NEW p \in Party, Serves(p), SessionType', InCall'
  PROVE  Conversation'
<1>0. PICK o \in Party :
        /\ o = Hsms!Peer(p) /\ o # p /\ Hsms!Peer(o) = p
        /\ \A q \in Party : q = p \/ q = o
  BY PeerFacts
<1>1. /\ 1 \in DOMAIN inbox[p] /\ Live(p)
      /\ Carries(p, 1, o) /\ inbox[p][1].index = Sent(o)
      /\ Live(o) => call[o] = "transact"
  BY <1>0, ServedIsPrimary DEF Conversation, Serves
<1>2. PICK m \in Hsms!Frame :
        /\ Hsms!IsData(m) /\ ~m.w /\ m.owner = o /\ m.index = Sent(o)
        /\ inbox'[o] = Append(inbox[o], m)
  BY <1>0, <1>1 DEF Serves, Carries
<1>n. PICK n \in Nat \ {0} : n = Len(inbox[o]) + 1
  BY <1>0 DEF Conversation, SessionType
<1>3. /\ \A i \in DOMAIN inbox'[p] : i + 1 \in DOMAIN inbox[p] /\ inbox'[p][i] = inbox[p][i + 1]
      /\ DOMAIN inbox'[o] = 1 .. n /\ DOMAIN inbox[o] = 1 .. n - 1
      /\ inbox'[o][n] = m
      /\ \A i \in 1 .. n - 1 : inbox'[o][i] = inbox[o][i]
  <2>1. inbox[p] \in Seq(Hsms!Frame) /\ inbox[o] \in Seq(Hsms!Frame)
    BY <1>0 DEF Conversation, SessionType
  <2>2. inbox'[p] = Tail(inbox[p]) /\ inbox[p] # <<>>
    BY DEF Serves
  <2>3. \A i \in DOMAIN inbox'[p] : i + 1 \in DOMAIN inbox[p] /\ inbox'[p][i] = inbox[p][i + 1]
    BY <2>1, <2>2
  <2>4. QED BY <1>2, <1>n, <2>1, <2>3
<1>4. /\ ~ \E i \in DOMAIN inbox[o] : Carries(o, i, o)
      /\ ~ \E i \in DOMAIN inbox'[p] : Carries(p, i, o)'
  <2>1. \A i \in DOMAIN inbox[o] : ~Carries(o, i, o)
    BY <1>0, <1>1 DEF Conversation, OneFrame
  <2>2. ASSUME NEW i \in DOMAIN inbox'[p], Carries(p, i, o)' PROVE FALSE
    <3>1. i + 1 \in DOMAIN inbox[p] /\ Carries(p, i + 1, o)
      BY <1>3, <2>2 DEF Carries
    <3>2. i + 1 = 1 /\ i \in Nat \ {0}
      BY <1>0, <1>1, <3>1 DEF Conversation, OneFrame, SessionType
    <3>3. QED BY <3>2
  <2>3. QED BY <2>1, <2>2
<1>5. \A q \in Party : \A i \in DOMAIN inbox[q] : ~Carries(q, i, p)
  BY <1>1, NoneOwned DEF Conversation, Serves
<1>6. \A q \in Party : \A i \in DOMAIN inbox'[q] : ~Carries(q, i, p)'
  BY <1>0, <1>2, <1>3, <1>5 DEF Carries
<1>7. \A q \in Party : \A i \in DOMAIN inbox'[q] : Carries(q, i, o)' => q = o /\ i = n
  BY <1>0, <1>3, <1>4 DEF Carries
<1>8. Carries(o, n, o)' /\ n \in DOMAIN inbox'[o]
  BY <1>2, <1>3 DEF Carries
<1>9. /\ Sent(o)' = Sent(o)
      /\ Live(o)' => Live(o)
      /\ call'[o] = call[o] /\ call'[p] = "idle"
  BY <1>0 DEF Serves, Alone, Sent, Live
<1>10. Directed'
  <2> SUFFICES ASSUME NEW r \in Party, NEW q \in Party, NEW i \in DOMAIN inbox'[q],
                      Carries(q, i, r)'
               PROVE  /\ inbox'[q][i].w = (r # q)
                      /\ inbox'[q][i].index = Sent(r)'
                      /\ Live(r)' => call'[r] = "transact"
    BY DEF Directed
  <2>1. r = o /\ q = o /\ i = n
    BY <1>0, <1>6, <1>7
  <2>2. inbox'[q][i] = m /\ m.w = FALSE
    BY <1>2, <1>3, <2>1, FrameData
  <2>3. inbox'[q][i].w = (r # q) /\ inbox'[q][i].index = Sent(r)'
    BY <1>2, <1>9, <2>1, <2>2
  <2>4. ASSUME Live(r)' PROVE call'[r] = "transact"
    BY <1>1, <1>9, <2>1, <2>4
  <2>5. QED BY <2>3, <2>4
<1>11. OneFrame'
  BY <1>0, <1>6, <1>7 DEF OneFrame
<1>12. Pending'
  BY <1>0, <1>8, <1>9 DEF Pending
<1>13. Ahead'
  BY <1>0, <1>6, <1>9 DEF Ahead
<1>14. QED BY <1>10, <1>11, <1>12, <1>13 DEF Conversation

\* And one that sends a primary while none of the peer's is on its way.
LEMMA SendingKeepsConversation ==
  ASSUME Conversation, NEW p \in Party, NEW function, NEW body,
         Sends(p, function, body), SessionType', InCall'
  PROVE  Conversation'
<1>0. PICK o \in Party :
        /\ o = Hsms!Peer(p) /\ o # p /\ Hsms!Peer(o) = p
        /\ \A q \in Party : q = p \/ q = o
  BY PeerFacts
<1>1. PICK m \in Hsms!Frame :
        /\ Hsms!IsData(m) /\ m.w /\ m.owner = p /\ m.index = nextSystemBytes[p]
        /\ inbox'[o] = Append(inbox[o], m)
  BY <1>0 DEF Sends
<1>n. PICK n \in Nat \ {0} : n = Len(inbox[o]) + 1
  BY <1>0 DEF Conversation, SessionType
<1>2. /\ inbox'[p] = inbox[p]
      /\ DOMAIN inbox'[o] = 1 .. n /\ DOMAIN inbox[o] = 1 .. n - 1
      /\ inbox'[o][n] = m
      /\ \A i \in 1 .. n - 1 : inbox'[o][i] = inbox[o][i]
  BY <1>0, <1>1, <1>n DEF Sends, Conversation, SessionType
<1>3. \A q \in Party : \A i \in DOMAIN inbox[q] : ~Carries(q, i, p)
  BY NoneOwned DEF Conversation, Sends
<1>4. \A i \in DOMAIN inbox[p] : ~Carries(p, i, o)
  BY <1>0 DEF Sends, Offered, Flight, Carries
<1>5. \A q \in Party : \A i \in DOMAIN inbox'[q] : Carries(q, i, p)' => q = o /\ i = n
  BY <1>0, <1>2, <1>3 DEF Carries
<1>6. Carries(o, n, p)' /\ n \in DOMAIN inbox'[o]
  BY <1>1, <1>2 DEF Carries
<1>7. \A q \in Party : \A i \in DOMAIN inbox'[q] :
        Carries(q, i, o)' => q = o /\ i \in DOMAIN inbox[o] /\ Carries(o, i, o)
  BY <1>0, <1>1, <1>2, <1>4 DEF Carries
<1>8. /\ Sent(o)' = Sent(o) /\ Sent(p)' = nextSystemBytes[p]
      /\ Live(o)' => Live(o)
      /\ call'[o] = call[o] /\ call'[p] = "transact" /\ Live(p)
  BY <1>0 DEF Sends, Alone, Sent, Live, Conversation, SessionType
<1>9. Directed'
  <2> SUFFICES ASSUME NEW r \in Party, NEW q \in Party, NEW i \in DOMAIN inbox'[q],
                      Carries(q, i, r)'
               PROVE  /\ inbox'[q][i].w = (r # q)
                      /\ inbox'[q][i].index = Sent(r)'
                      /\ Live(r)' => call'[r] = "transact"
    BY DEF Directed
  <2>1. CASE r = p
    <3>1. q = o /\ i = n
      BY <1>5, <2>1
    <3>2. inbox'[q][i] = m /\ m.w = TRUE
      BY <1>1, <1>2, <3>1, FrameData
    <3>3. QED BY <1>0, <1>1, <1>8, <2>1, <3>1, <3>2
  <2>2. CASE r = o
    <3>1. q = o /\ i \in DOMAIN inbox[o] /\ Carries(o, i, o)
      BY <1>7, <2>2
    <3>2. inbox'[o][i] = inbox[o][i]
      BY <1>2, <3>1
    <3>3. QED BY <1>8, <2>2, <3>1, <3>2 DEF Conversation, Directed
  <2>3. QED BY <1>0, <2>1, <2>2
<1>10. OneFrame'
  BY <1>0, <1>5, <1>7 DEF Conversation, OneFrame
<1>11. call[o] = "transact" => \E i \in DOMAIN inbox[o] : Carries(o, i, o)
  <2>1. SUFFICES ASSUME call[o] = "transact" PROVE \E i \in DOMAIN inbox[o] : Carries(o, i, o)
    OBVIOUS
  <2>2. PICK q \in Party : \E i \in DOMAIN inbox[q] : Carries(q, i, o)
    BY <1>0, <1>8, <2>1 DEF Conversation, Pending
  <2>3. QED BY <1>0, <1>4, <2>2
<1>12. Pending'
  <2>1. \A i \in DOMAIN inbox[o] : Carries(o, i, o) => Carries(o, i, o)' /\ i \in DOMAIN inbox'[o]
    BY <1>2 DEF Carries
  <2>2. QED BY <1>0, <1>6, <1>8, <1>11, <2>1 DEF Pending
<1>13. Ahead'
  <2> SUFFICES ASSUME NEW q \in Party, NEW i \in DOMAIN inbox'[q],
                      call'[q] = "transact", Carries(q, i, Hsms!Peer(q))'
               PROVE  \E j \in 1 .. i - 1 : Carries(q, j, q)'
    BY DEF Ahead
  <2>1. q = o /\ i = n
    BY <1>0, <1>5, <1>7
  <2>2. PICK j \in DOMAIN inbox[o] : Carries(o, j, o)
    BY <1>8, <1>11, <2>1
  <2>3. j \in 1 .. n - 1 /\ Carries(o, j, o)'
    BY <1>2, <2>2 DEF Carries
  <2>4. QED BY <2>1, <2>3
<1>14. QED BY <1>9, <1>10, <1>12, <1>13 DEF Conversation

----------------------------------------------------------------------------
(* What becomes of the data in flight                                      *)

\* Fading adds nothing to it and takes nothing that a live thread is offered.
LEMMA FadingData ==
  ASSUME Conversation, NEW p \in Party, Fades(p)
  PROVE  /\ \A q \in Party : Flight(q)' \subseteq Flight(q)
         /\ Flight(Hsms!Peer(p))' = Flight(Hsms!Peer(p))
         /\ Live(p)' => \A m \in Flight(p) : m.owner # p => m \in Flight(p)'
<1>0. PICK o \in Party :
        /\ o = Hsms!Peer(p) /\ o # p /\ Hsms!Peer(o) = p
        /\ \A q \in Party : q = p \/ q = o
  BY PeerFacts
<1>1. ASSUME NEW q \in Party, NEW d \in {0, 1}, Moved(q, d) PROVE Flight(q)' \subseteq Flight(q)
  BY <1>1 DEF Moved, Flight
<1>2. ASSUME NEW q \in Party, Moved(q, 0) PROVE Flight(q) \subseteq Flight(q)'
  <2>1. SUFFICES ASSUME NEW k \in DOMAIN inbox[q], Hsms!IsData(inbox[q][k])
                 PROVE  inbox[q][k] \in Flight(q)'
    BY DEF Flight
  <2>2. k \in Nat \ {0} /\ k - 0 = k
    BY DEF Conversation, SessionType
  <2>3. k \in DOMAIN inbox'[q] /\ inbox'[q][k] = inbox[q][k]
    BY <1>2, <2>1, <2>2 DEF Moved
  <2>4. QED BY <2>1, <2>3 DEF Flight
<1>3. PICK d \in {0, 1} :
        /\ Moved(p, d) /\ Moved(o, 0)
        /\ d = 1 => inbox[p] # <<>>
        /\ d = 1 /\ Hsms!IsData(inbox[p][1]) => (Live(p)' => Carries(p, 1, p))
  BY <1>0 DEF Fades
<1>4. ASSUME Live(p)', NEW m \in Flight(p), m.owner # p PROVE m \in Flight(p)'
  <2>1. PICK k \in DOMAIN inbox[p] : m = inbox[p][k] /\ Hsms!IsData(inbox[p][k])
    BY DEF Flight
  <2>2. k \in Nat \ {0} /\ k - d \in Int
    BY DEF Conversation, SessionType
  <2>3. k > d
    BY <1>3, <1>4, <2>1, <2>2 DEF Carries
  <2>4. k - d \in DOMAIN inbox'[p] /\ inbox'[p][k - d] = inbox[p][k]
    BY <1>3, <2>1, <2>3 DEF Moved
  <2>5. QED BY <2>1, <2>4 DEF Flight
<1>5. QED BY <1>0, <1>1, <1>2, <1>3, <1>4

\* So a live thread stays as offered as it was, and nobody is answered.
LEMMA FadingOffers ==
  ASSUME Conversation, NEW p \in Party, Fades(p)
  PROVE  /\ \A q \in Party : (Offered(q)' => Offered(q)) /\ (Answered(q)' => Answered(q))
         /\ \A q \in Party : Live(q)' => (Offered(q) => Offered(q)') /\ Live(q)
         /\ Offered(Hsms!Peer(p)) => Offered(Hsms!Peer(p))'
<1>0. PICK o \in Party :
        /\ o = Hsms!Peer(p) /\ o # p /\ Hsms!Peer(o) = p
        /\ \A q \in Party : q = p \/ q = o
  BY PeerFacts
<1>1. /\ \A q \in Party : Flight(q)' \subseteq Flight(q)
      /\ Flight(o)' = Flight(o)
      /\ Live(p)' => \A m \in Flight(p) : m.owner # p => m \in Flight(p)'
  BY <1>0, FadingData
<1>2. Live(p)' => Live(p)
  BY DEF Fades
<1>3. Live(o)' => Live(o)
  BY <1>0 DEF Fades, Alone, Live
<1>4. Live(p)' => (Offered(p) => Offered(p)')
  BY <1>0, <1>1 DEF Offered
<1>5. Offered(o) => Offered(o)'
  BY <1>1 DEF Offered
<1>6. \A q \in Party : (Offered(q)' => Offered(q)) /\ (Answered(q)' => Answered(q))
  BY <1>1 DEF Offered, Answered
<1>7. QED BY <1>0, <1>2, <1>3, <1>4, <1>5, <1>6

\* The thread that serves is offered no more, and its peer is answered.
LEMMA ServingOffers ==
  ASSUME Conversation, NEW p \in Party, Serves(p)
  PROVE  /\ Live(p) /\ Offered(p) /\ ~Offered(p)' /\ ~Answered(p) /\ ~Answered(p)'
         /\ ~Offered(Hsms!Peer(p)) /\ ~Offered(Hsms!Peer(p))'
         /\ inbox[p][1] \in Flight(p)
         /\ inbox[p][1].w /\ inbox[p][1].owner = Hsms!Peer(p)
         /\ inbox[p][1].index = Sent(Hsms!Peer(p))
         /\ Flight(p)' \subseteq Flight(p)
         /\ \A m \in Flight(Hsms!Peer(p))' : m.w => m \in Flight(Hsms!Peer(p))
<1>0. PICK o \in Party :
        /\ o = Hsms!Peer(p) /\ o # p /\ Hsms!Peer(o) = p
        /\ \A q \in Party : q = p \/ q = o
  BY PeerFacts
<1>1. /\ 1 \in DOMAIN inbox[p] /\ Live(p)
      /\ Carries(p, 1, o) /\ inbox[p][1].w /\ Offered(p)
      /\ inbox[p][1].index = Sent(o)
  BY <1>0, ServedIsPrimary DEF Conversation, Serves
<1>2. PICK m \in Hsms!Frame :
        /\ Hsms!IsData(m) /\ ~m.w /\ m.owner = o
        /\ inbox'[o] = Append(inbox[o], m)
  BY <1>0, <1>1 DEF Serves, Carries
<1>3. \A i \in DOMAIN inbox'[p] : i + 1 \in DOMAIN inbox[p] /\ inbox'[p][i] = inbox[p][i + 1]
  <2>1. inbox[p] \in Seq(Hsms!Frame)
    BY DEF Conversation, SessionType
  <2>2. inbox'[p] = Tail(inbox[p]) /\ inbox[p] # <<>>
    BY DEF Serves
  <2>3. QED BY <2>1, <2>2
<1>4. \A q \in Party : \A m1 \in Flight(q) : m1.owner # p
  BY <1>1, NoneOwned DEF Conversation, Serves, Flight, Carries
<1>5. \A m1 \in Flight(o)' : m1 = m \/ m1 \in Flight(o)
  <2>1. inbox[o] \in Seq(Hsms!Frame)
    BY <1>0 DEF Conversation, SessionType
  <2>2. \A i \in DOMAIN inbox'[o] :
          inbox'[o][i] = m \/ (i \in DOMAIN inbox[o] /\ inbox'[o][i] = inbox[o][i])
    BY <1>2, <2>1
  <2>3. QED BY <2>2 DEF Flight
<1>6. Flight(p)' \subseteq Flight(p)
  BY <1>3 DEF Flight
<1>7. ~Offered(p)'
  <2>1. SUFFICES ASSUME NEW i \in DOMAIN inbox'[p], Hsms!IsData(inbox'[p][i]),
                        inbox'[p][i].owner = o
                 PROVE  FALSE
    BY <1>0 DEF Offered, Flight
  <2>2. i + 1 \in DOMAIN inbox[p] /\ Carries(p, i + 1, o)
    BY <1>3, <2>1 DEF Carries
  <2>3. i + 1 = 1
    BY <1>0, <1>1, <2>2 DEF Conversation, OneFrame
  <2>4. i \in Nat \ {0}
    BY <2>2, <1>3 DEF Conversation, SessionType, Serves
  <2>5. QED BY <2>3, <2>4
<1>8. ~Answered(p) /\ ~Answered(p)'
  BY <1>4, <1>6 DEF Answered
<1>9. ~Offered(o)
  BY <1>0, <1>4 DEF Offered
<1>10. ~Offered(o)'
  BY <1>0, <1>2, <1>4, <1>5 DEF Offered
<1>11. inbox[p][1] \in Flight(p)
  BY <1>1 DEF Carries, Flight
<1>12. QED
  BY <1>0, <1>1, <1>2, <1>5, <1>6, <1>7, <1>8, <1>9, <1>10, <1>11 DEF Carries

\* The peer of a thread that sends is offered a primary.
LEMMA SendingOffers ==
  ASSUME Conversation, NEW p \in Party, NEW function, NEW body, Sends(p, function, body)
  PROVE  /\ ~Offered(p) /\ ~Offered(p)' /\ ~Answered(p) /\ ~Answered(p)'
         /\ ~Offered(Hsms!Peer(p)) /\ Offered(Hsms!Peer(p))'
         /\ Answered(Hsms!Peer(p))' => Answered(Hsms!Peer(p))
         /\ Flight(p)' = Flight(p)
         /\ \A m \in Flight(Hsms!Peer(p))' :
              \/ m \in Flight(Hsms!Peer(p))
              \/ /\ m.w /\ m.owner = p /\ m.index = nextSystemBytes[p]
                 /\ m.function = function /\ m.body = body
<1>0. PICK o \in Party :
        /\ o = Hsms!Peer(p) /\ o # p /\ Hsms!Peer(o) = p
        /\ \A q \in Party : q = p \/ q = o
  BY PeerFacts
<1>1. PICK m \in Hsms!Frame :
        /\ Hsms!IsData(m) /\ m.w /\ m.owner = p /\ m.index = nextSystemBytes[p]
        /\ m.function = function /\ m.body = body
        /\ inbox'[o] = Append(inbox[o], m)
  BY <1>0 DEF Sends
<1>2. Flight(p)' = Flight(p)
  BY DEF Sends, Flight
<1>3. \A q \in Party : \A m1 \in Flight(q) : m1.owner # p
  BY NoneOwned DEF Conversation, Sends, Flight, Carries
<1>4. /\ \A m1 \in Flight(o)' : m1 = m \/ m1 \in Flight(o)
      /\ m \in Flight(o)'
  <2>1. inbox[o] \in Seq(Hsms!Frame)
    BY <1>0 DEF Conversation, SessionType
  <2>2. \A i \in DOMAIN inbox'[o] :
          inbox'[o][i] = m \/ (i \in DOMAIN inbox[o] /\ inbox'[o][i] = inbox[o][i])
    BY <1>1, <2>1
  <2>3. Len(inbox[o]) + 1 \in DOMAIN inbox'[o] /\ inbox'[o][Len(inbox[o]) + 1] = m
    BY <1>1, <2>1
  <2>4. m \in Flight(o)'
    BY <1>1, <2>3 DEF Flight
  <2>5. QED BY <2>2, <2>4 DEF Flight
<1>5. ~Offered(p) /\ ~Offered(p)'
  BY <1>2 DEF Sends, Offered
<1>6. ~Answered(p) /\ ~Answered(p)'
  BY <1>2, <1>3 DEF Answered
<1>7. ~Offered(o) /\ Offered(o)'
  BY <1>0, <1>1, <1>3, <1>4 DEF Offered
<1>8. Answered(o)' => Answered(o)
  BY <1>0, <1>1, <1>4 DEF Answered
<1>9. QED BY <1>0, <1>1, <1>2, <1>4, <1>5, <1>6, <1>7, <1>8

----------------------------------------------------------------------------
(* Every step of a thread is of one of these kinds                         *)

\* A thread returns with a frame only from a call that waits for one.
Quiet(p) ==
  /\ Fades(p)
  /\ call'[p] = "idle" /\ ret'[p].ok =>
       \/ call[p] \in {"select", "accept_select"}
       \/ call[p] = "transact" /\ Answered(p)

\* Control frames are frames and no data.
LEMMA ControlFrames ==
  /\ \A kind \in Hsms!ExternalKinds :
       Hsms!Control(kind) \in Hsms!Frame /\ ~Hsms!IsData(Hsms!Control(kind))
  /\ \A status \in Hsms!SelectStatus :
       Hsms!SelectRsp(status) \in Hsms!Frame /\ ~Hsms!IsData(Hsms!SelectRsp(status))
BY DEF Hsms!Frame, Hsms!ControlFrame, Hsms!Control, Hsms!SelectRsp, Hsms!IsData,
       Hsms!ExternalKinds

\* An inbox nothing happens to, one that is read and one that gets a control
\* frame move as Moved says.
LEMMA InboxMoves ==
  ASSUME SessionType, NEW q \in Party
  PROVE  /\ inbox'[q] = inbox[q] => Moved(q, 0)
         /\ inbox[q] # <<>> /\ inbox'[q] = Tail(inbox[q]) => Moved(q, 1)
         /\ \A m \in Hsms!Frame :
              ~Hsms!IsData(m) /\ inbox'[q] = Append(inbox[q], m) => Moved(q, 0)
<1>1. inbox[q] \in Seq(Hsms!Frame)
  BY DEF SessionType
<1>2. DOMAIN inbox[q] \subseteq Nat \ {0} /\ \A i \in Nat : i + 0 = i /\ i - 0 = i
  BY <1>1
<1>3. ASSUME inbox'[q] = inbox[q] PROVE Moved(q, 0)
  BY <1>2, <1>3 DEF Moved
<1>4. ASSUME inbox[q] # <<>>, inbox'[q] = Tail(inbox[q]) PROVE Moved(q, 1)
  <2>1. \A i \in DOMAIN inbox'[q] : i + 1 \in DOMAIN inbox[q] /\ inbox'[q][i] = inbox[q][i + 1]
    BY <1>1, <1>4
  <2>2. \A k \in DOMAIN inbox[q] :
          k > 1 => k - 1 \in DOMAIN inbox'[q] /\ inbox'[q][k - 1] = inbox[q][k]
    BY <1>1, <1>4
  <2>3. QED BY <2>1, <2>2 DEF Moved
<1>5. ASSUME NEW m \in Hsms!Frame, ~Hsms!IsData(m), inbox'[q] = Append(inbox[q], m)
      PROVE  Moved(q, 0)
  <2>1. \A i \in DOMAIN inbox'[q] :
          inbox'[q][i] = m \/ (i \in DOMAIN inbox[q] /\ inbox'[q][i] = inbox[q][i])
    BY <1>1, <1>5
  <2>2. \A k \in DOMAIN inbox[q] : k \in DOMAIN inbox'[q] /\ inbox'[q][k] = inbox[q][k]
    BY <1>1, <1>5
  <2>3. \A i \in DOMAIN inbox'[q] : i \in Nat
    BY <1>1, <1>5
  <2>4. QED BY <1>2, <1>5, <2>1, <2>2, <2>3 DEF Moved
<1>6. QED BY <1>3, <1>4, <1>5

\* What the three ways of using the pipe do to the two inboxes.
LEMMA PipeEffects ==
  ASSUME SessionType, NEW p \in Party
  PROVE  /\ \A m \in Hsms!Frame : Hsms!Writes(p, m) =>
              /\ inbox' \in [Party -> Seq(Hsms!Frame)]
              /\ inbox'[p] = inbox[p]
              /\ inbox'[Hsms!Peer(p)] = Append(inbox[Hsms!Peer(p)], m)
         /\ inbox[p] # <<>> /\ Hsms!Reads(p) =>
              /\ inbox' \in [Party -> Seq(Hsms!Frame)]
              /\ inbox'[p] = Tail(inbox[p])
              /\ inbox'[Hsms!Peer(p)] = inbox[Hsms!Peer(p)]
         /\ \A m \in Hsms!Frame : inbox[p] # <<>> /\ Hsms!Answers(p, m) =>
              /\ inbox' \in [Party -> Seq(Hsms!Frame)]
              /\ inbox'[p] = Tail(inbox[p])
              /\ inbox'[Hsms!Peer(p)] = Append(inbox[Hsms!Peer(p)], m)
<1>1. Hsms!Peer(p) \in Party /\ Hsms!Peer(p) # p
  BY PeerFacts
<1>2. inbox \in [Party -> Seq(Hsms!Frame)]
  BY DEF SessionType
<1>3. inbox[p] # <<>> => Tail(inbox[p]) \in Seq(Hsms!Frame)
  BY <1>2
<1>4. \A m \in Hsms!Frame : Append(inbox[Hsms!Peer(p)], m) \in Seq(Hsms!Frame)
  BY <1>1, <1>2
<1>5. QED BY <1>1, <1>2, <1>3, <1>4 DEF Hsms!Writes, Hsms!Reads, Hsms!Answers

\* A thread inside of a call is live.
LEMMA InsideFacts ==
  ASSUME InCall, NEW p \in Party, call[p] # "idle"
  PROVE  /\ Live(p) /\ call[p] = CallOf[at[p]]
         /\ at[p] \notin Ended \cup {"start", "recorded", "acknowledged"}
BY DEF InCall, Live, CallOf, Ended

\* A read loop that answers a control frame goes on.
LEMMA GoesOn ==
  ASSUME Conversation, NEW p \in Party, call[p] # "idle",
         UNCHANGED <<call, ret, nextSystemBytes, at>>,
         inbox[p] # <<>>, ~Hsms!IsData(inbox[p][1]),
         NEW m \in Hsms!Frame, ~Hsms!IsData(m), Hsms!Answers(p, m)
  PROVE  Quiet(p) /\ SessionType' /\ InCall'
<1>0. Hsms!Peer(p) \in Party
  BY PeerFacts
<1>1. /\ inbox' \in [Party -> Seq(Hsms!Frame)]
      /\ inbox'[p] = Tail(inbox[p])
      /\ inbox'[Hsms!Peer(p)] = Append(inbox[Hsms!Peer(p)], m)
  BY PipeEffects DEF Conversation
<1>2. Moved(p, 1) /\ Moved(Hsms!Peer(p), 0)
  BY <1>0, <1>1, InboxMoves DEF Conversation
<1>3. SessionType' /\ InCall'
  BY <1>1 DEF Conversation, SessionType, InCall
<1>4. Live(p)' => Live(p)
  BY DEF Live
<1>5. QED BY <1>2, <1>3, <1>4 DEF Quiet, Fades, Alone

\* A read loop that returns, or fails, over something that is not served.
LEMMA ComesBack ==
  ASSUME Conversation, NEW p \in Party, call[p] # "idle",
         UNCHANGED <<nextSystemBytes, at>>,
         NEW r \in Hsms!Return, Hsms!Returns(p, r),
         \/ UNCHANGED inbox /\ ~r.ok
         \/ inbox[p] # <<>> /\ Hsms!Reads(p)
         \/ \E m \in Hsms!Frame :
              inbox[p] # <<>> /\ ~Hsms!IsData(m) /\ Hsms!Answers(p, m),
         r.ok => \/ call[p] \in {"select", "accept_select"} /\ ~Hsms!IsData(inbox[p][1])
                 \/ call[p] = "transact" /\ Hsms!IsData(inbox[p][1]) /\ inbox[p][1].owner = p
  PROVE  Quiet(p) /\ SessionType' /\ InCall'
<1>0. Hsms!Peer(p) \in Party /\ Hsms!Peer(p) # p
  BY PeerFacts
<1>1. /\ inbox' \in [Party -> Seq(Hsms!Frame)]
      /\ Moved(Hsms!Peer(p), 0)
      /\ Moved(p, 0) \/ (Moved(p, 1) /\ inbox[p] # <<>>)
      /\ r.ok => Moved(p, 1) /\ inbox[p] # <<>>
  <2>1. CASE UNCHANGED inbox /\ ~r.ok
    BY <1>0, <2>1, InboxMoves DEF Conversation, SessionType
  <2>2. CASE inbox[p] # <<>> /\ Hsms!Reads(p)
    BY <1>0, <2>2, InboxMoves, PipeEffects DEF Conversation
  <2>3. CASE \E m \in Hsms!Frame :
              inbox[p] # <<>> /\ ~Hsms!IsData(m) /\ Hsms!Answers(p, m)
    BY <1>0, <2>3, InboxMoves, PipeEffects DEF Conversation
  <2>4. QED BY <2>1, <2>2, <2>3
<1>2. /\ call' = [call EXCEPT ![p] = "idle"] /\ ret' = [ret EXCEPT ![p] = r]
      /\ call \in [Party -> Hsms!Operation \cup {"idle"}] /\ ret \in [Party -> Hsms!Return]
  BY DEF Hsms!Returns, Conversation, SessionType
<1>3. SessionType'
  BY <1>1, <1>2 DEF Conversation, SessionType
<1>4. Live(p) /\ at[p] \notin {"start", "recorded", "acknowledged"}
  BY InsideFacts DEF Conversation
<1>5. InCall'
  BY <1>2, <1>4 DEF Conversation, InCall
<1>6. /\ Alone(p) /\ call'[p] = "idle" /\ ret'[p] = r
      /\ Live(p)' => r.ok
  BY <1>0, <1>2, <1>4 DEF Alone, Live
<1>7. 1 \in DOMAIN inbox[p] \/ inbox[p] = <<>>
  BY DEF Conversation, SessionType
<1>8. r.ok /\ call[p] = "transact" => Answered(p) /\ Carries(p, 1, p)
  BY <1>1, <1>7 DEF Answered, Flight, Carries
<1>9. Fades(p)
  <2>1. CASE r.ok
    BY <1>1, <1>4, <1>6, <1>8, <2>1 DEF Fades
  <2>2. CASE ~r.ok
    BY <1>1, <1>4, <1>6, <2>2 DEF Fades
  <2>3. QED BY <2>1, <2>2
<1>10. Quiet(p)
  BY <1>6, <1>8, <1>9 DEF Quiet
<1>11. QED BY <1>3, <1>5, <1>10

\* What a session returns is a return.
LEMMA ReturnFacts ==
  ASSUME SessionType, NEW p \in Party
  PROVE  /\ \A op \in Hsms!Operation : Hsms!Err(op) \in Hsms!Return /\ ~Hsms!Err(op).ok
         /\ \A op \in Hsms!Operation : Hsms!Ok(op, Hsms!NoFrame) \in Hsms!Return
         /\ inbox[p] # <<>> /\ Hsms!IsData(inbox[p][1]) =>
              \A op \in Hsms!Operation : Hsms!Ok(op, inbox[p][1]) \in Hsms!Return
<1>1. inbox[p] # <<>> /\ Hsms!IsData(inbox[p][1]) => inbox[p][1] \in Hsms!DataFrame
  <2>1. inbox[p] # <<>> => 1 \in DOMAIN inbox[p]
    BY DEF SessionType
  <2>2. QED BY <2>1, DataFacts
<1>2. QED BY <1>1 DEF Hsms!Err, Hsms!Ok, Hsms!Return

\* A frame of another kind than data is no data, and what is at the head of
\* an inbox is its first frame.
LEMMA HeadFacts ==
  ASSUME SessionType, NEW p \in Party
  PROVE  /\ inbox[p] # <<>> => Head(inbox[p]) = inbox[p][1] /\ 1 \in DOMAIN inbox[p]
         /\ \A kinds : Hsms!HeadIs(p, kinds) =>
              inbox[p] # <<>> /\ ("Data" \notin kinds => ~Hsms!IsData(inbox[p][1]))
BY DEF SessionType, Hsms!HeadIs, Hsms!IsData

\* The secondary a session builds is a data frame of the primary's transaction.
LEMMA SecondaryFacts ==
  ASSUME NEW m \in Hsms!DataFrame, NEW reply \in Item
  PROVE  /\ Hsms!Secondary(m, reply) \in Hsms!Frame
         /\ Hsms!IsData(Hsms!Secondary(m, reply)) /\ ~Hsms!Secondary(m, reply).w
         /\ Hsms!Secondary(m, reply).owner = m.owner
         /\ Hsms!Secondary(m, reply).index = m.index
<1>1. m.function \in 0 .. 127
  BY DEF Hsms!DataFrame
<1>2. Hsms!SecondaryFunction(m.function) \in 0 .. 127
  BY <1>1 DEF Hsms!SecondaryFunction
<1>3. Hsms!Secondary(m, reply) \in Hsms!DataFrame
  BY <1>2 DEF Hsms!Secondary, Hsms!DataFrame
<1>4. QED
  BY <1>3 DEF Hsms!Secondary, Hsms!DataFrame, Hsms!Frame, Hsms!IsData

\* The equipment answers a primary of the handshake, a host command and
\* nothing else; the host answers all it is served.
Answerable(p) ==
  p = Equip =>
    \A m \in Flight(p) : m.w => m.function \in {1, 13, 41}

\* ServesPrimary with the reply of a GEM session reads one frame of data and
\* writes its secondary.
LEMMA ServingIsSo ==
  ASSUME Conversation, NEW p \in Party, Answerable(p), UNCHANGED at,
         inbox[p] # <<>>, Hsms!ServesPrimary(p, MakeReply(p, Head(inbox[p])))
  PROVE  Serves(p) /\ SessionType' /\ InCall'
<1>0. Hsms!Peer(p) \in Party /\ Hsms!Peer(p) # p /\ (p = Host \/ p = Equip)
  BY PeerFacts DEF Party
<1>1. /\ call[p] = "serve_one" /\ Head(inbox[p]) = inbox[p][1] /\ 1 \in DOMAIN inbox[p]
      /\ Hsms!IsData(inbox[p][1])
  BY HeadFacts DEF Hsms!ServesPrimary, Hsms!HeadIs, Hsms!IsData, Conversation
<1>2. inbox[p][1].w /\ inbox[p][1] \in Hsms!DataFrame /\ inbox[p][1] \in Flight(p)
  BY <1>1, DataFacts, ServedIsPrimary DEF Conversation, Flight
<1>3. MakeReply(p, inbox[p][1]) \in Item /\ MakeReply(p, inbox[p][1]) # NoItem
  BY <1>0, <1>2
     DEF MakeReply, Answerable, HostReply, EquipmentReply, Hsms!WantsReply, Item, NoItem
<1>4. PICK m \in Hsms!Frame :
        /\ m = Hsms!Secondary(inbox[p][1], MakeReply(p, inbox[p][1]))
        /\ Hsms!IsData(m) /\ ~m.w
        /\ m.owner = inbox[p][1].owner /\ m.index = inbox[p][1].index
  BY <1>2, <1>3, SecondaryFacts
<1>5. /\ Hsms!Answers(p, m)
      /\ Hsms!Returns(p, Hsms!Ok("serve_one", inbox[p][1]))
      /\ UNCHANGED nextSystemBytes
  BY <1>1, <1>3, <1>4 DEF Hsms!ServesPrimary
<1>6. /\ inbox' \in [Party -> Seq(Hsms!Frame)]
      /\ inbox'[p] = Tail(inbox[p])
      /\ inbox'[Hsms!Peer(p)] = Append(inbox[Hsms!Peer(p)], m)
  BY <1>5, PipeEffects DEF Conversation
<1>7. Hsms!Ok("serve_one", inbox[p][1]) \in Hsms!Return
  BY <1>1, ReturnFacts DEF Conversation, Hsms!Operation
<1>8. /\ call' = [call EXCEPT ![p] = "idle"]
      /\ ret' = [ret EXCEPT ![p] = Hsms!Ok("serve_one", inbox[p][1])]
      /\ call \in [Party -> Hsms!Operation \cup {"idle"}] /\ ret \in [Party -> Hsms!Return]
  BY <1>5 DEF Hsms!Returns, Conversation, SessionType
<1>9. SessionType'
  BY <1>5, <1>6, <1>7, <1>8 DEF Conversation, SessionType
<1>10. InCall'
  BY <1>1, <1>8, InsideFacts DEF Conversation, InCall
<1>11. Serves(p)
  BY <1>0, <1>1, <1>4, <1>5, <1>6, <1>8 DEF Serves, Alone
<1>12. QED BY <1>9, <1>10, <1>11

\* One iteration of a read loop serves a primary or is quiet.
LEMMA SessionStepIs ==
  ASSUME Conversation, NEW p \in Party, Answerable(p), SessionStep(p)
  PROVE  /\ Serves(p) \/ Quiet(p)
         /\ SessionType' /\ InCall' /\ UNCHANGED <<at, shaken, served, panics, crossed>>
         /\ call[p] # "idle"
<1>0. call[p] # "idle" /\ UNCHANGED <<at, shaken, served, panics, crossed>>
  BY DEF SessionStep, threadVars, Hsms!SelectAnswered, Hsms!SelectFails,
         Hsms!AcceptsRequest, Hsms!AcceptFails, Hsms!ReceivesReply, Hsms!TransactFails,
         Hsms!ServesPrimary, Hsms!RejectsFrame, Hsms!AnswersLinktest, Hsms!AnswersSelect,
         Hsms!Deselects, Hsms!ServeFails, Hsms!ReadsEof
<1>1. /\ inbox[p] # <<>> => Head(inbox[p]) = inbox[p][1] /\ 1 \in DOMAIN inbox[p]
      /\ \A kinds : Hsms!HeadIs(p, kinds) =>
           inbox[p] # <<>> /\ ("Data" \notin kinds => ~Hsms!IsData(inbox[p][1]))
      /\ call[p] # "idle" => call[p] \in Hsms!Operation
      /\ \A op \in Hsms!Operation : Hsms!Err(op) \in Hsms!Return /\ ~Hsms!Err(op).ok
      /\ \A op \in Hsms!Operation : Hsms!Ok(op, Hsms!NoFrame) \in Hsms!Return
  BY HeadFacts, ReturnFacts DEF Conversation, SessionType
<1>2. CASE Hsms!SelectAnswered(p)
  <2>1. /\ call[p] = "select" /\ inbox[p] # <<>> /\ ~Hsms!IsData(inbox[p][1])
        /\ Hsms!Reads(p) /\ UNCHANGED nextSystemBytes
        /\ \E r \in Hsms!Return : Hsms!Returns(p, r)
    BY <1>1, <1>2 DEF Hsms!SelectAnswered, Hsms!Operation
  <2>2. QED BY <1>0, <2>1, ComesBack
<1>3. CASE \/ Hsms!SelectFails(p) \/ Hsms!AcceptFails(p) \/ Hsms!TransactFails(p)
           \/ Hsms!Deselects(p) \/ Hsms!ServeFails(p)
  <2>1. /\ call[p] # "idle" /\ inbox[p] # <<>> /\ Hsms!Reads(p) /\ UNCHANGED nextSystemBytes
        /\ \E r \in Hsms!Return : ~r.ok /\ Hsms!Returns(p, r)
    BY <1>1, <1>3
       DEF Hsms!SelectFails, Hsms!AcceptFails, Hsms!TransactFails, Hsms!Deselects,
           Hsms!ServeFails, Hsms!Operation
  <2>2. QED BY <1>0, <2>1, ComesBack
<1>4. CASE Hsms!AcceptsRequest(p)
  <2>1. /\ call[p] = "accept_select" /\ inbox[p] # <<>> /\ ~Hsms!IsData(inbox[p][1])
        /\ \E m \in Hsms!Frame : ~Hsms!IsData(m) /\ Hsms!Answers(p, m)
        /\ UNCHANGED nextSystemBytes
        /\ \E r \in Hsms!Return : Hsms!Returns(p, r)
    BY <1>1, <1>4, ControlFrames
       DEF Hsms!AcceptsRequest, Hsms!Operation, Hsms!SelectStatus
  <2>2. QED BY <1>0, <2>1, ComesBack
<1>5. CASE Hsms!ReceivesReply(p)
  <2>1. /\ call[p] = "transact" /\ inbox[p] # <<>> /\ Hsms!IsData(inbox[p][1])
        /\ 1 \in DOMAIN inbox[p]
        /\ Hsms!Reads(p) /\ UNCHANGED nextSystemBytes
        /\ Hsms!Returns(p, Hsms!Ok("transact", inbox[p][1]))
    BY <1>1, <1>5 DEF Hsms!ReceivesReply, Hsms!Matches
  <2>2. inbox[p][1].owner = p
    <3>1. inbox[p][1].owner \in Party
      BY <2>1, DataFacts DEF Conversation
    <3>2. ~Carries(p, 1, Hsms!Peer(p))
      BY <2>1 DEF Conversation, Ahead
    <3>3. QED BY <2>1, <3>1, <3>2, PeerFacts DEF Carries
  <2>3. Hsms!Ok("transact", inbox[p][1]) \in Hsms!Return
    BY <2>1, ReturnFacts DEF Conversation, Hsms!Operation
  <2>4. QED BY <1>0, <2>1, <2>2, <2>3, ComesBack
<1>6. CASE inbox[p] # <<>> /\ Hsms!ServesPrimary(p, MakeReply(p, Head(inbox[p])))
  BY <1>0, <1>6, ServingIsSo
<1>7. CASE Hsms!RejectsFrame(p) \/ Hsms!AnswersLinktest(p) \/ Hsms!AnswersSelect(p)
  <2>1. /\ call[p] # "idle" /\ inbox[p] # <<>> /\ ~Hsms!IsData(inbox[p][1])
        /\ \E m \in Hsms!Frame : ~Hsms!IsData(m) /\ Hsms!Answers(p, m)
        /\ UNCHANGED <<call, ret, nextSystemBytes>>
    BY <1>1, <1>7, ControlFrames
       DEF Hsms!RejectsFrame, Hsms!AnswersLinktest, Hsms!AnswersSelect,
           Hsms!SelectStatus, Hsms!ExternalKinds
  <2>2. QED BY <1>0, <2>1, GoesOn
<1>8. CASE Hsms!ReadsEof(p)
  <2>1. /\ call[p] # "idle" /\ UNCHANGED <<inbox, nextSystemBytes>>
        /\ \E r \in Hsms!Return : ~r.ok /\ Hsms!Returns(p, r)
    BY <1>1, <1>8 DEF Hsms!ReadsEof
  <2>2. QED BY <1>0, <2>1, ComesBack
<1>9. QED
  BY <1>2, <1>3, <1>4, <1>5, <1>6, <1>7, <1>8 DEF SessionStep

\* A thread moves to another place of its own.
LEMMA MovesPlace ==
  ASSUME ThreadType, NEW p \in Party, NEW to, Moves(p, to)
  PROVE  at'[p] = to /\ at'[Hsms!Peer(p)] = at[Hsms!Peer(p)]
BY PeerFacts DEF ThreadType, Moves

\* A live thread starts a call that sends no primary.
LEMMA StartsQuietly ==
  ASSUME Conversation, ThreadType, NEW p \in Party, Live(p), NEW op \in Hsms!Operation,
         op # "transact", NEW to \in DOMAIN CallOf, CallOf[to] = op, Moves(p, to),
         Hsms!Enters(p, op),
         \/ UNCHANGED <<inbox, nextSystemBytes>>
         \/ /\ p = Host /\ at[p] = "start" /\ Hsms!Draws(p)
            /\ Hsms!Writes(p, Hsms!Control("SelectReq"))
  PROVE  Quiet(p) /\ SessionType' /\ InCall'
<1>0. Hsms!Peer(p) \in Party /\ Hsms!Peer(p) # p
  BY PeerFacts
<1>1. /\ call' = [call EXCEPT ![p] = op]
      /\ ret' = [ret EXCEPT ![p] = Hsms!NoReturn]
      /\ call[p] = "idle"
      /\ call \in [Party -> Hsms!Operation \cup {"idle"}] /\ ret \in [Party -> Hsms!Return]
  BY DEF Hsms!Enters, Conversation, SessionType
<1>2. /\ inbox' \in [Party -> Seq(Hsms!Frame)]
      /\ Moved(p, 0) /\ Moved(Hsms!Peer(p), 0)
  <2>1. CASE UNCHANGED <<inbox, nextSystemBytes>>
    BY <1>0, <2>1, InboxMoves DEF Conversation, SessionType
  <2>2. CASE Hsms!Writes(p, Hsms!Control("SelectReq"))
    <3>1. PICK m \in Hsms!Frame : m = Hsms!Control("SelectReq") /\ ~Hsms!IsData(m)
      BY ControlFrames DEF Hsms!ExternalKinds
    <3>2. QED BY <1>0, <2>2, <3>1, InboxMoves, PipeEffects DEF Conversation
  <2>3. QED BY <2>1, <2>2
<1>3. /\ nextSystemBytes' \in [Party -> Nat]
      /\ nextSystemBytes'[Hsms!Peer(p)] = nextSystemBytes[Hsms!Peer(p)]
      /\ (p = Host /\ at[p] = "start") \/ nextSystemBytes'[p] = nextSystemBytes[p]
  <2>1. nextSystemBytes \in [Party -> Nat]
    BY DEF Conversation, SessionType
  <2>2. CASE UNCHANGED nextSystemBytes
    BY <2>1, <2>2
  <2>3. CASE p = Host /\ at[p] = "start" /\ Hsms!Draws(p)
    <3>1. nextSystemBytes[p] + 1 \in Nat
      BY <2>1
    <3>2. nextSystemBytes' = [nextSystemBytes EXCEPT ![p] = nextSystemBytes[p] + 1]
      BY <2>3 DEF Hsms!Draws
    <3>3. QED BY <1>0, <2>1, <2>3, <3>1, <3>2
  <2>4. QED BY <2>2, <2>3
<1>4. Hsms!NoReturn \in Hsms!Return
  BY DEF Hsms!NoReturn, Hsms!Return
<1>5. at'[p] = to /\ at'[Hsms!Peer(p)] = at[Hsms!Peer(p)]
  BY MovesPlace
<1>6. SessionType'
  BY <1>1, <1>2, <1>3, <1>4 DEF SessionType
<1>7. call'[p] = op /\ \A q \in Party : q # p => call'[q] = call[q] /\ ret'[q] = ret[q]
  BY <1>1
<1>8. InCall'
  <2>1. to \notin {"recorded", "acknowledged"}
    BY DEF CallOf
  <2>2. QED BY <1>5, <1>7, <2>1, PeerFacts DEF Conversation, InCall
<1>9. Quiet(p)
  BY <1>0, <1>1, <1>2, <1>3, <1>5, <1>7 DEF Quiet, Fades, Alone, Hsms!Operation
<1>10. QED BY <1>6, <1>8, <1>9

\* A live thread that nothing is offered sends a primary, and crosses none.
LEMMA TransactSends ==
  ASSUME Conversation, ThreadType, NEW p \in Party, Live(p), ~Offered(p),
         NEW function \in {1, 11, 13, 41}, NEW body \in Item,
         Hsms!Transact(p, function, body),
         NEW to \in DOMAIN CallOf, CallOf[to] = "transact", Moves(p, to)
  PROVE  Sends(p, function, body) /\ SessionType' /\ InCall' /\ (crossed' => crossed)
<1>0. PICK o \in Party :
        /\ o = Hsms!Peer(p) /\ o # p /\ Hsms!Peer(o) = p
        /\ \A q \in Party : q = p \/ q = o
  BY PeerFacts
<1>1. PICK m \in Hsms!Frame :
        /\ Hsms!IsData(m) /\ m.w /\ m.owner = p /\ m.index = nextSystemBytes[p]
        /\ m.function = function /\ m.body = body
        /\ Hsms!Writes(p, m)
  <2> DEFINE f == [stype |-> "Data", owner |-> p, index |-> nextSystemBytes[p],
                   w |-> TRUE, function |-> function, body |-> body]
  <2>1. nextSystemBytes[p] \in Nat
    BY DEF Conversation, SessionType
  <2>2. f \in Hsms!Frame
    BY <2>1 DEF Hsms!Frame, Hsms!DataFrame, Party, Hsms!Party
  <2>3. Hsms!Writes(p, f)
    BY DEF Hsms!Transact
  <2>4. QED BY <2>2, <2>3 DEF Hsms!IsData
<1>2. /\ inbox' \in [Party -> Seq(Hsms!Frame)]
      /\ inbox'[p] = inbox[p]
      /\ inbox'[o] = Append(inbox[o], m)
  BY <1>0, <1>1, PipeEffects DEF Conversation
<1>3. /\ call' = [call EXCEPT ![p] = "transact"]
      /\ ret' = [ret EXCEPT ![p] = Hsms!NoReturn]
      /\ nextSystemBytes' = [nextSystemBytes EXCEPT ![p] = @ + 1]
      /\ call[p] = "idle"
      /\ call \in [Party -> Hsms!Operation \cup {"idle"}] /\ ret \in [Party -> Hsms!Return]
      /\ nextSystemBytes \in [Party -> Nat]
  BY DEF Hsms!Transact, Hsms!Enters, Hsms!Draws, Conversation, SessionType
<1>4. at'[p] = to /\ at'[o] = at[o]
  BY <1>0, MovesPlace
<1>5. SessionType'
  BY <1>2, <1>3 DEF SessionType, Hsms!Operation, Hsms!NoReturn, Hsms!Return
<1>6. InCall'
  <2>1. to \notin {"recorded", "acknowledged"}
    BY DEF CallOf
  <2>2. QED BY <1>0, <1>3, <1>4, <2>1 DEF Conversation, InCall
<1>7. Sends(p, function, body)
  BY <1>0, <1>1, <1>2, <1>3, <1>4 DEF Sends, Alone
<1>8. \A i \in DOMAIN inbox[p] : ~Carries(p, i, o)
  BY <1>0 DEF Offered, Flight, Carries
<1>9. ~Hsms!Crosses(p)
  <2>1. ASSUME NEW i \in DOMAIN inbox[p], Hsms!IsPrimary(inbox[p][i]) PROVE FALSE
    <3>1. Hsms!IsData(inbox[p][i]) /\ inbox[p][i].w /\ inbox[p][i].owner \in Party
      BY <2>1, DataFacts DEF Conversation, Hsms!IsPrimary
    <3>2. Carries(p, i, p)
      BY <1>0, <1>8, <3>1 DEF Carries
    <3>3. QED BY <3>1, <3>2 DEF Conversation, Directed
  <2>2. ASSUME call[o] = "transact"
        PROVE  \E i \in DOMAIN inbox[o] : Hsms!IsSecondaryFor(o, inbox[o][i])
    <3>1. PICK q \in Party : \E i \in DOMAIN inbox[q] : Carries(q, i, o)
      BY <1>0, <2>2 DEF Conversation, Pending
    <3>2. PICK i \in DOMAIN inbox[q] : Carries(q, i, o)
      BY <3>1
    <3>3. q = o
      BY <1>0, <1>8, <3>2
    <3>4. ~inbox[o][i].w /\ inbox[o][i].index = Sent(o)
      <4>1. inbox[q][i].w = (o # q) /\ inbox[q][i].index = Sent(o)
        BY <3>2 DEF Conversation, Directed
      <4>2. QED BY <3>3, <4>1
    <3>5. QED
      BY <3>2, <3>3, <3>4 DEF Hsms!IsSecondaryFor, Hsms!Awaited, Carries, Sent
  <2>3. QED BY <1>0, <2>1, <2>2 DEF Hsms!Crosses
<1>10. crossed' => crossed
  BY <1>9 DEF Hsms!Transact
<1>11. QED BY <1>5, <1>6, <1>7, <1>10

\* A thread that is between two calls moves on, or ends.
LEMMA IdleMoves ==
  ASSUME Conversation, ThreadType, NEW p \in Party, call[p] = "idle", at[p] \notin Ended,
         NEW to \in {"recorded", "acknowledged", "done", "failed"}, Moves(p, to),
         to \in {"recorded", "acknowledged"} => ret[p].ok,
         UNCHANGED <<call, ret, inbox, nextSystemBytes>>
  PROVE  Fades(p) /\ SessionType' /\ InCall'
<1>0. Hsms!Peer(p) \in Party /\ Hsms!Peer(p) # p
  BY PeerFacts
<1>1. at'[p] = to /\ at'[Hsms!Peer(p)] = at[Hsms!Peer(p)]
  BY MovesPlace
<1>2. SessionType'
  BY DEF Conversation, SessionType
<1>3. InCall'
  BY <1>0, <1>1, PeerFacts DEF Conversation, InCall
<1>4. Moved(p, 0) /\ Moved(Hsms!Peer(p), 0)
  BY <1>0, InboxMoves DEF Conversation
<1>5. Live(p)' => Live(p)
  BY <1>1 DEF Live, Ended
<1>6. QED BY <1>1, <1>2, <1>3, <1>4, <1>5 DEF Fades, Alone

\* Something arrives from elsewhere.
LEMMA ArrivesQuietly ==
  ASSUME Conversation, NEW p \in Party, NEW kind \in External,
         Hsms!ExternalFrame(p, kind), UNCHANGED at
  PROVE  Fades(p) /\ SessionType' /\ InCall' /\ UNCHANGED crossed
<1>0. Hsms!Peer(p) \in Party /\ Hsms!Peer(p) # p
  BY PeerFacts
<1>1. PICK m \in Hsms!Frame : m = Hsms!Control(kind) /\ ~Hsms!IsData(m)
  BY SessionAssumption, ControlFrames
<1>2. /\ inbox' = [inbox EXCEPT ![p] = Append(@, m)]
      /\ UNCHANGED <<call, ret, nextSystemBytes, crossed>>
  BY <1>1 DEF Hsms!ExternalFrame
<1>3. /\ inbox \in [Party -> Seq(Hsms!Frame)]
      /\ Append(inbox[p], m) \in Seq(Hsms!Frame)
  BY DEF Conversation, SessionType
<1>4. /\ inbox' \in [Party -> Seq(Hsms!Frame)]
      /\ inbox'[p] = Append(inbox[p], m) /\ inbox'[Hsms!Peer(p)] = inbox[Hsms!Peer(p)]
  BY <1>0, <1>2, <1>3
<1>5. Moved(p, 0) /\ Moved(Hsms!Peer(p), 0)
  BY <1>0, <1>1, <1>4, InboxMoves DEF Conversation
<1>6. SessionType' /\ InCall'
  BY <1>2, <1>4 DEF Conversation, SessionType, InCall
<1>7. Live(p)' => Live(p)
  BY <1>2 DEF Live
<1>8. QED BY <1>2, <1>5, <1>6, <1>7 DEF Fades, Alone

\* A step of one of the three kinds keeps the conversation.
LEMMA ConversationKept ==
  ASSUME Conversation, NEW p \in Party, SessionType', InCall',
         Fades(p) \/ Serves(p) \/ \E function, body : Sends(p, function, body)
  PROVE  Conversation'
BY FadingKeepsConversation, ServingKeepsConversation, SendingKeepsConversation

\* A run begins with two silent threads.
LEMMA ConversationBegins == ThreadInit => Conversation /\ ~crossed
<1> SUFFICES ASSUME ThreadInit PROVE Conversation /\ ~crossed
  OBVIOUS
<1>1. /\ \A p \in Party : inbox[p] = <<>> /\ call[p] = "idle" /\ at[p] = "start"
      /\ ~crossed
  BY DEF ThreadInit, Hsms!Init, Party, Hsms!Party
<1>2. SessionType
  BY DEF ThreadInit, Hsms!Init, SessionType, Hsms!Operation, Hsms!Return,
         Hsms!NoReturn, Party, Hsms!Party
<1>3. \A p \in Party : DOMAIN inbox[p] = {}
  BY <1>1
<1>4. QED
  BY <1>1, <1>2, <1>3 DEF Conversation, InCall, Directed, OneFrame, Pending, Ahead

\* The two threads face each other.
LEMMA TwoThreads ==
  /\ Host \in Party /\ Equip \in Party /\ Host # Equip
  /\ Hsms!Peer(Host) = Equip /\ Hsms!Peer(Equip) = Host
  /\ \A p \in Party : p = Host \/ p = Equip
BY ThreadsDiffer DEF Party, Hsms!Peer

\* Only a report adds to what the equipment has sent.
LEMMA SentFacts ==
  ASSUME SessionType, NEW p \in Party
  PROVE  /\ Sent(Equip) \in Int
         /\ Fades(p) \/ Serves(p) => Sent(Equip)' = Sent(Equip)
         /\ \A function, body : Sends(p, function, body) =>
              Sent(Equip)' = IF p = Equip THEN Sent(Equip) + 1 ELSE Sent(Equip)
<1>1. p = Host \/ (p = Equip /\ p # Host)
  BY TwoThreads
<1>2. nextSystemBytes[Equip] \in Nat
  BY TwoThreads DEF SessionType
<1>3. CASE p = Host
  BY <1>2, <1>3, TwoThreads DEF Fades, Serves, Sends, Alone, Sent
<1>4. CASE p = Equip /\ p # Host
  BY <1>2, <1>4 DEF Fades, Serves, Sends, Sent
<1>5. QED BY <1>1, <1>3, <1>4
=============================================================================
