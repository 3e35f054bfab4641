----------------------------- MODULE Chat_proofs ----------------------------
(***************************************************************************)
(* Theorems about Chat: one conversation per pair, messages for their      *)
(* receivers only, a hub without dead entries; for any number of users,    *)
(* auctions, handlers and connections.                                     *)
(***************************************************************************)
EXTENDS Chat, TLAPS

-----------------------------------------------------------------------------
(* Tables only grow.                                                       *)

LEMMA AppendGrows ==
  ASSUME NEW S, NEW s \in Seq(S), NEW e \in S
  PROVE  /\ Append(s, e) \in Seq(S)
         /\ Len(s) \in Nat /\ Len(Append(s, e)) = Len(s) + 1
         /\ Append(s, e)[Len(s) + 1] = e
         /\ \A i \in 1..Len(s) : Append(s, e)[i] = s[i] /\ s[i] \in S
  OBVIOUS

(* What a step may do to the tables.                                       *)
Grow ==
  /\ Len(rooms) \in Nat /\ Len(rooms') \in Nat /\ Len(rooms) <= Len(rooms')
  /\ Len(messages) \in Nat /\ Len(messages') \in Nat /\ Len(messages) <= Len(messages')
  /\ \A i \in RoomIds : rooms'[i] = rooms[i]
  /\ \A m \in MessageIds : messages'[m] = messages[m]

(* What the fields of a request are, once its step is known.               *)
LEMMA RequestFields ==
  ASSUME TypeOK, NEW h \in Handlers
  PROVE  LET r == request[h] IN
         /\ r.step = "create" => r.from \in Users /\ r.to \in Users /\ r.auction \in Auctions
         /\ r.step = "save" => r.from \in Users /\ r.to \in Users /\ r.room \in Nat
         /\ r.step = "push" => r.to \in Users /\ r.msg \in Nat
         /\ r.step = "write" => r.conn \in Conns /\ r.msg \in Nat
  BY DEF TypeOK, Request, Idle

LEMMA KeyType ==
  ASSUME NEW u \in Users, NEW v \in Users, NEW a \in Auctions
  PROVE  /\ Key(u, v, a) \in Room
         /\ Key(u, v, a).buyer <= Key(u, v, a).seller
         /\ {Key(u, v, a).buyer, Key(u, v, a).seller} = {u, v}
  BY ChatAssumption DEF Key, Room

LEMMA TablesGrow ==
  ASSUME TypeOK, [Next]_vars
  PROVE  Grow
<1> USE DEF RoomIds, MessageIds
<1>0. /\ rooms \in Seq(Room) /\ messages \in Seq(Message)
      /\ Len(rooms) \in Nat /\ Len(messages) \in Nat
  BY DEF TypeOK
<1>1. CASE UNCHANGED tables
  BY <1>0, <1>1 DEF tables, Grow
<1>2. ASSUME NEW h \in Handlers, CreateRoom(h), rooms' # rooms
      PROVE  Grow
  <2> DEFINE key == Key(request[h].from, request[h].to, request[h].auction)
  <2>1. key \in Room
    BY <1>2, RequestFields, KeyType DEF CreateRoom
  <2>2. rooms' = Append(rooms, key) /\ messages' = messages
    BY <1>2 DEF CreateRoom
  <2> HIDE DEF key
  <2> QED
    BY <1>0, <2>1, <2>2, AppendGrows DEF Grow
<1>3. ASSUME NEW h \in Handlers, SaveMessage(h)
      PROVE  Grow
  <2> DEFINE m == [room |-> request[h].room, sender |-> request[h].from]
  <2>1. m \in Message
    BY <1>3, RequestFields DEF SaveMessage, Message
  <2>2. messages' = Append(messages, m) /\ rooms' = rooms
    BY <1>3 DEF SaveMessage
  <2> HIDE DEF m
  <2> QED
    BY <1>0, <2>1, <2>2, AppendGrows DEF Grow
<1>4. ASSUME NEW h \in Handlers, CreateRoom(h), rooms' = rooms
      PROVE  UNCHANGED tables
  BY <1>4 DEF CreateRoom, tables
<1>5. ASSUME NEW h \in Handlers, NEW t \in Talks, NEW a \in Auctions,
             FindRoom(h, t[1], t[2], a)
      PROVE  UNCHANGED tables
  BY <1>5 DEF FindRoom
<1>6. ASSUME NEW h \in Handlers, NEW g \in Handlers,
             \/ RequestFails(h) \/ StartPush(h) \/ WriteJSON(h) \/ Collide(h, g)
      PROVE  UNCHANGED tables
  BY <1>6 DEF RequestFails, StartPush, WriteJSON, Collide
<1>7. ASSUME NEW c \in Conns,
             \/ Connect(c) \/ Register(c) \/ ReadFails(c) \/ Unregister(c)
             \/ Receive(c) \/ Break(c)
      PROVE  UNCHANGED tables
  BY <1>7 DEF Connect, Register, ReadFails, Unregister, Receive, Break
<1> QED
  BY <1>1, <1>2, <1>3, <1>4, <1>5, <1>6, <1>7 DEF Next, SendMessage, vars

-----------------------------------------------------------------------------
(* Type correctness.                                                       *)

LEMMA RequestForms ==
  /\ Idle \in Request
  /\ \A u, v \in Users, a \in Auctions : Create(u, v, a) \in Request
  /\ \A u, v \in Users, i \in Nat : Save(u, v, i) \in Request
  /\ \A v \in Users, m \in Nat : [step |-> "push", to |-> v, msg |-> m] \in Request
  /\ \A c \in Conns, m \in Nat : [step |-> "write", conn |-> c, msg |-> m] \in Request
  BY DEF Request, Create, Save

(* The tables keep their types, and every message its room.                *)
LEMMA TablesStep ==
  ASSUME TypeOK, RequestsAgree, [Next]_vars
  PROVE  /\ rooms' \in Seq(Room) /\ messages' \in Seq(Message)
         /\ \A m \in MessageIds' : messages'[m].room \in RoomIds'
<1> USE DEF RoomIds, MessageIds
<1>0. /\ rooms \in Seq(Room) /\ messages \in Seq(Message)
      /\ \A m \in MessageIds : messages[m].room \in RoomIds
      /\ Grow
  BY TablesGrow DEF TypeOK
<1>1. CASE UNCHANGED messages /\ rooms' \in Seq(Room)
  BY <1>0, <1>1 DEF Grow
<1>2. ASSUME NEW h \in Handlers, CreateRoom(h)
      PROVE  UNCHANGED messages /\ rooms' \in Seq(Room)
  <2> DEFINE key == Key(request[h].from, request[h].to, request[h].auction)
  <2>1. key \in Room
    BY <1>2, RequestFields, KeyType DEF CreateRoom
  <2>2. UNCHANGED messages /\ (rooms' = rooms \/ rooms' = Append(rooms, key))
    BY <1>2 DEF CreateRoom
  <2> HIDE DEF key
  <2> QED
    BY <1>0, <2>1, <2>2, AppendGrows
<1>3. ASSUME NEW h \in Handlers, SaveMessage(h)
      PROVE  /\ rooms' \in Seq(Room) /\ messages' \in Seq(Message)
             /\ \A m \in MessageIds' : messages'[m].room \in RoomIds'
  <2> DEFINE m == [room |-> request[h].room, sender |-> request[h].from]
  <2>1. m \in Message /\ m.room \in RoomIds
    BY <1>3, RequestFields DEF SaveMessage, Message, RequestsAgree
  <2>2. messages' = Append(messages, m) /\ rooms' = rooms
    BY <1>3 DEF SaveMessage
  <2> HIDE DEF m
  <2>3. /\ messages' \in Seq(Message) /\ Len(messages') = Len(messages) + 1
        /\ Len(messages) \in Nat
        /\ messages'[Len(messages) + 1] = m
        /\ \A i \in 1..Len(messages) : messages'[i] = messages[i]
    BY <1>0, <2>1, <2>2, AppendGrows
  <2>4. ASSUME NEW i \in MessageIds' PROVE messages'[i].room \in RoomIds'
    <3>1. i \in 1..Len(messages) \/ i = Len(messages) + 1
      BY <2>3
    <3> QED
      BY <1>0, <2>1, <2>2, <2>3, <3>1
  <2> QED
    BY <1>0, <2>2, <2>3, <2>4
<1>4. CASE UNCHANGED tables
  BY <1>0, <1>1, <1>4 DEF tables
<1> QED
  BY <1>1, <1>2, <1>3, <1>4
     DEF Next, SendMessage, vars, FindRoom, RequestFails, StartPush, WriteJSON, Collide,
         Connect, Register, ReadFails, Unregister, Receive, Break

LEMMA RequestTypeStep ==
  ASSUME TypeOK, [Next]_vars
  PROVE  request' \in [Handlers -> Request]
<1>0. /\ request \in [Handlers -> Request] /\ Len(rooms) \in Nat /\ Len(messages) \in Nat
      /\ RoomIds \subseteq Nat
      /\ clients \in [Users -> Conns \cup {None}]
  BY DEF TypeOK, RoomIds
<1>1. ASSUME NEW h \in Handlers, NEW x \in Request, request' = [request EXCEPT ![h] = x]
      PROVE  request' \in [Handlers -> Request]
  BY <1>0, <1>1
<1>2. ASSUME NEW h \in Handlers, NEW t \in Talks, NEW a \in Auctions,
             FindRoom(h, t[1], t[2], a)
      PROVE  request' \in [Handlers -> Request]
  <2>1. t[1] \in Users /\ t[2] \in Users
    BY ChatAssumption
  <2>2. CASE request' = [request EXCEPT ![h] = Create(t[1], t[2], a)]
    BY <1>1, <2>1, <2>2, RequestForms
  <2>3. ASSUME NEW i \in RoomIds, request' = [request EXCEPT ![h] = Save(t[1], t[2], i)]
        PROVE  request' \in [Handlers -> Request]
    BY <1>0, <1>1, <2>1, <2>3, RequestForms
  <2> QED
    BY <1>2, <2>2, <2>3 DEF FindRoom
<1>3. ASSUME NEW h \in Handlers, CreateRoom(h)
      PROVE  request' \in [Handlers -> Request]
  <2>1. request[h].from \in Users /\ request[h].to \in Users
    BY <1>3, RequestFields DEF CreateRoom
  <2>2. \/ request' = [request EXCEPT ![h] = Idle]
        \/ request' = [request EXCEPT ![h] =
                         Save(request[h].from, request[h].to, Len(rooms) + 1)]
    BY <1>3 DEF CreateRoom
  <2>3. Save(request[h].from, request[h].to, Len(rooms) + 1) \in Request
    BY <1>0, <2>1, RequestForms
  <2> QED
    BY <1>1, <2>2, <2>3, RequestForms
<1>4. ASSUME NEW h \in Handlers, SaveMessage(h)
      PROVE  request' \in [Handlers -> Request]
  <2>1. [step |-> "push", to |-> request[h].to, msg |-> Len(messages) + 1] \in Request
    BY <1>0, <1>4, RequestFields, RequestForms DEF SaveMessage
  <2> QED
    BY <1>1, <1>4, <2>1 DEF SaveMessage
<1>5. ASSUME NEW h \in Handlers, StartPush(h)
      PROVE  request' \in [Handlers -> Request]
  <2>1. request[h].to \in Users /\ request[h].msg \in Nat
    BY <1>5, RequestFields DEF StartPush
  <2>2. CASE clients[request[h].to] = None
    BY <1>1, <1>5, <2>2, RequestForms DEF StartPush
  <2>3. CASE clients[request[h].to] # None
    <3>1. [step |-> "write", conn |-> clients[request[h].to], msg |-> request[h].msg]
            \in Request
      BY <1>0, <2>1, <2>3, RequestForms
    <3> QED
      BY <1>1, <1>5, <2>3, <3>1 DEF StartPush
  <2> QED
    BY <2>2, <2>3
<1>6. ASSUME NEW h \in Handlers, RequestFails(h) \/ WriteJSON(h)
      PROVE  request' \in [Handlers -> Request]
  BY <1>1, <1>6, RequestForms DEF RequestFails, WriteJSON
<1>7. ASSUME NEW h \in Handlers, NEW g \in Handlers, Collide(h, g)
      PROVE  request' \in [Handlers -> Request]
  <2>1. PICK S \in {{h}, {h, g}} :
          request' = [k \in Handlers |-> IF k \in S THEN Idle ELSE request[k]]
    BY <1>7 DEF Collide
  <2> QED
    BY <1>0, <2>1, RequestForms
<1>8. CASE UNCHANGED request
  BY <1>0, <1>8
<1> QED
  BY <1>2, <1>3, <1>4, <1>5, <1>6, <1>7, <1>8
     DEF Next, SendMessage, vars, Connect, Register, ReadFails, Unregister, Receive, Break

LEMMA HubTypeStep ==
  ASSUME TypeOK, RequestsAgree, [Next]_vars
  PROVE  /\ clients' \in [Users -> Conns \cup {None}]
         /\ conn' \in [Conns -> {"none", "registering", "open", "leaving"}]
         /\ broken' \in [Conns -> BOOLEAN]
         /\ unread' \in [Conns -> 0..Buffer]
         /\ pushed' \subseteq [conn: Conns, msg: MessageIds']
<1>0. /\ clients \in [Users -> Conns \cup {None}]
      /\ conn \in [Conns -> {"none", "registering", "open", "leaving"}]
      /\ broken \in [Conns -> BOOLEAN]
      /\ unread \in [Conns -> 0..Buffer]
      /\ pushed \subseteq [conn: Conns, msg: MessageIds]
      /\ pushed \subseteq [conn: Conns, msg: MessageIds']
      /\ MessageIds \subseteq MessageIds'
  BY TablesGrow DEF TypeOK, Grow, MessageIds
<1>1. ASSUME NEW c \in Conns, Connect(c) \/ ReadFails(c) \/ Break(c)
      PROVE  /\ conn' \in [Conns -> {"none", "registering", "open", "leaving"}]
             /\ broken' \in [Conns -> BOOLEAN] /\ unread' \in [Conns -> 0..Buffer]
             /\ UNCHANGED <<clients, pushed>>
  <2>1. /\ conn' \in [Conns -> {"none", "registering", "open", "leaving"}]
        /\ broken' \in [Conns -> BOOLEAN] /\ UNCHANGED <<clients, pushed>>
    BY <1>0, <1>1 DEF Connect, ReadFails, Break, pushVars
  <2>2. 0 \in 0..Buffer
    BY ChatAssumption
  <2>3. unread' = unread \/ unread' = [unread EXCEPT ![c] = 0]
    BY <1>1 DEF Connect, ReadFails, Break, pushVars
  <2> QED
    BY <1>0, <2>1, <2>2, <2>3
<1>2. ASSUME NEW c \in Conns, Register(c) \/ Unregister(c)
      PROVE  /\ clients' \in [Users -> Conns \cup {None}]
             /\ conn' \in [Conns -> {"none", "registering", "open", "leaving"}]
             /\ UNCHANGED <<broken, unread, pushed>>
  <2>1. \E x \in {c, None} : clients' = [clients EXCEPT ![Owner[c]] = x]
    BY <1>2 DEF Register, Unregister
  <2>2. clients' \in [Users -> Conns \cup {None}]
    BY <1>0, <2>1
  <2> QED
    BY <1>0, <1>2, <2>2 DEF Register, Unregister, pushVars
<1>3. ASSUME NEW c \in Conns, Receive(c)
      PROVE  unread' \in [Conns -> 0..Buffer] /\ UNCHANGED <<hubVars, pushed>>
  <2>1. unread[c] \in 0..Buffer /\ unread[c] > 0
    BY <1>0, <1>3 DEF Receive
  <2>2. unread[c] - 1 \in 0..Buffer
    BY <2>1, ChatAssumption
  <2>3. unread' = [unread EXCEPT ![c] = unread[c] - 1]
    BY <1>3 DEF Receive
  <2> QED
    BY <1>0, <1>3, <2>2, <2>3 DEF Receive
<1>4. ASSUME NEW h \in Handlers, WriteJSON(h)
      PROVE  /\ unread' \in [Conns -> 0..Buffer] /\ UNCHANGED hubVars
             /\ pushed' \subseteq [conn: Conns, msg: MessageIds']
  <2> DEFINE c == request[h].conn
  <2>1. c \in Conns /\ request[h].msg \in MessageIds'
    BY <1>0, <1>4, RequestFields DEF WriteJSON, RequestsAgree
  <2>2. unread[c] \in 0..Buffer
    BY <1>0, <2>1
  <2>3. CASE UNCHANGED pushVars
    BY <1>0, <1>4, <2>3 DEF WriteJSON, pushVars
  <2>4. CASE /\ unread[c] < Buffer
             /\ unread' = [unread EXCEPT ![c] = @ + 1]
             /\ pushed' = pushed \cup {[conn |-> c, msg |-> request[h].msg]}
    <3>1. unread[c] + 1 \in 0..Buffer
      BY <2>2, <2>4, ChatAssumption
    <3>2. unread' \in [Conns -> 0..Buffer]
      BY <1>0, <2>1, <2>4, <3>1
    <3>3. pushed' \subseteq [conn: Conns, msg: MessageIds']
      BY <1>0, <2>1, <2>4
    <3> QED
      BY <1>4, <3>2, <3>3 DEF WriteJSON
  <2> QED
    BY <1>4, <2>3, <2>4 DEF WriteJSON
<1>5. CASE UNCHANGED <<hubVars, pushVars>>
  BY <1>0, <1>5 DEF hubVars, pushVars
<1> QED
  BY <1>0, <1>1, <1>2, <1>3, <1>4, <1>5
     DEF Next, SendMessage, vars, hubVars, FindRoom, CreateRoom, SaveMessage, RequestFails,
         StartPush, Collide

LEMMA TypeOKStep ==
  ASSUME TypeOK, RequestsAgree, [Next]_vars
  PROVE  TypeOK'
  BY TablesStep, RequestTypeStep, HubTypeStep DEF TypeOK

-----------------------------------------------------------------------------
(* Rooms, messages and who they are between.                               *)

LEMMA RoomsStep ==
  ASSUME TypeOK, RoomsAreKeys, [Next]_vars
  PROVE  RoomsAreKeys'
<1> USE DEF RoomIds
<1>0. rooms \in Seq(Room) /\ Len(rooms) \in Nat
  BY DEF TypeOK
<1>1. CASE UNCHANGED rooms
  BY <1>1 DEF RoomsAreKeys
<1>2. ASSUME NEW h \in Handlers, CreateRoom(h), rooms' # rooms
      PROVE  RoomsAreKeys'
  <2> DEFINE key == Key(request[h].from, request[h].to, request[h].auction)
  <2>1. key \in Room /\ key.buyer <= key.seller
    BY <1>2, RequestFields, KeyType DEF CreateRoom
  <2>2. rooms' = Append(rooms, key) /\ \A i \in RoomIds : rooms[i] # key
    BY <1>2 DEF CreateRoom
  <2> HIDE DEF key
  <2>3. /\ Len(rooms') = Len(rooms) + 1 /\ rooms'[Len(rooms) + 1] = key
        /\ \A i \in 1..Len(rooms) : rooms'[i] = rooms[i]
    BY <1>0, <2>1, <2>2, AppendGrows
  <2>4. \A i \in 1..Len(rooms') : i \in 1..Len(rooms) \/ i = Len(rooms) + 1
    BY <1>0, <2>3
  <2>5. ASSUME NEW i \in 1..Len(rooms') PROVE rooms'[i].buyer <= rooms'[i].seller
    BY <2>1, <2>3, <2>4 DEF RoomsAreKeys
  <2>6. ASSUME NEW i \in 1..Len(rooms'), NEW j \in 1..Len(rooms'), rooms'[i] = rooms'[j]
        PROVE  i = j
    BY <2>2, <2>3, <2>4, <2>6 DEF RoomsAreKeys
  <2> QED
    BY <2>5, <2>6 DEF RoomsAreKeys
<1> QED
  BY <1>1, <1>2
     DEF Next, SendMessage, vars, tables, FindRoom, SaveMessage, RequestFails, StartPush,
         WriteJSON, Collide, Connect, Register, ReadFails, Unregister, Receive, Break

(* Rows that are in the tables stay what they are.                         *)
LEMMA RowsStay ==
  ASSUME TypeOK, Grow
  PROVE  /\ RoomIds \subseteq RoomIds' /\ MessageIds \subseteq MessageIds'
         /\ \A i \in RoomIds : Members(i)' = Members(i)
         /\ \A m \in MessageIds, u \in Users : Between(m, u)' <=> Between(m, u)
<1>1. RoomIds \subseteq RoomIds' /\ MessageIds \subseteq MessageIds'
  BY DEF Grow, RoomIds, MessageIds
<1>2. \A i \in RoomIds : Members(i)' = Members(i)
  BY DEF Grow, Members
<1>3. ASSUME NEW m \in MessageIds, NEW u \in Users
      PROVE  Between(m, u)' <=> Between(m, u)
  <2>1. messages'[m] = messages[m] /\ rooms'[messages[m].room] = rooms[messages[m].room]
    BY DEF Grow, TypeOK
  <2> QED
    BY <2>1 DEF Between, Members
<1> QED
  BY <1>1, <1>2, <1>3

(* What RequestsAgree says of one request.                                 *)
Agrees(r) ==
  /\ r.step = "save" => r.room \in RoomIds /\ Members(r.room) = {r.from, r.to}
  /\ r.step = "push" => r.msg \in MessageIds /\ Between(r.msg, r.to)
  /\ r.step = "write" => r.msg \in MessageIds /\ Between(r.msg, Owner[r.conn])

LEMMA RequestsStep ==
  ASSUME TypeOK, RoomsAreKeys, RequestsAgree, NoDangling, [Next]_vars
  PROVE  RequestsAgree'
<1> SUFFICES ASSUME NEW k \in Handlers PROVE Agrees(request[k])'
    BY DEF RequestsAgree, Agrees
<1>0. /\ Grow /\ Agrees(request[k])
      /\ request \in [Handlers -> Request]
      /\ RoomIds \subseteq Nat /\ MessageIds \subseteq Nat
  <2>1. Agrees(request[k])
    BY DEF RequestsAgree, Agrees
  <2>2. RoomIds \subseteq Nat /\ MessageIds \subseteq Nat
    BY DEF RoomIds, MessageIds
  <2> QED
    BY <2>1, <2>2, TablesGrow DEF TypeOK
<1>1. CASE request'[k] = request[k]
  <2>1. Owner[request[k].conn] \in Users \/ request[k].step # "write"
    BY RequestFields, ChatAssumption
  <2>2. request[k].to \in Users \/ request[k].step # "push"
    BY RequestFields
  <2> QED
    <3>1. ASSUME request[k].step = "save"
          PROVE  Agrees(request[k])'
      BY <1>0, <1>1, <3>1, RowsStay DEF Agrees
    <3>2. ASSUME request[k].step = "push"
          PROVE  Agrees(request[k])'
      BY <1>0, <1>1, <2>2, <3>2, RowsStay DEF Agrees
    <3>3. ASSUME request[k].step = "write"
          PROVE  Agrees(request[k])'
      BY <1>0, <1>1, <2>1, <3>3, RowsStay DEF Agrees
    <3> QED
      BY <1>1, <3>1, <3>2, <3>3 DEF Agrees
<1>2. CASE request'[k] = Idle
  BY <1>2 DEF Agrees, Idle
<1>3. ASSUME NEW t \in Talks, NEW a \in Auctions, FindRoom(k, t[1], t[2], a)
      PROVE  Agrees(request[k])'
  <2>1. t[1] \in Users /\ t[2] \in Users
    BY ChatAssumption
  <2>2. CASE request' = [request EXCEPT ![k] = Create(t[1], t[2], a)]
    <3>1. request'[k].step = "create"
      BY <1>0, <2>2 DEF Create
    <3> QED
      BY <3>1 DEF Agrees
  <2>3. ASSUME NEW i \in RoomIds, rooms[i] = Key(t[1], t[2], a),
               request' = [request EXCEPT ![k] = Save(t[1], t[2], i)]
        PROVE  Agrees(request[k])'
    <3>1. request'[k] = Save(t[1], t[2], i)
      BY <1>0, <2>3
    <3>2. Members(i) = {t[1], t[2]}
      <4>1. Members(i) = {Key(t[1], t[2], a).buyer, Key(t[1], t[2], a).seller}
        BY <2>3 DEF Members
      <4> QED
        BY <2>1, <4>1, KeyType
    <3>3. i \in RoomIds' /\ Members(i)' = {t[1], t[2]}
      BY <1>0, <2>3, <3>2, RowsStay
    <3> QED
      BY <3>1, <3>3 DEF Agrees, Save
  <2> QED
    BY <1>3, <2>2, <2>3 DEF FindRoom
<1>4. ASSUME CreateRoom(k)
      PROVE  Agrees(request[k])'
  <2> DEFINE key == Key(request[k].from, request[k].to, request[k].auction)
  <2>1. /\ request[k].from \in Users /\ request[k].to \in Users
        /\ key \in Room /\ {key.buyer, key.seller} = {request[k].from, request[k].to}
    BY <1>4, RequestFields, KeyType DEF CreateRoom
  <2>2. CASE request' = [request EXCEPT ![k] = Idle]
    BY <1>0, <1>2, <2>2
  <2>3. CASE /\ rooms' = Append(rooms, key)
             /\ request' = [request EXCEPT ![k] =
                              Save(request[k].from, request[k].to, Len(rooms) + 1)]
    <3>1. PICK u \in Users, v \in Users, n \in Nat :
            u = request[k].from /\ v = request[k].to /\ n = Len(rooms) + 1
      BY <2>1 DEF TypeOK
    <3>2. request'[k] = Save(u, v, n)
      BY <1>0, <2>3, <3>1
    <3> HIDE DEF key
    <3>3. rooms'[n] = key /\ Len(rooms') = n
      BY <2>1, <2>3, <3>1, AppendGrows DEF TypeOK
    <3>4. n \in RoomIds' /\ Members(n)' = {u, v}
      <4>1. n \in RoomIds'
        BY <3>1, <3>3 DEF RoomIds, TypeOK
      <4>2. Members(n)' = {key.buyer, key.seller}
        BY <3>3 DEF Members
      <4>3. {key.buyer, key.seller} = {u, v}
        BY <2>1, <3>1
      <4> QED
        BY <4>1, <4>2, <4>3
    <3> QED
      BY <3>2, <3>4 DEF Agrees, Save
  <2> QED
    BY <1>4, <2>2, <2>3 DEF CreateRoom
<1>5. ASSUME SaveMessage(k)
      PROVE  Agrees(request[k])'
  <2>0. PICK u \in Users, v \in Users, i \in Nat, n \in Nat :
          /\ request[k].from = u /\ request[k].to = v /\ request[k].room = i
          /\ n = Len(messages) + 1
    BY <1>5, RequestFields DEF SaveMessage, TypeOK
  <2> DEFINE m == [room |-> i, sender |-> u]
  <2>1. i \in RoomIds /\ Members(i) = {u, v} /\ m \in Message
    BY <1>0, <1>5, <2>0 DEF SaveMessage, Agrees, Message
  <2>2. /\ messages' = Append(messages, m)
        /\ request'[k] = [step |-> "push", to |-> v, msg |-> n]
    BY <1>0, <1>5, <2>0 DEF SaveMessage
  <2>3. messages'[n] = m /\ Len(messages') = n
    BY <2>0, <2>1, <2>2, AppendGrows DEF TypeOK
  <2>4. Members(i)' = {u, v}
    BY <1>0, <2>1, RowsStay
  <2>5. n \in MessageIds'
    BY <2>0, <2>3 DEF MessageIds, TypeOK
  <2>6. Between(n, v)'
    BY <2>3, <2>4 DEF Between
  <2> QED
    BY <2>2, <2>5, <2>6 DEF Agrees
<1>6. ASSUME StartPush(k)
      PROVE  Agrees(request[k])'
  <2>1. PICK v \in Users, m \in Nat :
          /\ request[k].to = v /\ request[k].msg = m
          /\ m \in MessageIds /\ Between(m, v)
    BY <1>0, <1>6, RequestFields DEF StartPush, Agrees
  <2>2. CASE clients[v] = None
    BY <1>0, <1>2, <1>6, <2>1, <2>2 DEF StartPush
  <2>3. CASE clients[v] # None
    <3>0. PICK c \in Conns : c = clients[v] /\ Owner[c] = v
      BY <2>3 DEF TypeOK, NoDangling
    <3>1. request'[k] = [step |-> "write", conn |-> c, msg |-> m]
      BY <1>0, <1>6, <2>1, <2>3, <3>0 DEF StartPush
    <3>2. m \in MessageIds' /\ Between(m, v)'
      BY <1>0, <2>1, RowsStay
    <3> QED
      BY <3>0, <3>1, <3>2 DEF Agrees
  <2> QED
    BY <2>2, <2>3
<1>7. ASSUME NEW h \in Handlers, NEW g \in Handlers,
             RequestFails(h) \/ WriteJSON(h) \/ Collide(h, g)
      PROVE  request'[k] \in {request[k], Idle}
  BY <1>0, <1>7 DEF RequestFails, WriteJSON, Collide
<1>8. ASSUME NEW h \in Handlers \ {k},
             \/ \E t \in Talks, a \in Auctions : FindRoom(h, t[1], t[2], a)
             \/ CreateRoom(h) \/ SaveMessage(h) \/ StartPush(h)
      PROVE  request'[k] = request[k]
  BY <1>0, <1>8 DEF FindRoom, CreateRoom, SaveMessage, StartPush
<1>9. CASE UNCHANGED request
  BY <1>1, <1>9
<1> QED
  BY <1>1, <1>2, <1>3, <1>4, <1>5, <1>6, <1>7, <1>8, <1>9
     DEF Next, SendMessage, vars, Connect, Register, ReadFails, Unregister, Receive, Break

LEMMA PushedStep ==
  ASSUME TypeOK, RequestsAgree, PushedToOther, [Next]_vars
  PROVE  PushedToOther'
<1> SUFFICES ASSUME NEW p \in pushed' PROVE Between(p.msg, Owner[p.conn])'
    BY DEF PushedToOther
<1>0. Grow
  BY TablesGrow
<1>1. CASE p \in pushed
  <2>1. p.msg \in MessageIds /\ Owner[p.conn] \in Users
    BY <1>1, ChatAssumption DEF TypeOK
  <2> QED
    BY <1>0, <1>1, <2>1, RowsStay DEF PushedToOther
<1>2. ASSUME NEW h \in Handlers, WriteJSON(h), p \notin pushed
      PROVE  Between(p.msg, Owner[p.conn])'
  <2>1. p = [conn |-> request[h].conn, msg |-> request[h].msg]
    BY <1>2 DEF WriteJSON, pushVars
  <2>2. /\ request[h].msg \in MessageIds /\ Owner[request[h].conn] \in Users
        /\ Between(request[h].msg, Owner[request[h].conn])
    BY <1>2, RequestFields, ChatAssumption DEF WriteJSON, RequestsAgree
  <2> QED
    BY <1>0, <2>1, <2>2, RowsStay
<1>3. CASE UNCHANGED pushed
  BY <1>1, <1>3
<1> QED
  BY <1>1, <1>2, <1>3
     DEF Next, SendMessage, vars, pushVars, FindRoom, CreateRoom, SaveMessage, RequestFails,
         StartPush, Collide, Connect, Register, ReadFails, Unregister, Receive, Break

LEMMA DanglingStep ==
  ASSUME TypeOK, NoDangling, [Next]_vars
  PROVE  NoDangling'
<1> SUFFICES ASSUME NEW u \in Users, clients'[u] # None
             PROVE  Owner[clients'[u]] = u /\ conn'[clients'[u]] \in {"open", "leaving"}
    BY DEF NoDangling
<1>0. /\ clients \in [Users -> Conns \cup {None}]
      /\ conn \in [Conns -> {"none", "registering", "open", "leaving"}]
      /\ clients[u] # None => /\ clients[u] \in Conns /\ Owner[clients[u]] = u
                             /\ conn[clients[u]] \in {"open", "leaving"}
  BY DEF TypeOK, NoDangling
<1>1. ASSUME NEW c \in Conns, Connect(c) \/ ReadFails(c)
      PROVE  Owner[clients'[u]] = u /\ conn'[clients'[u]] \in {"open", "leaving"}
  BY <1>0, <1>1 DEF Connect, ReadFails
<1>2. ASSUME NEW c \in Conns, Register(c)
      PROVE  Owner[clients'[u]] = u /\ conn'[clients'[u]] \in {"open", "leaving"}
  BY <1>0, <1>2, ChatAssumption DEF Register
<1>3. ASSUME NEW c \in Conns, Unregister(c)
      PROVE  Owner[clients'[u]] = u /\ conn'[clients'[u]] \in {"open", "leaving"}
  <2>1. u # Owner[c] /\ clients'[u] = clients[u]
    BY <1>0, <1>3, ChatAssumption DEF Unregister
  <2> QED
    BY <1>0, <1>3, <2>1 DEF Unregister
<1>4. CASE UNCHANGED <<clients, conn>>
  BY <1>0, <1>4
<1> QED
  BY <1>1, <1>2, <1>3, <1>4
     DEF Next, SendMessage, vars, hubVars, FindRoom, CreateRoom, SaveMessage, RequestFails,
         StartPush, WriteJSON, Collide, Receive, Break

-----------------------------------------------------------------------------
(* The theorems.                                                           *)

LEMMA IInvInit == Init => IInv
<1> SUFFICES ASSUME Init PROVE IInv
    OBVIOUS
<1>1. 0 \in 0..Buffer
  BY ChatAssumption
<1>2. TypeOK
  BY <1>1 DEF Init, TypeOK, RoomIds, MessageIds, Request
<1>3. RoomsAreKeys /\ RequestsAgree /\ PushedToOther /\ NoDangling
  BY DEF Init, RoomsAreKeys, RequestsAgree, PushedToOther, NoDangling, RoomIds, Idle
<1> QED
  BY <1>2, <1>3 DEF IInv

LEMMA IInvStep == IInv /\ [Next]_vars => IInv'
  BY TypeOKStep, RoomsStep, RequestsStep, PushedStep, DanglingStep DEF IInv

LEMMA IInvAlways == Spec => []IInv
  BY IInvInit, IInvStep, PTL DEF Spec

(* Tables, requests and the hub are well typed; no message is stored       *)
(* without a conversation.                                                 *)
THEOREM ChatTypes == Spec => []TypeOK
<1>1. IInv => TypeOK
  BY DEF IInv
<1> QED
  BY <1>1, IInvAlways, PTL

(* Two users have one conversation about an auction, however many          *)
(* handlers look for it and create it at once.                             *)
THEOREM RoomsAreUnique == Spec => []OneRoomPerPair
<1>1. IInv => OneRoomPerPair
  <2> SUFFICES ASSUME IInv, NEW i \in RoomIds, NEW j \in RoomIds,
                      rooms[i].auction = rooms[j].auction, Members(i) = Members(j)
               PROVE  i = j
      BY DEF OneRoomPerPair
  <2>1. rooms[i] \in Room /\ rooms[j] \in Room
    BY DEF IInv, TypeOK, RoomIds
  <2>2. rooms[i].buyer <= rooms[i].seller /\ rooms[j].buyer <= rooms[j].seller
    BY DEF IInv, RoomsAreKeys
  <2>3. rooms[i].buyer = rooms[j].buyer /\ rooms[i].seller = rooms[j].seller
    <3>1. /\ rooms[i].buyer \in Nat /\ rooms[i].seller \in Nat
          /\ rooms[j].buyer \in Nat /\ rooms[j].seller \in Nat
      BY <2>1, ChatAssumption DEF Room
    <3>2. {rooms[i].buyer, rooms[i].seller} = {rooms[j].buyer, rooms[j].seller}
      BY DEF Members
    <3> QED
      BY <2>2, <3>1, <3>2
  <2>4. rooms[i] = rooms[j]
    BY <2>1, <2>3 DEF Room
  <2> QED
    BY <2>4 DEF IInv, RoomsAreKeys
<1> QED
  BY <1>1, IInvAlways, PTL

(* A message reaches connections of the other member of its conversation   *)
(* only, although the hub's entries are replaced and deleted meanwhile.    *)
THEOREM MessagesStayPrivate == Spec => []PushedToOther
<1>1. IInv => PushedToOther
  BY DEF IInv
<1> QED
  BY <1>1, IInvAlways, PTL

(* The hub holds no connection whose reader is gone.                       *)
THEOREM HubHasNoDeadEntries == Spec => []NoDangling
<1>1. IInv => NoDangling
  BY DEF IInv
<1> QED
  BY <1>1, IInvAlways, PTL
=============================================================================
