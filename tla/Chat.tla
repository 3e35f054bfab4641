-------------------------------- MODULE Chat --------------------------------
(***************************************************************************)
(* Messages between a buyer and a seller about an auction: handlers that   *)
(* find or create the conversation, store the message and push it to the   *)
(* receiver's phone (message_service.go, message_repository.go), and the   *)
(* chat hub with the one connection it keeps per user (chat_hub.go,        *)
(* ConnectChatWS).                                                         *)
(*                                                                         *)
(* No auction is deleted here, and a table's rows are numbered in the      *)
(* order they are inserted.  What a phone does with a message is not       *)
(* modelled, only that it may be slow to read it.                          *)
(***************************************************************************)
EXTENDS Integers, Sequences

CONSTANTS
  None,
  Users,         \* user ids, numbers
  Talks,         \* bound: who writes to whom, pairs of users
  Auctions,
  Handlers,      \* goroutines that serve POST .../messages
  Conns,         \* websocket connections
  Owner,         \* whose token a connection was opened with
  MaxMessages,   \* bound: rows in messages
  Buffer         \* messages the network holds for a phone that does not read

ASSUME ChatAssumption ==
  /\ Users \subseteq Nat /\ Talks \subseteq Users \X Users
  /\ Owner \in [Conns -> Users]
  /\ None \notin Conns
  /\ MaxMessages \in Nat /\ Buffer \in Nat \ {0}

VARIABLES
  rooms,      \* the conversations table
  messages,   \* the messages table
  request,    \* what each handler is about
  clients,    \* ChatHub.Clients
  conn,       \* where each ConnectChatWS is
  broken,     \* the connections that are closed at either end
  unread,     \* messages written to a connection and not read by the phone
  pushed      \* history: which message was written to which connection

tables   == <<rooms, messages>>
hubVars  == <<clients, conn, broken>>
pushVars == <<unread, pushed>>
vars     == <<tables, request, hubVars, pushVars>>

RoomIds    == 1..Len(rooms)
MessageIds == 1..Len(messages)

Room    == [buyer: Users, seller: Users, auction: Auctions]
Message == [room: Nat, sender: Users]

Idle == [step |-> "idle"]

(* A handler carries sender and receiver with the room's key, then with    *)
(* the room's id, then with the message and the connection it writes to.   *)
Request ==
  {Idle}
    \cup [step: {"create"}, from: Users, to: Users, auction: Auctions]
    \cup [step: {"save"}, from: Users, to: Users, room: Nat]
    \cup [step: {"push"}, to: Users, msg: Nat]
    \cup [step: {"write"}, conn: Conns, msg: Nat]

Create(u, v, a) == [step |-> "create", from |-> u, to |-> v, auction |-> a]
Save(u, v, i)   == [step |-> "save", from |-> u, to |-> v, room |-> i]

(* The smaller id is always the "buyer".                                   *)
Key(u, v, a) ==
  [buyer |-> IF u < v THEN u ELSE v, seller |-> IF u < v THEN v ELSE u,
   auction |-> a]

(* The hub's RWMutex is held for reading while a handler writes; Register  *)
(* and Unregister hold it for one step.                                    *)
ReadLocked == \E h \in Handlers : request[h].step = "write"

-----------------------------------------------------------------------------
(* MessageService.SendMessage.                                             *)

(* FindOrCreateConversation: SELECT id FROM conversations ...              *)
FindRoom(h, u, v, a) ==
  /\ request[h] = Idle /\ Len(messages) < MaxMessages
  /\ \/ /\ \A i \in RoomIds : rooms[i] # Key(u, v, a)
        /\ request' = [request EXCEPT ![h] = Create(u, v, a)]
     \/ \E i \in RoomIds :
          /\ rooms[i] = Key(u, v, a)
          /\ request' = [request EXCEPT ![h] = Save(u, v, i)]
  /\ UNCHANGED <<tables, hubVars, pushVars>>

(* Mutant: the conversations have no unique key.                           *)
CreateRoom_NoUniqueKey(h) ==
  LET r == request[h] IN
  /\ r.step = "create"
  /\ rooms' = Append(rooms, Key(r.from, r.to, r.auction))
  /\ request' = [request EXCEPT ![h] = Save(r.from, r.to, Len(rooms) + 1)]
  /\ UNCHANGED <<messages, hubVars, pushVars>>

(* Mutant: the error of the INSERT is not looked at; the id stays zero.    *)
CreateRoom_IgnoresError(h) ==
  LET r == request[h] key == Key(r.from, r.to, r.auction) IN
  /\ r.step = "create"
  /\ IF \E i \in RoomIds : rooms[i] = key
     THEN /\ rooms' = rooms
          /\ request' = [request EXCEPT ![h] = Save(r.from, r.to, 0)]
     ELSE /\ rooms' = Append(rooms, key)
          /\ request' = [request EXCEPT ![h] = Save(r.from, r.to, Len(rooms) + 1)]
  /\ UNCHANGED <<messages, hubVars, pushVars>>

(* ... and INSERT when there was none.  When somebody else inserted it     *)
(* meanwhile, the unique key makes the request fail.                       *)
CreateRoom(h) ==
  LET r == request[h] key == Key(r.from, r.to, r.auction) IN
  /\ r.step = "create"
  /\ IF \E i \in RoomIds : rooms[i] = key
     THEN /\ rooms' = rooms
          /\ request' = [request EXCEPT ![h] = Idle]
     ELSE /\ rooms' = Append(rooms, key)
          /\ request' = [request EXCEPT ![h] = Save(r.from, r.to, Len(rooms) + 1)]
  /\ UNCHANGED <<messages, hubVars, pushVars>>

SaveMessage(h) ==
  LET r == request[h] IN
  /\ r.step = "save" /\ Len(messages) < MaxMessages
  /\ messages' = Append(messages, [room |-> r.room, sender |-> r.from])
  /\ request' = [request EXCEPT ![h] =
                   [step |-> "push", to |-> r.to, msg |-> Len(messages) + 1]]
  /\ UNCHANGED <<rooms, hubVars, pushVars>>

(* The database fails, or the client hangs up while it works.              *)
RequestFails(h) ==
  /\ request[h].step \in {"create", "save"}
  /\ request' = [request EXCEPT ![h] = Idle]
  /\ UNCHANGED <<tables, hubVars, pushVars>>

(* Mutant: the message goes to the "seller" of the room.                   *)
StartPush_ToSeller(h) ==
  LET r == request[h] to == rooms[messages[r.msg].room].seller IN
  /\ r.step = "push"
  /\ request' = [request EXCEPT ![h] =
       IF clients[to] = None THEN Idle
       ELSE [step |-> "write", conn |-> clients[to], msg |-> r.msg]]
  /\ UNCHANGED <<tables, hubVars, pushVars>>

(* SendToUser takes the lock for reading and looks the receiver up.        *)
StartPush(h) ==
  LET r == request[h] IN
  /\ r.step = "push"
  /\ request' = [request EXCEPT ![h] =
       IF clients[r.to] = None THEN Idle
       ELSE [step |-> "write", conn |-> clients[r.to], msg |-> r.msg]]
  /\ UNCHANGED <<tables, hubVars, pushVars>>

(* Mutant: a failed write returns without unlocking.                       *)
WriteJSON_KeepsLock(h) ==
  LET c == request[h].conn IN
  /\ request[h].step = "write"
  /\ ~broken[c] /\ unread[c] < Buffer
  /\ unread' = [unread EXCEPT ![c] = @ + 1]
  /\ pushed' = pushed \cup {[conn |-> c, msg |-> request[h].msg]}
  /\ request' = [request EXCEPT ![h] = Idle]
  /\ UNCHANGED <<tables, hubVars>>

(* The message is written, or lost to an error nobody looks at.  It waits  *)
(* for a phone that does not read: there is no deadline.                   *)
WriteJSON(h) ==
  LET c == request[h].conn IN
  /\ request[h].step = "write"
  /\ \/ /\ broken[c]
        /\ UNCHANGED pushVars
     \/ /\ ~broken[c] /\ unread[c] < Buffer
        /\ unread' = [unread EXCEPT ![c] = @ + 1]
        /\ pushed' = pushed \cup {[conn |-> c, msg |-> request[h].msg]}
  /\ request' = [request EXCEPT ![h] = Idle]
  /\ UNCHANGED <<tables, hubVars>>

(* Two handlers write to one connection at once, which WriteJSON does not  *)
(* allow: one of them panics, or both.  The lock is released and their     *)
(* requests get no answer.                                                 *)
Collide(h, g) ==
  /\ h # g
  /\ request[h].step = "write" /\ request[g].step = "write"
  /\ request[h].conn = request[g].conn
  /\ \E panicking \in {{h}, {h, g}} :
       request' = [k \in Handlers |-> IF k \in panicking THEN Idle ELSE request[k]]
  /\ UNCHANGED <<tables, hubVars, pushVars>>

-----------------------------------------------------------------------------
(* ConnectChatWS, the hub and the phones.                                  *)

Connect(c) ==
  /\ conn[c] = "none"
  /\ conn' = [conn EXCEPT ![c] = "registering"]
  /\ broken' = [broken EXCEPT ![c] = FALSE]
  /\ UNCHANGED <<tables, request, clients, pushVars>>

(* The user's earlier connection is forgotten, and not closed.             *)
Register(c) ==
  /\ conn[c] = "registering" /\ ~ReadLocked
  /\ clients' = [clients EXCEPT ![Owner[c]] = c]
  /\ conn' = [conn EXCEPT ![c] = "open"]
  /\ UNCHANGED <<tables, request, broken, pushVars>>

ReadFails(c) ==
  /\ conn[c] = "open" /\ broken[c]
  /\ conn' = [conn EXCEPT ![c] = "leaving"]
  /\ UNCHANGED <<tables, request, clients, broken, pushVars>>

(* Mutant: the connection is closed and not unregistered.                  *)
Unregister_ClosesOnly(c) ==
  /\ conn[c] = "leaving" /\ ~ReadLocked
  /\ conn' = [conn EXCEPT ![c] = "none"]
  /\ UNCHANGED <<tables, request, clients, broken, pushVars>>

(* The user's entry is deleted, whatever connection it holds by now.       *)
Unregister(c) ==
  /\ conn[c] = "leaving" /\ ~ReadLocked
  /\ clients' = [clients EXCEPT ![Owner[c]] = None]
  /\ conn' = [conn EXCEPT ![c] = "none"]
  /\ UNCHANGED <<tables, request, broken, pushVars>>

Receive(c) ==
  /\ ~broken[c] /\ unread[c] > 0
  /\ unread' = [unread EXCEPT ![c] = @ - 1]
  /\ UNCHANGED <<tables, request, hubVars, pushed>>

(* The app is closed or the network goes.                                  *)
Break(c) ==
  /\ conn[c] \in {"registering", "open"} /\ ~broken[c]
  /\ broken' = [broken EXCEPT ![c] = TRUE]
  /\ unread' = [unread EXCEPT ![c] = 0]
  /\ UNCHANGED <<tables, request, clients, conn, pushed>>

-----------------------------------------------------------------------------
Init ==
  /\ rooms = <<>> /\ messages = <<>>
  /\ request = [h \in Handlers |-> Idle]
  /\ clients = [u \in Users |-> None]
  /\ conn = [c \in Conns |-> "none"]
  /\ broken = [c \in Conns |-> TRUE]
  /\ unread = [c \in Conns |-> 0]
  /\ pushed = {}

SendMessage(h) ==
  \/ \E t \in Talks, a \in Auctions : FindRoom(h, t[1], t[2], a)
  \/ CreateRoom(h) \/ SaveMessage(h) \/ RequestFails(h)
  \/ StartPush(h) \/ WriteJSON(h) \/ \E g \in Handlers : Collide(h, g)

Next ==
  \/ \E h \in Handlers : SendMessage(h)
  \/ \E c \in Conns :
       \/ Connect(c) \/ Register(c) \/ ReadFails(c) \/ Unregister(c)
       \/ Receive(c) \/ Break(c)

Spec == Init /\ [][Next]_vars

(* The backend's goroutines run; a writer that waits for the mutex keeps   *)
(* later readers out, so that it is not passed over for ever.  Each phone  *)
(* reads what it gets, unless its connection breaks.                       *)
Fairness ==
  /\ \A h \in Handlers : WF_vars(StartPush(h)) /\ WF_vars(WriteJSON(h))
  /\ \A c \in Conns :
       /\ WF_vars(ReadFails(c)) /\ WF_vars(Receive(c))
       /\ SF_vars(Register(c)) /\ SF_vars(Unregister(c))

FairSpec == Spec /\ Fairness

-----------------------------------------------------------------------------
(* Properties.                                                             *)

(* Every table and variable has its type; foreign keys hold.               *)
TypeOK ==
  /\ rooms \in Seq(Room)
  /\ messages \in Seq(Message)
  /\ \A m \in MessageIds : messages[m].room \in RoomIds
  /\ request \in [Handlers -> Request]
  /\ clients \in [Users -> Conns \cup {None}]
  /\ conn \in [Conns -> {"none", "registering", "open", "leaving"}]
  /\ broken \in [Conns -> BOOLEAN]
  /\ unread \in [Conns -> 0..Buffer]
  /\ pushed \subseteq [conn: Conns, msg: MessageIds]

Members(i) == {rooms[i].buyer, rooms[i].seller}

(* Two users have at most one conversation about an auction, whoever       *)
(* writes first and however many do at the same time.                      *)
OneRoomPerPair ==
  \A i, j \in RoomIds :
    rooms[i].auction = rooms[j].auction /\ Members(i) = Members(j) => i = j

(* A message is pushed to the other member of its conversation and to      *)
(* nobody else, however connections replace each other.                    *)
Between(m, u) == {messages[m].sender, u} = Members(messages[m].room)

PushedToOther == \A p \in pushed : Between(p.msg, Owner[p.conn])

(* Whom the hub takes for online has a connection of his own whose reader  *)
(* is still there to unregister it.                                        *)
NoDangling ==
  \A u \in Users : clients[u] # None =>
    Owner[clients[u]] = u /\ conn[clients[u]] \in {"open", "leaving"}

(* As long as phones read or disconnect, nobody waits for the hub forever. *)
ChatServes ==
  /\ \A h \in Handlers :
       request[h].step \in {"push", "write"} ~> request[h] = Idle
  /\ \A c \in Conns :
       /\ conn[c] = "registering" ~> conn[c] # "registering"
       /\ conn[c] = "leaving" ~> conn[c] = "none"

-----------------------------------------------------------------------------
(* The inductive invariant.                                                *)

(* Rooms are ordered pairs, as SendMessage makes them, and no two are      *)
(* equal.                                                                  *)
RoomsAreKeys ==
  /\ \A i \in RoomIds : rooms[i].buyer <= rooms[i].seller
  /\ \A i, j \in RoomIds : rooms[i] = rooms[j] => i = j

(* A handler's room and message are the ones of its sender and receiver.   *)
RequestsAgree ==
  \A h \in Handlers :
    LET r == request[h] IN
    /\ r.step = "save" => r.room \in RoomIds /\ Members(r.room) = {r.from, r.to}
    /\ r.step = "push" => r.msg \in MessageIds /\ Between(r.msg, r.to)
    /\ r.step = "write" => r.msg \in MessageIds /\ Between(r.msg, Owner[r.conn])

IInv == TypeOK /\ RoomsAreKeys /\ RequestsAgree /\ PushedToOther /\ NoDangling

-----------------------------------------------------------------------------
(* What comments say and the code does not do.                             *)

(* "If the receiver is currently online, shoot the message to their phone  *)
(* instantly" (message_service.go:55): the hub knows a connection of every *)
(* user who has one open.                                                  *)
OnlineIsFound ==
  \A c \in Conns :
    conn[c] = "open" /\ ~broken[c] => clients[Owner[c]] # None
=============================================================================
