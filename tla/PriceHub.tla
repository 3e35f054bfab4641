------------------------------ MODULE PriceHub ------------------------------
(***************************************************************************)
(* How a new price reaches the screens: bid handlers that commit a bid and *)
(* then hand a message to the hub (bid_handler.go), the hub's one writing  *)
(* goroutine (hub.go), the websocket connections and their readers         *)
(* (ws_handler.go), and the phones at the other end.                       *)
(*                                                                         *)
(* One auction: a screen ignores the messages of others.  The n-th bid     *)
(* that commits leaves version n of price and leader behind, and that is   *)
(* all a message says.                                                     *)
(***************************************************************************)
EXTENDS Integers, Sequences

CONSTANTS
  Handlers,      \* goroutines that serve POST .../bids
  Conns,         \* websocket connections, each of one screen
  MaxBids,       \* bound: bids that commit
  Buffer         \* messages the network holds for a client that does not read

ASSUME BoundsAssumption == MaxBids \in Nat /\ Buffer \in Nat \ {0}

VARIABLES
  version,   \* the auction's row: bids committed so far
  handler,   \* the version a handler has to broadcast; 0 for none
  at,        \* where Run is: at the channel, at the mutex, or writing
  message,   \* Run's local message; 0 before the first one
  left,      \* the clients that Run's loop has still to visit
  clients,   \* Hub.clients
  conn,      \* where HandleConnections and its reader are
  broken,    \* the connections that are closed at either end
  wire,      \* what is written to a connection and not read by the phone
  shown,     \* the last version pushed to a screen; 0 for none since it opened
  log,       \* history: the messages in the order Run wrote them
  last       \* history: how far in log each client is, joining at its end

hubVars  == <<at, message, left, log>>
connVars == <<clients, conn, broken, wire, shown, last>>
vars     == <<version, handler, hubVars, connVars>>

Versions == 0..MaxBids

(* Hub.mutex is held while Run writes; AddClient and RemoveClient hold it  *)
(* for one step.                                                           *)
Locked == at = "write"

-----------------------------------------------------------------------------
(* BidHandler.PlaceBid.                                                    *)

(* svc.PlaceBid commits; the transaction and its row lock are over.        *)
CommitBid(h) ==
  /\ handler[h] = 0
  /\ version < MaxBids
  /\ version' = version + 1
  /\ handler' = [handler EXCEPT ![h] = version + 1]
  /\ UNCHANGED <<hubVars, connVars>>

(* hub.Broadcast <- messageBytes meets <-h.Broadcast: the channel holds    *)
(* nothing.  The handler goes on to answer its request.                    *)
Take(h) ==
  /\ handler[h] # 0
  /\ at = "channel"
  /\ at' = "mutex"
  /\ message' = handler[h]
  /\ handler' = [handler EXCEPT ![h] = 0]
  /\ UNCHANGED <<version, left, log, connVars>>

-----------------------------------------------------------------------------
(* Hub.Run.                                                                *)

Lock ==
  /\ at = "mutex"
  /\ at' = "write"
  /\ left' = clients
  /\ log' = Append(log, message)
  /\ UNCHANGED <<version, handler, message, connVars>>

(* Mutant: a client whose buffer is full is passed over.                   *)
Write_SkipsSlow(c) ==
  /\ Locked /\ c \in left
  /\ left' = left \ {c}
  /\ IF broken[c]
     THEN /\ clients' = clients \ {c}
          /\ UNCHANGED <<wire, last>>
     ELSE /\ clients' = clients
          /\ IF Len(wire[c]) < Buffer
             THEN /\ wire' = [wire EXCEPT ![c] = Append(@, message)]
                  /\ last' = [last EXCEPT ![c] = @ + 1]
             ELSE UNCHANGED <<wire, last>>
  /\ UNCHANGED <<version, handler, at, message, conn, broken, shown, log>>

(* Mutant: the loop ends at the first client that is gone.                 *)
Write_StopsAtError(c) ==
  /\ Locked /\ c \in left
  /\ \/ /\ broken[c]
        /\ left' = {}
        /\ clients' = clients \ {c}
        /\ UNCHANGED <<wire, last>>
     \/ /\ ~broken[c] /\ Len(wire[c]) < Buffer
        /\ left' = left \ {c}
        /\ wire' = [wire EXCEPT ![c] = Append(@, message)]
        /\ last' = [last EXCEPT ![c] = @ + 1]
        /\ UNCHANGED clients
  /\ UNCHANGED <<version, handler, at, message, conn, broken, shown, log>>

(* Mutant: Run returns at the first error, with the mutex locked.          *)
Write_ReturnsLocked(c) ==
  /\ Locked /\ c \in left
  /\ ~broken[c] /\ Len(wire[c]) < Buffer
  /\ left' = left \ {c}
  /\ wire' = [wire EXCEPT ![c] = Append(@, message)]
  /\ last' = [last EXCEPT ![c] = @ + 1]
  /\ UNCHANGED <<version, handler, at, message, clients, conn, broken, shown, log>>

(* Mutant: a message that a client was slow to take is written again.      *)
Write_Twice(c) ==
  /\ Locked /\ c \in left
  /\ \/ /\ broken[c]
        /\ clients' = clients \ {c}
        /\ UNCHANGED <<wire, last>>
     \/ /\ ~broken[c] /\ Len(wire[c]) < Buffer
        /\ \E again \in {<<>>, <<message>>} :
             wire' = [wire EXCEPT ![c] = Append(@, message) \o again]
        /\ last' = [last EXCEPT ![c] = @ + 1]
        /\ UNCHANGED clients
  /\ left' = left \ {c}
  /\ UNCHANGED <<version, handler, at, message, conn, broken, shown, log>>

(* client.WriteMessage: an error removes the client; a phone that does not *)
(* read makes it wait, for there is no deadline.                           *)
Write(c) ==
  /\ Locked /\ c \in left
  /\ \/ /\ broken[c]
        /\ clients' = clients \ {c}
        /\ UNCHANGED <<wire, last>>
     \/ /\ ~broken[c] /\ Len(wire[c]) < Buffer
        /\ wire' = [wire EXCEPT ![c] = Append(@, message)]
        /\ last' = [last EXCEPT ![c] = @ + 1]
        /\ UNCHANGED clients
  /\ left' = left \ {c}
  /\ UNCHANGED <<version, handler, at, message, conn, broken, shown, log>>

Unlock ==
  /\ Locked /\ left = {}
  /\ at' = "channel"
  /\ UNCHANGED <<version, handler, message, left, log, connVars>>

-----------------------------------------------------------------------------
(* HandleConnections, its reading goroutine, and the phone.                *)

(* A screen opens and the connection is upgraded.                          *)
Connect(c) ==
  /\ conn[c] = "none"
  /\ conn' = [conn EXCEPT ![c] = "adding"]
  /\ broken' = [broken EXCEPT ![c] = FALSE]
  /\ shown' = [shown EXCEPT ![c] = 0]
  /\ UNCHANGED <<version, handler, hubVars, clients, wire, last>>

AddClient(c) ==
  /\ conn[c] = "adding" /\ ~Locked
  /\ clients' = clients \cup {c}
  /\ conn' = [conn EXCEPT ![c] = "open"]
  /\ last' = [last EXCEPT ![c] = Len(log)]
  /\ UNCHANGED <<version, handler, hubVars, broken, wire, shown>>

(* Mutant: nobody reads from the connection.                               *)
ReadFails_NoReader(c) == FALSE /\ UNCHANGED vars

(* ReadMessage fails: the reader leaves its loop.                          *)
ReadFails(c) ==
  /\ conn[c] = "open" /\ broken[c]
  /\ conn' = [conn EXCEPT ![c] = "removing"]
  /\ UNCHANGED <<version, handler, hubVars, clients, broken, wire, shown, last>>

(* Mutant: RemoveClient without the mutex.                                 *)
RemoveClient_NoMutex(c) ==
  /\ conn[c] = "removing"
  /\ clients' = clients \ {c}
  /\ conn' = [conn EXCEPT ![c] = "none"]
  /\ UNCHANGED <<version, handler, hubVars, broken, wire, shown, last>>

RemoveClient(c) ==
  /\ conn[c] = "removing" /\ ~Locked
  /\ clients' = clients \ {c}
  /\ conn' = [conn EXCEPT ![c] = "none"]
  /\ UNCHANGED <<version, handler, hubVars, broken, wire, shown, last>>

(* The phone reads the next message and shows it.                          *)
Receive(c) ==
  /\ conn[c] # "none" /\ ~broken[c] /\ wire[c] # <<>>
  /\ shown' = [shown EXCEPT ![c] = Head(wire[c])]
  /\ wire' = [wire EXCEPT ![c] = Tail(@)]
  /\ UNCHANGED <<version, handler, hubVars, clients, conn, broken, last>>

(* The screen closes or the network goes; what was on its way is lost.     *)
(* The phone never connects again by itself.                               *)
Break(c) ==
  /\ conn[c] \in {"adding", "open"} /\ ~broken[c]
  /\ broken' = [broken EXCEPT ![c] = TRUE]
  /\ wire' = [wire EXCEPT ![c] = <<>>]
  /\ UNCHANGED <<version, handler, hubVars, clients, conn, shown, last>>

-----------------------------------------------------------------------------
Init ==
  /\ version = 0
  /\ handler = [h \in Handlers |-> 0]
  /\ at = "channel" /\ message = 0 /\ left = {} /\ log = <<>>
  /\ clients = {}
  /\ conn = [c \in Conns |-> "none"]
  /\ broken = [c \in Conns |-> TRUE]
  /\ wire = [c \in Conns |-> <<>>]
  /\ shown = [c \in Conns |-> 0]
  /\ last = [c \in Conns |-> 0]

Next ==
  \/ \E h \in Handlers : CommitBid(h) \/ Take(h)
  \/ Lock \/ Unlock
  \/ \E c \in Conns :
       \/ Write(c) \/ Connect(c) \/ AddClient(c) \/ ReadFails(c)
       \/ RemoveClient(c) \/ Receive(c) \/ Break(c)

Spec == Init /\ [][Next]_vars

(* The backend's goroutines run.  A Go channel serves its senders, and a   *)
(* Go mutex those that wait for it, in the order they came: hence strong   *)
(* fairness for who may be overtaken while Run is busy.                    *)
Fairness ==
  /\ WF_vars(Lock) /\ WF_vars(Unlock)
  /\ \A h \in Handlers : SF_vars(Take(h))
  /\ \A c \in Conns :
       /\ WF_vars(Write(c)) /\ WF_vars(ReadFails(c))
       /\ SF_vars(AddClient(c)) /\ SF_vars(RemoveClient(c))

(* Phones may do what they like ...                                        *)
FairSpec == Spec /\ Fairness

(* ... or each reads what it gets, unless its connection breaks.           *)
ReadingSpec == FairSpec /\ \A c \in Conns : WF_vars(Receive(c))

-----------------------------------------------------------------------------
(* Properties.                                                             *)

(* Every variable has its type.                                            *)
TypeOK ==
  /\ version \in Versions
  /\ handler \in [Handlers -> Versions]
  /\ at \in {"channel", "mutex", "write"}
  /\ message \in Versions
  /\ left \subseteq clients /\ (~Locked => left = {})
  /\ clients \subseteq Conns
  /\ conn \in [Conns -> {"none", "adding", "open", "removing"}]
  /\ broken \in [Conns -> BOOLEAN]
  /\ wire \in [Conns -> Seq(Versions)]
  /\ shown \in [Conns -> Versions]
  /\ log \in Seq(Versions)
  /\ last \in [Conns -> Nat]

(* The hub owes a client at most the message it is writing: all others     *)
(* since AddClient have been written to it.                                *)
UpToDate ==
  \A c \in clients :
    last[c] = IF Locked /\ c \in left THEN Len(log) - 1 ELSE Len(log)

(* Nothing is skipped, nothing comes twice and nothing out of order: what  *)
(* is shown, and behind it what is on its way to the phone, are the log's  *)
(* messages one after the other up to where the client is.                 *)
InOrder(c) ==
  LET read == last[c] - Len(wire[c]) IN
  /\ 0 <= read /\ last[c] <= Len(log)
  /\ \A i \in 1..Len(wire[c]) : wire[c][i] = log[read + i]
  /\ shown[c] # 0 => read > 0 /\ shown[c] = log[read]

NoGaps == \A c \in Conns : ~broken[c] => InOrder(c)

(* Screens that are connected, have read everything and have been pushed   *)
(* a price since they opened show the same price, whenever Run is not      *)
(* writing.                                                                *)
CaughtUp(c) == ~broken[c] /\ wire[c] = <<>> /\ shown[c] # 0

ScreensAgree ==
  ~Locked => \A c, d \in clients :
               CaughtUp(c) /\ CaughtUp(d) => shown[c] = shown[d]

(* As long as phones read or disconnect, nobody waits for the hub forever: *)
(* neither a handler, with a bid to answer once its message is taken, nor  *)
(* a screen that joins or leaves.                                          *)
HubServes ==
  /\ \A h \in Handlers : handler[h] # 0 ~> handler[h] = 0
  /\ \A c \in Conns :
       /\ conn[c] = "adding" ~> conn[c] # "adding"
       /\ conn[c] = "removing" ~> conn[c] = "none"

(* A connection that broke does not stay among the clients.                *)
BrokenIsRemoved ==
  \A c \in Conns : c \in clients /\ broken[c] ~> c \notin clients

-----------------------------------------------------------------------------
(* The inductive invariant.                                                *)

(* The hub's clients are connections with a reader, which will remove them.*)
ClientsAreRead ==
  \A c \in clients : conn[c] \in {"open", "removing"}

(* What Run is writing is the end of the log.  Nothing is on a broken      *)
(* connection, nor on one that has yet to join.                            *)
Follows(c) ==
  /\ last[c] <= Len(log)
  /\ conn[c] \in {"none", "removing"} => broken[c]
  /\ conn[c] = "adding" => wire[c] = <<>> /\ shown[c] = 0
  /\ broken[c] => wire[c] = <<>>

LastIsUnderWay ==
  /\ Locked => Len(log) > 0 /\ log[Len(log)] = message
  /\ \A c \in Conns : Follows(c)

IInv == TypeOK /\ UpToDate /\ ClientsAreRead /\ LastIsUnderWay /\ NoGaps
=============================================================================
