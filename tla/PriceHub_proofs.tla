--------------------------- MODULE PriceHub_proofs --------------------------
(***************************************************************************)
(* Theorems about PriceHub: what reaches the clients, and in which order,  *)
(* for any number of handlers, connections and bids.                       *)
(***************************************************************************)
EXTENDS PriceHub, TLAPS

-----------------------------------------------------------------------------
(* Sequences: the end of one that grew by a message or lost its head.      *)

LEMMA EmptyHasNoLength ==
  ASSUME NEW S, NEW s \in Seq(S)
  PROVE  Len(s) \in Nat /\ (s # <<>> <=> Len(s) > 0)
  OBVIOUS

LEMMA AppendEnds ==
  ASSUME NEW S, NEW s \in Seq(S), NEW m \in S
  PROVE  /\ Append(s, m) \in Seq(S) /\ Append(s, m) # <<>>
         /\ Len(Append(s, m)) = Len(s) + 1
         /\ Append(s, m)[Len(s) + 1] = m
         /\ \A i \in 1..Len(s) : Append(s, m)[i] = s[i]
  OBVIOUS

LEMMA TailShifts ==
  ASSUME NEW S, NEW s \in Seq(S), s # <<>>
  PROVE  /\ Tail(s) \in Seq(S) /\ Head(s) \in S /\ Head(s) = s[1]
         /\ Len(s) \in Nat \ {0} /\ Len(Tail(s)) = Len(s) - 1
         /\ \A i \in 1..Len(Tail(s)) : i + 1 \in 1..Len(s) /\ Tail(s)[i] = s[i + 1]
<1>1. Len(s) \in Nat \ {0} /\ Head(s) = s[1] /\ s[1] \in S
  OBVIOUS
<1>2. /\ Tail(s) \in Seq(S) /\ Len(Tail(s)) = Len(s) - 1
      /\ \A i \in 1..(Len(s) - 1) : Tail(s)[i] = s[i + 1]
  OBVIOUS
<1> QED
  BY <1>1, <1>2

-----------------------------------------------------------------------------
(* Type correctness.                                                       *)

LEMMA TypeOKInit == Init => TypeOK
  BY BoundsAssumption DEF Init, TypeOK, Versions, Locked

LEMMA TypeOKStep == TypeOK /\ [Next]_vars => TypeOK'
<1> SUFFICES ASSUME TypeOK, [Next]_vars PROVE TypeOK'
    OBVIOUS
<1> USE BoundsAssumption DEF TypeOK, Locked, hubVars, connVars
<1>1. ASSUME NEW h \in Handlers, CommitBid(h) PROVE TypeOK'
  BY <1>1 DEF CommitBid, Versions
<1>2. ASSUME NEW h \in Handlers, Take(h) PROVE TypeOK'
  BY <1>2 DEF Take, Versions
<1>3. CASE Lock
  BY <1>3, AppendEnds DEF Lock
<1>4. CASE Unlock
  BY <1>4 DEF Unlock
<1>5. ASSUME NEW c \in Conns, Write(c) PROVE TypeOK'
  <2>1. wire' \in [Conns -> Seq(Versions)] /\ last' \in [Conns -> Nat]
    <3>1. Append(wire[c], message) \in Seq(Versions) /\ Len(log) \in Nat
      BY AppendEnds, EmptyHasNoLength
    <3>2. CASE UNCHANGED <<wire, last>>
      BY <3>2
    <3>3. CASE /\ wire' = [wire EXCEPT ![c] = Append(@, message)]
               /\ last' = [last EXCEPT ![c] = @ + 1]
      BY <3>1, <3>3
    <3> QED
      BY <1>5, <3>2, <3>3 DEF Write
  <2>2. left' \subseteq clients' /\ clients' \subseteq Conns
    BY <1>5 DEF Write
  <2>3. at' = "write"
    BY <1>5 DEF Write
  <2>4. UNCHANGED <<version, handler, message, conn, broken, shown, log>>
    BY <1>5 DEF Write
  <2> QED
    BY <2>1, <2>2, <2>3, <2>4
<1>6. ASSUME NEW c \in Conns, Connect(c) PROVE TypeOK'
  BY <1>6 DEF Connect, Versions
<1>7. ASSUME NEW c \in Conns, AddClient(c) PROVE TypeOK'
  BY <1>7 DEF AddClient
<1>8. ASSUME NEW c \in Conns, ReadFails(c) PROVE TypeOK'
  BY <1>8 DEF ReadFails
<1>9. ASSUME NEW c \in Conns, RemoveClient(c) PROVE TypeOK'
  BY <1>9 DEF RemoveClient, Locked
<1>10. ASSUME NEW c \in Conns, Receive(c) PROVE TypeOK'
  <2>1. Head(wire[c]) \in Versions /\ Tail(wire[c]) \in Seq(Versions)
    BY <1>10, TailShifts DEF Receive
  <2> QED
    BY <1>10, <2>1 DEF Receive
<1>11. ASSUME NEW c \in Conns, Break(c) PROVE TypeOK'
  BY <1>11 DEF Break
<1>12. CASE UNCHANGED vars
  BY <1>12 DEF vars
<1> QED
  BY <1>1, <1>2, <1>3, <1>4, <1>5, <1>6, <1>7, <1>8, <1>9, <1>10, <1>11, <1>12
     DEF Next

-----------------------------------------------------------------------------
(* What the hub owes its clients.                                          *)

LEMMA LogGrows ==
  ASSUME TypeOK, Lock
  PROVE  /\ Len(log') = Len(log) + 1 /\ Len(log) \in Nat
         /\ log'[Len(log')] = message
         /\ \A i \in 1..Len(log) : log'[i] = log[i]
<1>1. log \in Seq(Versions) /\ message \in Versions
  BY DEF TypeOK
<1>2. log' = Append(log, message)
  BY DEF Lock
<1> QED
  BY <1>1, <1>2, AppendEnds, EmptyHasNoLength

LEMMA UpToDateStep == TypeOK /\ UpToDate /\ [Next]_vars => UpToDate'
<1> SUFFICES ASSUME TypeOK, UpToDate, [Next]_vars, NEW d \in clients'
             PROVE  last'[d] = IF Locked' /\ d \in left'
                               THEN Len(log') - 1 ELSE Len(log')
    BY DEF UpToDate
<1> USE DEF UpToDate, Locked
<1>0. /\ Len(log) \in Nat /\ last \in [Conns -> Nat]
      /\ clients \subseteq Conns /\ left \subseteq clients
      /\ ~Locked => left = {}
  BY EmptyHasNoLength DEF TypeOK
<1>1. CASE Lock
  <2>1. d \in clients /\ last'[d] = last[d] /\ last[d] = Len(log)
    BY <1>1 DEF Lock, connVars
  <2> QED
    BY <1>0, <1>1, <2>1, LogGrows DEF Lock
<1>2. CASE Unlock
  BY <1>0, <1>2 DEF Unlock, connVars
<1>3. ASSUME NEW c \in Conns, Write(c)
      PROVE  last'[d] = IF Locked' /\ d \in left' THEN Len(log') - 1 ELSE Len(log')
  <2>1. /\ d \in clients /\ log' = log /\ at' = at /\ Locked
        /\ left' = left \ {c}
    BY <1>3 DEF Write
  <2>2. CASE d # c
    <3>1. last'[d] = last[d]
      BY <1>0, <1>3, <2>2 DEF Write
    <3> QED
      BY <2>1, <2>2, <3>1
  <2>3. CASE d = c
    <3>1. last' = [last EXCEPT ![c] = @ + 1] /\ last[c] = Len(log) - 1
      BY <1>3, <2>3 DEF Write
    <3> QED
      BY <1>0, <2>1, <2>3, <3>1
  <2> QED
    BY <2>2, <2>3
<1>4. ASSUME NEW c \in Conns, AddClient(c)
      PROVE  last'[d] = IF Locked' /\ d \in left' THEN Len(log') - 1 ELSE Len(log')
  BY <1>0, <1>4 DEF AddClient, hubVars
<1>5. CASE clients' \subseteq clients /\ UNCHANGED <<last, hubVars>>
  BY <1>5 DEF hubVars
<1>6. ASSUME NEW h \in Handlers, Take(h)
      PROVE  last'[d] = IF Locked' /\ d \in left' THEN Len(log') - 1 ELSE Len(log')
  BY <1>6 DEF Take, connVars
<1>7. ASSUME NEW c \in Conns,
             \/ Connect(c) \/ ReadFails(c) \/ RemoveClient(c)
             \/ Receive(c) \/ Break(c)
      PROVE  clients' \subseteq clients /\ UNCHANGED <<last, hubVars>>
  BY <1>7 DEF Connect, ReadFails, RemoveClient, Receive, Break
<1>8. CASE UNCHANGED vars \/ \E h \in Handlers : CommitBid(h)
  BY <1>5, <1>8 DEF vars, CommitBid, connVars
<1> QED
  BY <1>1, <1>2, <1>3, <1>4, <1>5, <1>6, <1>7, <1>8 DEF Next

LEMMA ClientsAreReadStep ==
  TypeOK /\ ClientsAreRead /\ [Next]_vars => ClientsAreRead'
<1> SUFFICES ASSUME TypeOK, ClientsAreRead, [Next]_vars, NEW d \in clients'
             PROVE  conn'[d] \in {"open", "removing"}
    BY DEF ClientsAreRead
<1> USE DEF ClientsAreRead
<1>1. /\ conn \in [Conns -> {"none", "adding", "open", "removing"}]
      /\ clients \subseteq Conns
  BY DEF TypeOK
<1>2. ASSUME NEW c \in Conns,
             Connect(c) \/ AddClient(c) \/ ReadFails(c) \/ RemoveClient(c)
      PROVE  conn'[d] \in {"open", "removing"}
  BY <1>1, <1>2 DEF Connect, AddClient, ReadFails, RemoveClient
<1>3. CASE conn' = conn /\ clients' \subseteq clients
  BY <1>3
<1> QED
  BY <1>2, <1>3
     DEF Next, vars, connVars, CommitBid, Take, Lock, Unlock, Write, Receive, Break

-----------------------------------------------------------------------------
(* What screens see of it.                                                 *)

LEMMA LogEndStep ==
  ASSUME TypeOK, LastIsUnderWay, [Next]_vars
  PROVE  Locked' => Len(log') > 0 /\ log'[Len(log')] = message'
<1> USE DEF LastIsUnderWay, Locked
<1>1. CASE Lock
  BY <1>1, LogGrows DEF Lock
<1>2. CASE Unlock \/ \E h \in Handlers : Take(h)
  BY <1>2 DEF Unlock, Take
<1>3. CASE UNCHANGED <<at, log, message>>
  BY <1>3
<1> QED
  BY <1>1, <1>2, <1>3
     DEF Next, vars, hubVars, CommitBid, Write, Connect, AddClient, ReadFails,
         RemoveClient, Receive, Break

LEMMA FollowsStep ==
  ASSUME TypeOK, UpToDate, ClientsAreRead, LastIsUnderWay, [Next]_vars,
         NEW d \in Conns
  PROVE  Follows(d)'
<1> USE DEF LastIsUnderWay
<1>0. /\ Follows(d)
      /\ wire \in [Conns -> Seq(Versions)]
      /\ last \in [Conns -> Nat] /\ last[d] \in Nat /\ Len(log) \in Nat
      /\ broken \in [Conns -> BOOLEAN] /\ shown \in [Conns -> Versions]
      /\ conn \in [Conns -> {"none", "adding", "open", "removing"}]
  BY EmptyHasNoLength DEF TypeOK
<1>1. CASE Lock
  BY <1>0, <1>1, LogGrows DEF Lock, connVars, Follows
<1>2. ASSUME NEW c \in Conns, Write(c)
      PROVE  Follows(d)'
  <2>1. UNCHANGED <<conn, broken, shown, log>>
    BY <1>2 DEF Write
  <2>2. CASE d # c \/ broken[c]
    <3>1. wire'[d] = wire[d] /\ last'[d] = last[d]
      BY <1>0, <1>2, <2>2 DEF Write
    <3> QED
      BY <1>0, <2>1, <3>1 DEF Follows
  <2>3. CASE d = c /\ ~broken[c]
    <3>1. conn[d] \in {"open", "removing"} /\ last[d] = Len(log) - 1
      BY <1>2, <2>3 DEF Write, TypeOK, ClientsAreRead, UpToDate
    <3>2. last'[d] = Len(log)
      BY <1>0, <1>2, <2>3, <3>1 DEF Write
    <3> QED
      BY <1>0, <2>1, <2>3, <3>1, <3>2 DEF Follows
  <2> QED
    BY <2>2, <2>3
<1>3. ASSUME NEW c \in Conns,
             Connect(c) \/ AddClient(c) \/ ReadFails(c) \/ RemoveClient(c) \/ Break(c)
      PROVE  Follows(d)'
  BY <1>0, <1>3
     DEF Connect, AddClient, ReadFails, RemoveClient, Break, Follows, hubVars
<1>4. ASSUME NEW c \in Conns, Receive(c)
      PROVE  Follows(d)'
  BY <1>0, <1>4 DEF Receive, Follows, hubVars
<1>5. CASE UNCHANGED <<log, last, conn, broken, wire, shown>>
  BY <1>0, <1>5 DEF Follows
<1> QED
  BY <1>1, <1>2, <1>3, <1>4, <1>5
     DEF Next, vars, hubVars, connVars, CommitBid, Take, Unlock

LEMMA InOrderStep ==
  ASSUME TypeOK, UpToDate, ClientsAreRead, LastIsUnderWay, NoGaps, [Next]_vars,
         NEW d \in Conns, ~broken'[d]
  PROVE  InOrder(d)'
<1>0. /\ Follows(d) /\ (~broken[d] => InOrder(d))
      /\ wire \in [Conns -> Seq(Versions)] /\ wire[d] \in Seq(Versions)
      /\ Len(wire[d]) \in Nat
      /\ last \in [Conns -> Nat] /\ last[d] \in Nat /\ Len(log) \in Nat
      /\ broken \in [Conns -> BOOLEAN] /\ shown \in [Conns -> Versions]
      /\ conn \in [Conns -> {"none", "adding", "open", "removing"}]
  BY EmptyHasNoLength DEF TypeOK, LastIsUnderWay, NoGaps
<1>1. CASE Lock
  <2>1. UNCHANGED <<last, broken, wire, shown>> /\ InOrder(d)
    BY <1>0, <1>1 DEF Lock, connVars
  <2>2. /\ last[d] <= Len(log')
        /\ \A i \in 1..last[d] : log'[i] = log[i]
    BY <1>0, <1>1, <2>1, LogGrows DEF InOrder
  <2>3. ASSUME NEW i \in 1..Len(wire[d])
        PROVE  wire[d][i] = log'[last[d] - Len(wire[d]) + i]
    <3>1. last[d] - Len(wire[d]) + i \in 1..last[d]
      BY <1>0, <2>1 DEF InOrder
    <3> QED
      BY <2>1, <2>2, <3>1 DEF InOrder
  <2>4. shown[d] # 0 => shown[d] = log'[last[d] - Len(wire[d])]
    BY <1>0, <2>1, <2>2 DEF InOrder
  <2> QED
    BY <2>1, <2>2, <2>3, <2>4 DEF InOrder
<1>2. ASSUME NEW c \in Conns, Write(c)
      PROVE  InOrder(d)'
  <2>1. UNCHANGED <<broken, shown, log>> /\ InOrder(d)
    BY <1>0, <1>2 DEF Write
  <2>2. CASE d # c
    <3>1. wire'[d] = wire[d] /\ last'[d] = last[d]
      BY <1>0, <1>2, <2>2 DEF Write
    <3> QED
      BY <2>1, <3>1 DEF InOrder
  <2>3. CASE d = c
    <3>1. /\ wire' = [wire EXCEPT ![d] = Append(@, message)]
          /\ last' = [last EXCEPT ![d] = @ + 1]
      BY <1>2, <2>1, <2>3 DEF Write
    <3>2. wire'[d] = Append(wire[d], message) /\ last'[d] = last[d] + 1
      BY <1>0, <3>1
    <3>3. /\ Len(wire'[d]) = Len(wire[d]) + 1
          /\ wire'[d][Len(wire[d]) + 1] = message
          /\ \A i \in 1..Len(wire[d]) : wire'[d][i] = wire[d][i]
      BY <1>0, <3>2, AppendEnds DEF TypeOK
    <3>4. /\ last[d] = Len(log) - 1 /\ log[Len(log)] = message
      BY <1>2, <2>3 DEF Write, TypeOK, UpToDate, LastIsUnderWay
    <3>5. last'[d] - Len(wire'[d]) = last[d] - Len(wire[d])
      BY <1>0, <3>2, <3>3
    <3>6. ASSUME NEW i \in 1..Len(wire'[d])
          PROVE  wire'[d][i] = log[last[d] - Len(wire[d]) + i]
      <4>1. CASE i \in 1..Len(wire[d])
        BY <2>1, <3>3, <4>1 DEF InOrder
      <4>2. CASE i = Len(wire[d]) + 1
        BY <1>0, <3>3, <3>4, <4>2
      <4> QED
        BY <1>0, <3>3, <4>1, <4>2
    <3> QED
      BY <1>0, <2>1, <3>2, <3>4, <3>5, <3>6 DEF InOrder
  <2> QED
    BY <2>2, <2>3
<1>3. ASSUME NEW c \in Conns, Connect(c)
      PROVE  InOrder(d)'
  <2>1. UNCHANGED <<wire, last, log>>
    BY <1>3 DEF Connect, hubVars
  <2>2. CASE d # c
    BY <1>0, <1>3, <2>1, <2>2 DEF Connect, InOrder
  <2>3. CASE d = c
    <3>1. wire[d] = <<>> /\ Len(wire[d]) = 0 /\ shown'[d] = 0 /\ last[d] <= Len(log)
      BY <1>0, <1>3, <2>3 DEF Connect, Follows
    <3> QED
      BY <1>0, <2>1, <3>1 DEF InOrder
  <2> QED
    BY <2>2, <2>3
<1>4. ASSUME NEW c \in Conns, AddClient(c)
      PROVE  InOrder(d)'
  <2>1. UNCHANGED <<wire, shown, log>> /\ InOrder(d)
    BY <1>0, <1>4 DEF AddClient, hubVars
  <2>2. CASE d # c
    BY <1>0, <1>4, <2>1, <2>2 DEF AddClient, InOrder
  <2>3. CASE d = c
    <3>1. Len(wire[d]) = 0 /\ shown[d] = 0 /\ last'[d] = Len(log)
      BY <1>0, <1>4, <2>3 DEF AddClient, Follows
    <3> QED
      BY <1>0, <2>1, <3>1 DEF InOrder
  <2> QED
    BY <2>2, <2>3
<1>5. ASSUME NEW c \in Conns, Receive(c)
      PROVE  InOrder(d)'
  <2>1. UNCHANGED <<broken, last, log>> /\ InOrder(d)
    BY <1>0, <1>5 DEF Receive, hubVars
  <2>2. CASE d # c
    BY <1>0, <1>5, <2>1, <2>2 DEF Receive, InOrder
  <2>3. CASE d = c
    <3>1. wire'[d] = Tail(wire[d]) /\ shown'[d] = Head(wire[d]) /\ wire[d] # <<>>
      BY <1>0, <1>5, <2>3 DEF Receive
    <3>2. /\ shown'[d] = wire[d][1] /\ Len(wire[d]) > 0
          /\ Len(wire'[d]) = Len(wire[d]) - 1
          /\ \A i \in 1..Len(wire'[d]) :
               i + 1 \in 1..Len(wire[d]) /\ wire'[d][i] = wire[d][i + 1]
      BY <1>0, <3>1, TailShifts
    <3>3. last'[d] - Len(wire'[d]) = last[d] - Len(wire[d]) + 1
      BY <1>0, <2>1, <3>2
    <3>4. shown'[d] = log[last[d] - Len(wire[d]) + 1]
      BY <1>0, <2>1, <3>2 DEF InOrder
    <3>5. ASSUME NEW i \in 1..Len(wire'[d])
          PROVE  wire'[d][i] = log[last[d] - Len(wire[d]) + 1 + i]
      <4>1. wire'[d][i] = log[last[d] - Len(wire[d]) + (i + 1)]
        BY <2>1, <3>2 DEF InOrder
      <4> QED
        BY <1>0, <4>1
    <3> QED
      BY <1>0, <2>1, <3>3, <3>4, <3>5 DEF InOrder
  <2> QED
    BY <2>2, <2>3
<1>6. ASSUME NEW c \in Conns, Break(c)
      PROVE  InOrder(d)'
  BY <1>0, <1>6 DEF Break, InOrder, hubVars
<1>7. CASE UNCHANGED <<log, last, broken, wire, shown>>
  BY <1>0, <1>7 DEF InOrder
<1> QED
  BY <1>1, <1>2, <1>3, <1>4, <1>5, <1>6, <1>7
     DEF Next, vars, hubVars, connVars, CommitBid, Take, Unlock, ReadFails,
         RemoveClient

-----------------------------------------------------------------------------
(* The theorems.                                                           *)

LEMMA IInvInit == Init => IInv
<1> SUFFICES ASSUME Init PROVE IInv
    OBVIOUS
<1>1. TypeOK
  BY TypeOKInit
<1>2. UpToDate /\ ClientsAreRead
  BY DEF Init, UpToDate, ClientsAreRead
<1>3. LastIsUnderWay /\ NoGaps
  BY DEF Init, LastIsUnderWay, Follows, Locked, NoGaps
<1> QED
  BY <1>1, <1>2, <1>3 DEF IInv

LEMMA IInvStep == IInv /\ [Next]_vars => IInv'
  BY TypeOKStep, UpToDateStep, ClientsAreReadStep, LogEndStep, FollowsStep,
     InOrderStep DEF IInv, LastIsUnderWay, NoGaps

LEMMA IInvAlways == Spec => []IInv
  BY IInvInit, IInvStep, PTL DEF Spec

(* The variables keep their types; in particular Run's loop only visits    *)
(* clients of the hub, and none when it does not hold the mutex.           *)
THEOREM HubTypes == Spec => []TypeOK
<1>1. IInv => TypeOK
  BY DEF IInv
<1> QED
  BY <1>1, IInvAlways, PTL

(* A client is owed at most the message that is being written, however     *)
(* clients join, break and leave while bids arrive.                        *)
THEOREM ClientsAreUpToDate == Spec => []UpToDate
<1>1. IInv => UpToDate
  BY DEF IInv
<1> QED
  BY <1>1, IInvAlways, PTL

(* What a phone was shown last, and behind it what is on its way to it,    *)
(* are Run's messages one after the other: none skipped, none twice.       *)
THEOREM MessagesComeInOrder == Spec => []NoGaps
<1>1. IInv => NoGaps
  BY DEF IInv
<1> QED
  BY <1>1, IInvAlways, PTL

(* Screens that are connected and have read everything agree.              *)
THEOREM ScreensShowTheSame == Spec => []ScreensAgree
<1>1. IInv => ScreensAgree
  <2> SUFFICES ASSUME IInv, ~Locked, NEW c \in clients, CaughtUp(c)
               PROVE  shown[c] = log[Len(log)]
      BY DEF ScreensAgree
  <2>1. c \in Conns /\ Len(log) \in Nat /\ Len(wire[c]) = 0
    BY EmptyHasNoLength DEF IInv, TypeOK, CaughtUp
  <2>2. last[c] = Len(log) /\ InOrder(c)
    BY <2>1 DEF IInv, UpToDate, NoGaps, CaughtUp
  <2> QED
    BY <2>1, <2>2 DEF InOrder, CaughtUp
<1> QED
  BY <1>1, IInvAlways, PTL
=============================================================================
