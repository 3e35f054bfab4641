------------------------ MODULE OrderPayment_proofs ------------------------
(***************************************************************************)
(* The invariants of OrderPayment, and that it implements OrderLife.       *)
(***************************************************************************)
EXTENDS OrderPayment, TLAPS


(* A charge is either nothing yet, or a charge of an order.                *)
LEMMA ChargeCases ==
  ASSUME TypeOK, NEW c \in Charges
  PROVE  \/ charge[c] = NoCharge /\ charge[c].order = Null /\ charge[c].status = "none"
         \/ /\ charge[c].order \in Orders
            /\ charge[c].status \in {"created", "open", "paid"}
<1>1. charge[c] \in Charge
  BY DEF TypeOK
<1>2. CASE charge[c] = NoCharge
  BY <1>2 DEF NoCharge
<1>3. CASE charge[c] \in [order: Orders, status: {"created", "open", "paid"}]
  BY <1>3
<1> QED
  BY <1>1, <1>2, <1>3 DEF Charge

(* What IntentsAreOwn says of a request about to attach, in its fields.    *)
LEMMA AttachingCharge ==
  ASSUME IntentsAreOwn, NEW d \in Devices, request[d].step = "attach"
  PROVE  /\ charge[request[d].intent].order = request[d].order
         /\ charge[request[d].intent].status = "created"
<1>1. charge[request[d].intent] = [order |-> request[d].order, status |-> "created"]
  BY DEF IntentsAreOwn
<1> QED
  BY <1>1

(* A request in flight names an order; one about to attach, an intent.     *)
LEMMA RequestCases ==
  ASSUME TypeOK, NEW d \in Devices, request[d].step # "idle"
  PROVE  /\ request[d].order \in Orders
         /\ request[d].step \in {"intent", "session", "attach"}
         /\ request[d].step = "attach" <=> request[d].intent # Null
         /\ request[d].step = "attach" => request[d].intent \in Intents
  BY ChargesAssumption DEF TypeOK, Request, NoRequest, Charges

LEMMA TypeOKInit == Init => TypeOK
  BY DEF Init, TypeOK, OrderRow, OrderStatus, Charge, Request

(* The type needs to know that the intent being attached is a charge.      *)
LEMMA TypeOKStep == TypeOK /\ IntentsAreOwn /\ [Next]_vars => TypeOK'
<1> SUFFICES ASSUME TypeOK, IntentsAreOwn, [Next]_vars PROVE TypeOK'
    OBVIOUS
<1> USE DEF OrderRow, OrderStatus
<1>1. ASSUME NEW d \in Devices, NEW o \in Orders, NEW kind \in {"intent", "session"},
             ReadOrder(d, o, kind)
      PROVE  TypeOK'
  BY <1>1 DEF ReadOrder, TypeOK, Request
<1>2. ASSUME NEW d \in Devices, NEW i \in Intents, NewIntent(d, i)
      PROVE  TypeOK'
  BY <1>2, RequestCases DEF NewIntent, TypeOK, Request, Charge, Charges
<1>3. ASSUME NEW d \in Devices, NEW s \in Sessions, NewSession(d, s)
      PROVE  TypeOK'
  <2>1. request[d].order \in Orders
    BY <1>3, RequestCases DEF NewSession
  <2>2. charge' \in [Charges -> Charge]
    BY <1>3, <2>1 DEF NewSession, TypeOK, Charge, Charges
  <2> QED
    BY <1>3, <2>2 DEF NewSession, TypeOK, Request
<1>4. ASSUME NEW d \in Devices, Attach(d)
      PROVE  TypeOK'
  <2> DEFINE o == request[d].order
             i == request[d].intent
  <2>1. o \in Orders /\ i \in Intents /\ i \in Charges
    BY <1>4, RequestCases DEF Attach, Charges
  <2>2. order' \in [Orders -> OrderRow]
    BY <1>4, <2>1 DEF Attach, TypeOK
  <2>3. charge' \in [Charges -> Charge]
    <3>1. charge[i] = [order |-> o, status |-> "created"]
      BY <1>4 DEF Attach, IntentsAreOwn
    <3>2. CASE charge' = [charge EXCEPT ![i].status = "open"]
      BY <2>1, <3>1, <3>2 DEF TypeOK, Charge
    <3>3. CASE charge' = charge
      BY <3>3 DEF TypeOK
    <3> QED
      BY <1>4, <3>2, <3>3 DEF Attach
  <2> QED
    BY <1>4, <2>2, <2>3 DEF Attach, TypeOK, Request
<1>5. ASSUME NEW d \in Devices, RequestFails(d)
      PROVE  TypeOK'
  BY <1>5 DEF RequestFails, TypeOK, Request
<1>6. ASSUME NEW c \in Charges, Pay(c)
      PROVE  TypeOK'
  BY <1>6, ChargeCases DEF Pay, TypeOK, Charge, NoCharge
<1>7. ASSUME NEW i \in Intents, IntentSucceeded(i)
      PROVE  TypeOK'
  BY <1>7 DEF IntentSucceeded, MarkPaid, TypeOK, Charges
<1>8. ASSUME NEW s \in Sessions, SessionCompleted(s)
      PROVE  TypeOK'
  BY <1>8 DEF SessionCompleted, MarkPaid, TypeOK, Charges
<1>9. ASSUME NEW o \in Orders, CancelUnpaidOrder(o)
      PROVE  TypeOK'
  BY <1>9 DEF CancelUnpaidOrder, TypeOK
<1>10. CASE UNCHANGED vars
  BY <1>10 DEF vars, TypeOK
<1> QED
  BY <1>1, <1>2, <1>3, <1>4, <1>5, <1>6, <1>7, <1>8, <1>9, <1>10 DEF Next

LEMMA OwnInit == Init => IntentsAreOwn
  BY DEF Init, IntentsAreOwn, NoRequest

LEMMA OwnStep == TypeOK /\ IntentsAreOwn /\ [Next]_vars => IntentsAreOwn'
<1> SUFFICES ASSUME TypeOK, IntentsAreOwn, [Next]_vars PROVE IntentsAreOwn'
    OBVIOUS
<1>1. ASSUME NEW d \in Devices, NEW o \in Orders, NEW kind \in {"intent", "session"},
             ReadOrder(d, o, kind)
      PROVE  IntentsAreOwn'
  BY <1>1, ChargesAssumption DEF ReadOrder, IntentsAreOwn, TypeOK, Request, Charges
<1>2. ASSUME NEW d \in Devices, NEW i \in Intents, NewIntent(d, i)
      PROVE  IntentsAreOwn'
  <2>1. request[d].order \in Orders /\ i \in Charges /\ charge[i] = NoCharge
    BY <1>2, RequestCases DEF NewIntent, Charges
  <2>2. charge' = [charge EXCEPT ![i] = [order |-> request[d].order,
                                         status |-> "created"]]
    BY <1>2 DEF NewIntent
  <2>3. ASSUME NEW o \in Orders, order[o].intent # Null
        PROVE  order[o].intent # i
    BY <2>1, <2>3, ChargesAssumption DEF IntentsAreOwn, NoCharge
  <2>4. \A o \in Orders :
          order'[o].intent # Null => charge'[order'[o].intent].order = o
    BY <1>2, <2>2, <2>3 DEF NewIntent, IntentsAreOwn, TypeOK, OrderRow, Charges
  <2>5. ASSUME NEW e \in Devices, request[e].step = "attach"
        PROVE  request[e].intent # i
    <3>1. charge[request[e].intent].status = "created"
      BY <2>5, AttachingCharge
    <3> QED
      BY <2>1, <3>1 DEF NoCharge
  <2>6. ASSUME NEW e \in Devices, request[e].step # "attach"
        PROVE  request[e].intent # i
    BY <2>6, ChargesAssumption DEF TypeOK, Request, NoRequest, Charges
  <2>7. request' = [request EXCEPT ![d] =
                     [step |-> "attach", order |-> request[d].order, intent |-> i]]
    BY <1>2 DEF NewIntent
  <2>8. ASSUME NEW e \in Devices, request'[e].step = "attach"
        PROVE  /\ charge'[request'[e].intent] =
                    [order |-> request'[e].order, status |-> "created"]
               /\ \A f \in Devices \ {e} : request'[f].intent # request'[e].intent
    <3>1. CASE e = d
      BY <2>1, <2>2, <2>5, <2>6, <2>7, <3>1 DEF TypeOK
    <3>2. CASE e # d
      BY <2>2, <2>5, <2>7, <2>8, <3>2, RequestCases
         DEF TypeOK, IntentsAreOwn, Charges
    <3> QED
      BY <3>1, <3>2
  <2> QED
    BY <2>4, <2>8 DEF IntentsAreOwn
<1>3. ASSUME NEW d \in Devices, NEW s \in Sessions, NewSession(d, s)
      PROVE  IntentsAreOwn'
  <2>1. \A i \in Intents : charge'[i] = charge[i]
    BY <1>3, ChargesAssumption DEF NewSession, TypeOK, Charges
  <2>2. \A o \in Orders : order'[o] = order[o]
    BY <1>3 DEF NewSession
  <2>3. \A e \in Devices : request'[e] = IF e = d THEN NoRequest ELSE request[e]
    BY <1>3 DEF NewSession, TypeOK
  <2> QED
    BY <2>1, <2>2, <2>3, RequestCases
       DEF IntentsAreOwn, NoRequest, TypeOK, OrderRow
<1>4. ASSUME NEW d \in Devices, Attach(d)
      PROVE  IntentsAreOwn'
  <2> DEFINE oo == request[d].order
             ii == request[d].intent
  <2>1. /\ oo \in Orders /\ ii \in Intents /\ ii \in Charges /\ ii # Null
        /\ charge[ii] = [order |-> oo, status |-> "created"]
    BY <1>4, RequestCases, ChargesAssumption DEF Attach, Charges, IntentsAreOwn
  <2>2. \A c \in Charges : /\ charge'[c].order = charge[c].order
                           /\ c # ii => charge'[c] = charge[c]
    BY <1>4, <2>1 DEF Attach, TypeOK
  <2>3. \A o \in Orders : order'[o].intent = order[o].intent
                            \/ (o = oo /\ order'[o].intent = ii)
    BY <1>4, <2>1 DEF Attach, TypeOK, OrderRow
  <2>4. \A o \in Orders :
          order'[o].intent # Null => charge'[order'[o].intent].order = o
    BY <2>1, <2>2, <2>3 DEF TypeOK, OrderRow, IntentsAreOwn, Charges
  <2>5. \A e \in Devices : request'[e] = IF e = d THEN NoRequest ELSE request[e]
    BY <1>4 DEF Attach, TypeOK
  <2>6. ASSUME NEW e \in Devices, request'[e].step = "attach"
        PROVE  /\ charge'[request'[e].intent] =
                    [order |-> request'[e].order, status |-> "created"]
               /\ \A f \in Devices \ {e} : request'[f].intent # request'[e].intent
    <3>1. e # d /\ request'[e] = request[e] /\ request[e].step = "attach"
      BY <2>5, <2>6 DEF NoRequest
    <3>2. request[e].intent \in Charges /\ request[e].intent # ii
          /\ request[e].intent # Null
      BY <1>4, <3>1, RequestCases, ChargesAssumption
         DEF Attach, IntentsAreOwn, Charges
    <3>3. charge'[request[e].intent] = [order |-> request[e].order,
                                        status |-> "created"]
      BY <2>2, <3>1, <3>2 DEF IntentsAreOwn
    <3>4. \A f \in Devices \ {e} : request'[f].intent # request[e].intent
      <4>1. \A f \in Devices \ {e} : request[f].intent # request[e].intent
        BY <3>1 DEF IntentsAreOwn
      <4> QED
        BY <2>5, <3>2, <4>1 DEF NoRequest
    <3> QED
      BY <3>1, <3>3, <3>4
  <2> QED
    BY <2>4, <2>6 DEF IntentsAreOwn
<1>5. ASSUME NEW d \in Devices, RequestFails(d)
      PROVE  IntentsAreOwn'
  <2>1. \A e \in Devices : request'[e] = IF e = d THEN NoRequest ELSE request[e]
    BY <1>5 DEF RequestFails, TypeOK
  <2> QED
    BY <1>5, <2>1, RequestCases DEF RequestFails, IntentsAreOwn, NoRequest
<1>6. ASSUME NEW c \in Charges, Pay(c)
      PROVE  IntentsAreOwn'
  <2>1. \A b \in Charges : /\ charge'[b].order = charge[b].order
                           /\ b # c => charge'[b] = charge[b]
    BY <1>6 DEF Pay, TypeOK
  <2>2. \A d \in Devices : request[d].step = "attach" =>
          request[d].intent # c /\ request[d].intent \in Charges
    BY <1>6, RequestCases, AttachingCharge DEF Pay, Charges
  <2> QED
    <3>1. order' = order /\ request' = request
      BY <1>6 DEF Pay
    <3>2. \A o \in Orders :
            order[o].intent # Null => charge'[order[o].intent].order = o
      BY <2>1 DEF IntentsAreOwn, TypeOK, OrderRow, Charges
    <3>3. ASSUME NEW d \in Devices, request[d].step = "attach"
          PROVE  charge'[request[d].intent] =
                   [order |-> request[d].order, status |-> "created"]
      BY <2>1, <2>2, <3>3 DEF IntentsAreOwn
    <3> QED
      BY <3>1, <3>2, <3>3 DEF IntentsAreOwn
<1>8. ASSUME NEW i \in Intents, IntentSucceeded(i)
      PROVE  IntentsAreOwn'
  BY <1>8 DEF IntentSucceeded, MarkPaid, IntentsAreOwn, TypeOK, OrderRow
<1>9. ASSUME NEW s \in Sessions, SessionCompleted(s)
      PROVE  IntentsAreOwn'
  BY <1>9 DEF SessionCompleted, MarkPaid, IntentsAreOwn, TypeOK, OrderRow
<1>10. ASSUME NEW o \in Orders, CancelUnpaidOrder(o)
       PROVE  IntentsAreOwn'
  BY <1>10 DEF CancelUnpaidOrder, IntentsAreOwn, TypeOK, OrderRow
<1>11. CASE UNCHANGED vars
  BY <1>11 DEF vars, IntentsAreOwn
<1> QED
  BY <1>1, <1>2, <1>3, <1>4, <1>5, <1>6, <1>8, <1>9, <1>10, <1>11 DEF Next

-----------------------------------------------------------------------------
(* What Stripe was paid never becomes unpaid, whatever the step.           *)
LEMMA PaidStays ==
  ASSUME TypeOK, IntentsAreOwn, [Next]_vars, NEW c \in Charges, Paid(c)
  PROVE  charge'[c] = charge[c]
<1> USE DEF Paid, Charges, TypeOK
<1>1. ASSUME NEW d \in Devices, NEW i \in Intents, NewIntent(d, i)
      PROVE  charge'[c] = charge[c]
  BY <1>1 DEF NewIntent, NoCharge
<1>2. ASSUME NEW d \in Devices, NEW s \in Sessions, NewSession(d, s)
      PROVE  charge'[c] = charge[c]
  BY <1>2 DEF NewSession, NoCharge
<1>3. ASSUME NEW d \in Devices, Attach(d)
      PROVE  charge'[c] = charge[c]
  <2>1. charge[request[d].intent].status = "created"
    BY <1>3, AttachingCharge DEF Attach
  <2> QED
    BY <1>3, <2>1 DEF Attach
<1>4. ASSUME NEW b \in Charges, Pay(b)
      PROVE  charge'[c] = charge[c]
  BY <1>4 DEF Pay
<1> QED
  BY <1>1, <1>2, <1>3, <1>4
     DEF Next, vars, ReadOrder, RequestFails, IntentSucceeded, SessionCompleted,
         CancelUnpaidOrder

(* So the charges that paid for an order stay with it.                     *)
LEMMA PaidForGrows ==
  ASSUME TypeOK, IntentsAreOwn, [Next]_vars, NEW o \in Orders
  PROVE  PaidFor(o) \subseteq PaidFor(o)'
  BY PaidStays DEF PaidFor, Paid

LEMMA ReconciledStep == IInv /\ [Next]_vars => PaidIsReconciled'
<1> SUFFICES ASSUME IInv, [Next]_vars,
                    NEW o \in Orders, order'[o].status = "PAID"
             PROVE  \/ PaidFor(o)' \cap Sessions # {}
                    \/ order'[o].intent \in PaidFor(o)'
    BY DEF PaidIsReconciled
<1> USE DEF IInv
<1>1. PaidFor(o) \subseteq PaidFor(o)'
  BY PaidForGrows
<1>2. CASE order'[o] = order[o]
  BY <1>1, <1>2 DEF PaidIsReconciled
<1>3. ASSUME NEW d \in Devices, Attach(d)
      PROVE  order'[o] = order[o] \/ order'[o].status = "PENDING"
  BY <1>3 DEF Attach, Pending, TypeOK, OrderRow
<1>4. ASSUME NEW i \in Intents, IntentSucceeded(i), order'[o] # order[o]
      PROVE  order'[o].intent \in PaidFor(o)'
  <2>1. order'[o].intent = i /\ order[o].intent = i /\ i # Null
    BY <1>4, ChargesAssumption
       DEF IntentSucceeded, MarkPaid, TypeOK, OrderRow, Charges
  <2>2. i \in PaidFor(o)
    BY <1>4, <2>1 DEF IntentSucceeded, PaidFor, IntentsAreOwn, Charges
  <2> QED
    BY <1>1, <2>1, <2>2
<1>5. ASSUME NEW s \in Sessions, SessionCompleted(s), order'[o] # order[o]
      PROVE  PaidFor(o)' \cap Sessions # {}
  <2>1. s \in PaidFor(o)
    BY <1>5 DEF SessionCompleted, MarkPaid, PaidFor, Charges, TypeOK
  <2> QED
    BY <1>1, <2>1
<1>6. ASSUME NEW p \in Orders, CancelUnpaidOrder(p)
      PROVE  order'[o] = order[o]
  BY <1>6 DEF CancelUnpaidOrder, TypeOK, OrderRow
<1>7. order'[o] = order[o] \/ (\E d \in Devices : Attach(d))
      \/ (\E i \in Intents : IntentSucceeded(i))
      \/ (\E s \in Sessions : SessionCompleted(s))
      \/ (\E p \in Orders : CancelUnpaidOrder(p))
  BY DEF Next, vars, ReadOrder, NewIntent, NewSession, RequestFails, Pay
<1> QED
  BY <1>2, <1>3, <1>4, <1>5, <1>6, <1>7

LEMMA SecretStep == IInv /\ [Next]_vars => SecretAfterAttach'
<1> SUFFICES ASSUME IInv, [Next]_vars, NEW i \in Intents,
                    charge'[i].status \in {"open", "paid"}
             PROVE  order'[charge'[i].order].intent # Null
    BY DEF SecretAfterAttach
<1> USE DEF IInv
<1>1. i \in Charges
  BY DEF Charges
<1>2. \A o \in Orders : order[o].intent # Null => order'[o].intent # Null
  <2>1. ASSUME NEW d \in Devices, Attach(d), NEW o \in Orders,
               order[o].intent # Null
        PROVE  order'[o].intent # Null
    BY <2>1, RequestCases, ChargesAssumption
       DEF Attach, TypeOK, OrderRow, Charges
  <2> QED
    BY <2>1 DEF Next, vars, ReadOrder, NewIntent, NewSession, RequestFails, Pay,
                IntentSucceeded, SessionCompleted, MarkPaid, CancelUnpaidOrder,
                TypeOK, OrderRow
<1>3. CASE charge[i].status \in {"open", "paid"} /\ charge'[i].order = charge[i].order
  <2>1. charge[i].order \in Orders
    BY <1>1, <1>3, ChargeCases
  <2> QED
    BY <1>2, <1>3, <2>1 DEF SecretAfterAttach
<1>4. ASSUME NEW d \in Devices, Attach(d), charge'[i] # charge[i]
      PROVE  order'[charge'[i].order].intent # Null
  <2>1. /\ request[d].intent = i /\ request[d].order \in Orders
        /\ charge[i].order = request[d].order
    <3>1. request[d].step = "attach" /\ request[d].order \in Orders
      BY <1>4, RequestCases DEF Attach
    <3>2. request[d].intent = i
      BY <1>1, <1>4 DEF Attach, TypeOK
    <3> QED
      BY <3>1, <3>2, AttachingCharge
  <2>2. charge'[i].order = request[d].order
    <3>1. \/ charge' = charge
          \/ charge' = [charge EXCEPT ![request[d].intent].status = "open"]
      BY <1>4 DEF Attach
    <3>2. CASE charge' = charge
      BY <2>1, <3>2
    <3>3. CASE charge' = [charge EXCEPT ![request[d].intent].status = "open"]
      <4>1. charge'[i] = [charge[i] EXCEPT !.status = "open"]
        BY <1>1, <2>1, <3>3 DEF TypeOK
      <4> QED
        BY <2>1, <4>1
    <3> QED
      BY <3>1, <3>2, <3>3
  <2>3. order'[request[d].order].intent = i
    BY <1>4, <2>1 DEF Attach, TypeOK, OrderRow
  <2> QED
    BY <1>1, <2>2, <2>3, ChargesAssumption
<1>5. ASSUME NEW c \in Charges, Pay(c)
      PROVE  charge[i].status \in {"open", "paid"} /\ charge'[i].order = charge[i].order
  BY <1>1, <1>5 DEF Pay, TypeOK
<1>6. ASSUME NEW d \in Devices, NEW j \in Intents, NewIntent(d, j)
      PROVE  charge'[i] = charge[i]
  BY <1>1, <1>6 DEF NewIntent, TypeOK, Charges
<1>7. ASSUME NEW d \in Devices, NEW s \in Sessions, NewSession(d, s)
      PROVE  charge'[i] = charge[i]
  BY <1>1, <1>7, ChargesAssumption DEF NewSession, TypeOK, Charges
<1> QED
  BY <1>3, <1>4, <1>5, <1>6, <1>7
     DEF Next, vars, ReadOrder, RequestFails, IntentSucceeded, SessionCompleted,
         CancelUnpaidOrder

(* What was answered stays paid; and no order falls back to PENDING or     *)
(* takes back an intent it has replaced.                                   *)
LEMMA AckedStep == IInv /\ [Next]_vars => AckedWasPaid' /\ AckedIsSettled'
<1> SUFFICES ASSUME IInv, [Next]_vars, NEW c \in acked'
             PROVE  /\ Paid(c)'
                    /\ Pending(charge[c].order)' =>
                         c \in Intents /\ order'[charge'[c].order].intent # c
    BY DEF AckedWasPaid, AckedIsSettled
<1> DEFINE o == charge[c].order
<1> USE DEF IInv
<1>1. ASSUME c \notin acked
      PROVE  \/ c \in Intents /\ IntentSucceeded(c)
             \/ c \in Sessions /\ SessionCompleted(c)
  BY <1>1 DEF Next, vars, ReadOrder, NewIntent, NewSession, RequestFails, Attach,
              Pay, IntentSucceeded, SessionCompleted, CancelUnpaidOrder
<1>2. c \in Charges /\ Paid(c)
  BY <1>1 DEF AckedWasPaid, TypeOK, IntentSucceeded, SessionCompleted, Charges
<1>3. charge'[c] = charge[c] /\ Paid(c)' /\ o \in Orders
  BY <1>2, PaidStays, ChargeCases DEF Paid
<1>4. CASE c \notin acked
  <2>1. CASE c \in Intents /\ IntentSucceeded(c)
    BY <1>3, <2>1 DEF IntentSucceeded, MarkPaid, Pending, TypeOK, OrderRow
  <2>2. CASE c \in Sessions /\ SessionCompleted(c)
    BY <1>3, <2>2 DEF SessionCompleted, MarkPaid, Pending, TypeOK, OrderRow
  <2> QED
    BY <1>1, <1>3, <1>4, <2>1, <2>2
<1>5. CASE c \in acked
  <2>1. Pending(o)' => Pending(o)
    BY <1>3 DEF Next, vars, ReadOrder, NewIntent, NewSession, RequestFails, Attach,
        Pay, IntentSucceeded, SessionCompleted, CancelUnpaidOrder, MarkPaid,
        Pending, TypeOK, OrderRow
  <2>2. ASSUME NEW d \in Devices, Attach(d), order'[o].intent # order[o].intent
        PROVE  order'[o].intent # c
    <3>1. /\ charge[request[d].intent].status = "created"
          /\ order'[o].intent = request[d].intent
      BY <1>3, <2>2, AttachingCharge, RequestCases DEF Attach, TypeOK, OrderRow
    <3> QED
      BY <1>2, <3>1 DEF Paid
  <2>3. order'[o].intent = order[o].intent \/ \E d \in Devices : Attach(d)
    BY <1>3 DEF Next, vars, ReadOrder, NewIntent, NewSession, RequestFails,
        Pay, IntentSucceeded, SessionCompleted, CancelUnpaidOrder, MarkPaid,
        TypeOK, OrderRow
  <2>4. Pending(o) => c \in Intents /\ order[o].intent # c
    BY <1>5 DEF AckedIsSettled
  <2> QED
    BY <1>3, <2>1, <2>2, <2>3, <2>4 DEF Pending
<1> QED
  BY <1>4, <1>5

LEMMA IInvInit == Init => IInv
<1> SUFFICES ASSUME Init PROVE IInv
    OBVIOUS
<1>1. TypeOK /\ IntentsAreOwn
  BY TypeOKInit, OwnInit
<1>2. PaidIsReconciled /\ SecretAfterAttach
  BY DEF Init, PaidIsReconciled, SecretAfterAttach, NoCharge, Charges
<1>3. AckedWasPaid /\ AckedIsSettled
  BY DEF Init, AckedWasPaid, AckedIsSettled
<1> QED
  BY <1>1, <1>2, <1>3 DEF IInv

LEMMA IInvStep == IInv /\ [Next]_vars => IInv'
  BY TypeOKStep, OwnStep, ReconciledStep, SecretStep, AckedStep DEF IInv

LEMMA IInvAlways == Spec => []IInv
  BY IInvInit, IInvStep, PTL DEF Spec

(* Orders, charges and requests keep their types, and a request about to   *)
(* attach always holds an intent of its own.                               *)
THEOREM PaymentTypes == Spec => []TypeOK
  BY IInvAlways, PTL DEF IInv

(* A PAID order was paid for: by a session, or by the very intent whose id *)
(* is stored, for any number of orders, devices, intents and sessions.     *)
THEOREM PaidOrdersReconcile == Spec => []PaidIsReconciled
  BY IInvAlways, PTL DEF IInv

(* Nobody pays through an intent before the order knows of one.            *)
THEOREM SecretsFollowAttach == Spec => []SecretAfterAttach
  BY IInvAlways, PTL DEF IInv

(* What the backend was told of is not waiting to be cancelled: the event  *)
(* of a charge was answered only when its order is no longer PENDING, or   *)
(* has replaced the intent that was paid.                                  *)
THEOREM AckedChargesSettle == Spec => []AckedIsSettled
  BY IInvAlways, PTL DEF IInv

-----------------------------------------------------------------------------
(* The refinement.                                                         *)

(* Only Pay takes money; every other step leaves PaidFor as it was.        *)
LEMMA PaidForSame ==
  ASSUME IInv, [Next]_vars, \A c \in Charges : ~Pay(c), NEW o \in Orders
  PROVE  PaidFor(o)' = PaidFor(o)
<1> USE DEF IInv
<1>1. ASSUME NEW c \in Charges, ~Paid(c)
      PROVE  ~Paid(c)'
  <2>1. ASSUME NEW d \in Devices, NEW i \in Intents, NewIntent(d, i)
        PROVE  ~Paid(c)'
    BY <1>1, <2>1 DEF NewIntent, Paid, TypeOK
  <2>2. ASSUME NEW d \in Devices, NEW s \in Sessions, NewSession(d, s)
        PROVE  ~Paid(c)'
    BY <1>1, <2>2 DEF NewSession, Paid, TypeOK
  <2>3. ASSUME NEW d \in Devices, Attach(d)
        PROVE  ~Paid(c)'
    <3>1. CASE charge' = charge
      BY <1>1, <3>1 DEF Paid
    <3>2. CASE charge' = [charge EXCEPT ![request[d].intent].status = "open"]
      <4>1. charge'[c].status \in {charge[c].status, "open"}
        BY <3>2 DEF TypeOK
      <4> QED
        BY <1>1, <4>1 DEF Paid
    <3> QED
      BY <2>3, <3>1, <3>2 DEF Attach
  <2> QED
    BY <1>1, <2>1, <2>2, <2>3
       DEF Next, vars, ReadOrder, RequestFails, IntentSucceeded,
           SessionCompleted, CancelUnpaidOrder, Paid
<1>2. PaidFor(o)' \subseteq PaidFor(o)
  BY <1>1, PaidStays DEF PaidFor
<1> QED
  BY <1>2, PaidForGrows

LEMMA LifeInit == Init => Life!Init
  BY DEF Init, Life!Init, StatusOf, Charged, PaidFor, Paid, NoCharge

(* A webhook pays one order at most, and only one whose buyer was charged. *)
LEMMA SettleStep ==
  ASSUME IInv, [Next]_vars, NEW p \in Orders, PaidFor(p) # {},
         \A c \in Charges : ~Pay(c),
         order' = [o \in Orders |-> IF o = p /\ Pending(o)
                                   THEN [order[o] EXCEPT !.status = "PAID"]
                                   ELSE order[o]]
  PROVE  Life!Settle(p) \/ UNCHANGED <<StatusOf, Charged>>
<1>1. Charged' = Charged
  BY PaidForSame DEF Charged
<1>2. CASE Pending(p)
  <2>1. StatusOf' = [StatusOf EXCEPT ![p] = "PAID"]
    BY <1>2 DEF StatusOf, IInv, TypeOK, OrderRow
  <2> QED
    BY <1>1, <1>2, <2>1 DEF Life!Settle, StatusOf, Charged, Pending
<1>3. CASE ~Pending(p)
  BY <1>1, <1>3 DEF StatusOf
<1> QED
  BY <1>2, <1>3

LEMMA LifeStep == IInv /\ [Next]_vars => [Life!Next]_<<StatusOf, Charged>>
<1> SUFFICES ASSUME IInv, [Next]_vars
             PROVE  [Life!Next]_<<StatusOf, Charged>>
    OBVIOUS
<1> USE DEF IInv
<1>1. CASE \E c \in Charges : Pay(c)
  <2>1. PICK c \in Charges : Pay(c)
    BY <1>1
  <2> DEFINE o == charge[c].order
  <2>2. o \in Orders /\ StatusOf' = StatusOf
    BY <2>1, ChargeCases DEF Pay, StatusOf
  <2>3. \A b \in Charges : /\ charge'[b].order = charge[b].order
                           /\ Paid(b)' <=> (Paid(b) \/ b = c)
    BY <2>1 DEF Pay, Paid, TypeOK
  <2>4. \A p \in Orders : PaidFor(p)' = IF p = o THEN PaidFor(p) \cup {c}
                                               ELSE PaidFor(p)
    BY <2>3 DEF PaidFor
  <2>5. Charged' = Charged \cup {o}
    BY <2>2, <2>4 DEF Charged
  <2> QED
    BY <2>2, <2>5 DEF Life!Next, Life!Charge
<1>2. CASE \A c \in Charges : ~Pay(c)
  <2>1. Charged' = Charged
    BY <1>2, PaidForSame DEF Charged
  <2>2. ASSUME NEW i \in Intents, IntentSucceeded(i)
        PROVE  Life!Next \/ UNCHANGED <<StatusOf, Charged>>
    <3> DEFINE p == charge[i].order
    <3>1. i \in Charges /\ p \in Orders /\ i \in PaidFor(p) /\ i # Null
      BY <2>2, ChargeCases, ChargesAssumption
         DEF IntentSucceeded, Paid, PaidFor, Charges
    <3>2. \A o \in Orders : order[o].intent = i => o = p
      BY <3>1 DEF IntentsAreOwn
    <3>3. CASE order[p].intent = i
      <4>1. order' = [o \in Orders |-> IF o = p /\ Pending(o)
                                      THEN [order[o] EXCEPT !.status = "PAID"]
                                      ELSE order[o]]
        BY <2>2, <3>1, <3>2, <3>3 DEF IntentSucceeded, MarkPaid
      <4> QED
        BY <1>2, <3>1, <4>1, SettleStep DEF Life!Next
    <3>4. CASE order[p].intent # i
      BY <2>1, <2>2, <3>2, <3>4 DEF IntentSucceeded, MarkPaid, StatusOf
    <3> QED
      BY <3>3, <3>4
  <2>3. ASSUME NEW s \in Sessions, SessionCompleted(s)
        PROVE  Life!Next \/ UNCHANGED <<StatusOf, Charged>>
    <3> DEFINE p == charge[s].order
    <3>1. p \in Orders /\ s \in PaidFor(p)
      BY <2>3, ChargeCases DEF SessionCompleted, Paid, PaidFor, Charges
    <3>2. order' = [o \in Orders |-> IF o = p /\ Pending(o)
                                    THEN [order[o] EXCEPT !.status = "PAID"]
                                    ELSE order[o]]
      BY <2>3 DEF SessionCompleted, MarkPaid
    <3> QED
      BY <1>2, <3>1, <3>2, SettleStep DEF Life!Next
  <2>4. ASSUME NEW o \in Orders, CancelUnpaidOrder(o)
        PROVE  Life!Next
    <3>1. StatusOf' = [StatusOf EXCEPT ![o] = "CANCELLED_UNPAID"]
      BY <2>4 DEF CancelUnpaidOrder, StatusOf, TypeOK, OrderRow
    <3> QED
      BY <2>1, <2>4, <3>1
         DEF Life!Next, Life!Cancel, CancelUnpaidOrder, Pending, StatusOf
  <2>5. ASSUME NEW d \in Devices, Attach(d)
        PROVE  UNCHANGED <<StatusOf, Charged>>
    BY <2>1, <2>5 DEF Attach, StatusOf, TypeOK, OrderRow
  <2> QED
    BY <1>2, <2>1, <2>2, <2>3, <2>4, <2>5
       DEF Next, vars, ReadOrder, NewIntent, NewSession, RequestFails, StatusOf
<1> QED
  BY <1>1, <1>2

(* OrderPayment implements OrderLife: whatever handlers, Stripe and the    *)
(* seller do in whatever order, an order is paid only after its buyer was  *)
(* charged, is never both paid and cancelled, and stays what it became.    *)
THEOREM PaymentsKeepOrderLife == Spec => KeepsOrderLife
  BY IInvAlways, LifeInit, LifeStep, PTL DEF Spec, KeepsOrderLife, Life!Spec
=============================================================================
