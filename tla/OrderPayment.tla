---------------------------- MODULE OrderPayment ----------------------------
(***************************************************************************)
(* How an order of the AuctionHouse becomes PAID: the two checkout         *)
(* handlers (order_handler.go), Stripe's PaymentIntents and Checkout       *)
(* Sessions, the webhook (stripe_webhook_handler.go), and the seller who   *)
(* cancels meanwhile.                                                      *)
(*                                                                         *)
(* A handler reads the order, calls Stripe, writes the order, with         *)
(* anything in between.  Stripe delivers an event again and again until it *)
(* is answered 200, late, in any order, and sometimes once more after.     *)
(* POST /orders/{id}/checkout is not here: it writes the address and the   *)
(* payment method only, nothing that these steps read.                     *)
(***************************************************************************)
EXTENDS Integers, FiniteSets

CONSTANTS
  Null,
  Orders,        \* orders, each PENDING at first
  Intents,       \* the PaymentIntents Stripe may create
  Sessions,      \* the Checkout Sessions Stripe may create
  Devices        \* phones and browser tabs in which buyers check out

Charges == Intents \cup Sessions

ASSUME ChargesAssumption ==
  /\ Intents \cap Sessions = {}
  /\ Null \notin Orders \cup Charges

VARIABLES
  order,     \* the orders table: status and stripe_payment_intent_id
  charge,    \* Stripe's intents and sessions
  request,   \* the checkout request each device has in flight
  acked      \* the charges whose event was answered 200

vars == <<order, charge, request, acked>>

OrderStatus  == {"PENDING", "PAID", "CANCELLED_UNPAID"}

NoCharge  == [order |-> Null, status |-> "none"]
NoRequest == [step |-> "idle", order |-> Null, intent |-> Null]

OrderRow == [status: OrderStatus, intent: Intents \cup {Null}]

(* A charge is created at Stripe; open once the buyer holds its client     *)
(* secret or URL; paid once he used it.                                    *)
Charge == {NoCharge} \cup [order: Orders, status: {"created", "open", "paid"}]

(* A request has read its order and asks Stripe for an intent or for a     *)
(* session; or it has the intent and is about to attach it.                *)
Request ==
  {NoRequest}
    \cup [step: {"intent", "session"}, order: Orders, intent: {Null}]
    \cup [step: {"attach"}, order: Orders, intent: Intents]

Pending(o) == order[o].status = "PENDING"
Paid(c)    == charge[c].status = "paid"

(* The charges that took money for an order.                               *)
PaidFor(o) == {c \in Charges : charge[c].order = o /\ Paid(c)}

-----------------------------------------------------------------------------
(* The checkout handlers.                                                  *)

(* CreatePaymentIntent or CreateCheckoutSession reads the order; a PAID    *)
(* one is refused.  (So is somebody else's: a device asks for its owner's.)*)
ReadOrder(d, o, kind) ==
  /\ request[d].step = "idle"
  /\ order[o].status # "PAID"
  /\ request' = [request EXCEPT ![d] =
                   [step |-> kind, order |-> o, intent |-> Null]]
  /\ UNCHANGED <<order, charge, acked>>

(* paymentintent.New: nobody but the handler knows the intent yet.         *)
NewIntent(d, i) ==
  /\ request[d].step = "intent"
  /\ charge[i] = NoCharge
  /\ charge' = [charge EXCEPT ![i] =
                  [order |-> request[d].order, status |-> "created"]]
  /\ request' = [request EXCEPT ![d] =
                   [step |-> "attach", order |-> request[d].order, intent |-> i]]
  /\ UNCHANGED <<order, acked>>

(* Mutant: UPDATE ... without AND payment_status = 'PENDING'.              *)
Attach_AnyStatus(d) ==
  LET o == request[d].order
      i == request[d].intent IN
  /\ request[d].step = "attach"
  /\ order' = [order EXCEPT ![o].intent = i]
  /\ charge' = [charge EXCEPT ![i].status = "open"]
  /\ request' = [request EXCEPT ![d] = NoRequest]
  /\ UNCHANGED acked

(* Mutant: the error of AttachPaymentIntent is not looked at.              *)
Attach_IgnoresError(d) ==
  LET o == request[d].order
      i == request[d].intent IN
  /\ request[d].step = "attach"
  /\ order' = IF Pending(o) THEN [order EXCEPT ![o].intent = i] ELSE order
  /\ charge' = [charge EXCEPT ![i].status = "open"]
  /\ request' = [request EXCEPT ![d] = NoRequest]
  /\ UNCHANGED acked

(* AttachPaymentIntent overwrites the id stored before, if any, and the    *)
(* client secret is answered; the answer may get lost.  An order that is   *)
(* not PENDING any more is an error, and the buyer gets no secret.         *)
Attach(d) ==
  LET o == request[d].order
      i == request[d].intent IN
  /\ request[d].step = "attach"
  /\ IF Pending(o)
     THEN /\ order' = [order EXCEPT ![o].intent = i]
          /\ \E answered \in BOOLEAN :
               charge' = IF answered
                         THEN [charge EXCEPT ![i].status = "open"] ELSE charge
     ELSE UNCHANGED <<order, charge>>
  /\ request' = [request EXCEPT ![d] = NoRequest]
  /\ UNCHANGED acked

(* session.New: the buyer is sent to the session's URL.                    *)
NewSession(d, s) ==
  /\ request[d].step = "session"
  /\ charge[s] = NoCharge
  /\ \E st \in {"created", "open"} :        \* created: the answer gets lost
       charge' = [charge EXCEPT ![s] =
                    [order |-> request[d].order, status |-> st]]
  /\ request' = [request EXCEPT ![d] = NoRequest]
  /\ UNCHANGED <<order, acked>>

(* Mutant: the failed request's intent is kept for the next one.           *)
RequestFails_KeepsIntent(d) ==
  /\ request[d].step # "idle"
  /\ request' = [request EXCEPT ![d].step = "idle", ![d].order = Null]
  /\ UNCHANGED <<order, charge, acked>>

(* Stripe or the database fails, the client goes away, the backend stops.  *)
RequestFails(d) ==
  /\ request[d].step # "idle"
  /\ request' = [request EXCEPT ![d] = NoRequest]
  /\ UNCHANGED <<order, charge, acked>>

-----------------------------------------------------------------------------
(* Stripe and the webhook.                                                 *)

Pay(c) ==
  /\ charge[c].status = "open"
  /\ charge' = [charge EXCEPT ![c].status = "paid"]
  /\ UNCHANGED <<order, request, acked>>

(* Mark the orders of a set PAID that are PENDING.                         *)
MarkPaid(os) ==
  order' = [o \in Orders |-> IF o \in os /\ Pending(o)
                             THEN [order[o] EXCEPT !.status = "PAID"]
                             ELSE order[o]]

(* Mutant: the event is answered 200 even when the UPDATE has failed.      *)
IntentSucceeded_IgnoresError(i) ==
  /\ Paid(i)
  /\ \/ MarkPaid({o \in Orders : order[o].intent = i})
     \/ UNCHANGED order
  /\ acked' = acked \cup {i}
  /\ UNCHANGED <<charge, request>>

(* payment_intent.succeeded: the orders that store the intent's id are     *)
(* PAID.  None is no error.                                                *)
IntentSucceeded(i) ==
  /\ Paid(i)
  /\ MarkPaid({o \in Orders : order[o].intent = i})
  /\ acked' = acked \cup {i}
  /\ UNCHANGED <<charge, request>>

(* Mutant: the session's own id is looked up among the stored intents.     *)
SessionCompleted_AsIntent(s) ==
  /\ Paid(s)
  /\ MarkPaid({o \in Orders : order[o].intent = s})
  /\ acked' = acked \cup {s}
  /\ UNCHANGED <<charge, request>>

(* checkout.session.completed: the order of ClientReferenceID is PAID.     *)
SessionCompleted(s) ==
  /\ Paid(s)
  /\ MarkPaid({charge[s].order})
  /\ acked' = acked \cup {s}
  /\ UNCHANGED <<charge, request>>

(* Mutant: UPDATE ... without AND payment_status = 'PENDING'.              *)
CancelUnpaidOrder_AnyStatus(o) ==
  /\ order' = [order EXCEPT ![o].status = "CANCELLED_UNPAID"]
  /\ UNCHANGED <<charge, request, acked>>

CancelUnpaidOrder(o) ==
  /\ Pending(o)
  /\ order' = [order EXCEPT ![o].status = "CANCELLED_UNPAID"]
  /\ UNCHANGED <<charge, request, acked>>

-----------------------------------------------------------------------------
Init ==
  /\ order = [o \in Orders |-> [status |-> "PENDING", intent |-> Null]]
  /\ charge = [c \in Charges |-> NoCharge]
  /\ request = [d \in Devices |-> NoRequest]
  /\ acked = {}

Next ==
  \/ \E d \in Devices :
       \/ \E o \in Orders, kind \in {"intent", "session"} : ReadOrder(d, o, kind)
       \/ \E i \in Intents : NewIntent(d, i)
       \/ \E s \in Sessions : NewSession(d, s)
       \/ Attach(d)
       \/ RequestFails(d)
  \/ \E c \in Charges : Pay(c)
  \/ \E i \in Intents : IntentSucceeded(i)
  \/ \E s \in Sessions : SessionCompleted(s)
  \/ \E o \in Orders : CancelUnpaidOrder(o)

Spec == Init /\ [][Next]_vars

(* Stripe repeats an event until the backend answers it.  Nothing is       *)
(* assumed of buyers, sellers and handlers.                                *)
Fairness ==
  /\ \A i \in Intents : WF_vars(IntentSucceeded(i))
  /\ \A s \in Sessions : WF_vars(SessionCompleted(s))

FairSpec == Spec /\ Fairness

-----------------------------------------------------------------------------
(* Properties.                                                             *)

(* Every table, and every object at Stripe, has its type.                  *)
TypeOK ==
  /\ order \in [Orders -> OrderRow]
  /\ charge \in [Charges -> Charge]
  /\ request \in [Devices -> Request]
  /\ acked \subseteq Charges

(* A PAID order can be reconciled: a session paid for it, or the intent    *)
(* whose id the row holds is its own and took the money.  Requests that    *)
(* were under way when it was paid do not replace that id.                 *)
PaidIsReconciled ==
  \A o \in Orders : order[o].status = "PAID" =>
    \/ PaidFor(o) \cap Sessions # {}
    \/ order[o].intent \in PaidFor(o)

(* A buyer can only pay through an intent that the order knew of before he *)
(* did: money never arrives for an order that stores no intent at all.     *)
SecretAfterAttach ==
  \A i \in Intents : charge[i].status \in {"open", "paid"} =>
    order[charge[i].order].intent # Null

(* A seller cannot cancel an order, "for non-payment", whose payment the   *)
(* backend was told of: if an event was answered 200 and its order still   *)
(* is PENDING, it was of an intent that a later checkout had replaced.     *)
AckedIsSettled ==
  \A c \in acked : Pending(charge[c].order) =>
    c \in Intents /\ order[charge[c].order].intent # c

(* Money that arrived through a session, or through the intent the order   *)
(* still stores, settles the order: it does not stay PENDING, whatever is  *)
(* delayed or repeated, unless another checkout replaces the stored id.    *)
ChargeSettles ==
  \A c \in Charges, o \in Orders :
    Paid(c) /\ charge[c].order = o /\ (c \in Sessions \/ order[o].intent = c)
      ~> ~Pending(o) \/ (c \in Intents /\ order[o].intent # c)

(* All of this implements the promise of OrderLife: read the orders'       *)
(* statuses off the table, and the charged buyers off Stripe.              *)
StatusOf == [o \in Orders |-> order[o].status]
Charged  == {o \in Orders : PaidFor(o) # {}}

Life == INSTANCE OrderLife WITH status <- StatusOf, charged <- Charged

KeepsOrderLife == Life!Spec

-----------------------------------------------------------------------------
(* The inductive invariant.                                                *)

(* A stored intent was made for the order that stores it; so was an intent *)
(* about to be attached, which nobody can have paid yet and which no other *)
(* request holds.                                                          *)
IntentsAreOwn ==
  /\ \A o \in Orders :
       order[o].intent # Null => charge[order[o].intent].order = o
  /\ \A d \in Devices : request[d].step = "attach" =>
       /\ charge[request[d].intent] =
            [order |-> request[d].order, status |-> "created"]
       /\ \A e \in Devices \ {d} : request[e].intent # request[d].intent

AckedWasPaid == \A c \in acked : Paid(c)

IInv ==
  /\ TypeOK
  /\ IntentsAreOwn
  /\ PaidIsReconciled
  /\ SecretAfterAttach
  /\ AckedWasPaid
  /\ AckedIsSettled

-----------------------------------------------------------------------------
(* What comments and messages say and the code does not do.                *)

(* "Attach our order ID to the PaymentIntent's metadata so the webhook     *)
(* knows which order to mark as PAID" (order_handler.go:121): once the     *)
(* event of a paid intent was handled, its order is not PENDING.           *)
IntentPaysItsOrder ==
  \A i \in Intents \cap acked : ~Pending(charge[i].order)
=============================================================================
