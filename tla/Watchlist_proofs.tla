-------------------------- MODULE Watchlist_proofs --------------------------
(***************************************************************************)
(* Watchlist shows the rows that are saved.  The invariant follows one     *)
(* request of a calm device from the tap to the end of its fetch.          *)
(***************************************************************************)
EXTENDS Watchlist, TLAPS

Toggle ==
  [step: {"sent"}, auction: Auctions, sure: BOOLEAN]
    \cup [step: {"read"}, auction: Auctions, sure: BOOLEAN, exists: BOOLEAN]

Request ==
  {Idle} \cup Toggle
    \cup [step: {"fetching"}, sure: BOOLEAN]
    \cup [step: {"fetched"}, rows: SUBSET Auctions, sure: BOOLEAN]

Types ==
  /\ live \subseteq Auctions
  /\ saved \subseteq Auctions
  /\ shown \in [Devices -> SUBSET Auctions]
  /\ req \in [Devices -> [Slots -> Request]]
  /\ late \subseteq Toggle
  /\ calm \in [Devices -> BOOLEAN]

Flip(rows, a) == IF a \in rows THEN rows \ {a} ELSE rows \cup {a}

(* What is known of a request r of a calm device that shows `hearts`.      *)
Agrees(r, hearts) ==
  /\ r.step = "fetched" => r.rows = saved
  /\ r.step \in {"sent", "read"} /\ r.sure =>
       r.auction \in live /\ hearts = Flip(saved, r.auction)
  /\ r.step = "read" /\ r.sure => r.exists = (r.auction \in saved)
  /\ r.step \in {"fetching", "fetched"} /\ r.sure => hearts = saved

(* A calm device has one request at most, which agrees with the tables;    *)
(* with none it shows what is saved.                                       *)
CalmDevice(d) ==
  /\ \A s, t \in Slots : req[d][s] # Idle /\ req[d][t] # Idle => s = t
  /\ (\A s \in Slots : req[d][s] = Idle) => shown[d] = saved
  /\ \A s \in Slots : Agrees(req[d][s], shown[d])

Inv == Types /\ \A d \in Devices : calm[d] => CalmDevice(d)

-----------------------------------------------------------------------------
(* The kinds of requests differ in their step.                             *)
LEMMA Steps ==
  ASSUME NEW r \in Request
  PROVE  /\ r = Idle => r.step = "idle"
         /\ r.step = "idle" => r = Idle
         /\ r.step \in {"sent", "read"} =>
              r \in Toggle /\ r.auction \in Auctions /\ r.sure \in BOOLEAN
         /\ r.step = "read" => r.exists \in BOOLEAN
         /\ r.step \in {"fetching", "fetched"} => r.sure \in BOOLEAN
         /\ r.step = "fetched" => r.rows \subseteq Auctions
BY DEF Request, Toggle, Idle

LEMMA Types_Init == Init => Types
BY DEF Init, Types, Request

(* A step of one request, which no table or heart of another device feels. *)
LEMMA OneRequest ==
  ASSUME Types, NEW d \in Devices, NEW s \in Slots, NEW r \in Request,
         Set(d, s, r)
  PROVE  /\ req' \in [Devices -> [Slots -> Request]]
         /\ req'[d][s] = r
         /\ \A t \in Slots \ {s} : req'[d][t] = req[d][t]
         /\ \A e \in Devices \ {d} : req'[e] = req[e]
<1>1. req \in [Devices -> [Slots -> Request]]
  BY DEF Types
<1>2. req' = [req EXCEPT ![d] = [req[d] EXCEPT ![s] = r]]
  BY DEF Set
<1>3. [req[d] EXCEPT ![s] = r] \in [Slots -> Request]
  BY <1>1
<1> QED BY <1>1, <1>2, <1>3

LEMMA Undisturbed ==
  ASSUME NEW d \in Devices, CalmDevice(d),
         req'[d] = req[d], shown'[d] = shown[d], saved' = saved, live' = live
  PROVE  CalmDevice(d)'
BY DEF CalmDevice, Agrees

(* The request of a calm device takes its next step.                       *)
LEMMA Advanced ==
  ASSUME Types, NEW d \in Devices, CalmDevice(d),
         NEW s \in Slots, req[d][s] # Idle, NEW r \in Request, r # Idle,
         Set(d, s, r), Agrees(r, shown[d])'
  PROVE  CalmDevice(d)'
<1>1. \A t \in Slots \ {s} : req'[d][t] = Idle
  BY OneRequest DEF CalmDevice
<1>2. req'[d][s] = r
  BY OneRequest
<1>3. \A t \in Slots : Agrees(req[d][t], shown[d])'
  BY <1>1, <1>2 DEF Agrees, Idle
<1> QED BY <1>1, <1>2, <1>3 DEF CalmDevice

(* A calm device begins its only request.                                  *)
LEMMA Begun ==
  ASSUME Types, NEW d \in Devices, NEW s \in Slots,
         \A t \in Slots : req[d][t] = Idle, NEW r \in Request, r # Idle,
         Set(d, s, r), Agrees(r, shown[d])'
  PROVE  CalmDevice(d)'
<1>1. \A t \in Slots \ {s} : req'[d][t] = Idle
  BY OneRequest
<1>2. req'[d][s] = r
  BY OneRequest
<1>3. \A t \in Slots : Agrees(req[d][t], shown[d])'
  BY <1>1, <1>2 DEF Agrees, Idle
<1> QED BY <1>1, <1>2, <1>3 DEF CalmDevice

-----------------------------------------------------------------------------
LEMMA TapStep ==
  ASSUME Inv, NEW d \in Devices, NEW s \in Slots, NEW a \in Auctions,
         Tap(d, s, a)
  PROVE  Inv'
<1>1. Types
  BY DEF Inv
<1>2. PICK r \in Toggle :
        r = [step |-> "sent", auction |-> a,
             sure |-> shown[d] = saved /\ a \in live]
  <2>1. PICK b \in BOOLEAN : b = (shown[d] = saved /\ a \in live)
    OBVIOUS
  <2>2. [step |-> "sent", auction |-> a, sure |-> b] \in Toggle
    BY DEF Toggle
  <2> QED BY <2>1, <2>2
<1>3. r \in Request /\ r # Idle /\ Set(d, s, r)
  BY <1>2 DEF Tap, Request, Idle
<1>4. shown' = [shown EXCEPT ![d] = Flip(shown[d], a)]
  BY <1>1 DEF Tap, Flip, Types
<1>5. shown' \in [Devices -> SUBSET Auctions] /\ shown'[d] = Flip(shown[d], a)
  BY <1>1, <1>4 DEF Flip, Types
<1>6. calm' \in [Devices -> BOOLEAN] /\ (calm'[d] <=> Busy(d) = {})
  BY <1>1 DEF Tap, Begin, Types
<1>7. Types'
  BY <1>1, <1>2, <1>3, <1>5, <1>6, OneRequest DEF Tap, Types
<1>8. ASSUME calm'[d] PROVE CalmDevice(d)'
  <2>1. \A t \in Slots : req[d][t] = Idle
    BY <1>6, <1>8 DEF Busy
  <2>2. Agrees(r, shown[d])'
    BY <1>2, <1>5 DEF Tap, Agrees
  <2> QED BY <1>1, <1>2, <1>3, <2>1, <2>2, Begun
<1>9. ASSUME NEW e \in Devices \ {d}, calm'[e] PROVE CalmDevice(e)'
  <2>1. calm[e] /\ shown'[e] = shown[e]
    BY <1>1, <1>4, <1>9 DEF Tap, Begin, Types
  <2> QED BY <1>1, <1>2, <1>3, <2>1, OneRequest, Undisturbed DEF Inv, Tap
<1> QED BY <1>7, <1>8, <1>9 DEF Inv

LEMMA FetchStep ==
  ASSUME Inv, NEW d \in Devices, NEW s \in Slots, Fetch(d, s)
  PROVE  Inv'
<1> DEFINE r == Fetching(FALSE)
<1>1. Types
  BY DEF Inv
<1>2. r \in Request /\ r # Idle
  BY DEF Request, Idle, Fetching
<1>3. Set(d, s, r)
  BY DEF Fetch
<1>4. calm' \in [Devices -> BOOLEAN] /\ (calm'[d] <=> Busy(d) = {})
  BY <1>1 DEF Fetch, Begin, Types
<1>5. Types'
  BY <1>1, <1>2, <1>3, <1>4, OneRequest DEF Fetch, Types
<1>6. ASSUME calm'[d] PROVE CalmDevice(d)'
  <2>1. \A t \in Slots : req[d][t] = Idle
    BY <1>4, <1>6 DEF Busy
  <2>2. Agrees(r, shown[d])'
    BY DEF Agrees, Fetching
  <2> QED BY <1>1, <1>2, <1>3, <2>1, <2>2, Begun
<1>7. ASSUME NEW e \in Devices \ {d}, calm'[e] PROVE CalmDevice(e)'
  <2>1. calm[e]
    BY <1>1, <1>7 DEF Fetch, Begin, Types
  <2> QED BY <1>1, <1>2, <1>3, <2>1, OneRequest, Undisturbed DEF Inv, Fetch
<1> QED BY <1>5, <1>6, <1>7 DEF Inv

LEMMA ApplyStep ==
  ASSUME Inv, NEW d \in Devices, NEW s \in Slots, Apply(d, s)
  PROVE  Inv'
<1> DEFINE rows == req[d][s].rows
<1>1. Types /\ req[d][s] \in Request
  BY DEF Inv, Types
<1>2. req[d][s].step = "fetched" /\ req[d][s] # Idle /\ rows \subseteq Auctions
  BY <1>1, Steps DEF Apply, Idle
<1>3. Set(d, s, Idle) /\ Idle \in Request
  BY DEF Apply, Request
<1>4. shown' \in [Devices -> SUBSET Auctions] /\ shown'[d] = rows
      /\ \A e \in Devices \ {d} : shown'[e] = shown[e]
  BY <1>1, <1>2 DEF Apply, Types
<1>5. Types'
  BY <1>1, <1>3, <1>4, OneRequest DEF Apply, Types
<1>6. ASSUME calm[d] PROVE CalmDevice(d)'
  <2>1. CalmDevice(d)
    BY <1>6 DEF Inv
  <2>2. \A t \in Slots : req'[d][t] = Idle
    BY <1>1, <1>2, <1>3, <2>1, OneRequest DEF CalmDevice
  <2>3. shown'[d] = saved
    BY <1>2, <1>4, <2>1 DEF CalmDevice, Agrees
  <2> QED BY <2>2, <2>3 DEF Apply, CalmDevice, Agrees, Idle
<1>7. ASSUME NEW e \in Devices \ {d}, calm[e] PROVE CalmDevice(e)'
  BY <1>1, <1>3, <1>4, <1>7, OneRequest, Undisturbed DEF Inv, Apply
<1> QED BY <1>5, <1>6, <1>7 DEF Inv, Apply

LEMMA FetchFailsStep ==
  ASSUME Inv, NEW d \in Devices, NEW s \in Slots, FetchFails(d, s)
  PROVE  Inv'
<1>1. Types /\ Set(d, s, Idle) /\ Idle \in Request
  BY DEF Inv, FetchFails, Request
<1>2. calm' \in [Devices -> BOOLEAN] /\ ~calm'[d]
  BY <1>1 DEF FetchFails, Types
<1>3. Types'
  BY <1>1, <1>2, OneRequest DEF FetchFails, Types
<1>4. ASSUME NEW e \in Devices \ {d}, calm'[e] PROVE CalmDevice(e)'
  <2>1. calm[e]
    BY <1>1, <1>4 DEF FetchFails, Types
  <2> QED BY <1>1, <2>1, OneRequest, Undisturbed DEF Inv, FetchFails
<1> QED BY <1>2, <1>3, <1>4 DEF Inv

LEMMA ToggleFailsStep ==
  ASSUME Inv, NEW d \in Devices, NEW s \in Slots, ToggleFails(d, s)
  PROVE  Inv'
<1> DEFINE r == Fetching(FALSE)
<1>1. Types /\ req[d][s] \in Request
  BY DEF Inv, Types
<1>2. r \in Request /\ r # Idle /\ Set(d, s, r)
  BY DEF ToggleFails, Request, Idle, Fetching
<1>3. req[d][s] # Idle /\ req[d][s] \in Toggle
  BY <1>1, Steps DEF ToggleFails, Idle
<1>4. [req[d][s] EXCEPT !.sure = FALSE] \in Toggle
  BY <1>3 DEF Toggle
<1>5. late' \subseteq Toggle
  BY <1>1, <1>4 DEF ToggleFails, Types
<1>6. Types'
  BY <1>1, <1>2, <1>5, OneRequest DEF ToggleFails, Types
<1>7. ASSUME calm[d] PROVE CalmDevice(d)'
  <2>1. Agrees(r, shown[d])'
    BY DEF Agrees, Fetching
  <2> QED BY <1>1, <1>2, <1>3, <1>7, <2>1, Advanced DEF Inv
<1>8. ASSUME NEW e \in Devices \ {d}, calm[e] PROVE CalmDevice(e)'
  BY <1>1, <1>2, <1>8, OneRequest, Undisturbed DEF Inv, ToggleFails
<1> QED BY <1>6, <1>7, <1>8 DEF Inv, ToggleFails

LEMMA SelectExistsStep ==
  ASSUME Inv, NEW d \in Devices, NEW s \in Slots, SelectExists(d, s)
  PROVE  Inv'
<1>1. Types /\ req[d][s] \in Request
  BY DEF Inv, Types
<1>2. req[d][s] # Idle /\ Looked(req[d][s]) \in Toggle
  BY <1>1, Steps DEF SelectExists, Looked, Toggle, Idle
<1>3. PICK r \in Toggle : r = Looked(req[d][s])
  BY <1>2
<1>4. r \in Request /\ r # Idle /\ Set(d, s, r)
  BY <1>3 DEF SelectExists, Looked, Request, Idle
<1>5. Types'
  BY <1>1, <1>4, OneRequest DEF SelectExists, Types
<1>6. ASSUME calm[d] PROVE CalmDevice(d)'
  <2>1. CalmDevice(d) /\ Agrees(req[d][s], shown[d])
    BY <1>6 DEF Inv, CalmDevice
  <2>2. Agrees(r, shown[d])'
    BY <1>3, <2>1 DEF Agrees, SelectExists, Looked
  <2> QED BY <1>1, <1>2, <1>4, <2>1, <2>2, Advanced
<1>7. ASSUME NEW e \in Devices \ {d}, calm[e] PROVE CalmDevice(e)'
  BY <1>1, <1>4, <1>7, OneRequest, Undisturbed DEF Inv, SelectExists
<1> QED BY <1>5, <1>6, <1>7 DEF Inv, SelectExists

(* The heart showed what the toggle does to the rows.                      *)
LEMMA WriteStep ==
  ASSUME Inv, NEW d \in Devices, NEW s \in Slots, Write(d, s)
  PROVE  Inv'
<1> DEFINE q == req[d][s]
<1>1. Types /\ q \in Request /\ q.step = "read"
  BY DEF Inv, Types, Write
<1>2. q # Idle /\ q.auction \in Auctions /\ q.sure \in BOOLEAN /\ q.exists \in BOOLEAN
  BY <1>1, Steps DEF Idle
<1>3. PICK r \in Request : r = Fetching(q.sure) /\ r # Idle /\ Set(d, s, r)
  BY <1>2 DEF Write, Request, Idle, Fetching
<1>4. saved' = Toggled(q) /\ saved' \subseteq Auctions
  BY <1>1, <1>2 DEF Write, Save, Toggled, Types
<1>5. /\ calm' \in [Devices -> BOOLEAN]
      /\ calm'[d] => calm[d]
      /\ \A e \in Devices \ {d} : calm'[e] => calm[e] /\ saved' = saved
  BY <1>1 DEF Write, Save, Types
<1>6. Types'
  BY <1>1, <1>3, <1>4, <1>5, OneRequest DEF Write, Types
<1>7. ASSUME calm'[d] PROVE CalmDevice(d)'
  <2>1. CalmDevice(d) /\ Agrees(q, shown[d])
    BY <1>5, <1>7 DEF Inv, CalmDevice
  <2>2. q.sure => shown[d] = Toggled(q)
    BY <1>1, <1>2, <2>1 DEF Agrees, Toggled, Flip
  <2>3. Agrees(r, shown[d])'
    BY <1>3, <1>4, <2>2 DEF Agrees, Fetching, Write
  <2> QED BY <1>1, <1>2, <1>3, <2>1, <2>3, Advanced
<1>8. ASSUME NEW e \in Devices \ {d}, calm'[e] PROVE CalmDevice(e)'
  <2>1. calm[e] /\ saved' = saved
    BY <1>5, <1>8
  <2> QED BY <1>1, <1>3, <2>1, OneRequest, Undisturbed DEF Inv, Write
<1> QED BY <1>6, <1>7, <1>8 DEF Inv

LEMMA GetWatchlistStep ==
  ASSUME Inv, NEW d \in Devices, NEW s \in Slots, GetWatchlist(d, s)
  PROVE  Inv'
<1> DEFINE q == req[d][s]
<1>1. Types /\ q \in Request /\ q.step = "fetching"
  BY DEF Inv, Types, GetWatchlist
<1>2. q # Idle /\ q.sure \in BOOLEAN
  BY <1>1, Steps DEF Idle
<1>3. PICK r \in Request :
        /\ r = [step |-> "fetched", rows |-> saved, sure |-> q.sure]
        /\ r # Idle
        /\ Set(d, s, r)
  BY <1>1, <1>2 DEF GetWatchlist, Request, Idle, Types
<1>4. Types'
  BY <1>1, <1>3, OneRequest DEF GetWatchlist, Types
<1>5. ASSUME calm[d] PROVE CalmDevice(d)'
  <2>1. CalmDevice(d) /\ Agrees(q, shown[d])
    BY <1>5 DEF Inv, CalmDevice
  <2>2. Agrees(r, shown[d])'
    BY <1>1, <1>3, <2>1 DEF Agrees, GetWatchlist
  <2> QED BY <1>1, <1>2, <1>3, <2>1, <2>2, Advanced
<1>6. ASSUME NEW e \in Devices \ {d}, calm[e] PROVE CalmDevice(e)'
  BY <1>1, <1>3, <1>6, OneRequest, Undisturbed DEF Inv, GetWatchlist
<1> QED BY <1>4, <1>5, <1>6 DEF Inv, GetWatchlist

(* What goes on without a device leaves it calm only when no row changed.  *)
LEMMA LateStep ==
  ASSUME Inv, NEW r \in late, LateSelect(r) \/ LateWrite(r)
  PROVE  Inv'
<1>1. Types /\ r \in Toggle
  BY DEF Inv, Types
<1>2. r.auction \in Auctions /\ r.sure \in BOOLEAN
  BY <1>1 DEF Toggle
<1>3. late' \subseteq Toggle
  <2>1. Looked(r) \in Toggle
    BY <1>2 DEF Looked, Toggle
  <2> QED BY <1>1, <2>1 DEF LateSelect, LateWrite, Types
<1>4. saved' \subseteq Auctions
  BY <1>1, <1>2 DEF LateSelect, LateWrite, Save, Toggled, Types
<1>5. /\ calm' \in [Devices -> BOOLEAN]
      /\ \A d \in Devices : calm'[d] => calm[d] /\ saved' = saved
  BY <1>1 DEF LateSelect, LateWrite, Save, Types
<1>6. UNCHANGED <<live, shown, req>>
  BY DEF LateSelect, LateWrite
<1>7. Types'
  BY <1>1, <1>3, <1>4, <1>5, <1>6 DEF Types
<1> QED BY <1>5, <1>6, <1>7, Undisturbed DEF Inv

LEMMA DeleteStep ==
  ASSUME Inv, NEW a \in Auctions, Delete(a)
  PROVE  Inv'
BY DEF Inv, Types, Delete

-----------------------------------------------------------------------------
LEMMA InvInit == Init => Inv
BY Types_Init DEF Init, Inv

LEMMA InvStep == Inv /\ [Next]_vars => Inv'
<1> SUFFICES ASSUME Inv, [Next]_vars PROVE Inv'
  OBVIOUS
<1>1. CASE UNCHANGED vars
  BY <1>1, Undisturbed DEF vars, Inv, Types
<1>2. ASSUME NEW d \in Devices, NEW s \in Slots, NEW a \in Auctions, Tap(d, s, a)
      PROVE  Inv'
  BY <1>2, TapStep
<1>3. ASSUME NEW d \in Devices, NEW s \in Slots,
             \/ Fetch(d, s) \/ Apply(d, s) \/ FetchFails(d, s)
             \/ ToggleFails(d, s)
             \/ SelectExists(d, s) \/ Write(d, s) \/ GetWatchlist(d, s)
      PROVE  Inv'
  BY <1>3, FetchStep, ApplyStep, FetchFailsStep, ToggleFailsStep,
     SelectExistsStep, WriteStep, GetWatchlistStep
<1>4. ASSUME NEW r \in late, LateSelect(r) \/ LateWrite(r)
      PROVE  Inv'
  BY <1>4, LateStep
<1>5. ASSUME NEW a \in Auctions, Delete(a)
      PROVE  Inv'
  BY <1>5, DeleteStep
<1> QED BY <1>1, <1>2, <1>3, <1>4, <1>5 DEF Next

LEMMA InvHolds == Spec => []Inv
BY InvInit, InvStep, PTL DEF Spec

(* HeartsAreSaved, for any auctions, devices and requests: after a tap or  *)
(* a fetch that nothing overtook the hearts are the rows of the table.     *)
THEOREM HeartsShowTheRows == Spec => []HeartsAreSaved
<1>1. Inv => HeartsAreSaved
  BY DEF Inv, HeartsAreSaved, CalmDevice, Busy
<1> QED BY <1>1, InvHolds, PTL

(* TapIsDone, likewise: the backend's two statements do to the row what    *)
(* the heart showed when it was tapped.                                    *)
THEOREM TapsAreDone == Spec => []TapIsDone
<1>1. Inv => TapIsDone
  BY DEF Inv, TapIsDone, CalmDevice, Agrees
<1> QED BY <1>1, InvHolds, PTL
=============================================================================
