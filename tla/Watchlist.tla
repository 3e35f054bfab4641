---------------------------- MODULE Watchlist -----------------------------
(***************************************************************************)
(* The watchlist of one account on several devices.  A tap on a heart      *)
(* changes it on screen at once, sends a toggle, and then fetches the      *)
(* whole list, also when the toggle failed.  The backend toggles in two    *)
(* statements without a transaction, and deleting an auction takes its     *)
(* rows along.                                                             *)
(***************************************************************************)
EXTENDS Naturals, FiniteSets

CONSTANTS
  Auctions,
  Devices,    \* phones signed in to the account
  Slots,      \* requests one device may have under way at once
  MaxBusy     \* bound: requests under way at once, the late ones included

ASSUME BoundAssumption == MaxBusy \in Nat

VARIABLES
  live,       \* auctions that exist
  saved,      \* the account's rows in the watchlist table
  shown,      \* _watchlist of a device
  req,        \* the requests of a device
  late,       \* toggles that a device gave up on and the backend goes on with
  calm        \* since the device's last request began, alone, it sent no
              \* other, no fetch of it was lost, and nobody else wrote

vars == <<live, saved, shown, req, late, calm>>

Idle == [step |-> "idle"]
Busy(d) == {s \in Slots : req[d][s] # Idle}

(* Becomes the state of a request.                                         *)
Set(d, s, r) == req' = [req EXCEPT ![d][s] = r]

(* Rows are written: devices other than those that wait for the answer are *)
(* no longer calm.                                                         *)
Save(rows, waiting) ==
  /\ saved' = rows
  /\ calm' = [d \in Devices |-> calm[d] /\ (d \in waiting \/ rows = saved)]

-----------------------------------------------------------------------------
(* The app.                                                                *)

Begin(d) ==
  /\ Cardinality({x \in Devices \X Slots : req[x[1]][x[2]] # Idle})
       + Cardinality(late) < MaxBusy
  /\ calm' = [calm EXCEPT ![d] = Busy(d) = {}]

(* toggleWatchlist: the heart changes before the request is sent.  It is   *)
(* sure when it showed what was saved, of an auction that exists.  For an  *)
(* auction that is neither watched nor in the loaded feed firstWhere       *)
(* throws before anything is done.                                         *)
Tap(d, s, a) ==
  /\ req[d][s] = Idle
  /\ shown' = [shown EXCEPT ![d] = IF a \in @ THEN @ \ {a} ELSE @ \cup {a}]
  /\ Set(d, s, [step |-> "sent", auction |-> a,
                sure |-> shown[d] = saved /\ a \in live])
  /\ Begin(d)
  /\ UNCHANGED <<live, saved, late>>

Fetching(sure) == [step |-> "fetching", sure |-> sure]

(* fetchWatchlist, when a screen opens.                                    *)
Fetch(d, s) ==
  /\ req[d][s] = Idle
  /\ Set(d, s, Fetching(FALSE))
  /\ Begin(d)
  /\ UNCHANGED <<live, saved, shown, late>>

(* Mutant: the fetched auctions are added to those on screen.              *)
Apply_Adds(d, s) ==
  /\ req[d][s].step = "fetched"
  /\ shown' = [shown EXCEPT ![d] = @ \cup req[d][s].rows]
  /\ Set(d, s, Idle)
  /\ UNCHANGED <<live, saved, late, calm>>

Apply(d, s) ==
  /\ req[d][s].step = "fetched"
  /\ shown' = [shown EXCEPT ![d] = req[d][s].rows]
  /\ Set(d, s, Idle)
  /\ UNCHANGED <<live, saved, late, calm>>

(* A fetch fails, silently.                                                *)
FetchFails(d, s) ==
  /\ req[d][s].step \in {"fetching", "fetched"}
  /\ Set(d, s, Idle)
  /\ calm' = [calm EXCEPT ![d] = FALSE]
  /\ UNCHANGED <<live, saved, shown, late>>

(* The connection breaks before the toggle has written: the list is        *)
(* fetched to undo the heart.  The backend drops the toggle, or has not    *)
(* noticed and goes on with it.                                            *)
ToggleFails(d, s) ==
  /\ req[d][s].step \in {"sent", "read"}
  /\ Set(d, s, Fetching(FALSE))
  /\ late' \in {late, late \cup {[req[d][s] EXCEPT !.sure = FALSE]}}
  /\ UNCHANGED <<live, saved, shown, calm>>

-----------------------------------------------------------------------------
(* The backend.                                                            *)

(* ToggleWatchlist: SELECT EXISTS, then DELETE or INSERT by what was read. *)
(* The primary key refuses a row that has come in the meantime, the        *)
(* foreign key an auction that is gone.                                    *)
Looked(r) == [step |-> "read", auction |-> r.auction, sure |-> r.sure,
              exists |-> r.auction \in saved]

Toggled(r) == IF r.exists THEN saved \ {r.auction}
              ELSE saved \cup ({r.auction} \cap live)

SelectExists(d, s) ==
  /\ req[d][s].step = "sent"
  /\ Set(d, s, Looked(req[d][s]))
  /\ UNCHANGED <<live, saved, shown, late, calm>>

(* Mutant: the two branches are swapped.                                   *)
Write_Swapped(d, s) ==
  LET r == req[d][s] IN
  /\ r.step = "read"
  /\ Save(IF r.exists THEN saved \cup {r.auction} ELSE saved \ {r.auction}, {d})
  /\ Set(d, s, Fetching(r.sure))
  /\ UNCHANGED <<live, shown, late>>

(* Done, refused, or done and the answer lost: the device fetches.         *)
Write(d, s) ==
  LET r == req[d][s] IN
  /\ r.step = "read"
  /\ Save(Toggled(r), {d})
  /\ Set(d, s, Fetching(r.sure))
  /\ UNCHANGED <<live, shown, late>>

LateSelect(r) ==
  /\ r.step = "sent"
  /\ late' = (late \ {r}) \cup {Looked(r)}
  /\ UNCHANGED <<live, saved, shown, req, calm>>

LateWrite(r) ==
  /\ r.step = "read"
  /\ Save(Toggled(r), {})
  /\ late' = late \ {r}
  /\ UNCHANGED <<live, shown, req>>

GetWatchlist(d, s) ==
  /\ req[d][s].step = "fetching"
  /\ Set(d, s, [step |-> "fetched", rows |-> saved, sure |-> req[d][s].sure])
  /\ UNCHANGED <<live, saved, shown, late, calm>>

(* A seller deletes an auction; its rows go with it.                       *)
Delete(a) ==
  /\ a \in live
  /\ live' = live \ {a}
  /\ saved' = saved \ {a}
  /\ calm' = [d \in Devices |-> FALSE]
  /\ UNCHANGED <<shown, req, late>>

Init ==
  /\ live = Auctions
  /\ saved \in SUBSET Auctions
  /\ shown = [d \in Devices |-> {}]
  /\ req = [d \in Devices |-> [s \in Slots |-> Idle]]
  /\ late = {}
  /\ calm = [d \in Devices |-> FALSE]

Next ==
  \/ \E d \in Devices, s \in Slots :
       \/ \E a \in Auctions : Tap(d, s, a)
       \/ Fetch(d, s) \/ Apply(d, s) \/ FetchFails(d, s)
       \/ ToggleFails(d, s)
       \/ SelectExists(d, s) \/ Write(d, s) \/ GetWatchlist(d, s)
  \/ \E r \in late : LateSelect(r) \/ LateWrite(r)
  \/ \E a \in Auctions : Delete(a)

Spec == Init /\ [][Next]_vars

-----------------------------------------------------------------------------
(* After a tap or a fetch that ran alone, while no other device and no     *)
(* toggle given up before wrote, the hearts show what is saved, whatever   *)
(* they showed before and whether the toggle was done, refused or lost.    *)
HeartsAreSaved ==
  \A d \in Devices : calm[d] /\ Busy(d) = {} => shown[d] = saved

(* A tap on a true heart does what it showed: when no step of it failed    *)
(* and nobody else wrote, the fetch behind it changes nothing on screen.   *)
TapIsDone ==
  \A d \in Devices, s \in Slots :
    LET r == req[d][s] IN
    calm[d] /\ r.step = "fetched" /\ r.sure => r.rows = shown[d]
=============================================================================
