------------------------------- MODULE Feed -------------------------------
(***************************************************************************)
(* The list of running auctions in AuctionProvider and the endpoint that   *)
(* pages it.  Refreshing, scrolling on, and changing category or search    *)
(* each send a request and apply whatever answers come, in any order; the  *)
(* listing moves under the pages as auctions open and close.               *)
(***************************************************************************)
EXTENDS Naturals, SequencesExt, FiniteSets

CONSTANTS
  Auctions,
  Filters,     \* category and search text, together
  NoFilter,    \* category All and no text
  Shows,       \* the auctions that pass a filter
  PageSize,    \* limit=10
  Requests,    \* GET /auctions requests that may be under way at once
  MaxFeed      \* bound: how long a list is still scrolled

ASSUME ShowsAssumption ==
  /\ Shows \in [Filters -> SUBSET Auctions]
  /\ NoFilter \in Filters /\ Shows[NoFilter] = Auctions
ASSUME BoundAssumption ==
  PageSize \in Nat \ {0} /\ MaxFeed \in Nat

VARIABLES
  listed,        \* ACTIVE auctions by start_time, the newest first
  closed,        \* auctions that were sold, expired, cancelled or deleted
  deleted,       \* own auctions whose DELETE is answered 200, not yet applied
  feed,          \* _auctions
  page,          \* _currentPage
  hasMore,       \* _hasMore
  isLoading,     \* _isLoading
  fetchingMore,  \* _isFetchingMore
  error,         \* _errorMessage # null
  filter,        \* _selectedCategory, _searchQuery
  req,           \* the requests under way
  steady         \* since a refresh that ran alone, requests ran one at a time
                 \* and the listing stood still

server == <<listed, closed, deleted>>
client == <<feed, page, hasMore, isLoading, fetchingMore, error, filter>>
vars   == <<server, client, req, steady>>

Idle == [step |-> "idle"]
Busy == {r \in Requests : req[r] # Idle}

(* The elements of a sequence that lie in a set, in their order: the n-th  *)
(* is the one with n such elements up to it.  This is SelectSeq, stated by *)
(* rank because the prover has no definition of SelectSeq.                 *)
Keep(s, set) ==
  LET kept    == {i \in DOMAIN s : s[i] \in set}
      Rank(i) == Cardinality({j \in kept : j <= i}) IN
  [n \in 1..Cardinality(kept) |-> s[CHOOSE i \in kept : Rank(i) = n]]

Listing(f) == Keep(listed, Shows[f])
Page(s, p) == SubSeq(s, (p - 1) * PageSize + 1, Min({p * PageSize, Len(s)}))

-----------------------------------------------------------------------------
(* The backend.                                                            *)

(* A new auction is the newest of all; ids are never used again.           *)
Publish(a) ==
  /\ a \notin closed /\ ~Contains(listed, a)
  /\ listed' = <<a>> \o listed
  /\ steady' = FALSE
  /\ UNCHANGED <<closed, deleted, client, req>>

(* An auction leaves the listing; when this app deleted it, the app is     *)
(* told.                                                                   *)
Close(a, own) ==
  /\ Contains(listed, a)
  /\ listed' = Keep(listed, Auctions \ {a})
  /\ closed' = closed \cup {a}
  /\ deleted' = IF own THEN deleted \cup {a} ELSE deleted
  /\ steady' = FALSE
  /\ UNCHANGED <<client, req>>

(* ORDER BY start_time DESC LIMIT limit OFFSET (page - 1) * limit.         *)
GetAllActive(r) ==
  /\ req[r].step = "sent"
  /\ req' = [req EXCEPT ![r] =
               [step |-> "answered", refresh |-> req[r].refresh,
                rows |-> Page(Listing(req[r].filter), req[r].page)]]
  /\ UNCHANGED <<server, client, steady>>

-----------------------------------------------------------------------------
(* The app.                                                                *)

(* The list is on screen unless the last request failed.                   *)
Visible == ~error \/ isLoading

(* The request, for the page and the filter of this moment.                *)
Send(r, refresh) ==
  /\ req[r] = Idle
  /\ req' = [req EXCEPT ![r] = [step |-> "sent", refresh |-> refresh,
                                page |-> page', filter |-> filter']]
  /\ error' = FALSE
  /\ steady' = (Busy = {} /\ (steady \/ refresh))
  /\ UNCHANGED <<server, feed>>

(* Mutant: a refresh does not set _hasMore again.                          *)
StartOver_KeepsEnd(r) ==
  /\ page' = 1 /\ isLoading' = TRUE
  /\ Send(r, TRUE)
  /\ UNCHANGED <<fetchingMore, hasMore>>

StartOver(r) ==
  /\ page' = 1 /\ hasMore' = TRUE /\ isLoading' = TRUE
  /\ Send(r, TRUE)
  /\ UNCHANGED fetchingMore

(* Pulled down, retried, or after a bid, a purchase or a new auction.      *)
Refresh(r) == UNCHANGED filter /\ StartOver(r)

(* setSearchQuery, setCategory.                                            *)
SetFilter(r, f) ==
  /\ Visible /\ f # filter
  /\ filter' = f
  /\ StartOver(r)

(* Scrolled to the end.                                                    *)
More(r) ==
  /\ Visible /\ hasMore /\ ~fetchingMore
  /\ Len(feed) < MaxFeed
  /\ fetchingMore' = TRUE
  /\ UNCHANGED <<page, hasMore, isLoading, filter>>
  /\ Send(r, FALSE)

(* Whatever ends, both spinners stop.                                      *)
End(r) ==
  /\ req' = [req EXCEPT ![r] = Idle]
  /\ isLoading' = FALSE /\ fetchingMore' = FALSE
  /\ UNCHANGED <<server, filter, steady>>

(* 200: the rows replace or extend the list; a short page is the last.     *)
Apply(r) ==
  /\ req[r].step = "answered"
  /\ LET rows  == req[r].rows
         short == Len(rows) < PageSize IN
     /\ feed' = IF req[r].refresh THEN rows ELSE feed \o rows
     /\ hasMore' = (hasMore /\ ~short)
     /\ page' = IF short THEN page ELSE page + 1
  /\ End(r)
  /\ UNCHANGED error

(* Mutant: after an error the spinners go on.                              *)
Fail_KeepsSpinner(r) ==
  /\ req[r] # Idle
  /\ error' = TRUE
  /\ req' = [req EXCEPT ![r] = Idle]
  /\ UNCHANGED <<server, feed, page, hasMore, isLoading, fetchingMore, filter,
                 steady>>

(* The request or its answer is lost, or the backend answers an error.     *)
Fail(r) ==
  /\ req[r] # Idle
  /\ error' = TRUE
  /\ End(r)
  /\ UNCHANGED <<feed, page, hasMore>>

(* deleteAuction is told 200.                                              *)
ApplyDelete(a) ==
  /\ a \in deleted
  /\ deleted' = deleted \ {a}
  /\ feed' = Keep(feed, Auctions \ {a})
  /\ UNCHANGED <<listed, closed, page, hasMore, isLoading, fetchingMore, error,
                 filter, req, steady>>

Init ==
  /\ listed = <<>> /\ closed = {} /\ deleted = {}
  /\ feed = <<>> /\ page = 1 /\ hasMore = TRUE
  /\ isLoading = FALSE /\ fetchingMore = FALSE /\ error = FALSE
  /\ filter = NoFilter
  /\ req = [r \in Requests |-> Idle]
  /\ steady = TRUE

Next ==
  \/ \E a \in Auctions :
       \/ Publish(a)
       \/ \E own \in BOOLEAN : Close(a, own)
       \/ ApplyDelete(a)
  \/ \E r \in Requests :
       \/ Refresh(r) \/ More(r)
       \/ \E f \in Filters : SetFilter(r, f)
       \/ GetAllActive(r) \/ Apply(r) \/ Fail(r)

Spec == Init /\ [][Next]_vars

(* Assumed: a request ends, answered or failed, though the app itself sets *)
(* no timeout.                                                             *)
Fairness == \A r \in Requests : WF_vars(Apply(r) \/ Fail(r))

FairSpec == Spec /\ Fairness

-----------------------------------------------------------------------------
(* Once requests run one at a time and the listing stands still, the list  *)
(* is the listing from its newest auction on, no row twice and none left   *)
(* out, whatever was loaded, filtered, lost or overlapped before the last  *)
(* refresh; it says that there is no more only when it shows everything,   *)
(* and otherwise the next page continues it.                               *)
FeedIsListing ==
  steady /\ Busy = {} /\ ~error =>
    /\ IsPrefix(feed, Listing(filter))
    /\ IF hasMore THEN Len(feed) = (page - 1) * PageSize
       ELSE Len(feed) = Len(Listing(filter))

(* A spinner stops, however requests overlap and fail.                     *)
SpinnerStops ==
  isLoading \/ fetchingMore ~> ~(isLoading \/ fetchingMore)
=============================================================================
