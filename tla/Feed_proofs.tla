---------------------------- MODULE Feed_proofs ----------------------------
(***************************************************************************)
(* The list on screen is the listing, for any auctions, filters, length of *)
(* a page and number of requests.  The invariant follows the one request   *)
(* that is under way while nothing disturbs it: what it asked for, and     *)
(* what its answer will make of the list.                                  *)
(***************************************************************************)
EXTENDS Feed, SequenceTheorems, FiniteSetTheorems, TLAPS

Sent == [step: {"sent"}, refresh: BOOLEAN, page: Nat \ {0}, filter: Filters]

Answered == [step: {"answered"}, refresh: BOOLEAN, rows: Seq(Auctions)]

TypeOK ==
  /\ listed \in Seq(Auctions)
  /\ closed \subseteq Auctions /\ deleted \subseteq Auctions
  /\ feed \in Seq(Auctions)
  /\ page \in Nat \ {0}
  /\ hasMore \in BOOLEAN /\ isLoading \in BOOLEAN
  /\ fetchingMore \in BOOLEAN /\ error \in BOOLEAN
  /\ filter \in Filters
  /\ req \in [Requests -> {Idle} \cup Sent \cup Answered]
  /\ steady \in BOOLEAN

(* What is closed is not listed, and only closed auctions were deleted.    *)
ClosedIsGone ==
  /\ \A i \in 1..Len(listed) : listed[i] \notin closed
  /\ deleted \subseteq closed

(* The listing has no row twice.                                           *)
ListedOnce == IsInjective(listed)

(* No spinner without a request.                                           *)
Spinning == Busy = {} => ~isLoading /\ ~fetchingMore

-----------------------------------------------------------------------------
(* While requests run one at a time and the listing stands still.          *)

(* The list is a first part of the listing that the next page continues.   *)
Continues ==
  /\ IsPrefix(feed, Listing(filter))
  /\ IF hasMore THEN Len(feed) = (page - 1) * PageSize
     ELSE Len(feed) = Len(Listing(filter))

(* The request under way is for the current page and filter; one that is   *)
(* to replace the list is for the first page, and any other continues it.  *)
Undisturbed(r) ==
  /\ ~error /\ hasMore
  /\ req[r].step = "sent" => req[r].page = page /\ req[r].filter = filter
  /\ req[r].step = "answered" => req[r].rows = Page(Listing(filter), page)
  /\ IF req[r].refresh THEN page = 1 ELSE Continues

Steady ==
  /\ \A r, q \in Busy : r = q
  /\ \A r \in Busy : Undisturbed(r)
  /\ Busy = {} /\ ~error => Continues

IInv ==
  /\ TypeOK /\ ClosedIsGone /\ ListedOnce /\ Spinning
  /\ steady => Steady

-----------------------------------------------------------------------------
(* Keep: the rank of the elements that are kept.                           *)

(* A set of positions is finite, and an initial interval counts its end.   *)
LEMMA Positions ==
  ASSUME NEW m \in Nat
  PROVE  /\ IsFiniteSet(1..m) /\ Cardinality(1..m) = m
         /\ \A T \in SUBSET (1..m) : IsFiniteSet(T) /\ Cardinality(T) \in Nat
<1>1. IsFiniteSet(1..m)
      /\ Cardinality(1..m) = IF 1 > m THEN 0 ELSE m - 1 + 1
  <2>1. 1 \in Int /\ m \in Int
    OBVIOUS
  <2> QED
    BY ONLY <2>1, FS_Interval
<1>2. ASSUME NEW T \in SUBSET (1..m)
      PROVE  IsFiniteSet(T)
  BY <1>1, <1>2, FS_Subset
<1> QED
  BY <1>1, <1>2, FS_CardinalityType

(* The n-th element that is kept exists, for each n up to their number.    *)
LEMMA RankIsOnto ==
  ASSUME NEW m \in Nat, NEW kept \in SUBSET (1..m),
         NEW n \in 1..Cardinality(kept)
  PROVE  \E i \in kept : Cardinality({j \in kept : j <= i}) = n
<1> DEFINE UpTo(i) == {j \in kept : j <= i}
           rank == [i \in kept |-> Cardinality(UpTo(i))]
<1>1. IsFiniteSet(kept) /\ Cardinality(kept) \in Nat
  BY Positions
<1>2. \A i \in kept : /\ IsFiniteSet(UpTo(i)) /\ Cardinality(UpTo(i)) \in Nat
                      /\ Cardinality(UpTo(i)) <= Cardinality(kept)
                      /\ Cardinality(UpTo(i)) # 0
  <2> SUFFICES ASSUME NEW i \in kept
               PROVE  /\ IsFiniteSet(UpTo(i)) /\ Cardinality(UpTo(i)) \in Nat
                      /\ Cardinality(UpTo(i)) <= Cardinality(kept)
                      /\ Cardinality(UpTo(i)) # 0
    OBVIOUS
  <2>1. UpTo(i) \in SUBSET kept /\ i \in UpTo(i)
    OBVIOUS
  <2> HIDE DEF UpTo
  <2>2. IsFiniteSet(UpTo(i)) /\ Cardinality(UpTo(i)) <= Cardinality(kept)
    BY <1>1, <2>1, FS_Subset
  <2>3. UpTo(i) # {}
    BY <2>1
  <2> QED
    BY <2>2, <2>3, FS_CardinalityType, FS_EmptySet
<1>3. ASSUME NEW i \in kept, NEW k \in kept, i < k
      PROVE  Cardinality(UpTo(i)) # Cardinality(UpTo(k))
  <2>1. \A j \in kept : j \in 1..m
    OBVIOUS
  <2>2. UpTo(i) \in SUBSET UpTo(k)
    <3>1. ASSUME NEW j \in kept, j <= i
          PROVE  j <= k
      BY <1>3, <2>1, <3>1
    <3> QED
      BY <3>1
  <2>3. k \in UpTo(k) /\ k \notin UpTo(i)
    BY <1>3, <2>1
  <2> HIDE DEF UpTo
  <2> QED
    BY <1>2, <2>2, <2>3, FS_Subset
<1>4. rank \in Injection(kept, 1..Cardinality(kept))
  <2>1. rank \in [kept -> 1..Cardinality(kept)]
    <3> HIDE DEF UpTo
    <3> QED
      BY <1>1, <1>2
  <2>2. ASSUME NEW i \in kept, NEW k \in kept, rank[i] = rank[k]
        PROVE  i = k
    <3>1. i < k \/ k < i \/ i = k
      OBVIOUS
    <3> HIDE DEF UpTo
    <3> QED
      BY <1>3, <2>2, <3>1
  <2> QED
    BY <2>1, <2>2 DEF Injection, IsInjective
<1>5. IsFiniteSet(1..Cardinality(kept))
      /\ Cardinality(1..Cardinality(kept)) = Cardinality(kept)
  BY <1>1, FS_Interval
<1>6. rank \in Surjection(kept, 1..Cardinality(kept))
  BY <1>4, <1>5, FS_Injection
<1>7. \E i \in kept : rank[i] = n
  BY <1>6 DEF Surjection
<1> QED
  BY <1>7

(* Keep returns a sequence of elements of its argument that lie in the set. *)
LEMMA KeepKeeps ==
  ASSUME NEW S, NEW s \in Seq(S), NEW K
  PROVE  /\ Keep(s, K) \in Seq(S)
         /\ \A n \in 1..Len(Keep(s, K)) :
              \E i \in 1..Len(s) : Keep(s, K)[n] = s[i] /\ s[i] \in K
         /\ IsInjective(s) => IsInjective(Keep(s, K))
<1> DEFINE kept == {i \in DOMAIN s : s[i] \in K}
           Rank(i) == Cardinality({j \in kept : j <= i})
           At(n) == CHOOSE i \in kept : Rank(i) = n
<1>1. Len(s) \in Nat /\ DOMAIN s = 1..Len(s) /\ kept \in SUBSET (1..Len(s))
  BY LenProperties
<1>2. Cardinality(kept) \in Nat
  BY <1>1, Positions
<1>3. \A n \in 1..Cardinality(kept) : At(n) \in kept /\ Rank(At(n)) = n
  <2> SUFFICES ASSUME NEW n \in 1..Cardinality(kept)
               PROVE  At(n) \in kept /\ Rank(At(n)) = n
    OBVIOUS
  <2>1. \E i \in kept : Rank(i) = n
    <3> HIDE DEF kept
    <3> QED
      BY <1>1, RankIsOnto
  <2> HIDE DEF kept, Rank
  <2> QED
    BY <2>1
<1>4. Keep(s, K) = [n \in 1..Cardinality(kept) |-> s[At(n)]]
  BY DEF Keep
<1>5. \A n \in 1..Cardinality(kept) :
        At(n) \in 1..Len(s) /\ s[At(n)] \in K /\ s[At(n)] \in S
  <2> HIDE DEF At
  <2> QED
    BY <1>1, <1>3, ElementOfSeq
<1> HIDE DEF At, kept, Rank
<1>6. Keep(s, K) \in Seq(S) /\ Len(Keep(s, K)) = Cardinality(kept)
  BY <1>2, <1>4, <1>5
<1>7. ASSUME IsInjective(s)
      PROVE  IsInjective(Keep(s, K))
  <2>1. \A i, k \in 1..Len(s) : s[i] = s[k] => i = k
    BY <1>1, <1>7 DEF IsInjective
  <2>2. ASSUME NEW n \in 1..Cardinality(kept), NEW p \in 1..Cardinality(kept),
               s[At(n)] = s[At(p)]
        PROVE  n = p
    <3>1. At(n) = At(p)
      BY <1>5, <2>1, <2>2
    <3> QED
      BY <1>3, <3>1
  <2> QED
    BY <1>4, <2>2 DEF IsInjective
<1> QED
  BY <1>4, <1>5, <1>6, <1>7

(* What lies in the set altogether stays as it is.                         *)
LEMMA KeepAll ==
  ASSUME NEW S, NEW s \in Seq(S), NEW K, \A i \in 1..Len(s) : s[i] \in K
  PROVE  Keep(s, K) = s
<1> DEFINE kept == {i \in DOMAIN s : s[i] \in K}
           Rank(i) == Cardinality({j \in kept : j <= i})
<1>1. Len(s) \in Nat /\ DOMAIN s = 1..Len(s) /\ s \in [1..Len(s) -> S]
  BY LenProperties
<1>2. kept = 1..Len(s)
  BY <1>1
<1>3. Cardinality(kept) = Len(s)
  BY <1>1, <1>2, Positions
<1>4. \A i \in kept : Rank(i) = i
  <2> SUFFICES ASSUME NEW i \in kept
               PROVE  Rank(i) = i
    OBVIOUS
  <2>1. {j \in kept : j <= i} = 1..i
    BY <1>1, <1>2
  <2>2. i \in Nat
    BY <1>1, <1>2
  <2> HIDE DEF kept
  <2> QED
    BY <2>1, <2>2, Positions
<1>5. \A n \in 1..Len(s) : (CHOOSE i \in kept : Rank(i) = n) = n
  <2> SUFFICES ASSUME NEW n \in 1..Len(s)
               PROVE  (CHOOSE i \in kept : Rank(i) = n) = n
    OBVIOUS
  <2>1. n \in kept /\ Rank(n) = n
    BY <1>2, <1>4
  <2> HIDE DEF kept, Rank
  <2> QED
    BY <1>4, <2>1
<1>6. Keep(s, K) = [n \in 1..Cardinality(kept) |->
                      s[CHOOSE i \in kept : Rank(i) = n]]
  BY DEF Keep
<1> HIDE DEF kept, Rank
<1> QED
  BY <1>1, <1>3, <1>5, <1>6

-----------------------------------------------------------------------------
(* Pages.                                                                  *)

LEMMA Multiples ==
  ASSUME NEW p \in Nat \ {0}
  PROVE  /\ PageSize \in Nat \ {0}
         /\ (p - 1) * PageSize \in Nat /\ p * PageSize \in Nat
         /\ p * PageSize = (p - 1) * PageSize + PageSize
         /\ p + 1 - 1 = p
<1>1. PageSize \in Nat \ {0}
  BY BoundAssumption
<1>2. p \in Int /\ p - 1 \in Nat /\ PageSize \in Int
  BY <1>1
<1>3. (p - 1) * PageSize = p * PageSize - PageSize
  BY <1>2, SMT
<1>4. (p - 1) * PageSize \in Nat /\ p * PageSize \in Nat
  BY <1>1, <1>2, SMT
<1> QED
  BY <1>1, <1>2, <1>3, <1>4

LEMMA MinOfTwo ==
  ASSUME NEW i \in Nat, NEW k \in Nat
  PROVE  Min({i, k}) = IF i <= k THEN i ELSE k
BY DEF Min

LEMMA PrefixIs ==
  ASSUME NEW S, NEW s \in Seq(S), NEW t \in Seq(S)
  PROVE  IsPrefix(s, t) <=> Len(s) <= Len(t) /\ s = SubSeq(t, 1, Len(s))
BY SubSeqFull DEF IsPrefix

LEMMA ListingType ==
  ASSUME TypeOK, NEW f
  PROVE  Listing(f) \in Seq(Auctions)
BY KeepKeeps DEF TypeOK, Listing

LEMMA FirstPart ==
  ASSUME NEW S, NEW s \in Seq(S), NEW k \in 0..Len(s)
  PROVE  SubSeq(s, 1, k) \in Seq(S) /\ Len(SubSeq(s, 1, k)) = k
<1>1. /\ Len(s) \in Nat /\ 1 \in Int /\ k \in Int
      /\ \A i \in 1..k : s[i] \in S
  BY LenProperties, ElementOfSeq
<1>2. /\ SubSeq(s, 1, k) \in Seq(S)
      /\ Len(SubSeq(s, 1, k)) = IF 1 <= k THEN k - 1 + 1 ELSE 0
  BY <1>1, SubSeqProperties
<1> QED
  BY <1>1, <1>2

LEMMA PrefixElements ==
  ASSUME NEW S, NEW s \in Seq(S), NEW t \in Seq(S),
         Len(s) <= Len(t), s = SubSeq(t, 1, Len(s))
  PROVE  \A n \in 1..Len(s) : s[n] = t[n]
<1>1. /\ Len(s) \in Nat /\ Len(t) \in Nat /\ 1 \in Int /\ Len(s) \in Int
      /\ \A i \in 1..Len(s) : t[i] \in S
  BY LenProperties, ElementOfSeq
<1>2. \A n \in 1 .. Len(s) - 1 + 1 : SubSeq(t, 1, Len(s))[n] = t[1 + n - 1]
  BY <1>1, SubSeqProperties
<1> QED
  BY <1>1, <1>2

(* The rows of a page, as far as the listing goes.                         *)
LEMMA PageRows ==
  ASSUME NEW L \in Seq(Auctions), NEW p \in Nat \ {0}
  PROVE  /\ Page(L, p) \in Seq(Auctions)
         /\ (p - 1) * PageSize <= Len(L) =>
              /\ Len(Page(L, p)) =
                   (IF p * PageSize <= Len(L) THEN p * PageSize ELSE Len(L))
                   - (p - 1) * PageSize
              /\ SubSeq(L, 1, (p - 1) * PageSize) \o Page(L, p) =
                   SubSeq(L, 1, (p - 1) * PageSize + Len(Page(L, p)))
<1> DEFINE start == (p - 1) * PageSize
           end   == IF p * PageSize <= Len(L) THEN p * PageSize ELSE Len(L)
<1>1. Len(L) \in Nat /\ \A i \in 1..Len(L) : L[i] \in Auctions
  BY ElementOfSeq, LenProperties
<1>2. start \in Nat /\ end \in Nat /\ end <= Len(L)
      /\ (start <= Len(L) => start <= end)
  BY <1>1, Multiples
<1>3. Page(L, p) = SubSeq(L, start + 1, end)
  BY <1>1, Multiples, MinOfTwo DEF Page
<1> HIDE DEF start, end
<1>4. \A i \in start + 1 .. end : L[i] \in Auctions
  BY <1>1, <1>2
<1>5. /\ SubSeq(L, start + 1, end) \in Seq(Auctions)
      /\ Len(SubSeq(L, start + 1, end)) =
           IF start + 1 <= end THEN end - (start + 1) + 1 ELSE 0
  <2>1. start + 1 \in Int /\ end \in Int
    BY <1>2
  <2> QED
    BY <1>4, <2>1, SubSeqProperties
<1>6. ASSUME start <= Len(L)
      PROVE  /\ Len(Page(L, p)) = end - start
             /\ SubSeq(L, 1, start) \o Page(L, p) =
                  SubSeq(L, 1, start + Len(Page(L, p)))
  <2>1. start <= end
    BY <1>2, <1>6
  <2>2. Len(Page(L, p)) = end - start
    BY <1>2, <1>3, <1>5, <2>1
  <2>3. start + Len(Page(L, p)) = end
    BY <1>2, <2>2
  <2>4. /\ 1 \in 1 .. Len(L) + 1 /\ start \in 1 - 1 .. Len(L)
        /\ end \in start .. Len(L)
    BY <1>1, <1>2, <1>6, <2>1
  <2>5. SubSeq(L, 1, start) \o SubSeq(L, start + 1, end) = SubSeq(L, 1, end)
    BY <2>4, ConcatAdjacentSubSeq
  <2> QED
    BY <1>3, <2>2, <2>3, <2>5
<1> QED
  BY <1>3, <1>5, <1>6 DEF start, end

-----------------------------------------------------------------------------
(* The invariant.                                                          *)

LEMMA InitHolds == Init => IInv
<1> SUFFICES ASSUME Init
             PROVE  IInv
  OBVIOUS
<1>1. TypeOK
  <2>1. <<>> \in Seq(Auctions) /\ NoFilter \in Filters
    BY ShowsAssumption
  <2>2. req \in [Requests -> {Idle} \cup Sent \cup Answered]
    BY DEF Init
  <2>3. page \in Nat \ {0}
    BY DEF Init
  <2>4. /\ hasMore \in BOOLEAN /\ isLoading \in BOOLEAN
        /\ fetchingMore \in BOOLEAN /\ error \in BOOLEAN /\ steady \in BOOLEAN
    BY Zenon DEF Init
  <2> QED
    BY <2>1, <2>2, <2>3, <2>4 DEF Init, TypeOK
<1>2. ClosedIsGone /\ Spinning
  BY EmptySeq DEF Init, ClosedIsGone, Spinning
<1>5. ListedOnce
  BY DEF Init, ListedOnce, IsInjective
<1>3. Busy = {}
  BY DEF Init, Busy
<1>4. Continues
  <2>1. Listing(filter) \in Seq(Auctions) /\ feed \in Seq(Auctions)
    BY <1>1, ListingType DEF TypeOK
  <2>2. Len(feed) = 0 /\ Len(Listing(filter)) \in Nat /\ feed = <<>>
    BY <2>1, EmptySeq DEF Init
  <2>3. feed = SubSeq(Listing(filter), 1, Len(feed))
    BY <2>2, SubSeqEmpty
  <2>4. IsPrefix(feed, Listing(filter))
    <3>1. Len(feed) <= Len(Listing(filter))
      BY <2>2
    <3> QED
      BY <2>1, <2>3, <3>1, PrefixIs, Zenon
  <2>5. (page - 1) * PageSize = 0
    BY BoundAssumption DEF Init
  <2> QED
    BY <2>2, <2>4, <2>5 DEF Init, Continues
<1> QED
  BY <1>1, <1>2, <1>3, <1>4, <1>5 DEF IInv, Steady

(* Every step leaves the variables their types.                            *)
LEMMA StepTypes == TypeOK /\ [Next]_vars => TypeOK'
<1> SUFFICES ASSUME TypeOK, [Next]_vars
             PROVE  TypeOK'
  OBVIOUS
<1> DEFINE Kinds == {Idle} \cup Sent \cup Answered
<1> USE DEF server, client
<1>1. ASSUME NEW a \in Auctions, Publish(a)
      PROVE  TypeOK'
  <2>1. <<a>> \in Seq(Auctions)
    OBVIOUS
  <2>2. <<a>> \o listed \in Seq(Auctions)
    BY <2>1, ConcatProperties DEF TypeOK
  <2> QED
    BY <1>1, <2>2 DEF Publish, TypeOK
<1>2. ASSUME NEW a \in Auctions, NEW own \in BOOLEAN, Close(a, own)
      PROVE  TypeOK'
  <2>1. Keep(listed, Auctions \ {a}) \in Seq(Auctions)
    BY KeepKeeps DEF TypeOK
  <2> QED
    BY <1>2, <2>1 DEF Close, TypeOK
<1>3. ASSUME NEW a \in Auctions, ApplyDelete(a)
      PROVE  TypeOK'
  <2>1. Keep(feed, Auctions \ {a}) \in Seq(Auctions)
    BY KeepKeeps DEF TypeOK
  <2> QED
    BY <1>3, <2>1 DEF ApplyDelete, TypeOK
<1>4. ASSUME NEW r \in Requests, NEW refresh \in BOOLEAN, Send(r, refresh),
             page' \in Nat \ {0}, hasMore' \in BOOLEAN, isLoading' \in BOOLEAN,
             fetchingMore' \in BOOLEAN, filter' \in Filters
      PROVE  TypeOK'
  <2>1. [step |-> "sent", refresh |-> refresh, page |-> page',
         filter |-> filter'] \in Sent
    BY <1>4 DEF Sent
  <2>2. req' \in [Requests -> Kinds]
    BY <1>4, <2>1 DEF Send, TypeOK
  <2>3. error' \in BOOLEAN /\ steady' \in BOOLEAN
    BY <1>4 DEF Send, TypeOK
  <2> QED
    BY <1>4, <2>2, <2>3 DEF Send, TypeOK
<1>5. ASSUME NEW r \in Requests, StartOver(r), filter' \in Filters
      PROVE  TypeOK'
  <2>1. page' \in Nat \ {0}
    BY <1>5 DEF StartOver
  <2>2. /\ hasMore' \in BOOLEAN /\ isLoading' \in BOOLEAN
        /\ fetchingMore' \in BOOLEAN /\ Send(r, TRUE)
    BY <1>5, Zenon DEF StartOver, TypeOK
  <2> QED
    BY <1>4, <1>5, <2>1, <2>2
<1>6. ASSUME NEW r \in Requests, More(r)
      PROVE  TypeOK'
  <2>1. /\ page' \in Nat \ {0} /\ hasMore' \in BOOLEAN /\ isLoading' \in BOOLEAN
        /\ fetchingMore' \in BOOLEAN /\ filter' \in Filters /\ Send(r, FALSE)
    BY <1>6 DEF More, TypeOK
  <2> QED
    BY <1>4, <2>1
<1>7. ASSUME NEW r \in Requests, GetAllActive(r)
      PROVE  TypeOK'
  <2>1. req[r] \in Sent
    BY <1>7 DEF GetAllActive, TypeOK, Idle, Answered
  <2>2. Page(Listing(req[r].filter), req[r].page) \in Seq(Auctions)
    BY <2>1, ListingType, PageRows DEF Sent
  <2>3. [step |-> "answered", refresh |-> req[r].refresh,
         rows |-> Page(Listing(req[r].filter), req[r].page)] \in Answered
    BY <2>1, <2>2 DEF Sent, Answered
  <2>4. req' \in [Requests -> Kinds]
    BY <1>7, <2>3 DEF GetAllActive, TypeOK
  <2> QED
    BY <1>7, <2>4 DEF GetAllActive, TypeOK
<1>8. ASSUME NEW r \in Requests, End(r), feed' \in Seq(Auctions),
             page' \in Nat \ {0}, hasMore' \in BOOLEAN, error' \in BOOLEAN
      PROVE  TypeOK'
  <2>1. req' \in [Requests -> Kinds]
    BY <1>8 DEF End, TypeOK
  <2> QED
    BY <1>8, <2>1 DEF End, TypeOK
<1>9. ASSUME NEW r \in Requests, Apply(r)
      PROVE  TypeOK'
  <2>1. req[r] \in Answered
    BY <1>9 DEF Apply, TypeOK, Idle, Sent
  <2>2. req[r].rows \in Seq(Auctions) /\ feed \o req[r].rows \in Seq(Auctions)
    BY <2>1, ConcatProperties DEF Answered, TypeOK
  <2>3. /\ feed' \in Seq(Auctions) /\ page' \in Nat \ {0}
        /\ hasMore' \in BOOLEAN /\ error' \in BOOLEAN
    BY <1>9, <2>2 DEF Apply, TypeOK
  <2> QED
    BY <1>8, <1>9, <2>3 DEF Apply
<1>10. ASSUME NEW r \in Requests, Fail(r)
       PROVE  TypeOK'
  <2>1. /\ feed' \in Seq(Auctions) /\ page' \in Nat \ {0}
        /\ hasMore' \in BOOLEAN /\ error' \in BOOLEAN /\ End(r)
    BY <1>10 DEF Fail, TypeOK
  <2> QED
    BY <1>8, <2>1
<1>11. CASE UNCHANGED vars
  BY <1>11 DEF vars, TypeOK
<1> QED
  BY <1>1, <1>2, <1>3, <1>5, <1>6, <1>7, <1>9, <1>10, <1>11
  DEF Next, Refresh, SetFilter, TypeOK

LEMMA BusySend ==
  ASSUME TypeOK, NEW r \in Requests, NEW refresh, Send(r, refresh)
  PROVE  r \in Busy' /\ Busy' = Busy \cup {r}
<1>1. /\ req' = [req EXCEPT ![r] = [step |-> "sent", refresh |-> refresh,
                                   page |-> page', filter |-> filter']]
      /\ DOMAIN req = Requests
  BY DEF Send, TypeOK
<1>2. req'[r] # Idle /\ \A q \in Requests : q # r => req'[q] = req[q]
  BY <1>1 DEF Idle
<1> QED
  BY <1>2 DEF Busy

LEMMA BusyEnd ==
  ASSUME TypeOK, NEW r \in Requests, End(r)
  PROVE  Busy' = Busy \ {r}
<1>1. req'[r] = Idle /\ \A q \in Requests : q # r => req'[q] = req[q]
  BY DEF End, TypeOK
<1> QED
  BY <1>1 DEF Busy

(* An auction that is closed is in no listing.                             *)
LEMMA ListingIsOpen ==
  ASSUME TypeOK, ClosedIsGone, NEW f
  PROVE  \A n \in 1..Len(Listing(f)) : Listing(f)[n] \notin closed
BY KeepKeeps DEF TypeOK, ClosedIsGone, Listing

LEMMA StepGone == TypeOK /\ ClosedIsGone /\ [Next]_vars => ClosedIsGone'
<1> SUFFICES ASSUME TypeOK, ClosedIsGone, [Next]_vars
             PROVE  ClosedIsGone'
  OBVIOUS
<1> USE DEF server, client
<1>1. ASSUME NEW a \in Auctions, Publish(a)
      PROVE  ClosedIsGone'
  <2>1. <<a>> \in Seq(Auctions) /\ Len(<<a>>) = 1 /\ <<a>>[1] = a
    OBVIOUS
  <2>2. listed' = <<a>> \o listed /\ listed \in Seq(Auctions) /\ Len(listed) \in Nat
    BY <1>1, LenProperties DEF Publish, TypeOK
  <2>3. /\ Len(listed') = 1 + Len(listed)
        /\ \A i \in 1 .. 1 + Len(listed) :
             listed'[i] = IF i <= 1 THEN a ELSE listed[i - 1]
    BY <2>1, <2>2, ConcatProperties
  <2>4. \A i \in 1..Len(listed') : listed'[i] = a \/
                                   \E k \in 1..Len(listed) : listed'[i] = listed[k]
    <3> SUFFICES ASSUME NEW i \in 1..Len(listed'), i # 1
                 PROVE  \E k \in 1..Len(listed) : listed'[i] = listed[k]
      BY <2>2, <2>3
    <3>1. i - 1 \in 1..Len(listed) /\ listed'[i] = listed[i - 1]
      BY <2>2, <2>3
    <3> QED
      BY <3>1
  <2> QED
    BY <1>1, <2>4 DEF Publish, ClosedIsGone
<1>2. ASSUME NEW a \in Auctions, NEW own \in BOOLEAN, Close(a, own)
      PROVE  ClosedIsGone'
  <2>1. /\ listed' = Keep(listed, Auctions \ {a}) /\ listed \in Seq(Auctions)
        /\ closed' = closed \cup {a} /\ deleted' \subseteq deleted \cup {a}
    BY <1>2 DEF Close, TypeOK
  <2>2. \A n \in 1..Len(listed') :
          \E i \in 1..Len(listed) : /\ listed'[n] = listed[i]
                                   /\ listed[i] \in Auctions \ {a}
    BY <2>1, KeepKeeps
  <2> QED
    BY <2>1, <2>2 DEF ClosedIsGone
<1>3. ASSUME NEW a \in Auctions, ApplyDelete(a)
      PROVE  ClosedIsGone'
  BY <1>3 DEF ApplyDelete, ClosedIsGone
<1>4. ASSUME NEW r \in Requests,
             \/ Refresh(r) \/ More(r) \/ \E f \in Filters : SetFilter(r, f)
             \/ GetAllActive(r) \/ Apply(r) \/ Fail(r)
      PROVE  UNCHANGED server
  BY <1>4 DEF Refresh, More, SetFilter, StartOver, Send, GetAllActive, Apply,
              Fail, End
<1>5. UNCHANGED server => ClosedIsGone'
  BY DEF ClosedIsGone
<1> QED
  BY <1>1, <1>2, <1>3, <1>4, <1>5 DEF Next, vars

LEMMA StepOnce == TypeOK /\ ListedOnce /\ [Next]_vars => ListedOnce'
<1> SUFFICES ASSUME TypeOK, ListedOnce, [Next]_vars
             PROVE  ListedOnce'
  OBVIOUS
<1> USE DEF server, client
<1>1. ASSUME NEW a \in Auctions, Publish(a)
      PROVE  ListedOnce'
  <2>1. <<a>> \in Seq(Auctions) /\ Len(<<a>>) = 1 /\ <<a>>[1] = a
    OBVIOUS
  <2>2. /\ listed' = <<a>> \o listed /\ listed \in Seq(Auctions)
        /\ Len(listed) \in Nat /\ DOMAIN listed = 1..Len(listed)
        /\ \A i \in 1..Len(listed) : listed[i] # a
    BY <1>1, LenProperties DEF Publish, Contains, TypeOK
  <2>3. /\ listed' \in Seq(Auctions) /\ Len(listed') = 1 + Len(listed)
        /\ \A i \in 1 .. 1 + Len(listed) :
             listed'[i] = IF i <= 1 THEN a ELSE listed[i - 1]
    BY <2>1, <2>2, ConcatProperties
  <2>4. DOMAIN listed' = 1 .. 1 + Len(listed)
    BY <2>3, LenProperties
  <2>5. \A i \in 1 .. 1 + Len(listed) :
          i = 1 \/ (i - 1 \in 1..Len(listed) /\ listed'[i] = listed[i - 1])
    BY <2>2, <2>3
  <2>6. \A i, k \in 1..Len(listed) : listed[i] = listed[k] => i = k
    BY <2>2 DEF ListedOnce, IsInjective
  <2>7. ASSUME NEW i \in 1 .. 1 + Len(listed), NEW k \in 1 .. 1 + Len(listed),
               listed'[i] = listed'[k]
        PROVE  i = k
    <3>1. listed'[1] = a
      BY <2>2, <2>3
    <3>2. CASE i = 1
      BY <2>2, <2>5, <2>7, <3>1, <3>2
    <3>3. CASE k = 1
      BY <2>2, <2>5, <2>7, <3>1, <3>3
    <3>4. CASE i # 1 /\ k # 1
      <4>1. i - 1 = k - 1
        BY <2>5, <2>6, <2>7, <3>4
      <4> QED
        BY <2>2, <4>1
    <3> QED
      BY <3>2, <3>3, <3>4
  <2> QED
    BY <2>4, <2>7 DEF ListedOnce, IsInjective
<1>2. ASSUME NEW a \in Auctions, NEW own \in BOOLEAN, Close(a, own)
      PROVE  ListedOnce'
  BY <1>2, KeepKeeps DEF Close, ListedOnce, TypeOK
<1>3. UNCHANGED listed => ListedOnce'
  BY DEF ListedOnce
<1>4. ASSUME NEW a \in Auctions, ApplyDelete(a)
      PROVE  UNCHANGED listed
  BY <1>4 DEF ApplyDelete
<1>5. ASSUME NEW r \in Requests,
             \/ Refresh(r) \/ More(r) \/ \E f \in Filters : SetFilter(r, f)
             \/ GetAllActive(r) \/ Apply(r) \/ Fail(r)
      PROVE  UNCHANGED listed
  BY <1>5 DEF Refresh, More, SetFilter, StartOver, Send, GetAllActive, Apply,
              Fail, End
<1> QED
  BY <1>1, <1>2, <1>3, <1>4, <1>5 DEF Next, vars

LEMMA StepSpins == TypeOK /\ Spinning /\ [Next]_vars => Spinning'
<1> SUFFICES ASSUME TypeOK, Spinning, [Next]_vars
             PROVE  Spinning'
  OBVIOUS
<1> USE DEF server, client
<1>1. ASSUME UNCHANGED <<isLoading, fetchingMore, req>>
      PROVE  Spinning'
  BY <1>1 DEF Spinning, Busy
<1>2. ASSUME NEW a \in Auctions,
             \/ Publish(a) \/ \E own \in BOOLEAN : Close(a, own)
             \/ ApplyDelete(a)
      PROVE  UNCHANGED <<isLoading, fetchingMore, req>>
  BY <1>2 DEF Publish, Close, ApplyDelete
<1>3. ASSUME NEW r \in Requests, NEW refresh, Send(r, refresh)
      PROVE  Spinning'
  BY <1>3, BusySend DEF Spinning
<1>4. ASSUME NEW r \in Requests, End(r)
      PROVE  Spinning'
  BY <1>4 DEF End, Spinning
<1>5. ASSUME NEW r \in Requests, GetAllActive(r)
      PROVE  Spinning'
  <2>1. /\ req' = [req EXCEPT ![r] =
                     [step |-> "answered", refresh |-> req[r].refresh,
                      rows |-> Page(Listing(req[r].filter), req[r].page)]]
        /\ DOMAIN req = Requests
    BY <1>5 DEF GetAllActive, TypeOK
  <2>2. req'[r] # Idle
    BY <2>1 DEF Idle
  <2> QED
    BY <2>2 DEF Spinning, Busy
<1> QED
  BY <1>1, <1>2, <1>3, <1>4, <1>5
  DEF Next, vars, Refresh, SetFilter, StartOver, More, Apply, Fail

-----------------------------------------------------------------------------
(* The undisturbed request.                                                *)

LEMMA ContinuesStays ==
  ASSUME Continues, UNCHANGED <<listed, feed, page, hasMore, filter>>
  PROVE  Continues'
BY DEF Continues, Listing

(* Where the next page starts: the list is the listing up to there.        *)
LEMMA NextPageFollows ==
  ASSUME TypeOK, Continues, hasMore
  PROVE  /\ (page - 1) * PageSize <= Len(Listing(filter))
         /\ feed = SubSeq(Listing(filter), 1, (page - 1) * PageSize)
<1>1. Listing(filter) \in Seq(Auctions) /\ feed \in Seq(Auctions)
  BY ListingType DEF TypeOK
<1>2. IsPrefix(feed, Listing(filter)) /\ Len(feed) = (page - 1) * PageSize
  BY DEF Continues
<1>3. Len(feed) <= Len(Listing(filter))
      /\ feed = SubSeq(Listing(filter), 1, Len(feed))
  BY <1>1, <1>2, PrefixIs, Zenon
<1> QED
  BY <1>2, <1>3

(* The answer of an undisturbed request makes the list what it should be.  *)
LEMMA AnswerContinues ==
  ASSUME TypeOK, NEW r \in Requests, Undisturbed(r), Apply(r)
  PROVE  Continues'
<1> DEFINE L     == Listing(filter)
           start == (page - 1) * PageSize
           base  == IF req[r].refresh THEN <<>> ELSE feed
           rows  == Page(L, page)
<1>1. /\ req[r].rows = rows /\ hasMore
      /\ IF req[r].refresh THEN page = 1 ELSE Continues
  BY DEF Undisturbed, Apply
<1>2. L \in Seq(Auctions) /\ page \in Nat \ {0} /\ Len(L) \in Nat
      /\ feed \in Seq(Auctions)
  BY ListingType, LenProperties DEF TypeOK
<1>3. L' = L
  BY DEF Apply, End, server, Listing
<1>4. start <= Len(L) /\ base = SubSeq(L, 1, start)
  <2>1. CASE req[r].refresh
    <3>1. start = 0
      BY <1>1, <2>1, BoundAssumption
    <3>2. SubSeq(L, 1, start) = <<>>
      BY <3>1, SubSeqEmpty
    <3> QED
      BY <1>2, <2>1, <3>1, <3>2
  <2>2. CASE ~req[r].refresh
    BY <1>1, <2>2, NextPageFollows
  <2> QED
    BY <2>1, <2>2
<1>5. /\ rows \in Seq(Auctions)
      /\ Len(rows) = (IF page * PageSize <= Len(L) THEN page * PageSize
                      ELSE Len(L)) - start
      /\ base \o rows = SubSeq(L, 1, start + Len(rows))
  BY <1>2, <1>4, PageRows
<1>6. /\ feed' = base \o rows
      /\ hasMore' = (hasMore /\ ~(Len(rows) < PageSize))
      /\ page' = IF Len(rows) < PageSize THEN page ELSE page + 1
      /\ filter' = filter
  <2>1. feed' = IF req[r].refresh THEN rows ELSE feed \o rows
    BY <1>1 DEF Apply
  <2>2. <<>> \o rows = rows
    BY <1>5, ConcatEmptySeq
  <2>3. feed' = base \o rows
    BY <2>1, <2>2
  <2> QED
    BY <1>1, <2>3 DEF Apply, End
<1>7. /\ start \in Nat /\ PageSize \in Nat \ {0} /\ page * PageSize \in Nat
      /\ page * PageSize = start + PageSize /\ page + 1 - 1 = page
  BY <1>2, Multiples
<1>8. feed' = SubSeq(L, 1, start + Len(rows))
  BY <1>5, <1>6
<1> HIDE DEF L, start, base, rows
<1>9. Len(rows) \in Nat /\ start + Len(rows) <= Len(L)
  BY <1>2, <1>4, <1>5, <1>7
<1>10. /\ feed' \in Seq(Auctions) /\ Len(feed') = start + Len(rows)
       /\ Len(feed') <= Len(L) /\ feed' = SubSeq(L, 1, Len(feed'))
  <2>1. start + Len(rows) \in 0..Len(L)
    BY <1>2, <1>7, <1>9
  <2>2. /\ SubSeq(L, 1, start + Len(rows)) \in Seq(Auctions)
        /\ Len(SubSeq(L, 1, start + Len(rows))) = start + Len(rows)
    BY <1>2, <2>1, FirstPart
  <2> QED
    BY <1>8, <1>9, <2>2
<1>11. IsPrefix(feed', L)
  BY <1>2, <1>10, PrefixIs, Zenon
<1>12. IF hasMore' THEN Len(feed') = (page' - 1) * PageSize
       ELSE Len(feed') = Len(L)
  <2>1. CASE Len(rows) < PageSize
    <3>1. start + Len(rows) = Len(L)
      BY <1>2, <1>5, <1>7, <2>1
    <3> QED
      BY <1>6, <1>10, <2>1, <3>1
  <2>2. CASE ~(Len(rows) < PageSize)
    <3>1. start + Len(rows) = page * PageSize
      BY <1>2, <1>5, <1>7, <1>9, <2>2
    <3>2. page' = page + 1
      BY <1>6, <2>2
    <3>3. page' - 1 = page
      BY <1>2, <3>2
    <3> QED
      BY <1>1, <1>6, <1>10, <2>2, <3>1, <3>3
  <2> QED
    BY <2>1, <2>2
<1>13. Listing(filter)' = L
  BY <1>3 DEF L
<1> QED
  BY <1>11, <1>12, <1>13 DEF Continues

LEMMA StepSteady == IInv /\ [Next]_vars => (steady => Steady)'
<1> SUFFICES ASSUME IInv, [Next]_vars, steady'
             PROVE  Steady'
  BY DEF IInv
<1> USE DEF server, client
<1>0. TypeOK /\ ClosedIsGone /\ Spinning /\ (steady => Steady)
  BY DEF IInv
(* The request is sent: nothing else is under way.                         *)
<1>1. ASSUME NEW r \in Requests, NEW refresh \in BOOLEAN, Send(r, refresh), hasMore',
             IF refresh THEN page' = 1 ELSE Continues'
      PROVE  Steady'
  <2>1. Busy' = {r}
    BY <1>0, <1>1, BusySend DEF Send
  <2>2. req'[r] = [step |-> "sent", refresh |-> refresh,
                   page |-> page', filter |-> filter']
    BY <1>0, <1>1 DEF Send, TypeOK
  <2>3. ~error'
    BY <1>1 DEF Send
  <2>4. Undisturbed(r)'
    BY <1>1, <2>2, <2>3 DEF Undisturbed
  <2> QED
    BY <2>1, <2>4 DEF Steady
<1>2. ASSUME NEW r \in Requests, StartOver(r)
      PROVE  Steady'
  BY <1>1, <1>2 DEF StartOver
<1>3. ASSUME NEW r \in Requests, More(r)
      PROVE  Steady'
  <2>1. /\ Send(r, FALSE) /\ Visible /\ hasMore
        /\ UNCHANGED <<listed, feed, page, hasMore, filter>>
    BY <1>3 DEF More, Send
  <2>2. steady /\ Busy = {}
    BY <2>1 DEF Send
  <2>3. Continues
    BY <1>0, <2>1, <2>2 DEF Visible, Spinning, Steady
  <2>4. Continues'
    BY <2>1, <2>3, ContinuesStays
  <2> QED
    BY <1>1, <2>1, <2>4
(* It is answered, from the listing as it is.                              *)
<1>4. ASSUME NEW r \in Requests, GetAllActive(r)
      PROVE  Steady'
  <2>0. req[r].step = "sent" /\ r \in Busy
    <3>1. req[r].step = "sent"
      BY <1>4 DEF GetAllActive
    <3>2. req[r] # Idle
      BY <3>1 DEF Idle
    <3> QED
      BY <3>1, <3>2 DEF Busy
  <2>1. /\ req[r].step = "sent" /\ r \in Busy
        /\ req' = [req EXCEPT ![r] =
                     [step |-> "answered", refresh |-> req[r].refresh,
                      rows |-> Page(Listing(req[r].filter), req[r].page)]]
        /\ UNCHANGED <<server, client, steady>>
    BY <1>4, <2>0 DEF GetAllActive
  <2>2. steady /\ Steady /\ Undisturbed(r)
    BY <1>0, <2>1 DEF Steady
  <2>3. req'[r] = [step |-> "answered", refresh |-> req[r].refresh,
                   rows |-> Page(Listing(filter), page)]
    BY <1>0, <2>1, <2>2 DEF TypeOK, Undisturbed
  <2>4. Busy' = {r}
    <3>1. \A q \in Requests : q # r => req'[q] = req[q] /\ req[q] = Idle
      BY <1>0, <2>1, <2>2 DEF TypeOK, Steady, Busy
    <3>2. req'[r] # Idle
      BY <2>3 DEF Idle
    <3> QED
      BY <3>1, <3>2 DEF Busy
  <2>5. Page(Listing(filter), page)' = Page(Listing(filter), page)
    BY <2>1 DEF Page, Listing
  <2>6. IF req[r].refresh THEN page' = 1 ELSE Continues'
    BY <2>1, <2>2, ContinuesStays DEF Undisturbed
  <2>7. Undisturbed(r)'
    BY <2>1, <2>2, <2>3, <2>5, <2>6 DEF Undisturbed
  <2> QED
    BY <2>4, <2>7 DEF Steady
(* It ends: nothing is under way.                                          *)
<1>5. ASSUME NEW r \in Requests, Apply(r)
      PROVE  Steady'
  <2>1. r \in Busy /\ End(r)
    BY <1>5 DEF Apply, Busy, Idle
  <2>2. steady
    BY <2>1 DEF End
  <2>3. Undisturbed(r) /\ Busy' = {}
    BY <1>0, <2>1, <2>2, BusyEnd DEF Steady
  <2>4. Continues'
    BY <1>0, <1>5, <2>3, AnswerContinues
  <2> QED
    BY <2>3, <2>4 DEF Steady
<1>6. ASSUME NEW r \in Requests, Fail(r)
      PROVE  Steady'
  <2>1. r \in Busy /\ End(r) /\ error'
    BY <1>6 DEF Fail, Busy
  <2>2. steady
    BY <2>1 DEF End
  <2>3. Busy' = {}
    BY <1>0, <2>1, <2>2, BusyEnd DEF Steady
  <2> QED
    BY <2>1, <2>3 DEF Steady
(* What was deleted is in no listing, and so in no list that follows it.   *)
<1>7. ASSUME NEW a \in Auctions, ApplyDelete(a)
      PROVE  Steady'
  <2>1. /\ a \in closed /\ feed' = Keep(feed, Auctions \ {a})
        /\ UNCHANGED <<listed, closed, page, hasMore, isLoading, fetchingMore,
                      error, filter, req, steady>>
    BY <1>0, <1>7 DEF ApplyDelete, ClosedIsGone
  <2>2. Continues => Continues'
    <3> SUFFICES ASSUME Continues
                 PROVE  Continues'
      OBVIOUS
    <3>1. Listing(filter) \in Seq(Auctions) /\ feed \in Seq(Auctions)
      BY <1>0, ListingType DEF TypeOK
    <3>2. Len(feed) <= Len(Listing(filter))
          /\ feed = SubSeq(Listing(filter), 1, Len(feed))
      BY <3>1, PrefixIs, Zenon DEF Continues
    <3>3. \A n \in 1..Len(feed) : feed[n] # a
      <4>1. \A n \in 1..Len(feed) : n \in 1..Len(Listing(filter))
        BY <3>1, <3>2, LenProperties
      <4>2. \A n \in 1..Len(feed) : feed[n] = Listing(filter)[n]
        BY <3>1, <3>2, PrefixElements
      <4> QED
        BY <1>0, <2>1, <4>1, <4>2, ListingIsOpen
    <3>4. \A n \in 1..Len(feed) : feed[n] \in Auctions \ {a}
      BY <3>1, <3>3, ElementOfSeq
    <3>5. feed' = feed
      BY <2>1, <3>1, <3>4, KeepAll
    <3> QED
      BY <2>1, <3>5, ContinuesStays
  <2>3. Busy' = Busy
    BY <2>1 DEF Busy
  <2>4. Steady
    BY <1>0, <2>1
  <2>5. ASSUME NEW r \in Busy
        PROVE  Undisturbed(r)'
    <3>1. Undisturbed(r)
      BY <2>4
      DEF Steady
    <3>2. Page(Listing(filter), page)' = Page(Listing(filter), page)
      BY <2>1 DEF Page, Listing
    <3> QED
      BY <2>1, <2>2, <3>1, <3>2 DEF Undisturbed
  <2> QED
    BY <2>1, <2>2, <2>3, <2>4, <2>5 DEF Steady
<1>8. CASE UNCHANGED vars
  <2>1. /\ UNCHANGED <<listed, feed, page, hasMore, filter, error, req, steady>>
        /\ Steady /\ Busy' = Busy
    BY <1>0, <1>8 DEF vars, Busy
  <2>2. Page(Listing(filter), page)' = Page(Listing(filter), page)
    BY <2>1 DEF Page, Listing
  <2>3. Continues => Continues'
    BY <2>1, ContinuesStays
  <2>4. ASSUME NEW r \in Busy
        PROVE  Undisturbed(r)'
    BY <2>1, <2>2, <2>3 DEF Undisturbed, Steady
  <2> QED
    BY <2>1, <2>3, <2>4 DEF Steady
<1>9. ASSUME NEW a \in Auctions,
             Publish(a) \/ \E own \in BOOLEAN : Close(a, own)
      PROVE  FALSE
  BY <1>9 DEF Publish, Close
<1> QED
  BY <1>2, <1>3, <1>4, <1>5, <1>6, <1>7, <1>8, <1>9 DEF Next, Refresh, SetFilter

-----------------------------------------------------------------------------
THEOREM Invariance == Spec => []IInv
<1>1. IInv /\ [Next]_vars => IInv'
  BY StepTypes, StepGone, StepOnce, StepSpins, StepSteady DEF IInv
<1> QED
  BY InitHolds, <1>1, PTL DEF Spec

(* The variables of the list and of its requests keep their types.         *)
THEOREM FeedTypes == Spec => []TypeOK
<1>1. IInv => TypeOK
  BY DEF IInv
<1> QED
  BY Invariance, <1>1, PTL

(* Whatever was loaded, filtered, lost or overlapped before: once the      *)
(* requests of fetchActiveAuctions run one at a time on a listing at rest, *)
(* the list is the listing from its newest auction on, without gaps, and   *)
(* hasMore tells whether a next page continues it.                         *)
THEOREM ListFollowsListing == Spec => []FeedIsListing
<1>1. IInv => FeedIsListing
  BY DEF IInv, Steady, Continues, FeedIsListing
<1> QED
  BY Invariance, <1>1, PTL

NoRowTwice == steady /\ Busy = {} /\ ~error => IsInjective(feed)

(* Nor does the list have a row twice then: no auction is listed twice, a  *)
(* filter keeps it so, and the list is a first part of what is listed.     *)
THEOREM RowsAreDistinct == Spec => []NoRowTwice
<1>1. IInv => NoRowTwice
  <2> SUFFICES ASSUME IInv, steady, Busy = {}, ~error
               PROVE  IsInjective(feed)
    BY DEF NoRowTwice
  <2> DEFINE L == Listing(filter)
  <2>1. TypeOK /\ ListedOnce /\ Continues
    BY DEF IInv, Steady
  <2>2. L \in Seq(Auctions) /\ feed \in Seq(Auctions) /\ listed \in Seq(Auctions)
    BY <2>1, ListingType DEF TypeOK
  <2>3. IsInjective(L)
    BY <2>1, <2>2, KeepKeeps DEF Listing, ListedOnce
  <2>4. IsPrefix(feed, L)
    BY <2>1 DEF Continues
  <2> HIDE DEF L
  <2>5. Len(feed) <= Len(L) /\ feed = SubSeq(L, 1, Len(feed))
    BY <2>2, <2>4, PrefixIs, Zenon
  <2>6. \A n \in 1..Len(feed) : feed[n] = L[n]
    BY <2>2, <2>5, PrefixElements
  <2>7. /\ DOMAIN feed = 1..Len(feed) /\ DOMAIN L = 1..Len(L)
        /\ Len(feed) \in Nat /\ Len(L) \in Nat
    BY <2>2, LenProperties
  <2>8. \A n \in 1..Len(feed) : n \in DOMAIN L
    BY <2>5, <2>7
  <2> QED
    BY <2>3, <2>6, <2>7, <2>8 DEF IsInjective
<1> QED
  BY Invariance, <1>1, PTL
=============================================================================
