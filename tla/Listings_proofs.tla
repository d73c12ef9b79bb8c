-------------------------- MODULE Listings_proofs --------------------------
(***************************************************************************)
(* What a walk over a paged listing shows, for any limits, any number of   *)
(* rows and any changes between its pages.                                 *)
(***************************************************************************)
EXTENDS Listings, FiniteSetTheorems, TLAPS

-----------------------------------------------------------------------------
(* Limits and pages.                                                       *)

RowType == [live : BOOLEAN, active : BOOLEAN, primary : BOOLEAN]
Tables == UNION {[1..n -> RowType] : n \in 0..MaxRows}

EndpointNames ==
  {"publicBrands", "allBrands", "publicCategories", "allCategories", "publicProducts",
   "allProducts", "myOrders", "allOrders", "reviewsByProduct", "reviewsByUser",
   "allCustomers", "addressesOfCustomer", "ordersOfCustomer", "allAddresses"}

LEMMA Names == Endpoints = EndpointNames
  BY DEF Endpoints, Reply, EndpointNames

\* Handler and service agree where Agreed says so.
LEMMA Replies ==
  ASSUME NEW l \in Limits, NEW e \in EndpointNames
  PROVE  /\ Reply(l)[e].query \in Int
         /\ Reply(l)[e].told \in Int
  BY ListingsAssumption
  DEF EndpointNames, Reply, Answer, AtLeastOne, Within, PublicBrands, AllBrands,
      PublicCategories, AllCategories, PublicProducts, AllProducts, MyOrders, AllOrders,
      ReviewsByProduct, ReviewsByUser, AllCustomers, AllAddresses, AddressesOfCustomer,
      OrdersOfCustomer, BrandListPublic, BrandListAdmin, CategoryListPublic,
      CategoryListAdmin, ProductListPublic, ProductListAdmin, OrderList, OrderListAdmin,
      GetByProductSlug, GetByUserID, ListCustomers, ListCustomerAddresses,
      ListCustomerOrders, AddressListAdmin

LEMMA AgreedReplies ==
  ASSUME endpoint \in EndpointNames, limit \in Limits, limit \in Agreed
  PROVE  /\ Reply(limit)[endpoint].query = Reply(limit)[endpoint].told
         /\ Reply(limit)[endpoint].query >= 1
<1>1. CASE endpoint \in {"allBrands", "allCategories", "allOrders", "addressesOfCustomer",
                         "ordersOfCustomer"}
  BY <1>1, ListingsAssumption
  DEF Reply, Answer, AtLeastOne, Within, AllBrands, AllCategories, AllOrders,
      AddressesOfCustomer, OrdersOfCustomer, BrandListAdmin, CategoryListAdmin,
      OrderListAdmin, ListCustomerAddresses, ListCustomerOrders
<1>2. CASE endpoint \in {"reviewsByProduct", "reviewsByUser"}
  BY <1>2, ListingsAssumption
  DEF Agreed, Reply, Answer, Within, ReviewsByProduct, ReviewsByUser, GetByProductSlug,
      GetByUserID
<1>3. CASE endpoint \in {"publicBrands", "publicCategories", "publicProducts",
                         "allProducts", "myOrders", "allCustomers", "allAddresses"}
  <2>1. limit >= 1
    BY <1>3 DEF Agreed
  <2>2. QED
    BY <1>3, <2>1, ListingsAssumption
    DEF Reply, Answer, AtLeastOne, PublicBrands, PublicCategories, PublicProducts,
        AllProducts, MyOrders, AllCustomers, AllAddresses, BrandListPublic,
        CategoryListPublic, ProductListPublic, ProductListAdmin, OrderList, ListCustomers,
        AddressListAdmin
<1>4. QED
  BY <1>1, <1>2, <1>3 DEF EndpointNames

\* Rounding up: the pages hold all rows, and there are no more pages than rows.
LEMMA PagesHoldTheRows ==
  ASSUME NEW total \in Nat, NEW l \in Int
  PROVE  /\ NewPaginationMeta(total, l) \in 0..total
         /\ l >= 1 => total <= NewPaginationMeta(total, l) * l
<1>1. CASE l >= 1
  <2>1. (total + l - 1) \div l \in Nat /\ (total + l - 1) \div l <= total
    BY <1>1
  <2>2. total <= ((total + l - 1) \div l) * l
    BY <1>1
  <2>3. QED
    BY <1>1, <2>1, <2>2 DEF NewPaginationMeta
<1>2. CASE l < 1
  BY <1>2 DEF NewPaginationMeta
<1>3. QED
  BY <1>1, <1>2

-----------------------------------------------------------------------------
(* The order of the rows.                                                  *)

LEMMA TablesUnfolded ==
  ASSUME NEW table \in Tables
  PROVE  \E n \in 0..MaxRows : /\ DOMAIN table = 1..n
                               /\ Cardinality(DOMAIN table) = n
                               /\ table \in [1..n -> RowType]
<1>1. PICK n \in 0..MaxRows : table \in [1..n -> RowType]
  BY DEF Tables
<1>2. Cardinality(1..n) = n
  BY FS_Interval
<1>3. QED
  BY <1>1, <1>2

LEMMA VisibleIsFinite ==
  ASSUME rows \in Tables
  PROVE  /\ IsFiniteSet(Visible(rows))
         /\ Cardinality(Visible(rows)) \in 0..Cardinality(DOMAIN rows)
<1>1. PICK n \in 0..MaxRows : DOMAIN rows = 1..n
  BY TablesUnfolded
<1>2. IsFiniteSet(DOMAIN rows)
  BY <1>1, FS_Interval
<1>3. Visible(rows) \in SUBSET DOMAIN rows
  BY DEF Visible
<1>4. QED
  BY <1>2, <1>3, FS_Subset, FS_CardinalityType

LEMMA OrderIsTotal ==
  ASSUME rows \in Tables, NEW i \in DOMAIN rows, NEW j \in DOMAIN rows, NEW k \in DOMAIN rows
  PROVE  /\ ~Before(i, i)
         /\ i # j => Before(i, j) \/ Before(j, i)
         /\ Before(i, j) /\ Before(j, k) => Before(i, k)
<1>1. PICK n \in 0..MaxRows : DOMAIN rows = 1..n /\ rows \in [1..n -> RowType]
  BY TablesUnfolded
<1>2. QED
  BY <1>1 DEF Before, RowType

\* The rows before i, which Ahead counts.
Those(i) == {j \in Visible(rows) : Before(j, i)}

LEMMA Counted ==
  ASSUME rows \in Tables, NEW i
  PROVE  /\ IsFiniteSet(Those(i))
         /\ Ahead(i) = Cardinality(Those(i))
         /\ Ahead(i) \in Nat
<1>1. Those(i) \in SUBSET Visible(rows)
  BY DEF Those
<1>2. IsFiniteSet(Those(i))
  BY <1>1, VisibleIsFinite, FS_Subset
<1>3. QED
  BY <1>2, FS_CardinalityType DEF Ahead, Those

LEMMA RankIsInRange ==
  ASSUME rows \in Tables, NEW i \in Visible(rows)
  PROVE  Ahead(i) < Cardinality(Visible(rows))
<1>1. i \in DOMAIN rows
  BY DEF Visible
<1>2. Those(i) \in SUBSET Visible(rows) /\ i \notin Those(i)
  BY <1>1, OrderIsTotal DEF Those
<1>3. QED
  BY <1>2, VisibleIsFinite, FS_Subset, Counted

LEMMA RanksDiffer ==
  ASSUME rows \in Tables, NEW i \in Visible(rows), NEW j \in Visible(rows), i # j
  PROVE  Ahead(i) # Ahead(j)
<1>1. Visible(rows) \subseteq DOMAIN rows
  BY DEF Visible
<1>2. ASSUME NEW x \in Visible(rows), NEW y \in Visible(rows), Before(x, y)
      PROVE  Ahead(x) < Ahead(y)
  <2>1. Those(x) \in SUBSET Those(y)
    BY <1>1, <1>2, OrderIsTotal DEF Those
  <2>2. x \in Those(y) /\ x \notin Those(x)
    BY <1>1, <1>2, OrderIsTotal DEF Those
  <2>3. QED
    BY <2>1, <2>2, FS_Subset, Counted
<1>3. QED
  BY <1>1, <1>2, OrderIsTotal, Counted

\* The ranks have no gap.
LEMMA RanksAreTaken ==
  ASSUME rows \in Tables, NEW k \in 0..Cardinality(Visible(rows)) - 1
  PROVE  \E i \in Visible(rows) : Ahead(i) = k
<1> DEFINE V == Visible(rows)
           N == 0..Cardinality(V) - 1
           rank == [i \in V |-> Ahead(i)]
<1>1. Cardinality(V) \in Nat
  BY VisibleIsFinite, TablesUnfolded
<1>2. IsFiniteSet(N) /\ Cardinality(N) = Cardinality(V)
  BY <1>1, FS_Interval
<1>3. rank \in [V -> N]
  BY <1>1, RankIsInRange, Counted
<1>4. rank \in Injection(V, N)
  <2>1. \A i, j \in V : i # j => rank[i] # rank[j]
    BY RanksDiffer
  <2>2. QED
    BY <1>3, <2>1 DEF Injection, IsInjective
<1>5. rank \in Surjection(V, N)
  BY <1>2, <1>4, FS_Injection
<1>6. QED
  BY <1>5 DEF Surjection

\* A page is empty only behind the last row.
LEMMA EmptyPages ==
  ASSUME rows \in Tables, NEW p \in Nat \ {0}, NEW l \in Nat \ {0}, Page(p, l) = {},
         NEW i \in Visible(rows)
  PROVE  Ahead(i) < (p - 1) * l
<1> DEFINE k == (p - 1) * l
<1>1. k \in Nat /\ k < p * l
  OBVIOUS
<1>2. Cardinality(Visible(rows)) \in Nat
  BY VisibleIsFinite, TablesUnfolded
<1>3. SUFFICES ASSUME k <= Ahead(i) PROVE FALSE
  BY <1>1, Counted
<1>4. k \in 0..Cardinality(Visible(rows)) - 1
  BY <1>1, <1>2, <1>3, RankIsInRange, Counted
<1>5. PICK j \in Visible(rows) : Ahead(j) = k
  BY <1>4, RanksAreTaken
<1>6. j \in Page(p, l)
  BY <1>1, <1>5 DEF Page
<1>7. QED
  BY <1>6

-----------------------------------------------------------------------------
(* Steps of the client.                                                    *)

WalkType == [at : {"asks", "counts", "done", "failed"}, page : 1..MaxRows,
             pages : 0..Cardinality(DOMAIN rows), seen : SUBSET DOMAIN rows, again : BOOLEAN]

LEMMA TypeUnfolded ==
  TypeOK <=> /\ endpoint \in EndpointNames /\ limit \in Limits
             /\ rows \in Tables
             /\ walk \in WalkType
             /\ stable \subseteq DOMAIN rows
             /\ changed \in [left : BOOLEAN, came : BOOLEAN]
  BY Names DEF TypeOK, Tables, RowType, WalkType

LEMMA Sizes ==
  ASSUME TypeOK
  PROVE  /\ Reply(limit)[endpoint].query \in Int
         /\ Reply(limit)[endpoint].told \in Int
         /\ Cardinality(Visible(rows)) \in 0..Cardinality(DOMAIN rows)
         /\ Cardinality(DOMAIN rows) \in 0..MaxRows
         /\ MaxRows \in Nat \ {0}
         /\ \A i : Ahead(i) \in Nat
  BY TypeUnfolded, Replies, VisibleIsFinite, TablesUnfolded, Counted, ListingsAssumption

\* What turning a page makes of a walk.
LEMMA TurnedWalk ==
  ASSUME TypeOK, NEW w \in WalkType, NEW total \in 0..Cardinality(DOMAIN rows)
  PROVE  LET pages == NewPaginationMeta(total, Reply(limit)[endpoint].told)
         IN  /\ Turn(w, total) \in WalkType
             /\ Turn(w, total).seen = w.seen /\ Turn(w, total).again = w.again
             /\ Turn(w, total).at = "asks" => Turn(w, total).page = w.page + 1
             /\ Turn(w, total).at # "asks" => /\ Turn(w, total).page = w.page
                                              /\ Turn(w, total).at = "done"
                                              /\ w.page >= pages
<1> DEFINE pages == NewPaginationMeta(total, Reply(limit)[endpoint].told)
<1>1. pages \in 0..total
  BY Sizes, PagesHoldTheRows
<1>2. pages \in 0..Cardinality(DOMAIN rows) /\ pages <= MaxRows
  BY <1>1, Sizes
<1>3. CASE w.page < pages
  <2>1. Turn(w, total) = [w EXCEPT !.at = "asks", !.page = w.page + 1, !.pages = pages]
    BY <1>3 DEF Turn, WalkType
  <2>2. w.page + 1 \in 1..MaxRows
    BY <1>2, <1>3, Sizes DEF WalkType
  <2>3. QED
    BY <1>2, <2>1, <2>2 DEF WalkType
<1>4. CASE ~(w.page < pages)
  <2>1. Turn(w, total) = [w EXCEPT !.at = "done", !.page = w.page, !.pages = pages]
    BY <1>4 DEF Turn, WalkType
  <2>2. w.page >= pages
    BY <1>2, <1>4, Sizes DEF WalkType
  <2>3. QED
    BY <1>2, <2>1, <2>2 DEF WalkType
<1>5. QED
  BY <1>3, <1>4

\* What the client has got after reading page p.
GotUpTo(p, seen) ==
  LET size == Reply(limit)[endpoint].query
  IN  /\ limit \in Agreed /\ ~changed.left =>
           \A i \in stable : Ahead(i) < p * size => i \in seen
      /\ ~changed.came => \A i \in seen \cap Visible(rows) : Ahead(i) < p * size

LEMMA Rewritten ==
  ASSUME TypeOK
  PROVE  SeenIsWhatWasTurned <=>
           /\ walk.at = "asks" => GotUpTo(walk.page - 1, walk.seen)
           /\ walk.at = "counts" => GotUpTo(walk.page, walk.seen)
  BY DEF SeenIsWhatWasTurned, GotUpTo, Turned

\* A page adds the rows whose turn it is, and none that was seen before.
LEMMA PageRead ==
  ASSUME IInv, walk.at = "asks", Reply(limit)[endpoint].query >= 0
  PROVE  LET got == Page(walk.page, Reply(limit)[endpoint].query)
         IN  /\ GotUpTo(walk.page, walk.seen \cup got)
             /\ ~changed.came => got \cap walk.seen = {}
             /\ got \subseteq DOMAIN rows
<1> DEFINE p == walk.page
           size == Reply(limit)[endpoint].query
           got == Page(p, size)
<1>1. GotUpTo(p - 1, walk.seen)
  BY Rewritten DEF IInv
<1>2. p \in Nat \ {0} /\ size \in Nat /\ \A i : Ahead(i) \in Nat
  BY Sizes, TypeUnfolded DEF IInv, WalkType
<1>3. (p - 1) * size \in Nat /\ p * size \in Nat /\ (p - 1) * size <= p * size
  BY <1>2
<1>4. \A i \in Visible(rows) : i \in got <=> (p - 1) * size <= Ahead(i) /\ Ahead(i) < p * size
  BY DEF Page
<1>5. got \subseteq Visible(rows) /\ Visible(rows) \subseteq DOMAIN rows
  BY DEF Page, Visible
<1>6. ASSUME limit \in Agreed, ~changed.left, NEW i \in stable, Ahead(i) < p * size
      PROVE  i \in walk.seen \cup got
  <2>1. i \in Visible(rows)
    BY <1>6 DEF IInv
  <2>2. CASE Ahead(i) < (p - 1) * size
    BY <1>1, <1>6, <2>2 DEF GotUpTo
  <2>3. CASE ~(Ahead(i) < (p - 1) * size)
    BY <1>2, <1>3, <1>4, <1>6, <2>1, <2>3
  <2>4. QED
    BY <2>2, <2>3
<1>7. ASSUME ~changed.came, NEW i \in (walk.seen \cup got) \cap Visible(rows)
      PROVE  Ahead(i) < p * size /\ (i \in got => i \notin walk.seen)
  <2>1. i \in walk.seen => Ahead(i) < (p - 1) * size
    BY <1>1, <1>7 DEF GotUpTo
  <2>2. QED
    BY <1>2, <1>3, <1>4, <1>7, <2>1
<1>8. QED
  BY <1>5, <1>6, <1>7 DEF GotUpTo

\* The last page that was read is the last one there is.
LEMMA NothingBehind ==
  ASSUME TypeOK, limit \in Agreed, stable \subseteq Visible(rows), ~changed.left,
         NEW p \in Nat \ {0}, NEW seen, GotUpTo(p, seen),
         NEW total, NEW pages,
         pages = NewPaginationMeta(total, Reply(limit)[endpoint].told), p >= pages,
         \/ total = Cardinality(Visible(rows))
         \/ Page(p, Reply(limit)[endpoint].query) = {}
  PROVE  stable \subseteq seen
<1> DEFINE size == Reply(limit)[endpoint].query
<1>1. size \in Nat \ {0} /\ size = Reply(limit)[endpoint].told /\ rows \in Tables
  BY Sizes, AgreedReplies, TypeUnfolded
<1>2. p * size \in Nat /\ (p - 1) * size <= p * size /\ \A i : Ahead(i) \in Nat
  BY <1>1, Sizes
<1>3. ASSUME NEW i \in stable PROVE Ahead(i) < p * size
  <2>1. CASE total = Cardinality(Visible(rows))
    <3>1. total \in Nat /\ Ahead(i) < total
      BY <1>1, <1>3, <2>1, Sizes, RankIsInRange
    <3>2. pages \in Nat /\ total <= pages * size
      <4>1. pages = NewPaginationMeta(total, size)
        BY <1>1
      <4> HIDE DEF size
      <4>2. NewPaginationMeta(total, size) \in 0..total
            /\ total <= NewPaginationMeta(total, size) * size
        BY <1>1, <3>1, PagesHoldTheRows
      <4>3. QED
        BY <3>1, <4>1, <4>2
    <3> HIDE DEF size
    <3>3. pages * size \in Nat /\ pages * size <= p * size
      BY <1>1, <3>2
    <3>4. QED
      BY <1>2, <3>1, <3>2, <3>3
  <2>2. CASE Page(p, size) = {}
    <3>1. Ahead(i) < (p - 1) * size
      BY <1>1, <1>3, <2>2, EmptyPages
    <3>2. (p - 1) * size \in Nat
      BY <1>1
    <3>3. QED
      BY <1>2, <3>1, <3>2
  <2>3. QED
    BY <2>1, <2>2
<1>4. QED
  BY <1>3 DEF GotUpTo

\* The client's steps leave the table alone.
LEMMA Unmoved ==
  ASSUME UNCHANGED <<endpoint, limit, rows, stable, changed>>
  PROVE  /\ WalkType' = WalkType
         /\ Visible(rows)' = Visible(rows)
         /\ Agreed' = Agreed
         /\ \A p, seen : GotUpTo(p, seen)' = GotUpTo(p, seen)
         /\ \A i : Ahead(i)' = Ahead(i)
         /\ TypeOK /\ walk' \in WalkType => TypeOK'
<1>1. WalkType' = WalkType /\ Visible(rows)' = Visible(rows) /\ Agreed' = Agreed
  BY DEF WalkType, Visible, Agreed
<1>2. \A i : Ahead(i)' = Ahead(i)
  BY <1>1 DEF Ahead, Before
<1>3. \A p, seen : GotUpTo(p, seen)' = GotUpTo(p, seen)
  BY <1>1, <1>2 DEF GotUpTo
<1>4. TypeOK /\ walk' \in WalkType => TypeOK'
  BY DEF TypeOK, WalkType
<1>5. QED
  BY <1>1, <1>2, <1>3, <1>4

\* The client turns the page with what it has got, w, in hand.
LEMMA TurnNext ==
  ASSUME IInv, NEW w \in WalkType, NEW total \in 0..Cardinality(DOMAIN rows),
         walk' = Turn(w, total), UNCHANGED <<endpoint, limit, rows, stable, changed>>,
         GotUpTo(w.page, w.seen), w.again => changed.came,
         \/ total = Cardinality(Visible(rows))
         \/ Page(w.page, Reply(limit)[endpoint].query) = {}
  PROVE  IInv'
<1> DEFINE pages == NewPaginationMeta(total, Reply(limit)[endpoint].told)
<1> TypeOK
  BY DEF IInv
<1>1. /\ walk' \in WalkType
      /\ walk'.seen = w.seen /\ walk'.again = w.again
      /\ walk'.at = "asks" => walk'.page = w.page + 1
      /\ walk'.at # "asks" => walk'.at = "done" /\ w.page >= pages
  BY TurnedWalk
<1>2. w.page \in Nat \ {0}
  BY DEF WalkType
<1>3. TypeOK' /\ (stable \subseteq Visible(rows))'
  BY <1>1, Unmoved DEF IInv
<1>4. walk'.at = "asks" => walk'.page - 1 = w.page
  BY <1>1, <1>2
<1>5. SeenIsWhatWasTurned'
  <2>1. walk'.at = "asks" => GotUpTo(walk'.page - 1, walk'.seen)
    BY <1>1, <1>4
  <2>2. QED
    BY <1>1, <2>1, Unmoved DEF SeenIsWhatWasTurned, GotUpTo, Turned
<1>6. StableRowsAreSeen'
  <2>1. SUFFICES ASSUME walk'.at = "done", limit \in Agreed, ~changed.left
                 PROVE  stable \subseteq w.seen
    BY <1>1, Unmoved DEF StableRowsAreSeen
  <2>2. QED
    BY <1>1, <1>2, <2>1, NothingBehind DEF IInv
<1>7. SeenTwiceNeedsAnArrival'
  BY <1>1 DEF SeenTwiceNeedsAnArrival
<1>8. QED
  BY <1>3, <1>5, <1>6, <1>7 DEF IInv

LEMMA GetNext ==
  ASSUME IInv, Get
  PROVE  IInv'
<1> DEFINE size == Reply(limit)[endpoint].query
           got == Page(walk.page, size)
           w == [walk EXCEPT !.seen = @ \cup got, !.again = @ \/ got \cap walk.seen # {}]
<1>1. TypeOK /\ walk \in WalkType /\ walk.at = "asks" /\ size >= 0
      /\ UNCHANGED <<endpoint, limit, rows, stable, changed>>
  BY TypeUnfolded DEF IInv, Get
<1>2. /\ GotUpTo(walk.page, walk.seen \cup got)
      /\ ~changed.came => got \cap walk.seen = {}
      /\ got \subseteq DOMAIN rows
  BY <1>1, PageRead
<1>3. /\ w \in WalkType /\ w.page = walk.page /\ w.seen = walk.seen \cup got
      /\ w.again => changed.came
  BY <1>1, <1>2 DEF WalkType, IInv, SeenTwiceNeedsAnArrival
<1>4. CASE QueryOf[endpoint].total = "count"
  <2>1. walk' = [w EXCEPT !.at = "counts"]
    BY <1>4 DEF Get
  <2>2. /\ walk' \in WalkType /\ walk'.at = "counts" /\ walk'.page = walk.page
        /\ walk'.seen = walk.seen \cup got /\ (walk'.again => changed.came)
    BY <1>3, <2>1 DEF WalkType
  <2>3. TypeOK' /\ (stable \subseteq Visible(rows))'
    BY <1>1, <2>2, Unmoved DEF IInv
  <2>4. SeenIsWhatWasTurned'
    BY <1>1, <1>2, <2>2, Unmoved DEF SeenIsWhatWasTurned, GotUpTo, Turned
  <2>5. QED
    BY <1>1, <2>2, <2>3, <2>4 DEF IInv, StableRowsAreSeen, SeenTwiceNeedsAnArrival
<1>5. CASE QueryOf[endpoint].total # "count"
  <2>1. PICK total : /\ walk' = Turn(w, total)
                     /\ \/ total = Cardinality(Visible(rows))
                        \/ total = 0 /\ got = {}
    BY <1>5 DEF Get
  <2>2. total \in 0..Cardinality(DOMAIN rows)
    BY <1>1, <2>1, Sizes
  <2>3. QED
    BY <1>1, <1>2, <1>3, <2>1, <2>2, TurnNext
<1>6. QED
  BY <1>4, <1>5

LEMMA CountNext ==
  ASSUME IInv, Count
  PROVE  IInv'
<1>1. TypeOK /\ walk \in WalkType /\ walk.at = "counts"
      /\ walk' = Turn(walk, Cardinality(Visible(rows)))
      /\ UNCHANGED <<endpoint, limit, rows, stable, changed>>
  BY TypeUnfolded DEF IInv, Count
<1>2. GotUpTo(walk.page, walk.seen) /\ (walk.again => changed.came)
  BY <1>1, Rewritten DEF IInv, SeenTwiceNeedsAnArrival
<1>3. Cardinality(Visible(rows)) \in 0..Cardinality(DOMAIN rows)
  BY <1>1, Sizes
<1>4. QED
  BY <1>1, <1>2, <1>3, TurnNext

LEMMA RefusedNext ==
  ASSUME IInv, Refused
  PROVE  IInv'
<1>1. TypeOK /\ walk \in WalkType /\ walk' = [walk EXCEPT !.at = "failed"]
      /\ UNCHANGED <<endpoint, limit, rows, stable, changed>>
  BY TypeUnfolded DEF IInv, Refused
<1>2. walk' \in WalkType /\ walk'.at = "failed" /\ walk'.again = walk.again
  BY <1>1 DEF WalkType
<1>3. TypeOK' /\ (stable \subseteq Visible(rows))'
  BY <1>1, <1>2, Unmoved DEF IInv
<1>4. QED
  BY <1>1, <1>2, <1>3
  DEF IInv, SeenIsWhatWasTurned, StableRowsAreSeen, SeenTwiceNeedsAnArrival


-----------------------------------------------------------------------------
(* Steps of the others.                                                    *)

\* Rows that stay in the list keep their order: what arrives moves them back, what leaves
\* moves them up.
LEMMA RanksMove ==
  ASSUME rows \in Tables, rows' \in Tables, endpoint' = endpoint,
         DOMAIN rows \subseteq DOMAIN rows',
         \A j \in DOMAIN rows : rows'[j].primary = rows[j].primary,
         NEW i \in Visible(rows), i \in Visible(rows)'
  PROVE  /\ Ahead(i)' \in Nat
         /\ Visible(rows) \subseteq Visible(rows)' => Ahead(i) <= Ahead(i)'
         /\ Visible(rows)' \subseteq Visible(rows) => Ahead(i)' <= Ahead(i)
<1> DEFINE Later == {j \in Visible(rows)' : Before(j, i)'}
<1>1. Visible(rows) \subseteq DOMAIN rows
  BY DEF Visible
<1>2. \A j \in Visible(rows) : Before(j, i)' <=> Before(j, i)
  BY <1>1 DEF Before
<1>3. /\ Visible(rows) \subseteq Visible(rows)' => Those(i) \subseteq Later
      /\ Visible(rows)' \subseteq Visible(rows) => Later \subseteq Those(i)
  BY <1>2 DEF Those
<1>4. IsFiniteSet(Those(i)) /\ Ahead(i) = Cardinality(Those(i)) /\ Ahead(i) \in Nat
  BY Counted
<1>5. IsFiniteSet(Later) /\ Ahead(i)' = Cardinality(Later) /\ Ahead(i)' \in Nat
  <2>1. IsFiniteSet(Visible(rows)')
    <3>1. PICK n \in 0..MaxRows : DOMAIN rows' = 1..n
      BY TablesUnfolded
    <3>2. Visible(rows)' \in SUBSET (1..n)
      BY <3>1 DEF Visible
    <3>3. QED
      BY <3>2, FS_Interval, FS_Subset
  <2>2. IsFiniteSet(Later)
    BY <2>1, FS_Subset
  <2>3. QED
    BY <2>2, FS_CardinalityType DEF Ahead
<1>6. QED
  BY <1>3, <1>4, <1>5, FS_Subset

\* What Change does, whatever the table.
Changed ==
  /\ walk.at \in {"asks", "counts"}
  /\ UNCHANGED <<endpoint, limit, walk>>
  /\ rows' \in Tables
  /\ DOMAIN rows \subseteq DOMAIN rows'
  /\ \A j \in DOMAIN rows : rows'[j].primary = rows[j].primary
  /\ stable' = stable \cap Visible(rows)'
  /\ changed' = [left |-> changed.left \/ ~(Visible(rows) \subseteq Visible(rows)'),
                 came |-> changed.came \/ ~(Visible(rows)' \subseteq Visible(rows))]

\* More rows, more pages that may have been told.
LEMMA TypeGrows ==
  ASSUME TypeOK, UNCHANGED <<endpoint, limit, walk>>, rows' \in Tables,
         DOMAIN rows \subseteq DOMAIN rows', stable' \subseteq DOMAIN rows',
         changed' \in [left : BOOLEAN, came : BOOLEAN]
  PROVE  TypeOK'
<1>1. PICK m \in 0..MaxRows : DOMAIN rows = 1..m /\ Cardinality(DOMAIN rows) = m
  BY TypeUnfolded, TablesUnfolded
<1>2. PICK n \in 0..MaxRows : DOMAIN rows' = 1..n /\ Cardinality(DOMAIN rows') = n
  BY TablesUnfolded
<1>3. m <= n
  BY <1>1, <1>2, ListingsAssumption
<1>4. walk \in WalkType'
  BY <1>1, <1>2, <1>3, TypeUnfolded DEF WalkType
<1>5. QED
  BY <1>4, TypeUnfolded DEF TypeOK, Tables, RowType, WalkType

LEMMA ChangedNext ==
  ASSUME IInv, Changed
  PROVE  IInv'
<1> DEFINE size == Reply(limit)[endpoint].query
           page == IF walk.at = "asks" THEN walk.page - 1 ELSE walk.page
<1>1. /\ TypeOK /\ rows \in Tables /\ endpoint' = endpoint /\ limit' = limit /\ walk' = walk
      /\ rows' \in Tables
  BY TypeUnfolded DEF IInv, Changed
<1>2. TypeOK'
  <2>1. stable' \subseteq DOMAIN rows'
    BY DEF Changed, Visible
  <2>2. changed' \in [left : BOOLEAN, came : BOOLEAN]
    BY DEF Changed
  <2>3. QED
    BY <1>1, <2>1, <2>2, TypeGrows DEF Changed
<1>3. (stable \subseteq Visible(rows))'
  BY DEF Changed
<1>4. page * size \in Int /\ \A i : Ahead(i) \in Nat
  BY <1>1, Sizes, TypeUnfolded DEF WalkType
<1>5. Agreed' = Agreed
  BY <1>1 DEF Agreed
<1>6. ASSUME limit \in Agreed, ~changed'.left, NEW i \in stable', Ahead(i)' < page * size
      PROVE  i \in walk.seen
  <2>1. ~changed.left /\ Visible(rows) \subseteq Visible(rows)'
    BY <1>6 DEF Changed
  <2>2. i \in stable /\ i \in Visible(rows) /\ i \in Visible(rows)'
    BY <1>6 DEF Changed, IInv
  <2>3. Ahead(i)' \in Nat /\ Ahead(i) <= Ahead(i)'
    BY <1>1, <2>1, <2>2, RanksMove DEF Changed
  <2>4. Ahead(i) < page * size
    BY <1>4, <1>6, <2>3
  <2>5. QED
    BY <1>6, <2>1, <2>2, <2>4 DEF IInv, SeenIsWhatWasTurned, Turned, Changed
<1>7. ASSUME ~changed'.came, NEW i \in walk.seen, i \in Visible(rows)'
      PROVE  Ahead(i)' < page * size
  <2>1. ~changed.came /\ Visible(rows)' \subseteq Visible(rows)
    BY <1>7 DEF Changed
  <2>2. i \in Visible(rows)
    BY <1>7, <2>1
  <2>3. Ahead(i)' \in Nat /\ Ahead(i)' <= Ahead(i)
    BY <1>1, <1>7, <2>1, <2>2, RanksMove DEF Changed
  <2>4. Ahead(i) < page * size
    BY <1>7, <2>1, <2>2 DEF IInv, SeenIsWhatWasTurned, Turned, Changed
  <2>5. QED
    BY <1>4, <2>3, <2>4
<1>8. SeenIsWhatWasTurned'
  BY <1>1, <1>5, <1>6, <1>7 DEF SeenIsWhatWasTurned, Turned
<1>9. StableRowsAreSeen' /\ SeenTwiceNeedsAnArrival'
  BY <1>1 DEF IInv, StableRowsAreSeen, SeenTwiceNeedsAnArrival, Changed
<1>10. QED
  BY <1>2, <1>3, <1>8, <1>9 DEF IInv

LEMMA InsertChanges ==
  ASSUME TypeOK, Insert
  PROVE  Changed
<1>1. PICK n \in 0..MaxRows : /\ DOMAIN rows = 1..n /\ Cardinality(DOMAIN rows) = n
                              /\ rows \in [1..n -> RowType]
  BY TypeUnfolded, TablesUnfolded
<1> DEFINE table == [i \in 1..n + 1 |-> IF i \in DOMAIN rows THEN rows[i] ELSE NewRow]
<1>2. n < MaxRows /\ Change(table)
  BY <1>1 DEF Insert
<1>3. table \in [1..n + 1 -> RowType]
  BY <1>1 DEF NewRow, RowType
<1>4. /\ table \in Tables /\ 1..n \subseteq DOMAIN table
      /\ \A j \in 1..n : table[j].primary = rows[j].primary
  BY <1>1, <1>2, <1>3, ListingsAssumption DEF Tables
<1> HIDE DEF table
<1>5. QED
  BY <1>1, <1>2, <1>4 DEF Change, Changed, Visible

\* An update of one row in place, but for its mark.
LEMMA UpdateChanges ==
  ASSUME TypeOK, NEW i \in DOMAIN rows, Delete(i) \/ Restore(i) \/ SetActive(i)
  PROVE  Changed
<1>1. PICK n \in 0..MaxRows : DOMAIN rows = 1..n /\ rows \in [1..n -> RowType]
  BY TypeUnfolded, TablesUnfolded
<1>2. PICK v \in RowType : v.primary = rows[i].primary /\ Change([rows EXCEPT ![i] = v])
  <2>1. rows[i] \in RowType
    BY <1>1
  <2>2. CASE Delete(i)
    <3>1. [rows[i] EXCEPT !.live = FALSE] \in RowType
      BY <2>1 DEF RowType
    <3>2. QED
      BY <2>1, <2>2, <3>1 DEF Delete, RowType
  <2>3. CASE Restore(i)
    <3>1. [rows[i] EXCEPT !.live = TRUE] \in RowType
      BY <2>1 DEF RowType
    <3>2. QED
      BY <2>1, <2>3, <3>1 DEF Restore, RowType
  <2>4. CASE SetActive(i)
    <3>1. [rows[i] EXCEPT !.active = ~rows[i].active] \in RowType
      BY <2>1 DEF RowType
    <3>2. QED
      BY <2>1, <2>4, <3>1 DEF SetActive, RowType
  <2>5. QED
    BY <2>2, <2>3, <2>4
<1> DEFINE table == [rows EXCEPT ![i] = v]
<1>3. /\ table \in [1..n -> RowType] /\ DOMAIN table = DOMAIN rows
      /\ \A j \in DOMAIN rows : table[j].primary = rows[j].primary
  BY <1>1, <1>2
<1>4. table \in Tables
  BY <1>3 DEF Tables
<1> HIDE DEF table
<1>5. Change(table)
  BY <1>2 DEF table
<1>6. QED
  BY <1>3, <1>4, <1>5 DEF Change, Changed, Visible

\* A mark that moves excuses everything, and shows the same rows.
LEMMA SetPrimaryNext ==
  ASSUME IInv, NEW i \in DOMAIN rows, SetPrimary(i)
  PROVE  IInv'
<1>1. PICK n \in 0..MaxRows : DOMAIN rows = 1..n /\ rows \in [1..n -> RowType]
  BY TypeUnfolded, TablesUnfolded DEF IInv
<1>2. /\ rows' \in [1..n -> RowType]
      /\ \A j \in 1..n : rows'[j].live = rows[j].live /\ rows'[j].active = rows[j].active
  BY <1>1 DEF SetPrimary, RowType
<1>3. rows' \in Tables /\ DOMAIN rows' = DOMAIN rows
  BY <1>1, <1>2 DEF Tables
<1>4. Visible(rows)' = Visible(rows)
  BY <1>1, <1>2, <1>3 DEF Visible, SetPrimary
<1>5. TypeOK'
  BY <1>3, TypeGrows, TypeUnfolded DEF IInv, SetPrimary
<1>6. QED
  BY <1>4, <1>5
  DEF IInv, SetPrimary, SeenIsWhatWasTurned, StableRowsAreSeen, SeenTwiceNeedsAnArrival

-----------------------------------------------------------------------------
(* Invariance.                                                             *)

LEMMA Initially == Init => IInv
<1> SUFFICES ASSUME Init PROVE IInv
  OBVIOUS
<1>1. PICK n \in 0..MaxRows : rows = [i \in 1..n |-> NewRow]
  BY DEF Init
<1>2. rows \in [1..n -> RowType] /\ rows \in Tables
  BY <1>1 DEF NewRow, RowType, Tables
<1>3. walk \in WalkType
  <2>1. Cardinality(DOMAIN rows) \in Nat
    BY <1>2, TablesUnfolded
  <2>2. QED
    BY <2>1, ListingsAssumption DEF Init, WalkType
<1>4. TypeOK
  BY <1>2, <1>3, TypeUnfolded, Names DEF Init
<1>5. stable \subseteq Visible(rows)
  <2>1. QueryOf[endpoint].shows \in {"all", "live", "active"}
    BY <1>4, TypeUnfolded
    DEF EndpointNames, QueryOf, Query, ListBrandsPublic, ListBrandsAdmin,
        ListCategoriesPublic, ListCategoriesAdmin, ListProductsPublic, ListProductsAdmin,
        ListOrders, ListOrdersAdmin, GetReviewsByProductID, GetReviewsByUserID,
        ListCustomersQuery, ListAddressesByUser, ListAddressesAdmin
  <2>2. QED
    BY <1>1, <1>2, <2>1 DEF Init, Visible, NewRow
<1>6. SeenIsWhatWasTurned
  <2>1. \A i : Ahead(i) \in Nat /\ Reply(limit)[endpoint].query \in Int
    BY <1>4, Sizes
  <2>2. walk.at = "asks" /\ walk.page - 1 = 0 /\ walk.seen = {}
    BY DEF Init
  <2>3. QED
    BY <2>1, <2>2 DEF SeenIsWhatWasTurned, Turned
<1>7. QED
  BY <1>4, <1>5, <1>6 DEF Init, IInv, StableRowsAreSeen, SeenTwiceNeedsAnArrival

LEMMA Inductive == IInv /\ [Next]_vars => IInv'
<1> SUFFICES ASSUME IInv, [Next]_vars PROVE IInv'
  OBVIOUS
<1>1. CASE Get \/ Count \/ Refused
  BY <1>1, GetNext, CountNext, RefusedNext
<1>2. CASE Insert
  BY <1>2, InsertChanges, ChangedNext DEF IInv
<1>3. ASSUME NEW i \in DOMAIN rows, Delete(i) \/ Restore(i) \/ SetActive(i) \/ SetPrimary(i)
      PROVE  IInv'
  BY <1>3, UpdateChanges, ChangedNext, SetPrimaryNext DEF IInv
<1>4. CASE UNCHANGED vars
  <2>1. UNCHANGED <<endpoint, limit, rows, stable, changed>> /\ walk' = walk
    BY <1>4 DEF vars
  <2>2. TypeOK'
    BY <2>1, Unmoved, TypeUnfolded DEF IInv
  <2>3. QED
    BY <2>1, <2>2, Unmoved
    DEF IInv, SeenIsWhatWasTurned, Turned, StableRowsAreSeen, SeenTwiceNeedsAnArrival
<1>5. QED
  BY <1>1, <1>2, <1>3, <1>4 DEF Next

LEMMA Invariance == Spec => []IInv
  BY Initially, Inductive, PTL DEF Spec

\* The walk keeps its type: whatever the limit, the client is told of no more pages than
\* there are rows.
THEOREM TypeCorrect == Spec => []TypeOK
<1>1. IInv => TypeOK
  BY DEF IInv
<1>2. QED
  BY <1>1, Invariance, PTL

\* At the limits that handler and service agree on, a walk to the last page misses no row
\* that stayed in the list, for any limits, maxima and number of rows.
THEOREM WalksMissNothing == Spec => []StableRowsAreSeen
<1>1. IInv => StableRowsAreSeen
  BY DEF IInv
<1>2. QED
  BY <1>1, Invariance, PTL

\* A row comes twice only when another arrived, or moved, during the walk.
THEOREM RepetitionsAreExplained == Spec => []SeenTwiceNeedsAnArrival
<1>1. IInv => SeenTwiceNeedsAnArrival
  BY DEF IInv
<1>2. QED
  BY <1>1, Invariance, PTL
=============================================================================
