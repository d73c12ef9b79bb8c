------------------------------ MODULE Listings ------------------------------
(***************************************************************************)
(* The paged listings.  A client walks one endpoint page by page while     *)
(* others insert, remove and restore rows: it asks for page 1, 2, ... with *)
(* the same limit until the page is the last one of the answer's           *)
(* pagination data.  Each endpoint is a handler, a service and a query,    *)
(* and each of the three may replace the limit: the rows are cut by one,   *)
(* the number of pages is computed from another.                           *)
(*                                                                         *)
(* Searching, filtering and the requested sort order are left out: the     *)
(* default order is newest first, and among the addresses of a customer    *)
(* the primary one first.  A row is known by its number in the order of    *)
(* creation.                                                               *)
(***************************************************************************)
EXTENDS Integers, FiniteSets

CONSTANTS
  DefaultLimit,  \* 10
  AdminLimit,    \* 20
  ReviewMax,     \* 50
  HandlerMax,    \* 100
  Limits,        \* limits a client asks for
  MaxRows        \* bound on the rows ever created

ASSUME ListingsAssumption ==
  /\ {DefaultLimit, AdminLimit, ReviewMax, HandlerMax, MaxRows} \subseteq Nat \ {0}
  /\ DefaultLimit <= ReviewMax /\ ReviewMax <= HandlerMax /\ AdminLimit <= HandlerMax
  /\ Limits \subseteq Int

VARIABLES
  endpoint, limit,  \* what the client walks; chosen at the start
  rows,             \* number -> the row's deleted_at, is_active and is_primary
  walk,             \* the client: its next page, the pages it was told of, the rows it got
  stable,           \* history: rows that were visible all along the walk
  changed           \* history: did a row leave, or appear, or move, during the walk

vars == <<endpoint, limit, rows, walk, stable, changed>>

-----------------------------------------------------------------------------
(* Limits.                                                                 *)

AtLeastOne(l, default) == IF l < 1 THEN default ELSE l
Within(l, most, default) == IF l < 1 \/ l > most THEN default ELSE l

\* The services: the limit of the query.
BrandListPublic(l) == l
BrandListAdmin(l) == AtLeastOne(l, DefaultLimit)
CategoryListPublic(l) == l
CategoryListAdmin(l) == AtLeastOne(l, DefaultLimit)
ProductListPublic(l) == l
ProductListAdmin(l) == AtLeastOne(l, DefaultLimit)
OrderList(l) == l
OrderListAdmin(l) == l
GetByProductSlug(l) == Within(l, ReviewMax, DefaultLimit)
GetByUserID(l) == Within(l, ReviewMax, DefaultLimit)
ListCustomers(l) == AtLeastOne(l, DefaultLimit)
ListCustomerAddresses(l) == AtLeastOne(l, DefaultLimit)
ListCustomerOrders(l) == AtLeastOne(l, DefaultLimit)
AddressListAdmin(l) == AtLeastOne(l, AdminLimit)

Answer(query, told) == [query |-> query, told |-> told]

\* Mutant: the pagination data tells the limit that was asked for.
AllOrdersRaw(l) == Answer(OrderListAdmin(Within(l, HandlerMax, AdminLimit)), l)

\* The handlers: what they pass on, and the limit the pages are counted by.
PublicBrands(l) == Answer(BrandListPublic(l), l)
AllBrands(l) == LET passed == AtLeastOne(l, DefaultLimit)
                IN Answer(BrandListAdmin(passed), passed)
PublicCategories(l) == Answer(CategoryListPublic(l), l)
AllCategories(l) == LET passed == AtLeastOne(l, DefaultLimit)
                    IN Answer(CategoryListAdmin(passed), passed)
PublicProducts(l) == Answer(ProductListPublic(l), l)
AllProducts(l) == Answer(ProductListAdmin(l), l)
MyOrders(l) == Answer(OrderList(l), l)
AllOrders(l) == LET passed == Within(l, HandlerMax, AdminLimit)
                IN Answer(OrderListAdmin(passed), passed)
ReviewsByProduct(l) == Answer(GetByProductSlug(l), l)
ReviewsByUser(l) == LET passed == Within(l, HandlerMax, DefaultLimit)
                    IN Answer(GetByUserID(passed), passed)
AllCustomers(l) == Answer(ListCustomers(l), l)
AllAddresses(l) == Answer(AddressListAdmin(l), l)

\* The service of these two computes the pagination data as well.
AddressesOfCustomer(l) == Answer(ListCustomerAddresses(l), ListCustomerAddresses(l))
OrdersOfCustomer(l) == Answer(ListCustomerOrders(l), ListCustomerOrders(l))

Reply(l) ==
  [publicBrands |-> PublicBrands(l), allBrands |-> AllBrands(l),
   publicCategories |-> PublicCategories(l), allCategories |-> AllCategories(l),
   publicProducts |-> PublicProducts(l), allProducts |-> AllProducts(l),
   myOrders |-> MyOrders(l), allOrders |-> AllOrders(l),
   reviewsByProduct |-> ReviewsByProduct(l), reviewsByUser |-> ReviewsByUser(l),
   allCustomers |-> AllCustomers(l), addressesOfCustomer |-> AddressesOfCustomer(l),
   ordersOfCustomer |-> OrdersOfCustomer(l), allAddresses |-> AllAddresses(l)]

Endpoints == DOMAIN Reply(DefaultLimit)

-----------------------------------------------------------------------------
(* Queries: the rows they show, and where the total comes from: a window   *)
(* count in every row of the page, or a statement of its own.              *)

Query(shows, total) == [shows |-> shows, total |-> total]

ListBrandsPublic == Query("active", "window")
ListBrandsAdmin == Query("live", "window")
ListCategoriesPublic == Query("active", "window")
ListCategoriesAdmin == Query("live", "window")
ListProductsPublic == Query("active", "window")
ListProductsAdmin == Query("live", "window")
ListOrders == Query("all", "window")
ListOrdersAdmin == Query("live", "window")
GetReviewsByProductID == Query("live", "count")
GetReviewsByUserID == Query("live", "count")
ListCustomersQuery == Query("all", "window")
ListAddressesByUser == Query("live", "window")
ListAddressesAdmin == Query("live", "window")

QueryOf ==
  [publicBrands |-> ListBrandsPublic, allBrands |-> ListBrandsAdmin,
   publicCategories |-> ListCategoriesPublic, allCategories |-> ListCategoriesAdmin,
   publicProducts |-> ListProductsPublic, allProducts |-> ListProductsAdmin,
   myOrders |-> ListOrders, allOrders |-> ListOrdersAdmin,
   reviewsByProduct |-> GetReviewsByProductID, reviewsByUser |-> GetReviewsByUserID,
   allCustomers |-> ListCustomersQuery, addressesOfCustomer |-> ListAddressesByUser,
   ordersOfCustomer |-> ListOrders, allAddresses |-> ListAddressesAdmin]

Visible(table) ==
  {i \in DOMAIN table :
     CASE QueryOf[endpoint].shows = "all" -> TRUE
       [] QueryOf[endpoint].shows = "live" -> table[i].live
       [] QueryOf[endpoint].shows = "active" -> table[i].live /\ table[i].active}

\* ORDER BY is_primary DESC, created_at DESC; only addresses are ever primary.
Before(j, i) ==
  IF rows[i].primary = rows[j].primary THEN j > i ELSE rows[j].primary

Ahead(i) == Cardinality({j \in Visible(rows) : Before(j, i)})

\* Mutant: the offset is one row short.
PageOverlapping(page, l) ==
  {i \in Visible(rows) : (page - 1) * l - 1 <= Ahead(i) /\ Ahead(i) < page * l}

\* LIMIT l OFFSET (page - 1) * l
Page(page, l) ==
  {i \in Visible(rows) : (page - 1) * l <= Ahead(i) /\ Ahead(i) < page * l}

\* Mutant: one page too many.
NewPaginationMetaMore(total, l) == IF l > 0 THEN total \div l + 1 ELSE 0

NewPaginationMeta(total, l) == IF l > 0 THEN (total + l - 1) \div l ELSE 0

-----------------------------------------------------------------------------
(* The walk.                                                               *)

NewRow == [live |-> TRUE, active |-> TRUE, primary |-> FALSE]

Init ==
  /\ endpoint \in Endpoints /\ limit \in Limits
  /\ \E n \in 0..MaxRows : rows = [i \in 1..n |-> NewRow]
  /\ walk = [at |-> "asks", page |-> 1, pages |-> 0, seen |-> {}, again |-> FALSE]
  /\ stable = DOMAIN rows
  /\ changed = [left |-> FALSE, came |-> FALSE]

\* The client turns the page, or stops at the last one.
Turn(w, total) ==
  LET pages == NewPaginationMeta(total, Reply(limit)[endpoint].told)
  IN [w EXCEPT !.at = IF w.page < pages THEN "asks" ELSE "done",
               !.page = IF w.page < pages THEN @ + 1 ELSE @,
               !.pages = pages]

\* A page without rows has no window count: its total is 0.
Get ==
  LET query == Reply(limit)[endpoint].query
      got == Page(walk.page, query)
      w == [walk EXCEPT !.seen = @ \cup got, !.again = @ \/ got \cap walk.seen # {}]
  IN /\ walk.at = "asks" /\ query >= 0
     /\ walk' = IF QueryOf[endpoint].total = "count"
                THEN [w EXCEPT !.at = "counts"]
                ELSE Turn(w, IF got = {} THEN 0 ELSE Cardinality(Visible(rows)))
     /\ UNCHANGED <<endpoint, limit, rows, stable, changed>>

\* The reviews are counted after they were read, outside of a transaction.
Count ==
  /\ walk.at = "counts"
  /\ walk' = Turn(walk, Cardinality(Visible(rows)))
  /\ UNCHANGED <<endpoint, limit, rows, stable, changed>>

\* PostgreSQL refuses a negative limit.
Refused ==
  /\ walk.at = "asks" /\ Reply(limit)[endpoint].query < 0
  /\ walk' = [walk EXCEPT !.at = "failed"]
  /\ UNCHANGED <<endpoint, limit, rows, stable, changed>>

-----------------------------------------------------------------------------
(* What others do to the table meanwhile.                                  *)

Deletable == {"publicBrands", "allBrands", "publicCategories", "allCategories",
              "publicProducts", "allProducts", "reviewsByProduct", "reviewsByUser",
              "addressesOfCustomer", "allAddresses"}
Restorable == {"publicBrands", "allBrands", "publicCategories", "allCategories",
               "publicProducts", "allProducts"}

Change(table) ==
  /\ walk.at \in {"asks", "counts"}
  /\ rows' = table
  /\ stable' = stable \cap Visible(table)
  /\ changed' = [left |-> changed.left \/ ~(Visible(rows) \subseteq Visible(table)),
                 came |-> changed.came \/ ~(Visible(table) \subseteq Visible(rows))]
  /\ UNCHANGED <<endpoint, limit, walk>>

Insert ==
  LET n == Cardinality(DOMAIN rows)
  IN /\ n < MaxRows
     /\ Change([i \in 1..n + 1 |-> IF i \in DOMAIN rows THEN rows[i] ELSE NewRow])

Delete(i) ==
  /\ endpoint \in Deletable /\ rows[i].live
  /\ Change([rows EXCEPT ![i].live = FALSE])

Restore(i) ==
  /\ endpoint \in Restorable /\ ~rows[i].live
  /\ Change([rows EXCEPT ![i].live = TRUE])

\* An update of a product; brands and categories write back what they read.
SetActive(i) ==
  /\ endpoint \in {"publicProducts", "allProducts"} /\ rows[i].live
  /\ Change([rows EXCEPT ![i].active = ~@])

\* An update of an address marks it, and the others lose the mark in the same
\* transaction, or takes its mark away.  An address inserted as the primary one
\* is an Insert with this step behind it.
SetPrimary(i) ==
  /\ endpoint = "addressesOfCustomer" /\ rows[i].live
  /\ walk.at = "asks"
  /\ rows' = [j \in DOMAIN rows |->
               [rows[j] EXCEPT !.primary = IF j = i THEN ~@ ELSE @ /\ (rows[i].primary \/ ~rows[j].live)]]
  /\ changed' = [left |-> TRUE, came |-> TRUE]
  /\ UNCHANGED <<endpoint, limit, walk, stable>>

Next ==
  \/ Get \/ Count \/ Refused
  \/ Insert
  \/ \E i \in DOMAIN rows : Delete(i) \/ Restore(i) \/ SetActive(i) \/ SetPrimary(i)

Spec == Init /\ [][Next]_vars

-----------------------------------------------------------------------------
(* Safety.                                                                 *)

\* The walk has its type, and is never told of more pages than rows were created.
TypeOK ==
  /\ endpoint \in Endpoints /\ limit \in Limits
  /\ rows \in UNION {[1..n -> [live : BOOLEAN, active : BOOLEAN, primary : BOOLEAN]] : n \in 0..MaxRows}
  /\ walk \in [at : {"asks", "counts", "done", "failed"}, page : 1..MaxRows,
               pages : 0..Cardinality(DOMAIN rows), seen : SUBSET DOMAIN rows, again : BOOLEAN]
  /\ stable \subseteq DOMAIN rows
  /\ changed \in [left : BOOLEAN, came : BOOLEAN]

\* The limits at which handler and service agree: any, where one of them
\* replaces the limit for both; up to the service's own maximum, for the
\* reviews; from 1, where a limit below is replaced by the service only, or
\* by nobody.
Agreed ==
  CASE endpoint \in {"allBrands", "allCategories", "allOrders",
                     "addressesOfCustomer", "ordersOfCustomer"} -> Limits
    [] endpoint = "reviewsByProduct" -> Limits \cap 1..ReviewMax
    [] endpoint = "reviewsByUser" -> {l \in Limits : l <= ReviewMax \/ l > HandlerMax}
    [] OTHER -> {l \in Limits : l >= 1}

\* A client that walks to the last page has seen every row that was visible
\* all along, unless in between a row left (the rows behind it moved up to a
\* page the client had turned) or an address became primary.  It takes the limit of the rows and that of
\* the pages to be the same one, and rounding up, on every endpoint.
StableRowsAreSeen ==
  walk.at = "done" /\ limit \in Agreed /\ ~changed.left => stable \subseteq walk.seen

\* A row comes twice only if during the walk another appeared before it, or an
\* address became primary.
SeenTwiceNeedsAnArrival == walk.again => changed.came

(* Why they hold: the inductive invariant.                                 *)

\* The row is on one of the pages that were read.
Turned(i) ==
  LET page == IF walk.at = "asks" THEN walk.page - 1 ELSE walk.page
  IN Ahead(i) < page * Reply(limit)[endpoint].query

\* What the client has seen is what was on those pages: none of the rows that stayed is
\* missing while nothing leaves, and no other one is there while nothing arrives.
SeenIsWhatWasTurned ==
  walk.at \in {"asks", "counts"} =>
    /\ limit \in Agreed /\ ~changed.left => \A i \in stable : Turned(i) => i \in walk.seen
    /\ ~changed.came => \A i \in walk.seen \cap Visible(rows) : Turned(i)

IInv ==
  /\ TypeOK
  /\ stable \subseteq Visible(rows)
  /\ SeenIsWhatWasTurned
  /\ StableRowsAreSeen
  /\ SeenTwiceNeedsAnArrival
=============================================================================
