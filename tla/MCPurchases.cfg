\* One order and its reviews: two order requests, two review requests, fair
\* order handlers.
CONSTANTS
  Orders = {o1}
  c1 = c1
  Customers = {c1}
  Owner <- MCOwner
  Requests = {r1, r2}
  NoOne = NoOne
  Snaps = {s1}
  MidtransActive = TRUE
  MaxEvents = 3
  Products = {p1}
  Items <- MCItems
  ReviewIds = {v1, v2}
  NoReview = NoReview
  Ratings = {1, 5}
  ReviewRequests = {q1, q2}
SPECIFICATION PurchasesSpec
INVARIANTS
  ReviewsAreOfBuyers
PROPERTIES
  RequestsEnd
CHECK_DEADLOCK FALSE
