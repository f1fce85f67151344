------------------------------- MODULE Consultas -------------------------------
(***************************************************************************)
(* The pages of a cliente that ask the server and show its answer (frontend *)
(* features/cliente): the catalog of the selected vendedor with its search *)
(* and its "add to cart", the list of orders, and the detail of one. A     *)
(* newer request, a new search text or another session makes an answer in  *)
(* flight stale: where the code compares a request counter, the model      *)
(* drops the request when the counter moves. One page is open at a time.   *)
(***************************************************************************)
EXTENDS Identity, Naturals

CONSTANTS
  Shops,     \* vendedores
  Texts,     \* what may be typed into the search field
  NoText,    \* the empty search text
  Pages,     \* pages of every answer of a catalog
  Orders,    \* orders a detail may be asked of
  MaxOrders, \* bound: orders a list may grow to
  Nothing    \* null

ASSUME ConsultasAssumption ==
  /\ NoText \in Texts
  /\ Pages \in Nat \ {0} /\ MaxOrders \in Nat
  /\ Nothing \notin Shops \cup Orders

VARIABLES
  chosen,  \* localStorage: the vendedor the user who is signed in selected
  browse,  \* the catalog page
  add,     \* its "add to cart"
  list,    \* the list of orders
  detail,  \* the detail of an order
  placed,  \* the server: orders placed so far
  heard    \* orders placed when completed$ last fired on the page (history)

consultasVars == <<idVars, chosen, browse, add, list, detail, placed, heard>>

(* query, page, totalPages (0: no pagination), loading, failed,             *)
(* redirectToHome; typing: an emission of the search field waits for its    *)
(* 300 ms; fetch: the request that is current; shown: its answer.           *)
EmptyBrowse == [query |-> NoText, page |-> 1, total |-> 0, loading |-> FALSE, failed |-> FALSE,
                redirect |-> FALSE, typing |-> FALSE, fetch |-> Nothing, shown |-> Nothing]
(* by: who asked for the add in flight; told: who the feedback is for. *)
NoAdd == [by |-> Nobody, told |-> Nobody, redirect |-> FALSE]
(* fetch: who asks, and the orders the server had when it answered.         *)
NoList == [loading |-> FALSE, failed |-> FALSE, fetch |-> Nothing, shown |-> Nothing]
NoDetail == [asked |-> Nothing, loading |-> FALSE, failed |-> FALSE, by |-> Nobody, shown |-> Nothing]

ConsultasInit ==
  /\ IdentityInit
  /\ chosen = Nothing
  /\ browse = EmptyBrowse /\ add = NoAdd
  /\ list = NoList /\ detail = NoDetail
  /\ placed = 0 /\ heard = 0

(* The selection of somebody who signs in is found as it was left: any.     *)
Selections == Shops \cup {Nothing}
ShopOf(u, c) == IF u = Nobody THEN Nothing ELSE c
catalogPart == <<browse, add, chosen>>
ordersPart == <<list, detail, placed, heard>>

-----------------------------------------------------------------------------
(* ClienteCatalogoFacade *)

Emptied(b) == [b EXCEPT !.shown = Nothing, !.total = 0, !.loading = FALSE]

(* loadPage() of page n for u, who selected c, in the state b. *)
LoadPage(u, c, b, n) ==
  browse' = IF ShopOf(u, c) = Nothing
            THEN [Emptied(b) EXCEPT !.failed = FALSE, !.redirect = TRUE, !.fetch = Nothing]
            ELSE [b EXCEPT !.page = n, !.loading = TRUE, !.failed = FALSE, !.redirect = FALSE,
                           !.fetch = [by |-> u, shop |-> c, query |-> b.query, page |-> n]]

OpenCatalog ==
  /\ page = "none" /\ Enter("catalog")
  /\ LoadPage(user, chosen, EmptyBrowse, 1)
  /\ UNCHANGED <<chosen, add, ordersPart>>

(* Faulty variant: the answer to the old text is still waited for. *)
StillWaited == browse.fetch

(* requestId moves. *)
Invalidated == Nothing

(* setQuery(): nothing of the old text stays, though the new one is asked    *)
(* for only when the typing pauses.                                         *)
SetQuery(q) ==
  /\ page = "catalog" /\ q # browse.query
  /\ browse' = [browse EXCEPT !.query = q, !.page = 1, !.total = 0, !.shown = Nothing,
                              !.typing = TRUE, !.fetch = Invalidated]
  /\ UNCHANGED <<idVars, chosen, add, ordersPart>>

(* debounceTime() emits. *)
Pause ==
  /\ browse.typing
  /\ LoadPage(user, chosen, [browse EXCEPT !.typing = FALSE], 1)
  /\ UNCHANGED <<idVars, chosen, add, ordersPart>>

RetryCatalog ==
  /\ page = "catalog" /\ browse.failed
  /\ LoadPage(user, chosen, browse, browse.page)
  /\ UNCHANGED <<idVars, chosen, add, ordersPart>>

(* previousPage() and nextPage(). *)
Turn(n) ==
  /\ page = "catalog" /\ browse.total # 0
  /\ \/ n = browse.page - 1 /\ n >= 1
     \/ n = browse.page + 1 /\ browse.page < browse.total
  /\ LoadPage(user, chosen, browse, n)
  /\ UNCHANGED <<idVars, chosen, add, ordersPart>>

(* Faulty variant: an answer for somebody else is just ignored. *)
Ignored == browse' = [browse EXCEPT !.fetch = Nothing]

(* Without the user who asked, the page is emptied. *)
Dropped == browse' = [Emptied(browse) EXCEPT !.fetch = Nothing]

CatalogArrives ==
  LET f == browse.fetch IN
  /\ f # Nothing
  /\ IF f.by # user THEN Dropped
     ELSE browse' = [browse EXCEPT !.shown = f, !.total = Pages, !.page = f.page,
                                   !.loading = FALSE, !.fetch = Nothing]
  /\ UNCHANGED <<idVars, chosen, add, ordersPart>>

(* isStaleProviderError(): the selection of the user is removed, whatever it *)
(* is by now.                                                               *)
Unchoose == chosen' = Nothing

CatalogFails ==
  LET f == browse.fetch IN
  /\ f # Nothing
  /\ IF f.by # user THEN Dropped /\ UNCHANGED chosen
     ELSE \/ /\ Unchoose
             /\ browse' = [Emptied(browse) EXCEPT !.redirect = TRUE, !.fetch = Nothing]
          \/ /\ browse' = [browse EXCEPT !.failed = TRUE, !.loading = FALSE, !.fetch = Nothing]
             /\ UNCHANGED chosen
  /\ UNCHANGED <<idVars, add, ordersPart>>

-----------------------------------------------------------------------------
(* ClienteCarritoFacade *)

(* addToCart() of a product on the page: for the selected vendedor only, and *)
(* one at a time.                                                           *)
AddToCart ==
  /\ page = "catalog" /\ ~browse.loading /\ ~browse.failed /\ browse.shown # Nothing
  /\ add.by = Nobody
  /\ add' = IF ShopOf(user, chosen) = Nothing \/ browse.shown.shop # ShopOf(user, chosen)
            THEN [add EXCEPT !.redirect = TRUE]
            ELSE [add EXCEPT !.by = user, !.told = Nobody]
  /\ UNCHANGED <<idVars, browse, chosen, ordersPart>>

(* The answer, good or bad: feedback, a stale provider, or nobody to tell.   *)
AddAnswered ==
  /\ add.by # Nobody
  /\ \/ /\ add' = [add EXCEPT !.by = Nobody, !.told = IF add.by = user THEN user ELSE Nobody]
        /\ UNCHANGED chosen
     \/ /\ add.by = user
        /\ add' = [add EXCEPT !.by = Nobody, !.told = Nobody, !.redirect = TRUE]
        /\ Unchoose
  /\ UNCHANGED <<idVars, browse, ordersPart>>

(* The home of another tab selects a vendedor, or loses it. *)
ChooseElsewhere ==
  /\ user # Nobody
  /\ chosen' \in Selections
  /\ UNCHANGED <<idVars, browse, add, ordersPart>>

-----------------------------------------------------------------------------
(* ClientePedidosFacade and ClientePedidoDetalleFacade *)

(* loadOrders(), of u, when the session is ready. *)
Listing(u) == [list EXCEPT !.loading = TRUE, !.failed = FALSE, !.fetch = [by |-> u, got |-> Nothing]]

(* loadOrder(): the one in flight is cancelled, and nothing of it stays. *)
Detailing(o, u) == [NoDetail EXCEPT !.asked = o, !.loading = TRUE, !.by = u]

OpenList ==
  /\ page = "none" /\ Enter("orders")
  /\ list' = Listing(user)
  /\ UNCHANGED <<catalogPart, detail, placed, heard>>

(* completed$: the tracking facade of the page saw a COMPLETED order, and an *)
(* answer on its way is older than that.                                    *)
OrderCompleted ==
  /\ page = "orders" /\ ready /\ placed > 0
  /\ heard' = placed
  /\ list' = Listing(user)
  /\ UNCHANGED <<idVars, catalogPart, detail, placed>>

RetryList ==
  /\ page = "orders" /\ ready /\ list.failed
  /\ list' = Listing(user)
  /\ UNCHANGED <<idVars, catalogPart, detail, placed, heard>>

ServeList ==
  /\ list.fetch # Nothing /\ list.fetch.got = Nothing
  /\ list' = [list EXCEPT !.fetch.got = placed]
  /\ UNCHANGED <<idVars, catalogPart, detail, placed, heard>>

(* A request without a session is refused. *)
ListArrives ==
  /\ list.fetch # Nothing
  /\ \/ /\ list.fetch.by # Nobody /\ list.fetch.got # Nothing
        /\ list' = [NoList EXCEPT !.shown = list.fetch]
     \/ list' = [list EXCEPT !.loading = FALSE, !.failed = TRUE, !.fetch = Nothing]
  /\ UNCHANGED <<idVars, catalogPart, detail, placed, heard>>

OpenDetail(o) ==
  /\ page = "none" /\ Enter("detail")
  /\ detail' = Detailing(o, user)
  /\ UNCHANGED <<catalogPart, list, placed, heard>>

(* The route's id changes, or retry(): before the session is ready, only     *)
(* the id is kept.                                                          *)
Follow(o) ==
  /\ page = "detail"
  /\ detail' = IF ready THEN Detailing(o, user) ELSE [detail EXCEPT !.asked = o]
  /\ UNCHANGED <<idVars, catalogPart, list, placed, heard>>

DetailArrives ==
  /\ detail.loading
  /\ \/ /\ detail.by # Nobody
        /\ detail' = [detail EXCEPT !.loading = FALSE, !.shown = [order |-> detail.asked, by |-> detail.by]]
     \/ detail' = [detail EXCEPT !.loading = FALSE, !.failed = TRUE]
  /\ UNCHANGED <<idVars, catalogPart, list, placed, heard>>

PlaceOrder ==
  /\ placed < MaxOrders
  /\ placed' = placed + 1
  /\ UNCHANGED <<idVars, catalogPart, list, detail, heard>>

-----------------------------------------------------------------------------
(* The session and the pages *)

(* resetForSessionChange() of both, the constructor's subscriptions of the   *)
(* catalog and its cart: the catalog is loaded at once for the new user,    *)
(* the orders wait until the session is ready.                              *)
ReplaceUser(u) ==
  /\ ReplacedBy(u)
  /\ \E c \in Selections :
       /\ chosen' = c
       /\ IF page = "catalog" THEN LoadPage(u, c, EmptyBrowse, 1) ELSE UNCHANGED browse
  /\ add' = [NoAdd EXCEPT !.redirect = add.redirect]
  /\ list' = NoList
  /\ detail' = [NoDetail EXCEPT !.asked = detail.asked]
  /\ heard' = 0
  /\ UNCHANGED placed

RestoreUser ==
  /\ Restored
  /\ list' = IF page = "orders" THEN Listing(user') ELSE list
  /\ detail' = IF page = "detail" THEN Detailing(detail.asked, user') ELSE detail
  /\ UNCHANGED <<catalogPart, placed, heard>>

SignInOrOut ==
  /\ \/ (\E u \in Users : SignIn(u)) /\ chosen' \in Selections
     \/ SignedOut /\ chosen' = Nothing
  /\ UNCHANGED <<browse, add, ordersPart>>

ClosePage ==
  /\ Exit
  /\ browse' = EmptyBrowse /\ add' = NoAdd /\ list' = NoList /\ detail' = NoDetail
  /\ heard' = 0
  /\ UNCHANGED <<chosen, placed>>

ConsultasNext ==
  \/ OpenCatalog \/ Pause \/ RetryCatalog \/ CatalogArrives \/ CatalogFails
  \/ AddToCart \/ AddAnswered \/ ChooseElsewhere
  \/ OpenList \/ OrderCompleted \/ RetryList \/ ServeList \/ ListArrives \/ DetailArrives
  \/ PlaceOrder \/ RestoreUser \/ SignInOrOut \/ ClosePage
  \/ \E q \in Texts : SetQuery(q)
  \/ \E n \in 1..Pages : Turn(n)
  \/ \E o \in Orders : OpenDetail(o) \/ Follow(o)
  \/ \E u \in Users : ReplaceUser(u)

CatalogAnswered == CatalogArrives \/ CatalogFails

(* The gateway answers every request in the end, and timers fire. *)
ConsultasFairness ==
  /\ WF_consultasVars(CatalogAnswered) /\ WF_consultasVars(Pause)
  /\ WF_consultasVars(AddAnswered) /\ WF_consultasVars(ListArrives) /\ WF_consultasVars(DetailArrives)

ConsultasSpec == ConsultasInit /\ [][ConsultasNext]_consultasVars /\ ConsultasFairness

-----------------------------------------------------------------------------
(* Properties *)

Asking == [by : Users, shop : Shops, query : Texts, page : 1..Pages]
ConsultasTypeOK ==
  /\ IdentityTypeOK /\ page \in {"none", "catalog", "orders", "detail"}
  /\ chosen \in Selections
  /\ browse \in [query : Texts, page : 1..Pages, total : {0, Pages}, loading : BOOLEAN,
                 failed : BOOLEAN, redirect : BOOLEAN, typing : BOOLEAN,
                 fetch : Asking \cup {Nothing}, shown : Asking \cup {Nothing}]
  /\ add \in [by : Users \cup {Nobody}, told : Users \cup {Nobody}, redirect : BOOLEAN]
  /\ list \in [loading : BOOLEAN, failed : BOOLEAN,
               fetch : [by : Users \cup {Nobody}, got : 0..MaxOrders \cup {Nothing}] \cup {Nothing},
               shown : [by : Users, got : 0..MaxOrders] \cup {Nothing}]
  /\ detail \in [asked : Orders \cup {Nothing}, loading : BOOLEAN, failed : BOOLEAN,
                 by : Users \cup {Nobody}, shown : [order : Orders, by : Users] \cup {Nothing}]
  /\ placed \in 0..MaxOrders /\ heard \in 0..MaxOrders

(* What a page shows is what was asked last, by who is signed in, whatever  *)
(* is typed, turned, followed or replaced while answers are on their way:   *)
(* products of the text in the search field (and, at rest, of the page),    *)
(* a list not older than the last order the page heard of, the order of     *)
(* the route.                                                               *)
ShownAsAsked ==
  /\ browse.shown # Nothing =>
       /\ browse.shown.query = browse.query
       /\ ~browse.loading /\ ~browse.failed => browse.shown.page = browse.page
  /\ list.shown # Nothing /\ ~list.loading /\ ~list.failed => list.shown.got >= heard
  /\ detail.shown # Nothing => detail.shown.order = detail.asked
  /\ user # Nobody =>
       /\ browse.shown # Nothing => browse.shown.by = user
       /\ add.told \in {user, Nobody}
       /\ list.shown # Nothing => list.shown.by = user
       /\ detail.shown # Nothing => detail.shown.by = user

Waiting(w) ==
  CASE w = "catalog" -> browse.loading /\ ~browse.typing
    [] w = "typing" -> browse.typing
    [] w = "add" -> add.by # Nobody
    [] w = "list" -> list.loading
    [] w = "detail" -> detail.loading

(* No page waits for ever: requests that were superseded, and sessions that  *)
(* were replaced or ended, leave no spinner and no lock behind.             *)
NobodyWaits == \A w \in {"catalog", "typing", "add", "list", "detail"} : []<>~Waiting(w)
=============================================================================
