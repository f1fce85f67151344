------------------------------- MODULE Lecturas -------------------------------
(***************************************************************************)
(* Reading the tables of the services: a list page by page, one row by its *)
(* id, and the vendedor's edit of a cliente. Each request first finds out  *)
(* whose rows the reader may see, over TCP or in the database, and then    *)
(* asks two queries, the rows of the page and their count, between which   *)
(* other requests insert, relate and withdraw rows. One table stands for   *)
(* any of the families; profile ids and account ids are one.               *)
(***************************************************************************)
EXTENDS Naturals, FiniteSets

CONSTANTS
  Root,      \* the super admin
  Vendors,   \* vendedores
  Buyers,    \* clientes
  Guest,     \* nobody is signed in
  MaxRows,   \* bound: rows that may be created
  RowOwner,  \* the vendedor of each row
  RowBuyer,  \* its cliente, if it is an order
  Limit,     \* rows on a page
  Unnamed    \* no vendedorId and no id in the request

Rows == 1..MaxRows  \* by the order in which they are created

ASSUME LecturasAssumption ==
  /\ MaxRows \in Nat /\ IsFiniteSet(Vendors)
  /\ RowOwner \in [Rows -> Vendors] /\ RowBuyer \in [Rows -> Buyers]
  /\ Limit \in Nat \ {0} /\ Unnamed \notin Vendors \cup Rows
  /\ Root \notin Vendors \cup Buyers /\ Guest \notin {Root} \cup Vendors \cup Buyers
  /\ Vendors \cap Buyers = {}  \* an account has one rol

VARIABLES
  family,     \* the table of this behaviour
  created,    \* how many rows it has
  related,    \* RELACION_CARTERA: vendedor with cliente
  withdrawn,  \* rows whose categoria, or which itself, is not activo
  reader,     \* the request, and the walk through the pages it is part of
  wrote       \* clientes the reader has edited (history)

lecturasVars == <<family, created, related, withdrawn, reader, wrote>>

(* The last four are not paged; "jobs" are the commands behind orders. *)
Paged == {"vendedores", "clientes", "invitaciones", "logs", "entregas", "products"}
Families == Paged \cup {"categories", "inactive", "orders", "jobs"}
Readers == {Root, Guest} \cup Vendors \cup Buyers

(* asks: what for; named, id: of the request; scope: vendedores whose rows  *)
(* are asked for; done: the queries answered; then the answers, what the    *)
(* walk has shown, the rows it should show, and what disturbed it.          *)
NoRequest == [at |-> "idle", who |-> Guest, asks |-> "list", named |-> Unnamed, id |-> Unnamed,
              page |-> 1, scope |-> {}, done |-> {}, found |-> {}, total |-> 0,
              seen |-> {}, must |-> {}, shifted |-> FALSE, outdated |-> FALSE]

LecturasInit ==
  /\ family \in Families
  /\ created = 0 /\ related = {} /\ withdrawn = {}
  /\ reader = NoRequest /\ wrote = {}

GoOn(r) == reader' = r /\ UNCHANGED <<family, created, related, withdrawn>>

-----------------------------------------------------------------------------
(* Whose rows: a set of at most one scope, none when the request is refused *)

NamedOrAll(named) == IF named = Unnamed THEN Vendors ELSE {named}

(* requireRole(), of every service. *)
RequireRole(who, roles, scopes) == IF who \in roles THEN scopes ELSE {}

(* resolve() of VendedorResolver, for each service: the vendedor behind an   *)
(* account, and refused when it has none.                                   *)
OwnScope(who) == RequireRole(who, Vendors, {{who}})

(* vendedores.list, super_admin.audit_log and activity_logs.list. *)
VendedoresScope(who) == RequireRole(who, {Root}, {Vendors})
LogsScope(who) == RequireRole(who, {Root}, {Vendors})

(* clientes.list and clientes.get_by_id, clientes.cartera and the like. *)
ClientesScope(who, named) == RequireRole(who, {Root}, {NamedOrAll(named)})
CarteraScope(who) == OwnScope(who)

(* qr.vendor_list, link_invitacion.vendor_list, and what the super admin     *)
(* lists, for whom requireVendedorId() holds.                               *)
InvitacionesScope(who, named) ==
  RequireRole(who, {Root}, {{v} : v \in {named} \cap Vendors}) \cup OwnScope(who)

(* deliveries.list, deliveries.get. *)
EntregasScope(who) == OwnScope(who)

(* resolveVendedoresByClienteUserId(): the active providers. *)
Providers(who) == {v \in Vendors : <<v, who>> \in related}

(* resolveScopedVendedorIds() of products. *)
ScopedVendedorIds(who) ==
  CASE who = Root -> Vendors
    [] who \in Vendors -> {who}
    [] OTHER -> Providers(who)

(* products.list, and products.search, which also looks at the name. *)
ProductsScope(who, named) ==
  LET ids == ScopedVendedorIds(who) IN
  IF who = Root THEN {NamedOrAll(named)}
  ELSE IF ids = {} THEN {{}}
  ELSE IF named # Unnamed THEN {{v} : v \in ids \cap {named}}
  ELSE IF who \in Buyers /\ Cardinality(ids) > 1 THEN {} ELSE {ids}

(* categories.list and brands.list, categories.list_inactive. *)
CategoriesScope(who, named) ==
  {{v} : v \in {v \in Vendors : /\ named = Unnamed => v = who
                                /\ named # Unnamed => v = named
                                /\ who \in Vendors => v = who}}
InactiveScope(who, named) == RequireRole(who, {Root}, {NamedOrAll(named)})

(* OrdersService.list(): a cliente's orders are chosen by cliente. *)
OrdersScope(who) ==
  RequireRole(who, {Root} \cup Buyers, {Vendors}) \cup OwnScope(who)

(* orders.job_status: canReadJobStatus(). *)
JobsScope(who) == RequireRole(who, {Root} \cup Buyers, {Vendors})

ScopesOf(r) ==
  CASE family = "vendedores" -> VendedoresScope(r.who)
    [] family = "logs" -> LogsScope(r.who)
    [] family = "clientes" -> ClientesScope(r.who, r.named) \cup CarteraScope(r.who)
    [] family = "invitaciones" -> InvitacionesScope(r.who, r.named)
    [] family = "entregas" -> EntregasScope(r.who)
    [] family = "products" -> IF r.asks = "list" THEN ProductsScope(r.who, r.named)
                              ELSE {ScopedVendedorIds(r.who)}
    [] family = "categories" -> CategoriesScope(r.who, r.named)
    [] family = "inactive" -> InactiveScope(r.who, r.named)
    [] family = "orders" -> OrdersScope(r.who)
    [] family = "jobs" -> JobsScope(r.who)

-----------------------------------------------------------------------------
(* Which of the rows: the `where` of the queries *)

(* CARTERA_FILTER; every cliente is in some cartera. *)
InCartera(scope, x) == \E v \in scope : <<v, x>> \in related

(* activeCatalogWhere(): only the super admin sees inactive categorias. *)
InActiveCatalog(who, x) == who = Root \/ x \notin withdrawn

(* findManyForCliente(), assertCanRead() for one order, canReadJobStatus(). *)
OfCliente(who, x) == who \in Buyers => RowBuyer[x] = who

InSelection(r, x) ==
  CASE family \in {"vendedores", "logs"} -> TRUE
    [] family = "clientes" -> InCartera(r.scope, x)
    [] family \in {"invitaciones", "entregas"} -> RowOwner[x] \in r.scope
    [] family = "products" -> RowOwner[x] \in r.scope /\ InActiveCatalog(r.who, x)
    [] family = "categories" -> RowOwner[x] \in r.scope /\ x \notin withdrawn
    [] family = "inactive" -> RowOwner[x] \in r.scope /\ x \in withdrawn
    [] family \in {"orders", "jobs"} -> RowOwner[x] \in r.scope /\ OfCliente(r.who, x)

Table == 1..created
Selection(r) == {x \in Table : InSelection(r, x)}

(* orderBy: newest first in every paged list but that of entregas. *)
Before(y, x) == IF family = "entregas" THEN y < x ELSE y > x
Place(r, x) == Cardinality({y \in Selection(r) : Before(y, x)})

(* Faulty variant: the first page is skipped. *)
PageAfter(page, r) ==
  {x \in Selection(r) : page * Limit <= Place(r, x) /\ Place(r, x) < (page + 1) * Limit}

(* skip: (page - 1) * limit, take: limit. *)
PageOf(page, r) ==
  {x \in Selection(r) : (page - 1) * Limit <= Place(r, x) /\ Place(r, x) < page * Limit}

-----------------------------------------------------------------------------
(* A request *)

(* A list, maybe with a vendedorId, one row, or an edit of a cliente. What a *)
(* handler does not look at is left out.                                    *)
MayAsk(asks, named, id) ==
  \/ /\ asks = "list" /\ id = Unnamed /\ family # "jobs"
     /\ named = Unnamed \/ family \notin {"vendedores", "logs", "entregas", "orders"}
  \/ /\ asks = "get" /\ named = Unnamed /\ id \in Rows
     /\ family \notin {"invitaciones", "categories", "inactive"}
  \/ asks = "update" /\ named = Unnamed /\ id \in Rows /\ family = "clientes"

AskFor(who, asks, named, id) ==
  /\ reader.at = "idle"
  /\ MayAsk(asks, named, id)
  /\ GoOn([NoRequest EXCEPT !.at = "resolve", !.who = who, !.asks = asks, !.named = named,
                            !.id = id])
  /\ wrote' = {}

(* listRequest(), getByIdRequest(), body(), query(): what does not parse is  *)
(* refused before anything is read.                                         *)
Malformed ==
  /\ reader.at = "resolve"
  /\ GoOn([reader EXCEPT !.at = "refused"])
  /\ UNCHANGED wrote

(* The role and the scope; without any vendedor a list is empty at once. The *)
(* walk should show what is there when its first page is asked for.         *)
Resolve ==
  /\ reader.at = "resolve"
  /\ IF ScopesOf(reader) = {} THEN GoOn([reader EXCEPT !.at = "refused"])
     ELSE \E vs \in ScopesOf(reader) :
       LET r == [reader EXCEPT !.scope = vs, !.outdated = FALSE] IN
         GoOn([r EXCEPT !.at = IF vs = {} /\ r.asks = "list" THEN "shown" ELSE "query",
                        !.must = IF r.page = 1 /\ r.seen = {} THEN Selection(r) ELSE @])
  /\ UNCHANGED wrote

(* findMany(). Without pages all rows are the first page. *)
FindMany ==
  /\ reader.at = "query" /\ reader.asks = "list" /\ "find" \notin reader.done
  /\ GoOn([reader EXCEPT !.done = @ \cup {"find"},
       !.found = IF family \in Paged THEN PageOf(reader.page, reader) ELSE Selection(reader)])
  /\ UNCHANGED wrote

(* count(). Promise.all() sends both queries, each on a connection of its    *)
(* own; $transaction([...]) keeps their order, but each statement sees what *)
(* is committed by then.                                                    *)
CountRows ==
  /\ reader.at = "query" /\ reader.asks = "list" /\ "count" \notin reader.done
  /\ family \notin {"products", "entregas"} \/ "find" \in reader.done
  /\ GoOn([reader EXCEPT !.done = @ \cup {"count"}, !.total = Cardinality(Selection(reader))])
  /\ UNCHANGED wrote

ListAnswered ==
  /\ reader.at = "query" /\ reader.done = {"find", "count"}
  /\ GoOn([reader EXCEPT !.at = "shown", !.seen = @ \cup reader.found])
  /\ UNCHANGED wrote

(* findFirst() or findUnique() and the check of the scope, either way. *)
FindOne ==
  /\ reader.at = "query" /\ reader.asks # "list"
  /\ IF reader.id \in Selection(reader)
     THEN GoOn([reader EXCEPT !.at = IF reader.asks = "get" THEN "shown" ELSE "write",
                              !.seen = IF reader.asks = "get" THEN {reader.id} ELSE @])
     ELSE GoOn([reader EXCEPT !.at = "refused"])
  /\ UNCHANGED wrote

(* updateOwn() and update(): by id, whatever the cartera is by then. *)
UpdateRow ==
  /\ reader.at = "write"
  /\ GoOn([reader EXCEPT !.at = "shown"])
  /\ wrote' = {reader.id}

(* A query or a call fails, or times out: RpcExceptionFilter answers an error. *)
RequestFails ==
  /\ reader.at \in {"resolve", "query", "write"}
  /\ GoOn([reader EXCEPT !.at = "failed", !.done = {}, !.found = {}, !.total = 0])
  /\ UNCHANGED wrote

(* loadPage() of the list page: previousPage(), nextPage() and retry(), whose *)
(* buttons are there when a page with rows, or an error, is.                *)
WalkTo(p) ==
  /\ GoOn([reader EXCEPT !.at = "resolve", !.page = p, !.done = {}, !.found = {}, !.total = 0])
  /\ UNCHANGED wrote
PageShown == reader.at = "shown" /\ reader.asks = "list" /\ family \in Paged /\ reader.found # {}
NextPage == PageShown /\ reader.page * Limit < reader.total /\ WalkTo(reader.page + 1)
PreviousPage == PageShown /\ reader.page > 1 /\ WalkTo(reader.page - 1)
RetryPage == reader.at = "failed" /\ WalkTo(reader.page)

-----------------------------------------------------------------------------
(* Meanwhile *)

(* More of the rows the reader asks for: `outdated` if the count is from    *)
(* before and the rows are not.                                             *)
Growing(r) == [r EXCEPT !.outdated = @ \/ r.done = {"count"}]

(* Bound: nothing more happens once a request was refused or has shown one  *)
(* row, or edited it.                                                       *)
Ongoing == reader.at # "refused" /\ (reader.at = "shown" => reader.asks = "list")

(* A row is created. A new cliente is in the cartera of its vendedor. *)
CreateRow ==
  LET x == created + 1 IN
  /\ Ongoing /\ x \in Rows
  /\ created' = x
  /\ related' = IF family = "clientes" THEN related \cup {<<RowOwner[x], x>>} ELSE related
  /\ reader' = Growing(reader)
  /\ UNCHANGED <<family, withdrawn, wrote>>

(* addProvider(), reassign() and the registrations: a relation stays.  *)
(* Bounds: one more cartera for the clientes of a table; a new provider     *)
(* between two requests, because ProductsScope reads them only once.        *)
Relate(v, x) ==
  /\ Ongoing
  /\ \/ family = "clientes" /\ x \in Table /\ Cardinality(related) = created
     \/ family = "products" /\ x \in Buyers /\ reader.at \in {"idle", "shown"}
  /\ <<v, x>> \notin related
  /\ related' = related \cup {<<v, x>>}
  /\ reader' = Growing(reader)
  /\ UNCHANGED <<family, created, withdrawn, wrote>>

(* A categoria is deactivated or reactivated, with its products: what is     *)
(* behind the rows that leave a list moves forward. Bound: one before the   *)
(* walk and one during it, one row at a time.                               *)
ToggleRow(x) ==
  /\ Ongoing /\ ~reader.shifted
  /\ family \in {"products", "categories", "inactive"} /\ x \in Table
  /\ withdrawn \subseteq {x}
  /\ withdrawn' = {x} \ withdrawn
  /\ reader' = [Growing(reader) EXCEPT !.shifted = TRUE]
  /\ UNCHANGED <<family, created, related, wrote>>

LecturasNext ==
  \/ \E who \in Readers, asks \in {"list", "get", "update"},
        named \in Vendors \cup {Unnamed}, id \in Rows \cup {Unnamed} : AskFor(who, asks, named, id)
  \/ Malformed \/ Resolve \/ FindMany \/ CountRows \/ ListAnswered \/ FindOne \/ UpdateRow
  \/ RequestFails
  \/ NextPage \/ PreviousPage \/ RetryPage
  \/ CreateRow \/ \E x \in Rows : ToggleRow(x)
  \/ \E v \in Vendors, x \in Rows \cup Buyers : Relate(v, x)

LecturasSpec == LecturasInit /\ [][LecturasNext]_lecturasVars

-----------------------------------------------------------------------------
(* Properties *)

LecturasTypeOK ==
  /\ family \in Families /\ created \in 0..MaxRows /\ withdrawn \subseteq Table
  /\ related \subseteq Vendors \X (Rows \cup Buyers) /\ wrote \subseteq Table
  /\ reader \in [at : {"idle", "resolve", "query", "write", "shown", "refused", "failed"},
                 who : Readers, asks : {"list", "get", "update"},
                 named : Vendors \cup {Unnamed}, id : Rows \cup {Unnamed}, page : Nat \ {0},
                 scope : SUBSET Vendors, done : SUBSET {"find", "count"}, found : SUBSET Table,
                 total : 0..MaxRows, seen : SUBSET Table, must : SUBSET Table,
                 shifted : BOOLEAN, outdated : BOOLEAN]

(* What a reader may see, said without the handlers. *)
MayRead(who, x) ==
  IF who = Root THEN family # "entregas" ELSE
  CASE family = "clientes" -> <<who, x>> \in related
    [] family = "products" -> who = RowOwner[x] \/ <<RowOwner[x], who>> \in related
    [] family = "orders" -> who \in {RowOwner[x], RowBuyer[x]}
    [] family = "jobs" -> who = RowBuyer[x]
    [] family = "categories" -> who \in Vendors => who = RowOwner[x]
    [] OTHER -> family \notin {"vendedores", "logs", "inactive"} /\ who = RowOwner[x]

(* A walk through a list shows, and an edit touches, only rows the reader   *)
(* may read; and when its last page is shown it has shown every row that    *)
(* was there when it began, whatever was created meanwhile. Excepted is     *)
(* what the two queries cannot give: rows that moved because others were    *)
(* withdrawn, and a count older than the rows it is shown with.             *)
WalkShowsTheScope ==
  /\ \A x \in reader.seen \cup wrote : MayRead(reader.who, x)
  /\ reader.at = "shown" /\ reader.asks = "list" /\ ~reader.shifted /\ ~reader.outdated
       /\ (family \in Paged => reader.page * Limit >= reader.total)
     => reader.must \subseteq reader.seen
=============================================================================
