--------------------------------- MODULE Cart ---------------------------------
(***************************************************************************)
(* The carts of one cliente with one vendedor (carts of different pairs    *)
(* share nothing): the handlers of `cart.items_*` and the checkout read    *)
(* the cart, ask products-service for the product, and write, and between  *)
(* these steps other handlers run, carts expire and the stock changes.     *)
(* The checkout's transaction runs at the database's default isolation: it *)
(* keeps the snapshot it read first, but sees other commits when it writes. *)
(***************************************************************************)
EXTENDS Naturals, FiniteSets

CONSTANTS
  Products,      \* products of the vendedor
  Handlers,      \* slots for requests in flight
  CartIds,       \* bound: the carts that may ever be created, 1..n
  MaxStock,      \* bound: the stock a product may have
  StockChanges,  \* whether the vendedor changes the stock in the behaviour
  TTL,           \* CART_TTL_HOURS, in ticks
  MaxTime,       \* bound: the clock stops there
  MaxQuantity,   \* bound: quantities in requests
  NoProduct

ASSUME CartAssumption ==
  /\ CartIds \subseteq Nat \ {0}
  /\ {MaxStock, MaxTime, MaxQuantity} \subseteq Nat
  /\ TTL \in Nat \ {0}
  /\ NoProduct \notin Products
  /\ StockChanges \in BOOLEAN
  /\ IsFiniteSet(Handlers) /\ Handlers # {}

VARIABLES
  cart,   \* CART and CART_ITEM rows
  now,    \* the clock
  stock,  \* products-service: stock of each product
  op,     \* the requests in flight
  orders  \* ORDER rows with the lines they were made from

cartVars == <<cart, now, stock, op, orders>>

NoItems == [p \in Products |-> 0]
(* `exists` until a checkout deletes the row, `active` while active_cart_key *)
(* is set; an item with quantity 0 has no CART_ITEM row.                     *)
NoCart == [exists |-> FALSE, active |-> FALSE, expires |-> 0, items |-> NoItems]
Steps == {"idle", "locate", "create", "add", "price", "replace", "delete", "validate", "order"}
(* The product, the quantity, the cart (0: none named), the stock the       *)
(* catalog answered, the lines the checkout read and what it still checks.  *)
IdleOp == [pc |-> "idle", product |-> NoProduct, qty |-> 0, cart |-> 0, seen |-> 0,
           lines |-> NoItems, todo |-> {}]

CartInit ==
  /\ cart = [i \in CartIds |-> NoCart]
  /\ now = 0
  /\ stock \in [Products -> 1..MaxStock]
  /\ op = [h \in Handlers |-> IdleOp]
  /\ orders = {}

Open(i) == cart[i].exists /\ cart[i].expires > now
(* findActiveByCliente(). *)
FoundActive == {i \in CartIds : Open(i) /\ cart[i].active}

Become(h, r) == op' = [op EXCEPT ![h] = r]
Reject(h) == Become(h, IdleOp) /\ UNCHANGED <<cart, now, stock, orders>>

-----------------------------------------------------------------------------
(* addItem() *)

(* The catalog answers first: available, and enough stock for the request.  *)
BeginAdd(h, p, q, i) ==
  /\ op[h].pc = "idle"
  /\ stock[p] >= 1 /\ q <= stock[p]
  /\ Become(h, [IdleOp EXCEPT !.pc = "locate", !.product = p, !.qty = q,
                              !.cart = i, !.seen = stock[p]])
  /\ UNCHANGED <<cart, now, stock, orders>>

(* assertAvailableStock(product, cantidad, quantityInCart(cart)). *)
FitsStock(h, i) == cart[i].items[op[h].product] + op[h].qty <= op[h].seen

Resolved(h, i) ==
  IF FitsStock(h, i)
  THEN Become(h, [op[h] EXCEPT !.pc = "add", !.cart = i])
  ELSE Become(h, IdleOp)

(* resolveMutableCart(): the named cart if it is not expired, or else the   *)
(* active one, or else one to be created.                                   *)
Locate(h) ==
  /\ op[h].pc = "locate"
  /\ IF op[h].cart # 0
     THEN IF Open(op[h].cart) THEN Resolved(h, op[h].cart) ELSE Become(h, IdleOp)
     ELSE IF FoundActive # {} THEN \E i \in FoundActive : Resolved(h, i)
          ELSE Become(h, [op[h] EXCEPT !.pc = "create"])
  /\ UNCHANGED <<cart, now, stock, orders>>

(* Faulty variant: the transaction does not look for a cart created since,  *)
(* and active_cart_key is not unique.                                       *)
ReuseNone == {}

(* The active cart, found in the transaction or after its unique violation. *)
Reuse == FoundActive

(* findOrCreateActiveCart(): expired carts lose their key, and a new cart is *)
(* created when no active one is left.                                       *)
Retired == [i \in CartIds |->
  IF cart[i].exists /\ cart[i].expires <= now THEN [cart[i] EXCEPT !.active = FALSE]
  ELSE cart[i]]
Create(h) ==
  /\ op[h].pc = "create"
  /\ \/ \E i \in Reuse : cart' = Retired /\ Resolved(h, i)
     \/ /\ Reuse = {}
        /\ \E i \in CartIds :
             /\ cart[i].expires = 0
             /\ \A j \in CartIds : j < i => cart[j].expires # 0
             /\ cart' = [Retired EXCEPT ![i] = [exists |-> TRUE, active |-> TRUE,
                                                expires |-> now + TTL, items |-> NoItems]]
             /\ Resolved(h, i)
  /\ UNCHANGED <<now, stock, orders>>

(* Faulty variant: the upsert sets the quantity instead of incrementing it. *)
SetQuantity(h) == op[h].qty

Incremented(h) == cart[op[h].cart].items[op[h].product] + op[h].qty

(* incrementItemQuantity(): an upsert; it fails when the cart is gone. *)
Add(h) ==
  LET i == op[h].cart IN
  /\ op[h].pc = "add"
  /\ cart' = IF cart[i].exists
             THEN [cart EXCEPT ![i].items[op[h].product] = Incremented(h)]
             ELSE cart
  /\ Become(h, IdleOp)
  /\ UNCHANGED <<now, stock, orders>>

-----------------------------------------------------------------------------
(* updateItem() and deleteItem() *)

(* requireMutableCart() and assertCartHasItem(). *)
BeginUpdate(h, p, q, i) ==
  /\ op[h].pc = "idle"
  /\ Open(i) /\ cart[i].items[p] > 0
  /\ Become(h, [IdleOp EXCEPT !.pc = "price", !.product = p, !.qty = q, !.cart = i])
  /\ UNCHANGED <<cart, now, stock, orders>>

(* The catalog answers: available, with enough stock for the new quantity. *)
Price(h) ==
  /\ op[h].pc = "price"
  /\ stock[op[h].product] >= 1 /\ op[h].qty <= stock[op[h].product]
  /\ Become(h, [op[h] EXCEPT !.pc = "replace"])
  /\ UNCHANGED <<cart, now, stock, orders>>

(* Faulty variant: an upsert instead of updateMany(). *)
Upserted(i, p) == cart[i].exists

RowExists(i, p) == cart[i].exists /\ cart[i].items[p] > 0

(* replaceItemQuantity(): NotFoundException when the row is gone. *)
Replace(h) ==
  LET i == op[h].cart IN
  /\ op[h].pc = "replace"
  /\ cart' = IF RowExists(i, op[h].product)
             THEN [cart EXCEPT ![i].items[op[h].product] = op[h].qty]
             ELSE cart
  /\ Become(h, IdleOp)
  /\ UNCHANGED <<now, stock, orders>>

BeginDelete(h, p, i) ==
  /\ op[h].pc = "idle"
  /\ Open(i)
  /\ Become(h, [IdleOp EXCEPT !.pc = "delete", !.product = p, !.cart = i])
  /\ UNCHANGED <<cart, now, stock, orders>>

(* deleteItem(): deleteMany(), whether there is a row or not. *)
Delete(h) ==
  /\ op[h].pc = "delete"
  /\ cart' = [cart EXCEPT ![op[h].cart].items[op[h].product] = 0]
  /\ Become(h, IdleOp)
  /\ UNCHANGED <<now, stock, orders>>

-----------------------------------------------------------------------------
(* createFromCart(), seen from the cart *)

BeginCheckout(h) ==
  /\ op[h].pc = "idle"
  /\ \E i \in FoundActive :
       /\ cart[i].items # NoItems
       /\ Become(h, [IdleOp EXCEPT !.pc = "validate", !.cart = i, !.lines = cart[i].items,
                                   !.todo = {p \in Products : cart[i].items[p] > 0}])
  /\ UNCHANGED <<cart, now, stock, orders>>

(* validateCartItems() asks for one item at a time. *)
Validate(h) ==
  /\ op[h].pc = "validate"
  /\ \E p \in op[h].todo :
       /\ stock[p] >= op[h].lines[p]
       /\ Become(h, [op[h] EXCEPT !.todo = @ \ {p},
                                  !.pc = IF op[h].todo = {p} THEN "order" ELSE "validate"])
  /\ UNCHANGED <<cart, now, stock, orders>>

(* Faulty variant: deleteMany(), a cart that is gone is fine. *)
Anyway(h) == TRUE

CartStillThere(h) == cart[op[h].cart].exists

(* The order is made from the snapshot; cart.delete() takes the cart's items *)
(* with it (ON DELETE CASCADE), or finds no cart and everything rolls back.  *)
PlaceOrder(h) ==
  /\ op[h].pc = "order"
  /\ IF CartStillThere(h)
     THEN /\ orders' = orders \cup {[by |-> h, cart |-> op[h].cart, lines |-> op[h].lines]}
          /\ cart' = [cart EXCEPT ![op[h].cart] = [@ EXCEPT !.exists = FALSE, !.active = FALSE,
                                                            !.items = NoItems]]
     ELSE UNCHANGED <<orders, cart>>
  /\ Become(h, IdleOp)
  /\ UNCHANGED <<now, stock>>

-----------------------------------------------------------------------------
(* A request ends without a write: the catalog refuses, is slow or down, or *)
(* a query fails, or the process dies.                                      *)
GiveUp(h) == op[h].pc # "idle" /\ Reject(h)

Tick == now < MaxTime /\ now' = now + 1 /\ UNCHANGED <<cart, stock, op, orders>>

(* products.update of the vendedor. *)
SetStock(p, n) ==
  /\ StockChanges
  /\ stock' = [stock EXCEPT ![p] = n]
  /\ UNCHANGED <<cart, now, op, orders>>

CartNext ==
  \/ Tick
  \/ \E p \in Products, n \in 0..MaxStock : SetStock(p, n)
  \/ \E h \in Handlers :
       \/ \E p \in Products, q \in 1..MaxQuantity, i \in CartIds \cup {0} : BeginAdd(h, p, q, i)
       \/ \E p \in Products, q \in 1..MaxQuantity, i \in CartIds : BeginUpdate(h, p, q, i)
       \/ \E p \in Products, i \in CartIds : BeginDelete(h, p, i)
       \/ Locate(h) \/ Create(h) \/ Add(h) \/ Price(h) \/ Replace(h) \/ Delete(h)
       \/ BeginCheckout(h) \/ Validate(h) \/ PlaceOrder(h) \/ GiveUp(h)

CartSpec == CartInit /\ [][CartNext]_cartVars

-----------------------------------------------------------------------------
(* Properties *)

(* Adds that were checked at the same time can exceed the stock, each by    *)
(* its quantity but the first.                                              *)
MaxItem == MaxStock + (Cardinality(Handlers) - 1) * MaxQuantity
Items == [Products -> 0..MaxItem]

(* Every part of the state keeps its type, and the quantity in a cart is    *)
(* never more than one add per other request in flight above the stock.     *)
CartTypeOK ==
  /\ cart \in [CartIds -> [exists : BOOLEAN, active : BOOLEAN, expires : 0..(MaxTime + TTL),
                           items : Items]]
  /\ now \in 0..MaxTime
  /\ stock \in [Products -> 0..MaxStock]
  /\ op \in [Handlers -> [pc : Steps, product : Products \cup {NoProduct}, qty : 0..MaxQuantity,
                          cart : CartIds \cup {0}, seen : 0..MaxStock, lines : Items,
                          todo : SUBSET Products]]
  /\ orders \subseteq [by : Handlers, cart : CartIds, lines : Items]

(* However requests race to create a cart, there is at most one that is not *)
(* expired, and it is the one a checkout will find.                         *)
OneOpenCart ==
  /\ \A i, j \in CartIds : Open(i) /\ Open(j) => i = j
  /\ \A i \in CartIds : Open(i) => cart[i].active

(* A deleted item comes back only by an add of the cliente, never by an     *)
(* update that was under way when it was deleted.                           *)
UpdateNeverResurrects ==
  [][\A h \in Handlers, i \in CartIds, p \in Products :
       op[h].pc = "replace" /\ op'[h].pc = "idle" /\ cart[i].items[p] = 0
         => cart'[i].items[p] = 0]_cartVars

(* Two adds at a time do not overwrite each other: while nobody updates,    *)
(* deletes or orders, a quantity never falls.                               *)
AddNeverLowers ==
  [][\A i \in CartIds, p \in Products :
       cart'[i].items[p] < cart[i].items[p] =>
         \E h \in Handlers : op[h].pc \in {"replace", "delete", "order"} /\ op'[h] # op[h]]_cartVars

(* One cart is ordered at most once, whoever checks out at the same time.   *)
OrderedOnce ==
  \A o1, o2 \in orders : o1.cart = o2.cart => o1 = o2

(* A cart never asks for more than the stock, as long as that stays as it   *)
(* is.                                                                      *)
CartWithinStock ==
  \A i \in CartIds, p \in Products : cart[i].items[p] <= stock[p]
=============================================================================
