------------------------------ MODULE CartProofs ------------------------------
(***************************************************************************)
(* Proofs about Cart: for any number of products, carts and requests, and  *)
(* any quantities, stock and clock: there is one open cart and it is       *)
(* ordered once, adds never lower a quantity, and no quantity passes what  *)
(* the adds that race each other can bring it to.                          *)
(***************************************************************************)
EXTENDS Cart, Integers, FiniteSetTheorems, TLAPS

CartType == [exists : BOOLEAN, active : BOOLEAN, expires : Nat, items : [Products -> Int]]

(* A request names a cart before it writes to one.                          *)
OpType ==
  {o \in [pc : Steps, product : Products \cup {NoProduct}, qty : Int, cart : CartIds \cup {0},
          seen : Int, lines : [Products -> Int], todo : SUBSET Products] :
     /\ o.pc \in {"add", "price", "replace", "delete", "validate", "order"} => o.cart \in CartIds
     /\ o.pc \in {"locate", "create", "add", "price", "replace", "delete"} => o.product \in Products}

(* A cart that was ordered is gone, and its place is not used again.        *)
OrderedIsGone ==
  /\ orders \subseteq [by : Handlers, cart : CartIds, lines : [Products -> Int]]
  /\ \A i \in CartIds : cart[i].exists => cart[i].expires # 0
  /\ \A o \in orders : ~cart[o.cart].exists /\ cart[o.cart].expires # 0

RowsInv ==
  /\ cart \in [CartIds -> CartType]
  /\ now \in Nat
  /\ OneOpenCart /\ OrderedIsGone /\ OrderedOnce

OpsInv == op \in [Handlers -> OpType] /\ stock \in [Products -> Int]

Inv == RowsInv /\ OpsInv

-----------------------------------------------------------------------------
LEMMA NoItemsTyped == NoItems \in [Products -> Int]
BY DEF NoItems

LEMMA IdleTyped == IdleOp \in OpType
<1>1. 0 \in Int /\ {} \in SUBSET Products
  OBVIOUS
<1> QED
  BY <1>1, NoItemsTyped DEF IdleOp, OpType, Steps

LEMMA InitInv == CartInit => Inv
<1> SUFFICES ASSUME CartInit PROVE Inv
  OBVIOUS
<1>1. NoCart \in CartType /\ NoCart.exists = FALSE
  BY DEF NoCart, CartType, NoItems
<1>2. cart \in [CartIds -> CartType] /\ \A i \in CartIds : ~cart[i].exists
  BY <1>1 DEF CartInit
<1>3. RowsInv
  BY <1>2 DEF CartInit, RowsInv, OneOpenCart, Open, OrderedIsGone, OrderedOnce
<1>4. OpsInv
  BY IdleTyped, CartAssumption DEF CartInit, OpsInv
<1> QED
  BY <1>3, <1>4 DEF Inv

LEMMA Becomes ==
  ASSUME OpsInv, NEW h \in Handlers, NEW r \in OpType, Become(h, r), UNCHANGED stock
  PROVE  OpsInv'
BY DEF OpsInv, Become

(* A step in which no cart opens, and none that stays open loses its key.   *)
LEMMA NothingOpens ==
  ASSUME RowsInv, cart' \in [CartIds -> CartType], now' \in Nat, now <= now', orders' = orders,
         \A i \in CartIds :
           /\ cart'[i].expires = cart[i].expires
           /\ cart'[i].exists => cart[i].exists
           /\ cart'[i].exists => cart'[i].active = cart[i].active \/ cart[i].expires <= now
  PROVE  RowsInv'
<1>1. ASSUME NEW i \in CartIds, Open(i)'
      PROVE  Open(i) /\ cart'[i].active = cart[i].active
  BY <1>1 DEF Open, RowsInv, CartType
<1>2. OneOpenCart'
  BY <1>1 DEF RowsInv, OneOpenCart
<1>3. OrderedIsGone' /\ OrderedOnce'
  BY DEF RowsInv, OrderedIsGone, OrderedOnce
<1> QED
  BY <1>2, <1>3 DEF RowsInv

LEMMA RowsStay ==
  ASSUME RowsInv, UNCHANGED <<cart, now, orders>>
  PROVE  RowsInv'
BY NothingOpens DEF RowsInv

(* findOrCreateActiveCart() takes the key of expired carts only.            *)
LEMMA RetiredFacts ==
  ASSUME RowsInv
  PROVE  /\ Retired \in [CartIds -> CartType]
         /\ \A i \in CartIds : /\ Retired[i].exists = cart[i].exists
                               /\ Retired[i].expires = cart[i].expires
                               /\ Retired[i].active = cart[i].active \/ cart[i].expires <= now
<1>1. \A r \in CartType : /\ [r EXCEPT !.active = FALSE] \in CartType
                          /\ [r EXCEPT !.active = FALSE].exists = r.exists
                          /\ [r EXCEPT !.active = FALSE].expires = r.expires
  BY DEF CartType
<1>2. \A i \in CartIds : cart[i] \in CartType
  BY DEF RowsInv
<1>3. ASSUME NEW i \in CartIds
      PROVE  /\ Retired[i] \in CartType
             /\ Retired[i].exists = cart[i].exists
             /\ Retired[i].expires = cart[i].expires
             /\ Retired[i].active = cart[i].active \/ cart[i].expires <= now
  BY <1>1, <1>2 DEF Retired
<1>4. Retired \in [CartIds -> CartType]
  BY <1>3 DEF Retired
<1> QED
  BY <1>3, <1>4

(* Writing the quantity of an item changes neither the key nor the expiry.  *)
LEMMA ItemWritten ==
  ASSUME RowsInv, NEW i \in CartIds, NEW p, NEW n \in Int,
         cart' = [cart EXCEPT ![i].items[p] = n], UNCHANGED <<now, orders>>
  PROVE  RowsInv'
<1>1. cart[i] \in CartType
  BY DEF RowsInv
<1> DEFINE items == [cart[i].items EXCEPT ![p] = n]
           row == [cart[i] EXCEPT !.items = items]
<1>2. items \in [Products -> Int]
  BY <1>1 DEF CartType
<1>3. cart' = [cart EXCEPT ![i] = row]
  OBVIOUS
<1> HIDE DEF items
<1>4. row \in CartType
  BY <1>1, <1>2 DEF CartType
<1>5. row.exists = cart[i].exists /\ row.expires = cart[i].expires /\ row.active = cart[i].active
  BY <1>1 DEF CartType
<1> HIDE DEF row
<1>6. cart' \in [CartIds -> CartType]
  BY <1>3, <1>4 DEF RowsInv
<1>7. \A j \in CartIds : /\ cart'[j].exists = cart[j].exists
                         /\ cart'[j].expires = cart[j].expires
                         /\ cart'[j].active = cart[j].active
  BY <1>3, <1>5 DEF RowsInv
<1> QED
  BY <1>6, <1>7, NothingOpens DEF RowsInv

-----------------------------------------------------------------------------
(* The steps that write a cart or read one                                  *)

LEMMA ResolvedOps ==
  ASSUME OpsInv, NEW h \in Handlers, NEW i \in CartIds, op[h].product \in Products,
         Resolved(h, i), UNCHANGED stock
  PROVE  OpsInv'
<1> DEFINE r == [op[h] EXCEPT !.pc = "add", !.cart = i]
<1>1. r \in OpType
  BY DEF OpsInv, OpType, Steps
<1> HIDE DEF r
<1>2. Become(h, r) \/ Become(h, IdleOp)
  BY DEF Resolved, r
<1> QED
  BY <1>1, <1>2, IdleTyped, Becomes

LEMMA LocateKeeps ==
  ASSUME Inv, NEW h \in Handlers, Locate(h)
  PROVE  Inv'
<1>1. RowsInv'
  BY RowsStay DEF Inv, Locate
<1>2. op[h] \in OpType /\ op[h].product \in Products /\ op[h].cart \in CartIds \cup {0}
  BY DEF Inv, OpsInv, OpType, Locate
<1>3. ASSUME NEW i \in CartIds, Resolved(h, i)
      PROVE  OpsInv'
  BY <1>2, <1>3, ResolvedOps DEF Inv, Locate
<1>4. ASSUME Become(h, IdleOp)
      PROVE  OpsInv'
  BY <1>4, IdleTyped, Becomes DEF Inv, Locate
<1>5. ASSUME Become(h, [op[h] EXCEPT !.pc = "create"])
      PROVE  OpsInv'
  <2>1. [op[h] EXCEPT !.pc = "create"] \in OpType
    BY <1>2 DEF OpType, Steps
  <2> QED
    BY <1>5, <2>1, Becomes DEF Inv, Locate
<1>6. \/ \E i \in CartIds : Resolved(h, i)
      \/ Become(h, IdleOp)
      \/ Become(h, [op[h] EXCEPT !.pc = "create"])
  BY <1>2 DEF Locate, FoundActive
<1> QED
  BY <1>1, <1>3, <1>4, <1>5, <1>6 DEF Inv

(* A new cart is created only when no cart is open.                         *)
LEMMA CreateKeeps ==
  ASSUME Inv, NEW h \in Handlers, Create(h)
  PROVE  Inv'
<1>0. op[h].product \in Products /\ UNCHANGED <<now, stock, orders>>
  BY DEF Inv, OpsInv, OpType, Create
<1>1. ASSUME NEW i \in Reuse, cart' = Retired, Resolved(h, i)
      PROVE  Inv'
  <2>1. i \in CartIds
    BY DEF Reuse, FoundActive
  <2>2. RowsInv'
    BY <1>0, <1>1, RetiredFacts, NothingOpens DEF Inv, RowsInv
  <2> QED
    BY <1>0, <1>1, <2>1, <2>2, ResolvedOps DEF Inv
<1>2. ASSUME Reuse = {}, NEW i \in CartIds, cart[i].expires = 0, Resolved(h, i),
             cart' = [Retired EXCEPT ![i] = [exists |-> TRUE, active |-> TRUE,
                                             expires |-> now + TTL, items |-> NoItems]]
      PROVE  Inv'
  <2> DEFINE new == [exists |-> TRUE, active |-> TRUE, expires |-> now + TTL, items |-> NoItems]
  <2>1. new \in CartType /\ new.exists /\ new.active /\ new.expires # 0
    BY CartAssumption DEF CartType, NoItems, Inv, RowsInv
  <2> HIDE DEF new
  <2>2. /\ cart' \in [CartIds -> CartType] /\ cart'[i] = new
        /\ \A j \in CartIds \ {i} : cart'[j] = Retired[j]
    BY <1>2, <2>1, RetiredFacts DEF Inv, new
  <2>3. \A j \in CartIds : ~Open(j)
    BY <1>2 DEF Reuse, FoundActive, Inv, RowsInv, OneOpenCart
  <2>4. \A j \in CartIds : Open(j)' => j = i
    BY <1>0, <2>2, <2>3, RetiredFacts DEF Open, Inv
  <2>5. OneOpenCart'
    BY <2>1, <2>2, <2>4 DEF OneOpenCart
  <2>6. ~cart[i].exists /\ \A o \in orders : o.cart # i
    BY <1>2 DEF Inv, RowsInv, OrderedIsGone
  <2>7. OrderedIsGone'
    BY <1>0, <2>1, <2>2, <2>6, RetiredFacts DEF Inv, RowsInv, OrderedIsGone
  <2>8. RowsInv'
    BY <1>0, <2>2, <2>5, <2>7 DEF Inv, RowsInv, OrderedOnce
  <2> QED
    BY <1>0, <1>2, <2>8, ResolvedOps DEF Inv
<1> QED
  BY <1>1, <1>2 DEF Create

(* The writes of quantities.                                                *)
LEMMA QuantityKeeps ==
  ASSUME Inv, NEW h \in Handlers, Add(h) \/ Replace(h) \/ Delete(h)
  PROVE  Inv'
<1>1. /\ op[h].cart \in CartIds /\ op[h].product \in Products /\ op[h].qty \in Int
      /\ cart[op[h].cart].items[op[h].product] \in Int
  BY DEF Inv, OpsInv, OpType, RowsInv, CartType, Add, Replace, Delete
<1>2. Become(h, IdleOp) /\ UNCHANGED <<now, stock, orders>>
  BY DEF Add, Replace, Delete
<1>3. Incremented(h) \in Int
  BY <1>1 DEF Incremented
<1>4. \/ \E n \in Int : cart' = [cart EXCEPT ![op[h].cart].items[op[h].product] = n]
      \/ cart' = cart
  <2>1. CASE Add(h)
    BY <1>3, <2>1 DEF Add
  <2>2. CASE Replace(h)
    BY <1>1, <2>2 DEF Replace
  <2>3. CASE Delete(h)
    <3>1. cart' = [cart EXCEPT ![op[h].cart].items[op[h].product] = 0] /\ 0 \in Int
      BY <2>3 DEF Delete
    <3> QED
      BY <3>1
  <2> QED
    BY <2>1, <2>2, <2>3
<1>5. RowsInv'
  BY <1>1, <1>2, <1>4, ItemWritten, RowsStay DEF Inv
<1> QED
  BY <1>2, <1>5, IdleTyped, Becomes DEF Inv

(* The checkout deletes the cart it orders, and fails when it is gone.      *)
LEMMA PlaceOrderKeeps ==
  ASSUME Inv, NEW h \in Handlers, PlaceOrder(h)
  PROVE  Inv'
<1> DEFINE i == op[h].cart
           o == [by |-> h, cart |-> i, lines |-> op[h].lines]
           row == [cart[i] EXCEPT !.exists = FALSE, !.active = FALSE, !.items = NoItems]
<1>1. /\ i \in CartIds /\ op[h].lines \in [Products -> Int] /\ Become(h, IdleOp)
      /\ UNCHANGED <<now, stock>>
  BY DEF Inv, OpsInv, OpType, PlaceOrder
<1>2. CASE ~cart[i].exists
  <2>1. UNCHANGED <<cart, now, orders>>
    BY <1>1, <1>2 DEF PlaceOrder, CartStillThere
  <2> QED
    BY <1>1, <2>1, RowsStay, IdleTyped, Becomes DEF Inv
<1>3. CASE cart[i].exists
  <2>1. orders' = orders \cup {o} /\ cart' = [cart EXCEPT ![i] = row]
    BY <1>3 DEF PlaceOrder, CartStillThere
  <2>2. row \in CartType /\ ~row.exists /\ row.expires = cart[i].expires
    <3>1. cart[i] \in CartType
      BY <1>1 DEF Inv, RowsInv
    <3>2. ~row.exists /\ row.expires = cart[i].expires
      BY <3>1 DEF CartType
    <3>3. row \in CartType
      BY <3>1, NoItemsTyped DEF CartType
    <3> QED
      BY <3>2, <3>3
  <2> HIDE DEF row
  <2>3. /\ cart' \in [CartIds -> CartType] /\ cart'[i] = row
        /\ \A j \in CartIds \ {i} : cart'[j] = cart[j]
    BY <1>1, <2>1, <2>2 DEF Inv, RowsInv
  <2>4. OneOpenCart'
    <3>1. \A j \in CartIds : Open(j)' => Open(j) /\ cart'[j] = cart[j]
      BY <1>1, <2>2, <2>3 DEF Open
    <3> QED
      BY <3>1 DEF Inv, RowsInv, OneOpenCart
  <2>5. o \in [by : Handlers, cart : CartIds, lines : [Products -> Int]] /\ o.cart = i
    BY <1>1
  <2> HIDE DEF o
  <2>6. OrderedIsGone'
    BY <1>3, <2>1, <2>2, <2>3, <2>5 DEF Inv, RowsInv, OrderedIsGone
  <2>7. OrderedOnce'
    BY <1>3, <2>1, <2>5 DEF Inv, RowsInv, OrderedIsGone, OrderedOnce
  <2>8. RowsInv'
    BY <1>1, <2>3, <2>4, <2>6, <2>7 DEF Inv, RowsInv
  <2> QED
    BY <1>1, <2>8, IdleTyped, Becomes DEF Inv
<1> QED
  BY <1>2, <1>3

-----------------------------------------------------------------------------
(* The steps that start a request, ask the catalog, or give up              *)

LEMMA BeginAddKeeps ==
  ASSUME Inv, NEW h \in Handlers, NEW p \in Products, NEW q \in 1..MaxQuantity,
         NEW i \in CartIds \cup {0}, BeginAdd(h, p, q, i)
  PROVE  Inv'
<1> DEFINE r == [IdleOp EXCEPT !.pc = "locate", !.product = p, !.qty = q, !.cart = i, !.seen = stock[p]]
<1>1. q \in Int /\ stock[p] \in Int /\ IdleOp.lines \in [Products -> Int]
  BY CartAssumption, NoItemsTyped DEF IdleOp, Inv, OpsInv
<1>2. r \in OpType
  BY <1>1, IdleTyped DEF OpType, Steps
<1>3. Become(h, r)
  BY DEF BeginAdd
<1> HIDE DEF r
<1> QED
  BY <1>2, <1>3, RowsStay, Becomes DEF Inv, BeginAdd

LEMMA BeginUpdateKeeps ==
  ASSUME Inv, NEW h \in Handlers, NEW p \in Products, NEW q \in 1..MaxQuantity,
         NEW i \in CartIds, BeginUpdate(h, p, q, i)
  PROVE  Inv'
<1> DEFINE r == [IdleOp EXCEPT !.pc = "price", !.product = p, !.qty = q, !.cart = i]
<1>1. q \in Int /\ IdleOp.lines \in [Products -> Int]
  BY CartAssumption, NoItemsTyped DEF IdleOp, Inv, OpsInv
<1>2. r \in OpType
  BY <1>1, IdleTyped DEF OpType, Steps
<1>3. Become(h, r)
  BY DEF BeginUpdate
<1> HIDE DEF r
<1> QED
  BY <1>2, <1>3, RowsStay, Becomes DEF Inv, BeginUpdate

LEMMA BeginDeleteKeeps ==
  ASSUME Inv, NEW h \in Handlers, NEW p \in Products, NEW i \in CartIds, BeginDelete(h, p, i)
  PROVE  Inv'
<1> DEFINE r == [IdleOp EXCEPT !.pc = "delete", !.product = p, !.cart = i]
<1>1. 0 \in Int /\ IdleOp.lines \in [Products -> Int]
  BY CartAssumption, NoItemsTyped DEF IdleOp, Inv, OpsInv
<1>2. r \in OpType
  BY <1>1, IdleTyped DEF OpType, Steps
<1>3. Become(h, r)
  BY DEF BeginDelete
<1> HIDE DEF r
<1> QED
  BY <1>2, <1>3, RowsStay, Becomes DEF Inv, BeginDelete

LEMMA CatalogKeeps ==
  ASSUME Inv, NEW h \in Handlers, Price(h) \/ Validate(h) \/ GiveUp(h) \/ BeginCheckout(h)
  PROVE  Inv'
<1>1. UNCHANGED <<cart, now, stock, orders>> /\ op[h] \in OpType
  BY DEF Price, Validate, GiveUp, Reject, BeginCheckout, Inv, OpsInv
<1>2. \E r \in OpType : Become(h, r)
  <2>1. CASE Price(h)
    <3>1. [op[h] EXCEPT !.pc = "replace"] \in OpType
      BY <1>1, <2>1 DEF Price, OpType, Steps
    <3> QED
      BY <2>1, <3>1 DEF Price
  <2>2. CASE Validate(h)
    <3>1. PICK p \in op[h].todo :
            Become(h, [op[h] EXCEPT !.todo = @ \ {p},
                                    !.pc = IF op[h].todo = {p} THEN "order" ELSE "validate"])
      BY <2>2 DEF Validate
    <3>2. [op[h] EXCEPT !.todo = @ \ {p}, !.pc = IF op[h].todo = {p} THEN "order" ELSE "validate"]
            \in OpType
      BY <1>1, <2>2 DEF Validate, OpType, Steps
    <3> QED
      BY <3>1, <3>2
  <2>3. CASE GiveUp(h)
    BY <2>3, IdleTyped DEF GiveUp, Reject
  <2>4. CASE BeginCheckout(h)
    <3>1. PICK i \in CartIds :
            Become(h, [IdleOp EXCEPT !.pc = "validate", !.cart = i, !.lines = cart[i].items,
                                     !.todo = {p \in Products : cart[i].items[p] > 0}])
      BY <2>4 DEF BeginCheckout, FoundActive
    <3>2. cart[i].items \in [Products -> Int]
      BY DEF Inv, RowsInv, CartType
    <3>3. [IdleOp EXCEPT !.pc = "validate", !.cart = i, !.lines = cart[i].items,
                         !.todo = {p \in Products : cart[i].items[p] > 0}] \in OpType
      <4> DEFINE todo == {p \in Products : cart[i].items[p] > 0}
      <4>1. todo \in SUBSET Products
        OBVIOUS
      <4> HIDE DEF todo
      <4>2. [IdleOp EXCEPT !.pc = "validate", !.cart = i, !.lines = cart[i].items, !.todo = todo]
              \in OpType
        BY <3>2, <4>1, IdleTyped DEF OpType, Steps
      <4> QED
        BY <4>2 DEF todo
    <3> QED
      BY <3>1, <3>3
  <2> QED
    BY <2>1, <2>2, <2>3, <2>4
<1> QED
  BY <1>1, <1>2, RowsStay, Becomes DEF Inv

LEMMA StepInv == Inv /\ [CartNext]_cartVars => Inv'
<1> SUFFICES ASSUME Inv, [CartNext]_cartVars
             PROVE  Inv'
  OBVIOUS
<1>1. CASE UNCHANGED cartVars
  BY <1>1, RowsStay DEF cartVars, Inv, OpsInv
<1>2. CASE Tick
  BY <1>2, NothingOpens DEF Tick, Inv, RowsInv, OpsInv
<1>3. ASSUME NEW p \in Products, NEW n \in 0..MaxStock, SetStock(p, n)
      PROVE  Inv'
  BY <1>3, RowsStay, CartAssumption DEF SetStock, Inv, OpsInv
<1>4. ASSUME NEW h \in Handlers, NEW p \in Products, NEW q \in 1..MaxQuantity,
             NEW i \in CartIds \cup {0},
             BeginAdd(h, p, q, i) \/ (i \in CartIds /\ BeginUpdate(h, p, q, i))
      PROVE  Inv'
  BY <1>4, BeginAddKeeps, BeginUpdateKeeps
<1> QED
  BY <1>1, <1>2, <1>3, <1>4, BeginDeleteKeeps, LocateKeeps, CreateKeeps, QuantityKeeps, CatalogKeeps,
     PlaceOrderKeeps DEF CartNext

LEMMA Invariance == CartSpec => []Inv
BY InitInv, StepInv, PTL DEF CartSpec

-----------------------------------------------------------------------------
(* However requests race in findOrCreateActiveCart(), one cart at most is   *)
(* open, and it is the one that checkouts find.                             *)
THEOREM OneCart == CartSpec => []OneOpenCart
<1>1. Inv => OneOpenCart
  BY DEF Inv, RowsInv
<1> QED
  BY <1>1, Invariance, PTL

(* However checkouts race, tx.cart.delete() lets one of them order a cart.  *)
THEOREM CartOrderedOnce == CartSpec => []OrderedOnce
<1>1. Inv => OrderedOnce
  BY DEF Inv, RowsInv
<1> QED
  BY <1>1, Invariance, PTL

(* No update that is under way brings a deleted item back:                  *)
(* replaceItemQuantity() is an updateMany().                                *)
THEOREM NoResurrection == CartSpec => UpdateNeverResurrects
<1> DEFINE A == \A h \in Handlers, i \in CartIds, p \in Products :
                  op[h].pc = "replace" /\ op'[h].pc = "idle" /\ cart[i].items[p] = 0
                    => cart'[i].items[p] = 0
<1>1. Inv /\ [CartNext]_cartVars => [A]_cartVars
  <2> SUFFICES ASSUME Inv, CartNext, NEW h \in Handlers, NEW i \in CartIds, NEW p \in Products,
                      op[h].pc = "replace", op'[h].pc = "idle", cart[i].items[p] = 0
               PROVE  cart'[i].items[p] = 0
    OBVIOUS
  <2>1. ASSUME NEW g \in Handlers, NEW r, Become(g, r), g # h
        PROVE  FALSE
    BY <2>1 DEF Become, Inv, OpsInv
  <2>2. UNCHANGED cart \/ Replace(h)
    <3>1. CASE Tick \/ \E q \in Products, n \in 0..MaxStock : SetStock(q, n)
      BY <3>1 DEF Tick, SetStock
    <3>2. ASSUME NEW g \in Handlers, Create(g) \/ Add(g) \/ Delete(g) \/ PlaceOrder(g)
          PROVE  FALSE
      <4>1. g # h
        BY <3>2 DEF Create, Add, Delete, PlaceOrder
      <4>2. \E r : Become(g, r)
        BY <3>2 DEF Create, Resolved, Add, Delete, PlaceOrder
      <4> QED
        BY <2>1, <4>1, <4>2
    <3>3. ASSUME NEW g \in Handlers, Replace(g)
          PROVE  g = h
      BY <2>1, <3>3 DEF Replace
    <3>4. ASSUME NEW g \in Handlers, Locate(g) \/ Price(g) \/ BeginCheckout(g) \/ Validate(g) \/ GiveUp(g)
          PROVE  UNCHANGED cart
      BY <3>4 DEF Locate, Price, BeginCheckout, Validate, GiveUp, Reject
    <3>5. ASSUME NEW g \in Handlers, NEW a \in Products, NEW q \in 1..MaxQuantity,
                 NEW j \in CartIds \cup {0},
                 BeginAdd(g, a, q, j) \/ BeginUpdate(g, a, q, j) \/ BeginDelete(g, a, j)
          PROVE  UNCHANGED cart
      BY <3>5 DEF BeginAdd, BeginUpdate, BeginDelete
    <3>6. ASSUME NEW g \in Handlers, NEW a \in Products, NEW j \in CartIds, BeginDelete(g, a, j)
          PROVE  UNCHANGED cart
      BY <3>6 DEF BeginDelete
    <3> QED
      BY <3>1, <3>2, <3>3, <3>4, <3>5, <3>6 DEF CartNext
  <2>3. CASE Replace(h)
    <3> DEFINE c == op[h].cart
               a == op[h].product
    <3>1. CASE RowExists(c, a)
      <4>1. cart' = [cart EXCEPT ![c].items[a] = op[h].qty] /\ cart[c].items[a] > 0
        BY <2>3, <3>1 DEF Replace, RowExists
      <4>2. ~(c = i /\ a = p)
        BY <4>1
      <4>3. cart[i] \in CartType /\ c \in CartIds
        BY <2>3 DEF Inv, RowsInv, OpsInv, OpType, Replace
      <4>4. cart'[i].items[p] = cart[i].items[p]
        BY <4>1, <4>2, <4>3 DEF Inv, RowsInv, CartType
      <4> QED
        BY <4>4
    <3>2. CASE ~RowExists(c, a)
      BY <2>3, <3>2 DEF Replace
    <3> QED
      BY <3>1, <3>2
  <2> QED
    BY <2>2, <2>3
<1> QED
  BY <1>1, Invariance, PTL DEF CartSpec, UpdateNeverResurrects
-----------------------------------------------------------------------------
(* How far racing adds can exceed the stock                                 *)

(* Several adds may be checked against the same stock before one of them is *)
(* written. Of those that still have to write, one was checked last, with   *)
(* the quantity of that moment: above it the cart has grown by the writes   *)
(* of the others at most.                                                   *)
HowMany == Cardinality(Handlers)
Room(k) == MaxStock + k * MaxQuantity
Fits(A, q, n) ==
  \/ A = {} /\ n <= Room(HowMany - 1)
  \/ \E h \in A : n + q[h] <= Room(HowMany - Cardinality(A))

Quantity == [Handlers -> 0..MaxQuantity]

LEMMA RoomFacts ==
  /\ HowMany \in Nat \ {0}
  /\ MaxStock \in Nat /\ MaxQuantity \in Nat
  /\ \A k \in Nat : /\ Room(k) \in Nat
                    /\ Room(k + 1) = Room(k) + MaxQuantity
                    /\ MaxStock <= Room(k)
                    /\ Room(k) <= Room(k + 1)
  /\ MaxItem = Room(HowMany - 1)
<1>1. MaxStock \in Nat /\ MaxQuantity \in Nat
  BY CartAssumption
<1>2. HowMany \in Nat \ {0}
  BY CartAssumption, FS_CardinalityType, FS_EmptySet DEF HowMany
<1>3. ASSUME NEW k \in Nat
      PROVE  k * MaxQuantity \in Nat /\ (k + 1) * MaxQuantity = k * MaxQuantity + MaxQuantity
  BY <1>1
<1>4. ASSUME NEW k \in Nat
      PROVE  /\ Room(k) \in Nat
             /\ Room(k + 1) = Room(k) + MaxQuantity
             /\ MaxStock <= Room(k)
             /\ Room(k) <= Room(k + 1)
  BY <1>1, <1>3 DEF Room
<1> QED
  BY <1>1, <1>2, <1>4 DEF MaxItem, Room, HowMany

LEMMA RoomGrows ==
  ASSUME NEW k \in Nat, NEW l \in Nat, k <= l
  PROVE  Room(k) <= Room(l)
<1>1. MaxQuantity \in Nat /\ MaxStock \in Nat /\ l - k \in Nat
  BY RoomFacts
<1>2. /\ k * MaxQuantity \in Nat /\ (l - k) * MaxQuantity \in Nat
      /\ l * MaxQuantity = k * MaxQuantity + (l - k) * MaxQuantity
  BY <1>1
<1> QED
  BY <1>1, <1>2 DEF Room

LEMMA RoomLeft ==
  ASSUME NEW A \in SUBSET Handlers
  PROVE  /\ IsFiniteSet(A)
         /\ Cardinality(A) \in Nat
         /\ HowMany - Cardinality(A) \in Nat
         /\ A # {} => Cardinality(A) # 0
         /\ A # Handlers => HowMany - Cardinality(A) # 0
<1>1. IsFiniteSet(Handlers) /\ IsFiniteSet(A)
  BY CartAssumption, FS_Subset
<1>2. Cardinality(A) \in Nat /\ HowMany \in Nat
  BY <1>1, FS_CardinalityType DEF HowMany
<1>3. Cardinality(A) <= HowMany /\ (HowMany = Cardinality(A) => A = Handlers)
  BY <1>1, FS_Subset DEF HowMany
<1>4. A # {} => Cardinality(A) # 0
  BY <1>1, FS_EmptySet
<1> QED
  BY <1>1, <1>2, <1>3, <1>4

LEMMA FitsLess ==
  ASSUME NEW A \in SUBSET Handlers, NEW q \in Quantity, NEW n \in Nat, NEW m \in Nat,
         m <= n, Fits(A, q, n)
  PROVE  Fits(A, q, m)
<1>1. Room(HowMany - 1) \in Nat /\ Room(HowMany - Cardinality(A)) \in Nat
  BY RoomFacts, RoomLeft
<1>2. \A h \in A : q[h] \in Nat
  BY RoomFacts DEF Quantity
<1> QED
  BY <1>1, <1>2 DEF Fits

LEMMA FitsSame ==
  ASSUME NEW A \in SUBSET Handlers, NEW q \in Quantity, NEW r \in Quantity,
         \A h \in A : r[h] = q[h], NEW n \in Nat, Fits(A, q, n)
  PROVE  Fits(A, r, n)
BY DEF Fits

(* Below the bound of TypeOK, however many adds still have to write.        *)
LEMMA FitsBound ==
  ASSUME NEW A \in SUBSET Handlers, NEW q \in Quantity, NEW n \in Nat, Fits(A, q, n)
  PROVE  n <= MaxItem
<1>1. CASE A = {} /\ n <= Room(HowMany - 1)
  BY <1>1, RoomFacts
<1>2. ASSUME NEW h \in A, n + q[h] <= Room(HowMany - Cardinality(A))
      PROVE  n <= MaxItem
  <2> DEFINE k == HowMany - Cardinality(A)
  <2>1. k \in Nat /\ k <= HowMany - 1 /\ HowMany - 1 \in Nat
    BY RoomLeft, RoomFacts
  <2>2. n <= Room(k)
    BY <1>2, <2>1, RoomFacts DEF Quantity
  <2> HIDE DEF k
  <2>3. Room(k) <= Room(HowMany - 1)
    BY <2>1, RoomGrows
  <2> QED
    BY <2>1, <2>2, <2>3, RoomFacts
<1> QED
  BY <1>1, <1>2 DEF Fits

(* The check of an add: what is in the cart and what is added fit the stock. *)
LEMMA FitsJoin ==
  ASSUME NEW A \in SUBSET Handlers, NEW q \in Quantity, NEW n \in Nat,
         NEW h \in Handlers, n + q[h] <= MaxStock
  PROVE  Fits(A \cup {h}, q, n)
<1>1. MaxStock <= Room(HowMany - Cardinality(A \cup {h})) /\ n + q[h] \in Nat
      /\ Room(HowMany - Cardinality(A \cup {h})) \in Nat
  BY RoomFacts, RoomLeft DEF Quantity
<1> QED
  BY <1>1, RoomFacts DEF Fits

(* The write of an add. *)
LEMMA FitsAdd ==
  ASSUME NEW A \in SUBSET Handlers, NEW q \in Quantity, NEW n \in Nat,
         NEW h \in A, Fits(A, q, n)
  PROVE  Fits(A \ {h}, q, n + q[h])
<1> DEFINE k == HowMany - Cardinality(A)
           B == A \ {h}
<1>1. k \in Nat /\ k + 1 = HowMany - Cardinality(B)
  BY RoomLeft, RoomFacts, FS_RemoveElement
<1>2. q[h] \in Nat /\ (\A g \in A : q[g] \in Nat /\ q[g] <= MaxQuantity)
  BY RoomFacts DEF Quantity
<1>3. PICK g \in A : n + q[g] <= Room(k)
  BY DEF Fits
<1>4. Room(k) \in Nat /\ Room(k + 1) = Room(k) + MaxQuantity /\ MaxQuantity \in Nat
  BY <1>1, RoomFacts
<1> HIDE DEF k
<1>5. CASE g # h
  <2>1. (n + q[h]) + q[g] <= Room(k + 1) /\ g \in B
    BY <1>2, <1>3, <1>4, <1>5
  <2> QED
    BY <1>1, <2>1 DEF Fits
<1>6. CASE g = h /\ B # {}
  <2>1. PICK f \in B : TRUE
    BY <1>6
  <2>2. (n + q[h]) + q[f] <= Room(k + 1)
    BY <1>2, <1>3, <1>4, <1>6
  <2> QED
    BY <1>1, <2>2 DEF Fits
<1>7. CASE g = h /\ B = {}
  <2>1. Cardinality(B) = 0
    BY <1>7, FS_EmptySet
  <2>2. k = HowMany - 1
    BY <1>1, <2>1, RoomFacts
  <2> QED
    BY <1>3, <1>7, <2>2 DEF Fits
<1> QED
  BY <1>5, <1>6, <1>7

LEMMA FitsLeave ==
  ASSUME NEW A \in SUBSET Handlers, NEW q \in Quantity, NEW n \in Nat, NEW h, Fits(A, q, n)
  PROVE  Fits(A \ {h}, q, n)
<1>1. CASE h \in A
  <2>1. Fits(A \ {h}, q, n + q[h]) /\ A \ {h} \in SUBSET Handlers
    BY <1>1, FitsAdd
  <2>3. q[h] \in Nat
    BY <1>1, RoomFacts DEF Quantity
  <2>2. n + q[h] \in Nat /\ n <= n + q[h]
    BY <2>3
  <2> QED
    BY <2>1, <2>2, FitsLess
<1>2. CASE h \notin A
  <2>1. A \ {h} = A
    BY <1>2
  <2> QED
    BY <2>1
<1> QED
  BY <1>1, <1>2

(* A quantity within the stock, written by someone who does not add.        *)
LEMMA FitsReplaced ==
  ASSUME NEW A \in SUBSET Handlers, A # Handlers, NEW q \in Quantity, NEW n \in Nat,
         n <= MaxStock
  PROVE  Fits(A, q, n)
<1>1. CASE A = {}
  <2>1. HowMany - 1 \in Nat
    BY RoomFacts
  <2>2. MaxStock <= Room(HowMany - 1) /\ Room(HowMany - 1) \in Nat
    BY <2>1, RoomFacts
  <2> QED
    BY <1>1, <2>2, RoomFacts DEF Fits
<1>2. CASE A # {}
  <2> DEFINE k == HowMany - Cardinality(A) - 1
  <2>1. k \in Nat /\ k + 1 = HowMany - Cardinality(A)
    BY RoomLeft, RoomFacts
  <2>2. PICK h \in A : TRUE
    BY <1>2
  <2>3. q[h] \in Nat /\ q[h] <= MaxQuantity
    BY RoomFacts DEF Quantity
  <2> HIDE DEF k
  <2>4. MaxStock <= Room(k) /\ Room(k) \in Nat /\ Room(k + 1) = Room(k) + MaxQuantity
    BY <2>1, RoomFacts
  <2>5. n + q[h] <= Room(k + 1)
    BY <2>3, <2>4, RoomFacts
  <2> QED
    BY <2>1, <2>5 DEF Fits
<1> QED
  BY <1>1, <1>2

Adding(i, p) == {h \in Handlers : op[h].pc = "add" /\ op[h].cart = i /\ op[h].product = p}
Quantities == [h \in Handlers |-> op[h].qty]

(* What TypeOK bounds, and what the bound on the quantities rests on.       *)
Bounded(r) ==
  /\ r.qty \in 0..MaxQuantity
  /\ r.seen \in 0..MaxStock
  /\ r.lines \in Items
  /\ r.pc = "replace" => r.qty <= MaxStock
OpBounds == \A h \in Handlers : Bounded(op[h])
(* The check of an add, at the moment it is made.                           *)
Checked(r) == r.pc = "add" => cart[r.cart].items[r.product] + r.qty <= MaxStock
CartBounds ==
  /\ now <= MaxTime
  /\ stock \in [Products -> 0..MaxStock]
  /\ \A o \in orders : o.lines \in Items
  /\ \A i \in CartIds : cart[i].expires <= MaxTime + TTL
  /\ \A i \in CartIds, p \in Products : cart[i].items[p] \in Nat
  /\ \A i \in CartIds, p \in Products : cart[i].expires = 0 => cart[i].items[p] = 0
QuantityFits ==
  \A i \in CartIds, p \in Products : Fits(Adding(i, p), Quantities, cart[i].items[p])

BoundedInv == Inv /\ OpBounds /\ CartBounds /\ QuantityFits

LEMMA QuantitiesTyped ==
  ASSUME OpBounds
  PROVE  Quantities \in Quantity /\ \A h \in Handlers : Quantities[h] = op[h].qty
BY DEF OpBounds, Bounded, Quantities, Quantity

(* Every quantity in a cart is within the bound.                            *)
LEMMA CartItems ==
  ASSUME BoundedInv, NEW i \in CartIds
  PROVE  cart[i].items \in Items
<1>1. cart[i].items \in [Products -> Int]
  BY DEF BoundedInv, Inv, RowsInv, CartType
<1>2. ASSUME NEW p \in Products PROVE cart[i].items[p] \in 0..MaxItem
  <2>1. /\ Adding(i, p) \in SUBSET Handlers
        /\ cart[i].items[p] \in Nat
        /\ Fits(Adding(i, p), Quantities, cart[i].items[p])
    BY DEF BoundedInv, CartBounds, QuantityFits, Adding
  <2>2. cart[i].items[p] <= MaxItem
    BY <2>1, QuantitiesTyped, FitsBound DEF BoundedInv
  <2>3. HowMany - 1 \in Nat /\ MaxItem = Room(HowMany - 1)
    BY RoomFacts
  <2>4. MaxItem \in Nat
    BY <2>3, RoomFacts
  <2> QED
    BY <2>1, <2>2, <2>4
<1> QED
  BY <1>1, <1>2 DEF Items

LEMMA NoItemsWithin == NoItems \in Items /\ MaxItem \in Nat
<1>1. HowMany - 1 \in Nat /\ MaxItem = Room(HowMany - 1)
  BY RoomFacts
<1>2. MaxItem \in Nat
  BY <1>1, RoomFacts
<1> QED
  BY <1>2 DEF NoItems, Items

LEMMA IdleWithin == IdleOp \in OpType /\ Bounded(IdleOp) /\ Checked(IdleOp)
BY IdleTyped, RoomFacts, NoItemsWithin DEF IdleOp, Bounded, Checked

(* A request that moves on to r.                                            *)
LEMMA OpMoves ==
  ASSUME OpsInv, OpBounds, NEW h \in Handlers, NEW r \in OpType, Become(h, r), Bounded(r)
  PROVE  /\ OpBounds'
         /\ \A g \in Handlers : g # h => Quantities'[g] = Quantities[g]
         /\ Quantities'[h] = r.qty
         /\ Quantities' \in Quantity
         /\ \A i \in CartIds, p \in Products :
              Adding(i, p)' = IF r.pc = "add" /\ r.cart = i /\ r.product = p
                              THEN Adding(i, p) \cup {h} ELSE Adding(i, p) \ {h}
<1>1. op'[h] = r /\ \A g \in Handlers : g # h => op'[g] = op[g]
  BY DEF Become, OpsInv
<1>2. OpBounds'
  BY <1>1 DEF OpBounds, Bounded
<1>3. /\ \A g \in Handlers : g # h => Quantities'[g] = Quantities[g]
      /\ Quantities'[h] = r.qty
  BY <1>1 DEF Quantities
<1>4. Quantities' \in Quantity
  BY <1>2 DEF OpBounds, Bounded, Quantities, Quantity
<1>5. \A i \in CartIds, p \in Products :
        Adding(i, p)' = IF r.pc = "add" /\ r.cart = i /\ r.product = p
                        THEN Adding(i, p) \cup {h} ELSE Adding(i, p) \ {h}
  BY <1>1 DEF Adding
<1> QED
  BY <1>2, <1>3, <1>4, <1>5

(* A request that moves on without writing more: it leaves the adds, or it  *)
(* joins them after its check.                                              *)
LEMMA QuietFits ==
  ASSUME BoundedInv, NEW h \in Handlers, NEW r \in OpType, Become(h, r), Bounded(r), Checked(r),
         NEW i \in CartIds, NEW p \in Products,
         cart'[i].items[p] \in Nat, cart'[i].items[p] <= cart[i].items[p]
  PROVE  Fits(Adding(i, p), Quantities, cart[i].items[p])'
<1> DEFINE A == Adding(i, p)
           q == Quantities
           s == Quantities'
           n == cart[i].items[p]
           m == cart'[i].items[p]
<1>1. /\ A \in SUBSET Handlers /\ q \in Quantity /\ n \in Nat /\ Fits(A, q, n)
      /\ \A g \in Handlers : q[g] = op[g].qty
  BY QuantitiesTyped DEF BoundedInv, CartBounds, QuantityFits, Adding
<1>2. /\ \A g \in Handlers : g # h => s[g] = q[g]
      /\ s[h] = r.qty
      /\ s \in Quantity
      /\ Adding(i, p)' = IF r.pc = "add" /\ r.cart = i /\ r.product = p
                         THEN A \cup {h} ELSE A \ {h}
  BY OpMoves DEF BoundedInv, Inv
<1>3. m \in Nat /\ m <= n
  OBVIOUS
<1> HIDE DEF A, q, s, n, m
<1>4. CASE ~(r.pc = "add" /\ r.cart = i /\ r.product = p)
  <2>1. Fits(A \ {h}, q, m) /\ A \ {h} \in SUBSET Handlers
    BY <1>1, <1>3, FitsLeave, FitsLess
  <2>2. Fits(A \ {h}, s, m)
    BY <1>1, <1>2, <1>3, <2>1, FitsSame
  <2>3. Adding(i, p)' = A \ {h}
    BY <1>2, <1>4
  <2> QED
    BY <2>2, <2>3 DEF Fits, s, m
<1>5. CASE r.pc = "add" /\ r.cart = i /\ r.product = p
  <2>1. n + s[h] <= MaxStock
    BY <1>2, <1>5 DEF n, Checked
  <2>2. m + s[h] <= MaxStock
    <3>1. s[h] \in Nat /\ MaxStock \in Nat
      BY <1>2, RoomFacts DEF Quantity
    <3> QED
      BY <1>1, <1>3, <2>1, <3>1
  <2>3. Fits(A \cup {h}, s, m)
    BY <1>1, <1>2, <1>3, <2>2, FitsJoin
  <2>4. Adding(i, p)' = A \cup {h}
    BY <1>2, <1>5
  <2> QED
    BY <2>3, <2>4 DEF Fits, s, m
<1> QED
  BY <1>4, <1>5

(* A step of one request that puts no more into a cart keeps the bounds.    *)
LEMMA QuietKeeps ==
  ASSUME BoundedInv, Inv', NEW h \in Handlers, NEW r \in OpType, Become(h, r),
         Bounded(r), Checked(r), UNCHANGED <<now, stock>>,
         \A o \in orders' : o.lines \in Items,
         \A i \in CartIds : cart'[i].expires <= MaxTime + TTL,
         \A i \in CartIds, p \in Products :
           /\ cart'[i].items[p] \in Nat
           /\ cart'[i].items[p] <= cart[i].items[p]
           /\ cart'[i].expires = 0 => cart'[i].items[p] = 0
  PROVE  BoundedInv'
<1>1. OpBounds'
  BY OpMoves DEF BoundedInv, Inv
<1>2. CartBounds'
  BY DEF BoundedInv, CartBounds
<1>3. QuantityFits'
  BY QuietFits DEF QuantityFits
<1> QED
  BY <1>1, <1>2, <1>3 DEF BoundedInv

LEMMA OpKeeps ==
  ASSUME BoundedInv, Inv', NEW h \in Handlers, NEW r \in OpType, Become(h, r),
         Bounded(r), Checked(r), UNCHANGED <<cart, now, stock, orders>>
  PROVE  BoundedInv'
<1>1. \A i \in CartIds, p \in Products :
        cart[i].items[p] \in Nat /\ cart[i].items[p] <= cart[i].items[p]
  BY DEF BoundedInv, CartBounds
<1> QED
  BY <1>1, QuietKeeps DEF BoundedInv, CartBounds

LEMMA ResolvedMoves ==
  ASSUME BoundedInv, NEW h \in Handlers, NEW i \in CartIds, op[h].product \in Products,
         Resolved(h, i)
  PROVE  \E r \in OpType : Become(h, r) /\ Bounded(r) /\ Checked(r)
<1> DEFINE r == [op[h] EXCEPT !.pc = "add", !.cart = i]
<1>1. CASE ~FitsStock(h, i)
  BY <1>1, IdleWithin DEF Resolved
<1>2. CASE FitsStock(h, i)
  <2>1. op[h] \in OpType /\ Bounded(op[h])
    BY DEF BoundedInv, Inv, OpsInv, OpBounds
  <2>2. /\ r.pc = "add" /\ r.cart = i /\ r.product = op[h].product
        /\ r.qty = op[h].qty /\ r.seen = op[h].seen /\ r.lines = op[h].lines
    BY <2>1 DEF OpType
  <2>3. r \in OpType
    BY <2>1 DEF OpType, Steps
  <2>4. Become(h, r)
    BY <1>2 DEF Resolved
  <2> HIDE DEF r
  <2>5. Bounded(r)
    BY <2>1, <2>2 DEF Bounded
  <2>6. cart[i].items[op[h].product] \in Nat
    BY DEF BoundedInv, CartBounds
  <2>7. Checked(r)
    BY <1>2, <2>1, <2>2, <2>6, RoomFacts DEF Checked, FitsStock, Bounded
  <2> QED
    BY <2>3, <2>4, <2>5, <2>7
<1> QED
  BY <1>1, <1>2

LEMMA LocateBounds ==
  ASSUME BoundedInv, Inv', NEW h \in Handlers, Locate(h)
  PROVE  BoundedInv'
<1>1. /\ op[h] \in OpType /\ Bounded(op[h]) /\ op[h].product \in Products
      /\ op[h].cart \in CartIds \cup {0}
      /\ UNCHANGED <<cart, now, stock, orders>>
  BY DEF BoundedInv, Inv, OpsInv, OpBounds, OpType, Locate
<1>2. ASSUME NEW i \in CartIds, Resolved(h, i) PROVE BoundedInv'
  BY <1>1, <1>2, ResolvedMoves, OpKeeps
<1>3. ASSUME Become(h, IdleOp) PROVE BoundedInv'
  BY <1>1, <1>3, IdleWithin, OpKeeps
<1>4. ASSUME Become(h, [op[h] EXCEPT !.pc = "create"]) PROVE BoundedInv'
  <2> DEFINE r == [op[h] EXCEPT !.pc = "create"]
  <2>1. /\ r.pc = "create" /\ r.qty = op[h].qty /\ r.seen = op[h].seen
        /\ r.lines = op[h].lines
    BY <1>1 DEF OpType
  <2>2. r \in OpType
    BY <1>1 DEF OpType, Steps
  <2> HIDE DEF r
  <2>3. Bounded(r) /\ Checked(r)
    BY <1>1, <2>1 DEF Bounded, Checked
  <2>4. Become(h, r)
    BY <1>4 DEF r
  <2> QED
    BY <1>1, <2>2, <2>3, <2>4, OpKeeps
<1>5. \/ \E i \in CartIds : Resolved(h, i)
      \/ Become(h, IdleOp)
      \/ Become(h, [op[h] EXCEPT !.pc = "create"])
  BY <1>1 DEF Locate, FoundActive
<1> QED
  BY <1>2, <1>3, <1>4, <1>5

LEMMA CreateBounds ==
  ASSUME BoundedInv, Inv', NEW h \in Handlers, Create(h)
  PROVE  BoundedInv'
<1>1. op[h].product \in Products /\ UNCHANGED <<now, stock, orders>>
  BY DEF BoundedInv, Inv, OpsInv, OpType, Create
<1>2. \A i \in CartIds : Retired[i].items = cart[i].items /\ Retired[i].expires = cart[i].expires
  BY DEF Retired, BoundedInv, Inv, RowsInv, CartType
<1>3. \A o \in orders' : o.lines \in Items
  BY <1>1 DEF BoundedInv, CartBounds
<1>4. ASSUME NEW i \in CartIds, cart' = Retired, Resolved(h, i) PROVE BoundedInv'
  <2>1. /\ \A j \in CartIds : cart'[j].expires <= MaxTime + TTL
        /\ \A j \in CartIds, p \in Products :
             /\ cart'[j].items[p] \in Nat
             /\ cart'[j].items[p] <= cart[j].items[p]
             /\ cart'[j].expires = 0 => cart'[j].items[p] = 0
    BY <1>2, <1>4 DEF BoundedInv, CartBounds
  <2> QED
    BY <1>1, <1>3, <1>4, <2>1, ResolvedMoves, QuietKeeps
<1>5. ASSUME NEW i \in CartIds, cart[i].expires = 0, Resolved(h, i),
             cart' = [Retired EXCEPT ![i] = [exists |-> TRUE, active |-> TRUE,
                                             expires |-> now + TTL, items |-> NoItems]]
      PROVE  BoundedInv'
  <2>1. /\ cart'[i].expires = now + TTL /\ cart'[i].items = NoItems
        /\ \A j \in CartIds : j # i => cart'[j] = Retired[j]
    BY <1>5 DEF Retired
  <2>2. now + TTL <= MaxTime + TTL /\ now + TTL # 0
    BY CartAssumption DEF BoundedInv, Inv, RowsInv, CartBounds
  <2>3. \A j \in CartIds : cart'[j].expires <= MaxTime + TTL
    BY <1>2, <2>1, <2>2 DEF BoundedInv, CartBounds
  <2>4. \A j \in CartIds, p \in Products :
          /\ cart'[j].items[p] \in Nat
          /\ cart'[j].items[p] <= cart[j].items[p]
          /\ cart'[j].expires = 0 => cart'[j].items[p] = 0
    BY <1>2, <2>1, <2>2 DEF BoundedInv, CartBounds, NoItems
  <2> QED
    BY <1>1, <1>3, <1>5, <2>3, <2>4, ResolvedMoves, QuietKeeps
<1> QED
  BY <1>4, <1>5 DEF Create, Reuse, FoundActive

LEMMA ItemFacts ==
  ASSUME RowsInv, NEW i \in CartIds, NEW p \in Products, NEW n \in Int,
         cart' = [cart EXCEPT ![i].items[p] = n]
  PROVE  /\ cart'[i].items[p] = n
         /\ \A j \in CartIds, a \in Products :
              ~(j = i /\ a = p) => cart'[j].items[a] = cart[j].items[a]
         /\ \A j \in CartIds : cart'[j].expires = cart[j].expires
<1>1. cart[i] \in CartType
  BY DEF RowsInv
<1> DEFINE items == [cart[i].items EXCEPT ![p] = n]
           row == [cart[i] EXCEPT !.items = items]
<1>2. items[p] = n /\ \A a \in Products : a # p => items[a] = cart[i].items[a]
  BY <1>1 DEF CartType
<1>3. cart' = [cart EXCEPT ![i] = row]
  OBVIOUS
<1> HIDE DEF items
<1>4. row.items = items /\ row.expires = cart[i].expires
  BY <1>1 DEF CartType
<1> HIDE DEF row
<1> QED
  BY <1>2, <1>3, <1>4 DEF RowsInv

(* A request that ends. *)
LEMMA IdleMoves ==
  ASSUME BoundedInv, NEW h \in Handlers, Become(h, IdleOp)
  PROVE  /\ OpBounds'
         /\ Quantities \in Quantity /\ Quantities' \in Quantity
         /\ Quantities[h] = op[h].qty
         /\ \A g \in Handlers : g # h => Quantities'[g] = Quantities[g]
         /\ \A i \in CartIds, p \in Products : Adding(i, p)' = Adding(i, p) \ {h}
<1>1. IdleOp.pc = "idle"
  BY DEF IdleOp
<1>2. OpsInv /\ OpBounds /\ IdleOp \in OpType /\ Bounded(IdleOp)
  BY IdleWithin DEF BoundedInv, Inv
<1> QED
  BY <1>1, <1>2, OpMoves, QuantitiesTyped

(* A request that ends with a write of one quantity.                        *)
LEMMA WriteKeeps ==
  ASSUME BoundedInv, Inv', NEW h \in Handlers, Become(h, IdleOp),
         UNCHANGED <<now, stock, orders>>,
         NEW i \in CartIds, NEW p \in Products, NEW n \in Nat, cart[i].exists,
         cart' = [cart EXCEPT ![i].items[p] = n],
         Fits(Adding(i, p) \ {h}, Quantities', n)
  PROVE  BoundedInv'
<1>0. n \in Int /\ RowsInv
  BY DEF BoundedInv, Inv
<1>1. /\ cart'[i].items[p] = n
      /\ \A j \in CartIds, a \in Products :
           ~(j = i /\ a = p) => cart'[j].items[a] = cart[j].items[a]
      /\ \A j \in CartIds : cart'[j].expires = cart[j].expires
  BY <1>0, ItemFacts
<1>2. cart[i].expires # 0
  BY DEF BoundedInv, Inv, RowsInv, OrderedIsGone
<1>3. CartBounds'
  BY <1>1, <1>2 DEF BoundedInv, CartBounds
<1>4. ASSUME NEW j \in CartIds, NEW a \in Products
      PROVE  Fits(Adding(j, a), Quantities, cart[j].items[a])'
  <2>1. CASE j = i /\ a = p
    <3>1. Adding(i, p)' = Adding(i, p) \ {h}
      BY IdleMoves
    <3>2. Fits(Adding(i, p), Quantities, cart[i].items[p])'
      BY <1>1, <3>1 DEF Fits
    <3> QED
      BY <2>1, <3>2
  <2>2. CASE ~(j = i /\ a = p)
    <3>1. cart'[j].items[a] = cart[j].items[a] /\ cart[j].items[a] \in Nat
      BY <1>1, <2>2 DEF BoundedInv, CartBounds
    <3>2. cart[j].items[a] <= cart[j].items[a]
      BY <3>1
    <3> QED
      BY <3>1, <3>2, IdleWithin, QuietFits
  <2> QED
    BY <2>1, <2>2
<1> QED
  BY <1>3, <1>4, IdleMoves DEF BoundedInv, QuantityFits

(* The write of an add: as much more as it had asked for. *)
LEMMA AddBounds ==
  ASSUME BoundedInv, Inv', NEW h \in Handlers, Add(h)
  PROVE  BoundedInv'
<1>1. PICK i \in CartIds, p \in Products : i = op[h].cart /\ p = op[h].product
  BY DEF BoundedInv, Inv, OpsInv, OpType, Add
<1>2. /\ op[h].qty \in Nat /\ h \in Adding(i, p)
      /\ Become(h, IdleOp) /\ UNCHANGED <<now, stock, orders>>
  BY <1>1, RoomFacts DEF BoundedInv, OpBounds, Bounded, Add, Adding
<1>3. CASE ~cart[i].exists
  <2>1. UNCHANGED <<cart, now, stock, orders>>
    BY <1>1, <1>2, <1>3 DEF Add
  <2> QED
    BY <1>2, <2>1, IdleWithin, OpKeeps
<1>4. CASE cart[i].exists
  <2> DEFINE A == Adding(i, p)
             n == cart[i].items[p] + op[h].qty
             q == Quantities
             s == Quantities'
  <2>1. /\ cart[i].items[p] \in Nat /\ n \in Nat
        /\ A \in SUBSET Handlers /\ Fits(A, q, cart[i].items[p])
    BY <1>2 DEF BoundedInv, CartBounds, QuantityFits, Adding
  <2>2. cart' = [cart EXCEPT ![i].items[p] = n]
    BY <1>1, <1>4 DEF Add, Incremented
  <2>3. /\ q \in Quantity /\ s \in Quantity /\ q[h] = op[h].qty
        /\ \A g \in Handlers : g # h => s[g] = q[g]
    BY <1>2, IdleMoves
  <2>4. Fits(A \ {h}, q, n)
    <3>1. n = cart[i].items[p] + q[h]
      BY <2>3
    <3> HIDE DEF A, n, q
    <3> QED
      BY <1>2, <2>1, <2>3, <3>1, FitsAdd DEF A
  <2>5. Fits(A \ {h}, s, n)
    <3>1. A \ {h} \in SUBSET Handlers /\ \A g \in A \ {h} : s[g] = q[g]
      BY <2>1, <2>3
    <3> HIDE DEF A, n, q, s
    <3> QED
      BY <2>1, <2>3, <2>4, <3>1, FitsSame
  <2> HIDE DEF n
  <2> QED
    BY <1>2, <1>4, <2>1, <2>2, <2>5, WriteKeeps
<1> QED
  BY <1>3, <1>4

(* The write of an update: a quantity that was checked against the stock.   *)
LEMMA ReplaceBounds ==
  ASSUME BoundedInv, Inv', NEW h \in Handlers, Replace(h)
  PROVE  BoundedInv'
<1>1. PICK i \in CartIds, p \in Products : i = op[h].cart /\ p = op[h].product
  BY DEF BoundedInv, Inv, OpsInv, OpType, Replace
<1>2. PICK n \in Nat : n = op[h].qty /\ n <= MaxStock
  BY RoomFacts DEF BoundedInv, OpBounds, Bounded, Replace
<1>3. Become(h, IdleOp) /\ UNCHANGED <<now, stock, orders>>
  BY DEF Replace
<1>4. CASE ~RowExists(i, p)
  <2>1. UNCHANGED <<cart, now, stock, orders>>
    BY <1>1, <1>3, <1>4 DEF Replace
  <2> QED
    BY <1>3, <2>1, IdleWithin, OpKeeps
<1>5. CASE RowExists(i, p)
  <2>1. cart' = [cart EXCEPT ![i].items[p] = n] /\ cart[i].exists
    BY <1>1, <1>2, <1>5 DEF Replace, RowExists
  <2>2. Adding(i, p) \ {h} \in SUBSET Handlers /\ Adding(i, p) \ {h} # Handlers
    BY DEF Adding
  <2>3. Quantities' \in Quantity
    BY <1>3, IdleMoves
  <2>4. Fits(Adding(i, p) \ {h}, Quantities', n)
    BY <1>2, <2>2, <2>3, FitsReplaced
  <2> QED
    BY <1>3, <2>1, <2>4, WriteKeeps
<1> QED
  BY <1>4, <1>5

LEMMA DeleteBounds ==
  ASSUME BoundedInv, Inv', NEW h \in Handlers, Delete(h)
  PROVE  BoundedInv'
<1> DEFINE i == op[h].cart
           p == op[h].product
<1>1. /\ i \in CartIds /\ p \in Products /\ Become(h, IdleOp)
      /\ UNCHANGED <<now, stock, orders>>
      /\ cart' = [cart EXCEPT ![i].items[p] = 0]
  BY DEF BoundedInv, Inv, OpsInv, OpType, Delete
<1> HIDE DEF i, p
<1>2. /\ cart'[i].items[p] = 0
      /\ \A j \in CartIds, a \in Products :
           ~(j = i /\ a = p) => cart'[j].items[a] = cart[j].items[a]
      /\ \A j \in CartIds : cart'[j].expires = cart[j].expires
  <2>1. 0 \in Int
    OBVIOUS
  <2> QED
    BY <1>1, <2>1, ItemFacts DEF BoundedInv, Inv
<1>3. \A j \in CartIds, a \in Products :
        /\ cart'[j].items[a] \in Nat
        /\ cart'[j].items[a] <= cart[j].items[a]
        /\ cart'[j].expires = 0 => cart'[j].items[a] = 0
  BY <1>1, <1>2 DEF BoundedInv, CartBounds
<1>4. /\ \A o \in orders' : o.lines \in Items
      /\ \A j \in CartIds : cart'[j].expires <= MaxTime + TTL
  BY <1>1, <1>2 DEF BoundedInv, CartBounds
<1> QED
  BY <1>1, <1>3, <1>4, IdleWithin, QuietKeeps

LEMMA PlaceOrderBounds ==
  ASSUME BoundedInv, Inv', NEW h \in Handlers, PlaceOrder(h)
  PROVE  BoundedInv'
<1> DEFINE i == op[h].cart
           o == [by |-> h, cart |-> i, lines |-> op[h].lines]
           row == [cart[i] EXCEPT !.exists = FALSE, !.active = FALSE, !.items = NoItems]
<1>1. /\ i \in CartIds /\ Become(h, IdleOp) /\ UNCHANGED <<now, stock>>
      /\ op[h].lines \in Items
  BY DEF BoundedInv, Inv, OpsInv, OpType, OpBounds, Bounded, PlaceOrder
<1>2. CASE ~CartStillThere(h)
  BY <1>1, <1>2, IdleWithin, OpKeeps DEF PlaceOrder
<1>3. CASE CartStillThere(h)
  <2>1. orders' = orders \cup {o} /\ cart' = [cart EXCEPT ![i] = row] /\ o.lines = op[h].lines
    BY <1>3 DEF PlaceOrder
  <2>2. row.items = NoItems /\ row.expires = cart[i].expires
    BY <1>1 DEF BoundedInv, Inv, RowsInv, CartType
  <2> HIDE DEF o, row
  <2>3. \A j \in CartIds : /\ cart'[j].expires = cart[j].expires
                           /\ cart'[j].items = cart[j].items \/ cart'[j].items = NoItems
    BY <1>1, <2>1, <2>2 DEF BoundedInv, Inv, RowsInv
  <2>4. \A j \in CartIds, a \in Products :
          /\ cart'[j].items[a] \in Nat
          /\ cart'[j].items[a] <= cart[j].items[a]
          /\ cart'[j].expires = 0 => cart'[j].items[a] = 0
    BY <2>3 DEF BoundedInv, CartBounds, NoItems
  <2>5. /\ \A x \in orders' : x.lines \in Items
        /\ \A j \in CartIds : cart'[j].expires <= MaxTime + TTL
    BY <1>1, <2>1, <2>3 DEF BoundedInv, CartBounds
  <2> QED
    BY <1>1, <2>4, <2>5, IdleWithin, QuietKeeps
<1> QED
  BY <1>2, <1>3

LEMMA BeginBounds ==
  ASSUME BoundedInv, Inv', NEW h \in Handlers, NEW p \in Products, NEW q \in 1..MaxQuantity,
         NEW i \in CartIds \cup {0},
         BeginAdd(h, p, q, i) \/ (i \in CartIds /\ BeginUpdate(h, p, q, i))
  PROVE  BoundedInv'
<1>1. /\ q \in 0..MaxQuantity /\ q \in Int /\ stock[p] \in 0..MaxStock /\ stock[p] \in Int
      /\ 0 \in 0..MaxStock
      /\ IdleOp.lines = NoItems /\ IdleOp.seen = 0
      /\ NoItems \in [Products -> Int] /\ NoItems \in Items
      /\ UNCHANGED <<cart, now, stock, orders>>
  BY RoomFacts, NoItemsTyped, NoItemsWithin DEF BoundedInv, CartBounds, BeginAdd, BeginUpdate, IdleOp
<1>2. CASE BeginAdd(h, p, q, i)
  <2> DEFINE r == [IdleOp EXCEPT !.pc = "locate", !.product = p, !.qty = q,
                                 !.cart = i, !.seen = stock[p]]
  <2>1. r.pc = "locate" /\ r.qty = q /\ r.seen = stock[p] /\ r.lines = IdleOp.lines
    BY DEF IdleOp
  <2>2. r \in OpType
    BY <1>1, IdleTyped DEF OpType, Steps
  <2>3. Become(h, r)
    BY <1>2 DEF BeginAdd
  <2> HIDE DEF r
  <2>4. Bounded(r) /\ Checked(r)
    BY <1>1, <2>1 DEF Bounded, Checked
  <2> QED
    BY <1>1, <2>2, <2>3, <2>4, OpKeeps
<1>3. CASE i \in CartIds /\ BeginUpdate(h, p, q, i)
  <2> DEFINE r == [IdleOp EXCEPT !.pc = "price", !.product = p, !.qty = q, !.cart = i]
  <2>1. r.pc = "price" /\ r.qty = q /\ r.seen = IdleOp.seen /\ r.lines = IdleOp.lines
    BY DEF IdleOp
  <2>2. r \in OpType
    BY <1>1, <1>3, IdleTyped DEF OpType, Steps
  <2>3. Become(h, r)
    BY <1>3 DEF BeginUpdate
  <2> HIDE DEF r
  <2>4. Bounded(r) /\ Checked(r)
    BY <1>1, <2>1 DEF Bounded, Checked
  <2> QED
    BY <1>1, <2>2, <2>3, <2>4, OpKeeps
<1> QED
  BY <1>2, <1>3

LEMMA BeginDeleteBounds ==
  ASSUME BoundedInv, Inv', NEW h \in Handlers, NEW p \in Products, NEW i \in CartIds,
         BeginDelete(h, p, i)
  PROVE  BoundedInv'
<1> DEFINE r == [IdleOp EXCEPT !.pc = "delete", !.product = p, !.cart = i]
<1>1. /\ r.pc = "delete" /\ r.qty = IdleOp.qty /\ r.seen = IdleOp.seen
      /\ r.lines = IdleOp.lines
  BY DEF IdleOp
<1>2. r \in OpType
  BY IdleTyped DEF OpType, Steps
<1>3. Become(h, r) /\ UNCHANGED <<cart, now, stock, orders>>
  BY DEF BeginDelete
<1> HIDE DEF r
<1>4. Bounded(r) /\ Checked(r)
  BY <1>1, IdleWithin DEF Bounded, Checked
<1> QED
  BY <1>2, <1>3, <1>4, OpKeeps

(* The catalog's answer bounds the quantity that an update will write.      *)
LEMMA PriceBounds ==
  ASSUME BoundedInv, Inv', NEW h \in Handlers, Price(h)
  PROVE  BoundedInv'
<1> DEFINE r == [op[h] EXCEPT !.pc = "replace"]
<1>1. /\ op[h] \in OpType /\ Bounded(op[h]) /\ op[h].product \in Products
      /\ op[h].cart \in CartIds
      /\ UNCHANGED <<cart, now, stock, orders>> /\ Become(h, r)
      /\ op[h].qty <= stock[op[h].product]
  BY DEF BoundedInv, Inv, OpsInv, OpBounds, OpType, Price
<1>2. op[h].qty <= MaxStock
  <2>1. op[h].qty \in Nat /\ stock[op[h].product] \in 0..MaxStock
    BY <1>1, RoomFacts DEF Bounded, BoundedInv, CartBounds
  <2> QED
    BY <1>1, <2>1, RoomFacts
<1>3. /\ r.pc = "replace" /\ r.qty = op[h].qty /\ r.seen = op[h].seen
      /\ r.lines = op[h].lines
  BY <1>1 DEF OpType
<1>4. r \in OpType
  BY <1>1 DEF OpType, Steps
<1> HIDE DEF r
<1>5. Bounded(r) /\ Checked(r)
  BY <1>1, <1>2, <1>3 DEF Bounded, Checked
<1> QED
  BY <1>1, <1>4, <1>5, OpKeeps

LEMMA ValidateBounds ==
  ASSUME BoundedInv, Inv', NEW h \in Handlers, Validate(h)
  PROVE  BoundedInv'
<1>0. Validate(h)
  OBVIOUS
<1>1. PICK p \in op[h].todo :
        Become(h, [op[h] EXCEPT !.todo = @ \ {p},
                                !.pc = IF op[h].todo = {p} THEN "order" ELSE "validate"])
  BY <1>0 DEF Validate
<1> DEFINE r == [op[h] EXCEPT !.todo = @ \ {p},
                              !.pc = IF op[h].todo = {p} THEN "order" ELSE "validate"]
<1>2. /\ op[h] \in OpType /\ Bounded(op[h]) /\ op[h].pc = "validate"
      /\ UNCHANGED <<cart, now, stock, orders>>
  BY DEF BoundedInv, Inv, OpsInv, OpBounds, Validate
<1>3. /\ r.pc \in {"order", "validate"} /\ r.qty = op[h].qty /\ r.seen = op[h].seen
      /\ r.lines = op[h].lines
  BY <1>2 DEF OpType
<1>4. r \in OpType
  <2>1. [op[h] EXCEPT !.todo = @ \ {p}, !.pc = IF op[h].todo = {p} THEN "order" ELSE "validate"]
          \in OpType
    BY <1>0, <1>2 DEF Validate, OpType, Steps
  <2> QED
    BY <2>1
<1> HIDE DEF r
<1>5. Bounded(r) /\ Checked(r)
  BY <1>2, <1>3 DEF Bounded, Checked
<1> QED
  BY <1>1, <1>2, <1>4, <1>5, OpKeeps DEF r

(* The lines of a checkout are the items of the cart it read.               *)
LEMMA BeginCheckoutBounds ==
  ASSUME BoundedInv, Inv', NEW h \in Handlers, BeginCheckout(h)
  PROVE  BoundedInv'
<1>0. BeginCheckout(h)
  OBVIOUS
<1>1. PICK i \in CartIds :
        Become(h, [IdleOp EXCEPT !.pc = "validate", !.cart = i, !.lines = cart[i].items,
                                 !.todo = {p \in Products : cart[i].items[p] > 0}])
  BY <1>0 DEF BeginCheckout, FoundActive
<1> DEFINE todo == {p \in Products : cart[i].items[p] > 0}
           r == [IdleOp EXCEPT !.pc = "validate", !.cart = i, !.lines = cart[i].items,
                               !.todo = todo]
<1>2. todo \in SUBSET Products
  OBVIOUS
<1>3. cart[i].items \in Items /\ cart[i].items \in [Products -> Int]
  BY CartItems DEF BoundedInv, Inv, RowsInv, CartType
<1>4. Become(h, r) /\ UNCHANGED <<cart, now, stock, orders>>
  BY <1>1 DEF BeginCheckout
<1> HIDE DEF todo
<1>5. /\ r.pc = "validate" /\ r.qty = IdleOp.qty /\ r.seen = IdleOp.seen
      /\ r.lines = cart[i].items
  BY DEF IdleOp
<1>6. r \in OpType
  BY <1>2, <1>3, IdleTyped DEF OpType, Steps
<1> HIDE DEF r
<1>7. Bounded(r) /\ Checked(r)
  BY <1>3, <1>5, IdleWithin DEF Bounded, Checked
<1> QED
  BY <1>4, <1>6, <1>7, OpKeeps

LEMMA InitBounded == CartInit => BoundedInv
<1> SUFFICES ASSUME CartInit PROVE BoundedInv
  OBVIOUS
<1>1. Inv
  BY InitInv
<1>2. OpBounds
  BY IdleWithin DEF CartInit, OpBounds
<1>3. /\ MaxTime \in Nat /\ TTL \in Nat /\ 0 <= MaxTime + TTL
      /\ stock \in [Products -> 0..MaxStock]
  BY CartAssumption DEF CartInit
<1>4. /\ \A i \in CartIds : cart[i].expires = 0 /\ cart[i].items = NoItems
      /\ now = 0 /\ orders = {}
  BY DEF CartInit, NoCart
<1>5. \A p \in Products : NoItems[p] = 0
  BY DEF NoItems
<1>6. CartBounds
  BY <1>3, <1>4, <1>5 DEF CartBounds
<1>7. QuantityFits
  <2>1. HowMany - 1 \in Nat /\ 0 <= Room(HowMany - 1)
    <3>1. HowMany - 1 \in Nat
      BY RoomFacts
    <3>2. Room(HowMany - 1) \in Nat
      BY <3>1, RoomFacts
    <3> QED
      BY <3>1, <3>2
  <2>2. \A i \in CartIds, p \in Products : Adding(i, p) = {}
    BY DEF CartInit, IdleOp, Adding
  <2> QED
    BY <1>4, <1>5, <2>1, <2>2 DEF QuantityFits, Fits
<1> QED
  BY <1>1, <1>2, <1>6, <1>7 DEF BoundedInv

(* A step that only moves the clock or the stock.                           *)
LEMMA WorldBounds ==
  ASSUME BoundedInv, Inv', now' <= MaxTime, stock' \in [Products -> 0..MaxStock],
         UNCHANGED <<cart, op, orders>>
  PROVE  BoundedInv'
<1>1. OpBounds'
  BY DEF BoundedInv, OpBounds, Bounded
<1>2. CartBounds'
  BY DEF BoundedInv, CartBounds
<1>3. QuantityFits'
  BY DEF BoundedInv, QuantityFits, Adding, Quantities, Fits
<1> QED
  BY <1>1, <1>2, <1>3 DEF BoundedInv

LEMMA StepBounded == BoundedInv /\ [CartNext]_cartVars => BoundedInv'
<1> SUFFICES ASSUME BoundedInv, [CartNext]_cartVars
             PROVE  BoundedInv'
  OBVIOUS
<1>0. Inv'
  BY StepInv DEF BoundedInv
<1>1. CASE UNCHANGED cartVars
  BY <1>0, <1>1, WorldBounds DEF cartVars, BoundedInv, CartBounds
<1>2. CASE Tick
  <2>1. now' <= MaxTime
    BY <1>2, CartAssumption DEF Tick, BoundedInv, Inv, RowsInv
  <2> QED
    BY <1>0, <1>2, <2>1, WorldBounds DEF Tick, BoundedInv, CartBounds
<1>3. ASSUME NEW p \in Products, NEW n \in 0..MaxStock, SetStock(p, n)
      PROVE  BoundedInv'
  BY <1>0, <1>3, WorldBounds DEF SetStock, BoundedInv, CartBounds
<1>4. ASSUME NEW h \in Handlers, GiveUp(h)
      PROVE  BoundedInv'
  BY <1>0, <1>4, IdleWithin, OpKeeps DEF GiveUp, Reject
<1> QED
  BY <1>0, <1>1, <1>2, <1>3, <1>4, BeginBounds, BeginDeleteBounds, LocateBounds, CreateBounds,
     AddBounds, PriceBounds, ReplaceBounds, DeleteBounds, BeginCheckoutBounds, ValidateBounds,
     PlaceOrderBounds DEF CartNext

LEMMA BoundedInvariance == CartSpec => []BoundedInv
BY InitBounded, StepBounded, PTL DEF CartSpec

(* Every part of the state keeps its type, and however many adds are        *)
(* checked by assertAvailableStock() before one of them is written, a       *)
(* quantity exceeds the stock by the writes of all but one request at most. *)
THEOREM WithinRacingAdds == CartSpec => []CartTypeOK
<1>1. BoundedInv => CartTypeOK
  <2> SUFFICES ASSUME BoundedInv PROVE CartTypeOK
    OBVIOUS
  <2>1. /\ cart \in [CartIds -> CartType] /\ now \in Nat /\ op \in [Handlers -> OpType]
        /\ orders \subseteq [by : Handlers, cart : CartIds, lines : [Products -> Int]]
    BY DEF BoundedInv, Inv, RowsInv, OpsInv, OrderedIsGone
  <2>2. ASSUME NEW i \in CartIds
        PROVE  cart[i] \in [exists : BOOLEAN, active : BOOLEAN, expires : 0..(MaxTime + TTL),
                            items : Items]
    <3>1. cart[i].expires \in 0..(MaxTime + TTL)
      BY <2>1, CartAssumption DEF BoundedInv, CartBounds, CartType
    <3> QED
      BY <2>1, <3>1, CartItems DEF CartType
  <2>3. ASSUME NEW h \in Handlers
        PROVE  op[h] \in [pc : Steps, product : Products \cup {NoProduct}, qty : 0..MaxQuantity,
                          cart : CartIds \cup {0}, seen : 0..MaxStock, lines : Items,
                          todo : SUBSET Products]
    BY <2>1 DEF BoundedInv, OpBounds, Bounded, OpType
  <2>4. ASSUME NEW o \in orders
        PROVE  o \in [by : Handlers, cart : CartIds, lines : Items]
    BY <2>1 DEF BoundedInv, CartBounds
  <2>5. now \in 0..MaxTime /\ stock \in [Products -> 0..MaxStock]
    BY <2>1, CartAssumption DEF BoundedInv, CartBounds
  <2> QED
    BY <2>1, <2>2, <2>3, <2>4, <2>5 DEF CartTypeOK
<1> QED
  BY <1>1, BoundedInvariance, PTL

LEMMA AddRaises ==
  ASSUME BoundedInv, NEW h \in Handlers, Add(h), NEW j \in CartIds, NEW a \in Products
  PROVE  cart'[j].items[a] \in Nat /\ cart'[j].items[a] >= cart[j].items[a]
<1>1. PICK i \in CartIds, p \in Products : i = op[h].cart /\ p = op[h].product
  BY DEF BoundedInv, Inv, OpsInv, OpType, Add
<1>2. \A k \in CartIds, b \in Products : cart[k].items[b] \in Nat
  BY DEF BoundedInv, CartBounds
<1>3. PICK n \in Int : n = cart[i].items[p] + op[h].qty
  BY <1>2, RoomFacts DEF BoundedInv, OpBounds, Bounded
<1>4. n \in Nat /\ n >= cart[i].items[p]
  BY <1>2, <1>3, RoomFacts DEF BoundedInv, OpBounds, Bounded
<1>5. CASE cart' = cart
  BY <1>2, <1>5
<1>6. CASE cart' = [cart EXCEPT ![i].items[p] = n]
  <2>1. RowsInv
    BY DEF BoundedInv, Inv
  <2>2. /\ cart'[i].items[p] = n
        /\ \A k \in CartIds, b \in Products :
             ~(k = i /\ b = p) => cart'[k].items[b] = cart[k].items[b]
        /\ \A k \in CartIds : cart'[k].expires = cart[k].expires
    BY <1>6, <2>1, ItemFacts
  <2> QED
    BY <1>2, <1>4, <2>2
<1> QED
  BY <1>1, <1>3, <1>5, <1>6 DEF Add, Incremented

(* While nobody updates, deletes or orders, no quantity falls: an add       *)
(* increments the row, and a cart is created where there was none.          *)
THEOREM AddsOnlyAdd == CartSpec => AddNeverLowers
<1> DEFINE A == \A i \in CartIds, p \in Products :
                  cart'[i].items[p] < cart[i].items[p] =>
                    \E h \in Handlers : op[h].pc \in {"replace", "delete", "order"}
                                        /\ op'[h] # op[h]
<1>1. BoundedInv /\ [CartNext]_cartVars => [A]_cartVars
  <2> SUFFICES ASSUME BoundedInv, CartNext, NEW i \in CartIds, NEW p \in Products,
                      cart'[i].items[p] < cart[i].items[p]
               PROVE  \E h \in Handlers : op[h].pc \in {"replace", "delete", "order"}
                                          /\ op'[h] # op[h]
    OBVIOUS
  <2>0. cart[i].items[p] \in Nat
    BY DEF BoundedInv, CartBounds
  <2>1. cart # cart'
    BY <2>0
  <2>2. ASSUME NEW h \in Handlers, Replace(h) \/ Delete(h) \/ PlaceOrder(h)
        PROVE  op[h].pc \in {"replace", "delete", "order"} /\ op'[h] # op[h]
    <3>1. /\ op[h].pc \in {"replace", "delete", "order"} /\ Become(h, IdleOp)
      BY <2>2 DEF Replace, Delete, PlaceOrder
    <3>2. op'[h] = IdleOp /\ IdleOp.pc = "idle"
      BY <3>1 DEF Become, IdleOp, BoundedInv, Inv, OpsInv
    <3> QED
      BY <3>1, <3>2
  <2>3. ASSUME NEW h \in Handlers, Add(h)
        PROVE  FALSE
    BY <2>0, <2>3, AddRaises
  <2>4. ASSUME NEW h \in Handlers, Create(h)
        PROVE  FALSE
    <3>1. \A j \in CartIds : Retired[j].items = cart[j].items
      BY DEF Retired, BoundedInv, Inv, RowsInv, CartType
    <3>2. cart' # Retired
      BY <2>0, <3>1
    <3>3. PICK j \in CartIds :
            /\ cart[j].expires = 0
            /\ cart' = [Retired EXCEPT ![j] = [exists |-> TRUE, active |-> TRUE,
                                               expires |-> now + TTL, items |-> NoItems]]
      BY <2>4, <3>2 DEF Create
    <3>4. cart'[j].items = NoItems /\ \A k \in CartIds : k # j => cart'[k] = Retired[k]
      BY <3>3 DEF Retired
    <3>5. i = j
      BY <2>0, <3>1, <3>4
    <3>6. cart[i].items[p] = 0 /\ cart'[i].items[p] = 0
      BY <3>3, <3>4, <3>5 DEF NoItems, BoundedInv, CartBounds
    <3> QED
      BY <3>6
  <2>5. ASSUME NEW h \in Handlers, Locate(h) \/ Price(h) \/ BeginCheckout(h) \/ Validate(h) \/ GiveUp(h)
        PROVE  UNCHANGED cart
    BY <2>5 DEF Locate, Price, BeginCheckout, Validate, GiveUp, Reject
  <2>6. ASSUME NEW h \in Handlers, NEW a \in Products, NEW q, NEW j,
               BeginAdd(h, a, q, j) \/ BeginUpdate(h, a, q, j) \/ BeginDelete(h, a, j)
        PROVE  UNCHANGED cart
    BY <2>6 DEF BeginAdd, BeginUpdate, BeginDelete
  <2>7. ASSUME Tick \/ \E a \in Products, n \in 0..MaxStock : SetStock(a, n)
        PROVE  UNCHANGED cart
    BY <2>7 DEF Tick, SetStock
  <2> QED
    BY <2>1, <2>2, <2>3, <2>4, <2>5, <2>6, <2>7 DEF CartNext
<1> QED
  BY <1>1, BoundedInvariance, PTL DEF CartSpec, AddNeverLowers

=============================================================================
