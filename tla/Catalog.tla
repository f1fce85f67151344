------------------------------- MODULE Catalog -------------------------------
(***************************************************************************)
(* products-service: the products of the vendedores, their categorias and  *)
(* marcas. Every handler checks first and writes later, some in a          *)
(* transaction and some not; a write is by id, whatever the row has become *)
(* meanwhile. A price is modelled by the two numbers it is computed from   *)
(* and the pair its final price was computed from.                         *)
(***************************************************************************)
EXTENDS Naturals

CONSTANTS
  Owners,      \* vendedores
  Taxa,        \* bound: categorias and marcas that may be created
  Items,       \* bound: products that may be created
  Values,      \* prices and percentages
  CallSlots,   \* requests in flight
  NoOwner      \* no row

ASSUME CatalogAssumption == NoOwner \notin Owners \cup Taxa \cup Items

VARIABLES
  taxon,    \* CATEGORIA and MARCA rows
  product,  \* PRODUCTO rows
  call,     \* the requests in flight
  torn      \* products whose updates overlapped (history)

catalogVars == <<taxon, product, call, torn>>

NoTaxon == [owner |-> NoOwner, activo |-> FALSE]
NoProduct == [owner |-> NoOwner, taxon |-> NoOwner, activo |-> FALSE,
              price |-> 0, tax |-> 0, final |-> <<0, 0>>]
NoCall == [pc |-> "idle", by |-> NoOwner, id |-> NoOwner, taxon |-> NoOwner,
           change |-> "none", value |-> 0, read |-> <<0, 0>>]

CatalogInit ==
  /\ taxon = [t \in Taxa |-> NoTaxon]
  /\ product = [p \in Items |-> NoProduct]
  /\ call = [k \in CallSlots |-> NoCall]
  /\ torn = {}

SetCall(k, c) == call' = [call EXCEPT ![k] = c]
Begin(k, c) == call[k].pc = "idle" /\ SetCall(k, c) /\ UNCHANGED <<taxon, product, torn>>
Finish(k) == SetCall(k, NoCall)

-----------------------------------------------------------------------------
(* Categorias and marcas *)

(* createCategoria(), createMarca(). Names and the order are left out: a      *)
(* unique constraint on (vendedor, nombre) keeps them, and an update that    *)
(* changes only these changes nothing here.                                 *)
CreateTaxon(v, t) ==
  /\ taxon[t] = NoTaxon
  /\ taxon' = [taxon EXCEPT ![t] = [owner |-> v, activo |-> TRUE]]
  /\ UNCHANGED <<product, call, torn>>

(* delete and reactivate: nothing to do when the row is so already. *)
BeginSwitchTaxon(k, v, t, how) ==
  /\ taxon[t].owner = v
  /\ taxon[t].activo = (how = "deactivate")
  /\ Begin(k, [NoCall EXCEPT !.pc = how, !.id = t])
SwitchTaxon(k) ==
  /\ call[k].pc \in {"deactivate", "reactivate"}
  /\ taxon' = [taxon EXCEPT ![call[k].id].activo = call[k].pc = "reactivate"]
  /\ Finish(k)
  /\ UNCHANGED <<product, torn>>

-----------------------------------------------------------------------------
(* Products *)

(* assertActiveCatalogOwnership(). *)
ActiveCatalogOwnership(v, t) == taxon[t].owner = v /\ taxon[t].activo

(* calcularPrecioFinal(). *)
Final(price, tax) == <<price, tax>>

(* create(). *)
BeginCreateProduct(k, v, t, n) ==
  /\ ActiveCatalogOwnership(v, t)
  /\ Begin(k, [NoCall EXCEPT !.pc = "create", !.by = v, !.taxon = t, !.value = n])
CreateProduct(k, p) ==
  LET c == call[k] IN
  /\ c.pc = "create"
  /\ product[p] = NoProduct
  /\ product' = [product EXCEPT ![p] =
       [owner |-> c.by, taxon |-> c.taxon, activo |-> TRUE,
        price |-> c.value, tax |-> 0, final |-> Final(c.value, 0)]]
  /\ Finish(k)
  /\ UNCHANGED <<taxon, torn>>

(* update(): the catalog is checked if it changes, then a transaction reads  *)
(* the product and who owns it (which never changes), *)
BeginUpdateProduct(k, v, p, change, n, t) ==
  /\ product[p].owner = v
  /\ change = "taxon" => ActiveCatalogOwnership(v, t)
  /\ Begin(k, [NoCall EXCEPT !.pc = "write", !.id = p, !.change = change, !.value = n, !.taxon = t,
       !.read = IF change \in {"price", "tax"} THEN <<product[p].price, product[p].tax>> ELSE @])

(* Faulty variant: a new percentage leaves the final price. *)
UpdatedOnPrice(c, row) ==
  CASE c.change = "price" -> [row EXCEPT !.price = c.value, !.final = Final(c.value, c.read[2])]
    [] c.change = "tax" -> [row EXCEPT !.tax = c.value]
    [] OTHER -> row

(* and writes the fields given; the final price is computed from the row    *)
(* that was read, which another update may have changed since.              *)
Updated(c, row) ==
  CASE c.change = "price" -> [row EXCEPT !.price = c.value, !.final = Final(c.value, c.read[2])]
    [] c.change = "tax" -> [row EXCEPT !.tax = c.value, !.final = Final(c.read[1], c.value)]
    [] c.change = "taxon" -> [row EXCEPT !.taxon = c.taxon]
    [] c.change = "activo" -> [row EXCEPT !.activo = TRUE]
UpdateProduct(k) ==
  LET c == call[k] IN
  /\ c.pc = "write"
  /\ product' = [product EXCEPT ![c.id] = Updated(c, @)]
  /\ torn' = IF \E j \in CallSlots \ {k} : call[j].pc = "write" /\ call[j].id = c.id
             THEN torn \cup {c.id} ELSE torn
  /\ Finish(k)
  /\ UNCHANGED taxon

(* remove(): updateMany() of an active product of the vendedor, else an      *)
(* error; nothing is read before.                                           *)
RemoveProduct(v, p) ==
  /\ product[p].owner = v /\ product[p].activo
  /\ product' = [product EXCEPT ![p].activo = FALSE]
  /\ UNCHANGED <<taxon, call, torn>>

(* A query fails, or the process dies. *)
AbortCall(k) == call[k].pc # "idle" /\ Finish(k) /\ UNCHANGED <<taxon, product, torn>>

CatalogNext ==
  \/ \E v \in Owners :
       \/ \E t \in Taxa : CreateTaxon(v, t)
       \/ \E p \in Items : RemoveProduct(v, p)
  \/ \E k \in CallSlots :
       \/ SwitchTaxon(k) \/ UpdateProduct(k) \/ AbortCall(k)
       \/ \E p \in Items : CreateProduct(k, p)
       \/ \E v \in Owners :
            \/ \E t \in Taxa :
                 \/ \E how \in {"deactivate", "reactivate"} : BeginSwitchTaxon(k, v, t, how)
                 \/ \E n \in Values : BeginCreateProduct(k, v, t, n)
                 \/ \E p \in Items : BeginUpdateProduct(k, v, p, "taxon", 0, t)
            \/ \E p \in Items :
                 \/ \E n \in Values, f \in {"price", "tax"} : BeginUpdateProduct(k, v, p, f, n, NoOwner)
                 \/ BeginUpdateProduct(k, v, p, "activo", 0, NoOwner)

CatalogSpec == CatalogInit /\ [][CatalogNext]_catalogVars

-----------------------------------------------------------------------------
(* Properties *)

ProductType == [owner : Owners \cup {NoOwner}, taxon : Taxa \cup {NoOwner}, activo : BOOLEAN,
                price : Values \cup {0}, tax : Values \cup {0},
                final : (Values \cup {0}) \X (Values \cup {0})]
CatalogTypeOK ==
  /\ taxon \in [Taxa -> [owner : Owners \cup {NoOwner}, activo : BOOLEAN]]
  /\ product \in [Items -> ProductType]
  /\ torn \subseteq Items
  /\ call \in [CallSlots -> [pc : {"idle", "deactivate", "reactivate", "create", "write"},
                             by : Owners \cup {NoOwner}, id : Taxa \cup Items \cup {NoOwner},
                             taxon : Taxa \cup {NoOwner},
                             change : {"none", "price", "tax", "taxon", "activo"},
                             value : Values \cup {0},
                             read : (Values \cup {0}) \X (Values \cup {0})]]

(* A product is filed under a categoria and a marca of its own vendedor,    *)
(* though the check and the write of a handler are apart.                   *)
OwnCatalogOnly == \A p \in Items : product[p].taxon # NoOwner =>
                    taxon[product[p].taxon].owner = product[p].owner

(* The final price belongs to the price and the percentage of the row, for  *)
(* every product no two updates of which overlapped: the transaction of an  *)
(* update does not protect the row it read.                                 *)
FinalPriceIsCurrent == \A p \in Items \ torn :
                         product[p].final = Final(product[p].price, product[p].tax)
=============================================================================
