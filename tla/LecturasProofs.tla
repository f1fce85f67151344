---------------------------- MODULE LecturasProofs ----------------------------
(***************************************************************************)
(* Proofs about Lecturas, for any number of vendedores, clientes and rows  *)
(* and any size of a page: a walk through a list shows only what its       *)
(* reader may see, and all that was there when it began.                   *)
(***************************************************************************)
EXTENDS Lecturas, FiniteSetTheorems, TLAPS

ReaderType ==
  [at : {"idle", "resolve", "query", "write", "shown", "refused", "failed"},
   who : Readers, asks : {"list", "get", "update"},
   named : Vendors \cup {Unnamed}, id : Rows \cup {Unnamed}, page : Nat \ {0},
   scope : SUBSET Vendors, done : SUBSET {"find", "count"}, found : SUBSET Table,
   total : 0..MaxRows, seen : SUBSET Table, must : SUBSET Table,
   shifted : BOOLEAN, outdated : BOOLEAN]

(* The steps of a request.                                                  *)
Control(r) ==
  /\ r.at = "idle" => r.must = {} /\ r.seen = {} /\ r.found = {}
  /\ r.at \in {"resolve", "failed"} => r.done = {} /\ r.found = {} /\ r.total = 0
  /\ r.at = "write" => r.id \in Table /\ r.asks = "update"
  /\ r.at = "shown" /\ r.asks = "list" => r.found \subseteq r.seen
  /\ r.at = "query" /\ "find" \notin r.done => r.found = {}
  /\ family \notin Paged /\ r.asks = "list" /\ r.at \in {"resolve", "query", "failed"} =>
       r.page = 1 /\ r.seen = {}

(* A scope whose rows the reader may see, also later: relations only grow.  *)
Rightful(r) ==
  IF r.who = Root THEN family # "entregas" ELSE
  CASE family = "clientes" -> r.scope = {r.who}
    [] family = "products" -> \A v \in r.scope : v = r.who \/ <<v, r.who>> \in related
    [] family \in {"orders", "jobs"} -> r.who \in Buyers \/ (family = "orders" /\ r.scope = {r.who})
    [] family = "categories" -> r.who \in Vendors => r.scope \subseteq {r.who}
    [] OTHER -> family \notin {"vendedores", "logs", "inactive"} /\ r.scope \subseteq {r.who}

Rights(r) ==
  /\ r.at = "query" => Rightful(r)
  /\ \A x \in r.found \cup r.seen : MayRead(r.who, x)
  /\ r.at = "write" => MayRead(r.who, r.id)

(* The scope of a walk that has rows to show is the same for every page.    *)
Steady(r) ==
  /\ r.scope # {}
  /\ IF family = "products" /\ r.who # Root
     THEN r.scope \subseteq ScopedVendedorIds(r.who) /\ (r.named # Unnamed => r.scope = {r.named})
     ELSE r.scope \in ScopesOf(r)

(* Rows only move towards later pages: those of earlier pages were seen, and *)
(* those of this page, once it is found; and all of them, when the count is *)
(* not older than the rows and says that this page is the last.             *)
PagesSeen(r) ==
  LET answered == r.at = "shown" \/ (r.at = "query" /\ "find" \in r.done) IN
    /\ \A x \in r.must : Place(r, x) < (r.page - 1) * Limit => x \in r.seen
    /\ answered => \A x \in r.must : Place(r, x) < r.page * Limit => x \in r.seen \cup r.found
    /\ r.at = "query" /\ r.done = {"count"} /\ ~r.outdated => r.total = Cardinality(Selection(r))
    /\ answered /\ (r.at = "shown" \/ "count" \in r.done) /\ ~r.outdated /\ r.page * Limit >= r.total
         => r.must \subseteq r.seen \cup r.found

Walk(r) ==
  r.asks = "list" /\ ~r.shifted /\ r.must # {} =>
    /\ r.must \subseteq Selection(r)
    /\ family \in Paged => Steady(r) /\ PagesSeen(r)
    /\ family \notin Paged /\ (r.at = "shown" \/ (r.at = "query" /\ "find" \in r.done))
         => r.must \subseteq r.seen \cup r.found

LecturasInv ==
  /\ LecturasTypeOK
  /\ family = "products" => related \subseteq Vendors \X Buyers
  /\ Control(reader) /\ Rights(reader) /\ Walk(reader)
  /\ \A x \in wrote : MayRead(reader.who, x)

-----------------------------------------------------------------------------
(* The selection and the places of its rows                                 *)

LEMMA LecturasTypes ==
  ASSUME LecturasInv
  PROVE  /\ family \in Families /\ created \in Nat /\ created \in 0..MaxRows /\ withdrawn \subseteq Table
         /\ related \subseteq Vendors \X (Rows \cup Buyers) /\ wrote \subseteq Table
         /\ reader \in ReaderType
         /\ Control(reader) /\ Rights(reader) /\ Walk(reader)
BY LecturasAssumption DEF LecturasInv, LecturasTypeOK, ReaderType

LEMMA SelectionFinite ==
  ASSUME LecturasInv, NEW r
  PROVE  /\ IsFiniteSet(Selection(r)) /\ Cardinality(Selection(r)) \in 0..MaxRows
         /\ Selection(r) \subseteq Table
<1>1. IsFiniteSet(Table) /\ Cardinality(Table) = created
  <2>1. created \in Int /\ 1 \in Int
    BY LecturasTypes
  <2>2. /\ IsFiniteSet(1..created)
        /\ Cardinality(1..created) = IF 1 > created THEN 0 ELSE created - 1 + 1
    BY <2>1, FS_Interval
  <2> QED
    BY <2>2, LecturasTypes DEF Table
<1>2. Selection(r) \in SUBSET Table
  BY DEF Selection
<1>3. IsFiniteSet(Selection(r)) /\ Cardinality(Selection(r)) <= created
  BY <1>1, <1>2, FS_Subset
<1>4. Cardinality(Selection(r)) \in Nat
  BY <1>3, FS_CardinalityType
<1>5. MaxRows \in Nat /\ created \in 0..MaxRows
  BY LecturasAssumption, LecturasTypes
<1>6. Cardinality(Selection(r)) \in 0..MaxRows
  BY <1>3, <1>4, <1>5
<1> QED
  BY <1>2, <1>3, <1>6

(* A row comes after fewer rows than there are.                             *)
LEMMA PlaceInside ==
  ASSUME LecturasInv, NEW r, NEW x \in Selection(r)
  PROVE  Place(r, x) \in Nat /\ Place(r, x) < Cardinality(Selection(r))
<1> DEFINE E == {y \in Selection(r) : Before(y, x)}
<1>1. IsFiniteSet(Selection(r)) /\ x \in Nat
  BY SelectionFinite, LecturasTypes DEF Table
<1>2. E \in SUBSET (Selection(r) \ {x})
  BY <1>1 DEF Before
<1>3. /\ IsFiniteSet(Selection(r) \ {x})
      /\ Cardinality(Selection(r) \ {x}) = Cardinality(Selection(r)) - 1
  BY <1>1, FS_RemoveElement
<1>4. IsFiniteSet(E) /\ Cardinality(E) <= Cardinality(Selection(r) \ {x})
  BY <1>2, <1>3, FS_Subset
<1>5. Cardinality(E) \in Nat
  BY <1>4, FS_CardinalityType
<1>6. Cardinality(Selection(r)) \in Nat
  BY <1>1, FS_CardinalityType
<1> QED
  BY <1>3, <1>4, <1>5, <1>6 DEF Place

(* What is selected depends on the scope and on who asks.                   *)
LEMMA SameScope ==
  ASSUME NEW r, NEW s, r.scope = s.scope, r.who = s.who
  PROVE  /\ Selection(r) = Selection(s)
         /\ \A x : Place(r, x) = Place(s, x)
         /\ Rightful(r) <=> Rightful(s)
<1>1. \A x : InSelection(r, x) <=> InSelection(s, x)
  BY DEF InSelection
<1>2. Selection(r) = Selection(s)
  BY <1>1 DEF Selection
<1>3. Rightful(r) <=> Rightful(s)
  BY DEF Rightful
<1> QED
  BY <1>2, <1>3 DEF Place

LEMMA SameSteady ==
  ASSUME NEW r, NEW s, r.scope = s.scope, r.who = s.who, r.named = s.named, r.asks = s.asks, Steady(r)
  PROVE  Steady(s)
<1>1. ScopesOf(r) = ScopesOf(s)
  BY DEF ScopesOf
<1> QED
  BY <1>1 DEF Steady

-----------------------------------------------------------------------------
(* Steps of the reader                                                      *)

(* What is seen of the table is the same after a step that leaves it.       *)
LEMMA View ==
  ASSUME NEW r, reader' = r, UNCHANGED <<family, created, related, withdrawn>>
  PROVE  /\ Selection(reader)' = Selection(r)
         /\ \A x : Place(reader, x)' = Place(r, x)
         /\ ScopesOf(reader)' = ScopesOf(r)
         /\ ScopedVendedorIds(reader.who)' = ScopedVendedorIds(r.who)
         /\ \A x : MayRead(reader.who, x)' <=> MayRead(r.who, x)
         /\ Rightful(reader)' <=> Rightful(r)
<1>1. \A x : InSelection(reader, x)' <=> InSelection(r, x)
  BY DEF InSelection, InCartera, InActiveCatalog, OfCliente
<1>2. Selection(reader)' = Selection(r)
  BY <1>1 DEF Selection, Table
<1>3. ASSUME NEW x PROVE Place(reader, x)' = Place(r, x)
  <2>1. \A y : Before(y, x)' <=> Before(y, x)
    BY DEF Before
  <2>2. {y \in Selection(reader)' : Before(y, x)'} = {y \in Selection(r) : Before(y, x)}
    BY <1>2, <2>1
  <2> QED
    BY <2>2 DEF Place
<1>4. \A w : Providers(w)' = Providers(w)
  BY DEF Providers
<1>5. ScopedVendedorIds(reader.who)' = ScopedVendedorIds(r.who)
  BY <1>4 DEF ScopedVendedorIds
<1>6. ScopesOf(reader)' = ScopesOf(r)
  BY <1>5 DEF ScopesOf, ProductsScope
<1>7. \A x : MayRead(reader.who, x)' <=> MayRead(r.who, x)
  BY DEF MayRead
<1>8. Rightful(reader)' <=> Rightful(r)
  BY DEF Rightful
<1> QED
  BY <1>2, <1>3, <1>5, <1>6, <1>7, <1>8

(* What has to be shown of a step of the reader, to r.                      *)
LEMMA GoOnKeeps ==
  ASSUME LecturasInv, NEW r \in ReaderType, GoOn(r), wrote' \subseteq Table,
         Control(r), Rights(r), Walk(r), \A x \in wrote' : MayRead(r.who, x)
  PROVE  LecturasInv'
<1>1. reader' = r /\ UNCHANGED <<family, created, related, withdrawn>>
  BY DEF GoOn
<1>2. Table' = Table
  BY <1>1 DEF Table
<1>3. LecturasTypeOK'
  BY <1>1, <1>2, LecturasTypes DEF LecturasInv, LecturasTypeOK, ReaderType
<1>4. Control(reader)'
  BY <1>1, <1>2 DEF Control
<1>5. Rights(reader)'
  BY <1>1, View DEF Rights
<1>6. PagesSeen(reader)' <=> PagesSeen(r)
  BY <1>1, View DEF PagesSeen
<1>7. Steady(reader)' <=> Steady(r)
  BY <1>1, View DEF Steady
<1>8. Walk(reader)'
  BY <1>1, <1>6, <1>7, View DEF Walk
<1>9. \A x \in wrote' : MayRead(reader.who, x)'
  BY <1>1, View
<1>10. (family = "products" => related \subseteq Vendors \X Buyers)'
  BY <1>1 DEF LecturasInv
<1> QED
  BY <1>3, <1>4, <1>5, <1>8, <1>9, <1>10 DEF LecturasInv

(* A step that keeps the scope and who asks.                                *)
LEMMA SameRequest ==
  ASSUME LecturasInv, NEW r \in ReaderType, GoOn(r), UNCHANGED wrote,
         r.scope = reader.scope, r.who = reader.who, r.named = reader.named, r.asks = reader.asks,
         r.must = reader.must, r.shifted = reader.shifted,
         Control(r), Rights(r),
         reader.asks = "list" /\ ~reader.shifted /\ reader.must # {} /\ reader.must \subseteq Selection(reader) =>
           /\ family \in Paged /\ PagesSeen(reader) => PagesSeen(r)
           /\ family \notin Paged /\ (r.at = "shown" \/ (r.at = "query" /\ "find" \in r.done))
                => r.must \subseteq r.seen \cup r.found
  PROVE  LecturasInv'
<1>1. Selection(r) = Selection(reader)
  BY SameScope
<1>2. Steady(reader) => Steady(r)
  BY SameSteady
<1>3. Walk(r)
  BY <1>1, <1>2, LecturasTypes DEF Walk
<1>4. wrote' \subseteq Table /\ \A x \in wrote' : MayRead(r.who, x)
  BY LecturasTypes DEF LecturasInv
<1> QED
  BY <1>3, <1>4, GoOnKeeps

LEMMA AskForKeeps ==
  ASSUME LecturasInv, NEW who \in Readers, NEW asks \in {"list", "get", "update"},
         NEW named \in Vendors \cup {Unnamed}, NEW id \in Rows \cup {Unnamed},
         AskFor(who, asks, named, id)
  PROVE  LecturasInv'
<1> DEFINE r == [NoRequest EXCEPT !.at = "resolve", !.who = who, !.asks = asks, !.named = named,
                                  !.id = id]
<1>1. GoOn(r) /\ wrote' = {}
  BY DEF AskFor
<1>2. 0 \in 0..MaxRows /\ 1 \in Nat \ {0}
  BY LecturasAssumption
<1>3. /\ r \in ReaderType /\ r.at = "resolve" /\ r.must = {} /\ r.found = {} /\ r.seen = {}
      /\ r.done = {} /\ r.total = 0 /\ r.page = 1
  BY <1>2 DEF NoRequest, ReaderType, Readers
<1> HIDE DEF r
<1>4. Control(r) /\ Rights(r) /\ Walk(r)
  BY <1>3 DEF Control, Rights, Walk
<1> QED
  BY <1>1, <1>3, <1>4, GoOnKeeps

LEMMA MalformedKeeps == ASSUME LecturasInv, Malformed PROVE LecturasInv'
<1> DEFINE r == [reader EXCEPT !.at = "refused"]
<1>1. GoOn(r) /\ UNCHANGED wrote /\ reader.at = "resolve"
  BY DEF Malformed
<1>2. /\ r \in ReaderType /\ r.at = "refused"
      /\ r.who = reader.who /\ r.named = reader.named /\ r.asks = reader.asks
      /\ r.page = reader.page /\ r.scope = reader.scope /\ r.found = reader.found
      /\ r.seen = reader.seen /\ r.must = reader.must /\ r.shifted = reader.shifted
  BY LecturasTypes DEF ReaderType
<1> HIDE DEF r
<1>3. Control(r) /\ Rights(r)
  BY <1>2, LecturasTypes DEF Control, Rights
<1>4. PagesSeen(reader) => PagesSeen(r)
  BY <1>2, SameScope DEF PagesSeen
<1> QED
  BY <1>1, <1>2, <1>3, <1>4, SameRequest

LEMMA RequestFailsKeeps == ASSUME LecturasInv, RequestFails PROVE LecturasInv'
<1> DEFINE r == [reader EXCEPT !.at = "failed", !.done = {}, !.found = {}, !.total = 0]
<1>1. GoOn(r) /\ UNCHANGED wrote /\ reader.at \in {"resolve", "query", "write"}
  BY DEF RequestFails
<1>2. 0 \in 0..MaxRows
  BY LecturasAssumption
<1>3. /\ r \in ReaderType /\ r.at = "failed" /\ r.done = {} /\ r.found = {} /\ r.total = 0
      /\ r.who = reader.who /\ r.named = reader.named /\ r.asks = reader.asks
      /\ r.page = reader.page /\ r.scope = reader.scope
      /\ r.seen = reader.seen /\ r.must = reader.must /\ r.shifted = reader.shifted
  BY <1>2, LecturasTypes DEF ReaderType
<1> HIDE DEF r
<1>4. Control(r) /\ Rights(r)
  BY <1>1, <1>3, LecturasTypes DEF Control, Rights
<1>5. PagesSeen(reader) => PagesSeen(r)
  BY <1>3, SameScope DEF PagesSeen
<1> QED
  BY <1>1, <1>3, <1>4, <1>5, SameRequest

(* Whoever may see the scope may read the rows that are selected.           *)
LEMMA SelectionReadable ==
  ASSUME LecturasInv, NEW r \in ReaderType, Rightful(r), NEW x \in Selection(r)
  PROVE  MayRead(r.who, x)
<1>1. InSelection(r, x) /\ family \in Families
  BY LecturasTypes DEF Selection
<1>2. CASE r.who = Root
  BY <1>2 DEF MayRead, Rightful
<1>3. CASE r.who # Root /\ family \in {"vendedores", "logs", "inactive"}
  BY <1>3 DEF Rightful
<1>4. CASE r.who # Root /\ family \in {"clientes", "products"}
  BY <1>1, <1>4 DEF Rightful, MayRead, InSelection, InCartera
<1>6. CASE r.who # Root /\ family \in {"invitaciones", "entregas"}
  BY <1>1, <1>6 DEF Rightful, MayRead, InSelection
<1>5. CASE r.who # Root /\ family \in {"categories", "orders", "jobs"}
  BY <1>1, <1>5 DEF Rightful, MayRead, InSelection, OfCliente
<1> QED
  BY <1>1, <1>2, <1>3, <1>4, <1>5, <1>6 DEF Families, Paged

(* The rows before the end of a page are those before it, and those on it.  *)
LEMMA OnThePage ==
  ASSUME LecturasInv, NEW x \in Selection(reader), Place(reader, x) < reader.page * Limit,
         ~(Place(reader, x) < (reader.page - 1) * Limit)
  PROVE  x \in PageOf(reader.page, reader)
<1>1. Place(reader, x) \in Nat
  BY PlaceInside
<1>2. (reader.page - 1) * Limit \in Int
  BY LecturasTypes, LecturasAssumption DEF ReaderType
<1>3. (reader.page - 1) * Limit <= Place(reader, x)
  BY <1>1, <1>2
<1> QED
  BY <1>3 DEF PageOf

LEMMA FindManyKeeps == ASSUME LecturasInv, FindMany PROVE LecturasInv'
<1> DEFINE rows == IF family \in Paged THEN PageOf(reader.page, reader) ELSE Selection(reader)
           r == [reader EXCEPT !.done = @ \cup {"find"}, !.found = rows]
<1>1. /\ GoOn(r) /\ UNCHANGED wrote
      /\ reader.at = "query" /\ reader.asks = "list" /\ "find" \notin reader.done
  BY DEF FindMany
<1>2. rows \subseteq Selection(reader) /\ rows \in SUBSET Table
  BY SelectionFinite DEF PageOf
<1> HIDE DEF rows
<1>3. /\ r \in ReaderType /\ r.at = "query" /\ r.done = reader.done \cup {"find"} /\ r.found = rows
      /\ r.who = reader.who /\ r.named = reader.named /\ r.asks = reader.asks
      /\ r.page = reader.page /\ r.scope = reader.scope /\ r.total = reader.total
      /\ r.outdated = reader.outdated
      /\ r.seen = reader.seen /\ r.must = reader.must /\ r.shifted = reader.shifted
  BY <1>1, <1>2, LecturasTypes DEF ReaderType
<1> HIDE DEF r
<1>4. \A x \in rows : MayRead(reader.who, x)
  BY <1>1, <1>2, LecturasTypes, SelectionReadable DEF Rights
<1>5. Control(r) /\ Rights(r)
  BY <1>1, <1>3, <1>4, LecturasTypes, SameScope DEF Control, Rights
<1>6. ASSUME family \in Paged, PagesSeen(reader), reader.must \subseteq Selection(reader)
      PROVE  PagesSeen(r)
  <2>1. \A x \in reader.must : Place(reader, x) < reader.page * Limit => x \in reader.seen \cup rows
    BY <1>6, OnThePage DEF PagesSeen, rows
  <2>2. ASSUME "count" \in reader.done, ~reader.outdated, reader.page * Limit >= reader.total
        PROVE  reader.must \subseteq reader.seen \cup rows
    <3>1. reader.done = {"count"}
      BY <1>1, <2>2, LecturasTypes DEF ReaderType
    <3>2. reader.total = Cardinality(Selection(reader))
      BY <1>1, <1>6, <2>2, <3>1 DEF PagesSeen
    <3>3. /\ reader.total \in Int /\ reader.page * Limit \in Int
      BY LecturasTypes, LecturasAssumption DEF ReaderType
    <3>4. ASSUME NEW x \in reader.must PROVE Place(reader, x) < reader.page * Limit
      <4>1. Place(reader, x) \in Nat /\ Place(reader, x) < reader.total
        BY <1>6, <3>2, PlaceInside
      <4> QED
        BY <2>2, <3>3, <4>1
    <3> QED
      BY <2>1, <3>4
  <2>3. \A x : Place(r, x) = Place(reader, x)
    BY <1>3, SameScope
  <2>4. r.done # {"count"}
    BY <1>3
  <2>5. \A x \in r.must : Place(r, x) < (r.page - 1) * Limit => x \in r.seen
    BY <1>3, <1>6, <2>3 DEF PagesSeen
  <2> QED
    BY <1>3, <2>1, <2>2, <2>3, <2>4, <2>5 DEF PagesSeen
<1>7. family \notin Paged => rows = Selection(reader)
  BY DEF rows
<1> QED
  BY <1>1, <1>3, <1>5, <1>6, <1>7, SameRequest

LEMMA CountRowsKeeps == ASSUME LecturasInv, CountRows PROVE LecturasInv'
<1> DEFINE n == Cardinality(Selection(reader))
           r == [reader EXCEPT !.done = @ \cup {"count"}, !.total = n]
<1>1. GoOn(r) /\ UNCHANGED wrote /\ reader.at = "query" /\ reader.asks = "list"
  BY DEF CountRows
<1>2. n \in 0..MaxRows /\ n \in Int
  BY SelectionFinite, LecturasAssumption
<1>3. \A x \in Selection(reader) : Place(reader, x) \in Nat /\ Place(reader, x) < n
  BY PlaceInside
<1>4. n = Cardinality(Selection(reader))
  OBVIOUS
<1> HIDE DEF n
<1>5. /\ r \in ReaderType /\ r.at = "query" /\ r.done = reader.done \cup {"count"} /\ r.total = n
      /\ r.who = reader.who /\ r.named = reader.named /\ r.asks = reader.asks
      /\ r.page = reader.page /\ r.scope = reader.scope /\ r.found = reader.found
      /\ r.outdated = reader.outdated
      /\ r.seen = reader.seen /\ r.must = reader.must /\ r.shifted = reader.shifted
  BY <1>1, <1>2, LecturasTypes DEF ReaderType
<1> HIDE DEF r
<1>6. Control(r) /\ Rights(r)
  BY <1>1, <1>5, LecturasTypes, SameScope DEF Control, Rights
<1>7. ASSUME PagesSeen(reader), reader.must \subseteq Selection(reader)
      PROVE  PagesSeen(r)
  <2>1. Selection(r) = Selection(reader) /\ \A x : Place(r, x) = Place(reader, x)
    BY <1>5, SameScope
  <2>2. ASSUME "find" \in reader.done, reader.page * Limit >= n
        PROVE  reader.must \subseteq reader.seen \cup reader.found
    <3>1. reader.page * Limit \in Int
      BY LecturasTypes, LecturasAssumption DEF ReaderType
    <3>2. ASSUME NEW x \in reader.must PROVE Place(reader, x) < reader.page * Limit
      BY <1>2, <1>3, <1>7, <2>2, <3>1
    <3> QED
      BY <1>1, <1>7, <2>2, <3>2 DEF PagesSeen
  <2>3. \A x \in r.must : Place(r, x) < (r.page - 1) * Limit => x \in r.seen
    BY <1>5, <1>7, <2>1 DEF PagesSeen
  <2>4. "find" \in r.done => \A x \in r.must : Place(r, x) < r.page * Limit => x \in r.seen \cup r.found
    BY <1>1, <1>5, <1>7, <2>1 DEF PagesSeen
  <2>5. r.total = Cardinality(Selection(r))
    BY <1>4, <1>5, <2>1
  <2>6. "find" \in r.done /\ r.page * Limit >= r.total => r.must \subseteq r.seen \cup r.found
    BY <1>5, <2>2
  <2> QED
    BY <1>5, <2>3, <2>4, <2>5, <2>6 DEF PagesSeen
<1>8. ASSUME reader.asks = "list", ~reader.shifted, reader.must # {}, family \notin Paged, "find" \in r.done
      PROVE  r.must \subseteq r.seen \cup r.found
  BY <1>1, <1>5, <1>8, LecturasTypes DEF Walk
<1> QED
  BY <1>1, <1>5, <1>6, <1>7, <1>8, SameRequest

LEMMA ListAnsweredKeeps == ASSUME LecturasInv, ListAnswered PROVE LecturasInv'
<1> DEFINE r == [reader EXCEPT !.at = "shown", !.seen = @ \cup reader.found]
<1>1. GoOn(r) /\ UNCHANGED wrote /\ reader.at = "query" /\ reader.done = {"find", "count"}
  BY DEF ListAnswered
<1>2. /\ r \in ReaderType /\ r.at = "shown" /\ r.seen = reader.seen \cup reader.found
      /\ r.who = reader.who /\ r.named = reader.named /\ r.asks = reader.asks
      /\ r.page = reader.page /\ r.scope = reader.scope /\ r.total = reader.total
      /\ r.outdated = reader.outdated /\ r.found = reader.found
      /\ r.must = reader.must /\ r.shifted = reader.shifted
  BY LecturasTypes DEF ReaderType
<1> HIDE DEF r
<1>3. Control(r) /\ Rights(r)
  BY <1>2, LecturasTypes DEF Control, Rights
<1>4. PagesSeen(reader) => PagesSeen(r)
  <2>1. \A x : Place(r, x) = Place(reader, x)
    BY <1>2, SameScope
  <2> QED
    BY <1>1, <1>2, <2>1 DEF PagesSeen
<1>5. ASSUME reader.asks = "list", ~reader.shifted, reader.must # {}, family \notin Paged
      PROVE  r.must \subseteq r.seen \cup r.found
  BY <1>1, <1>2, <1>5, LecturasTypes DEF Walk
<1> QED
  BY <1>1, <1>2, <1>3, <1>4, <1>5, SameRequest

(* One row: nothing is promised of a walk.                                  *)
LEMMA FindOneKeeps == ASSUME LecturasInv, FindOne PROVE LecturasInv'
<1>1. /\ reader.at = "query" /\ reader.asks # "list" /\ UNCHANGED wrote /\ reader \in ReaderType
      /\ Control(reader) /\ Rights(reader) /\ Rightful(reader)
  BY LecturasTypes DEF FindOne, Rights
<1>2. ASSUME NEW r \in ReaderType, GoOn(r), Control(r), Rights(r), r.who = reader.who,
             r.asks = reader.asks
      PROVE  LecturasInv'
  <2>1. Walk(r)
    BY <1>1, <1>2 DEF Walk
  <2>2. wrote' \subseteq Table /\ \A x \in wrote' : MayRead(r.who, x)
    BY <1>1, <1>2, LecturasTypes DEF LecturasInv
  <2> QED
    BY <1>2, <2>1, <2>2, GoOnKeeps
<1>3. CASE reader.id \notin Selection(reader)
  <2> DEFINE r == [reader EXCEPT !.at = "refused"]
  <2>1. GoOn(r)
    BY <1>3 DEF FindOne
  <2>2. /\ r \in ReaderType /\ r.at = "refused" /\ r.who = reader.who /\ r.asks = reader.asks
        /\ r.found = reader.found /\ r.seen = reader.seen
    BY <1>1 DEF ReaderType
  <2> HIDE DEF r
  <2>3. Control(r) /\ Rights(r)
    BY <1>1, <2>2 DEF Control, Rights
  <2> QED
    BY <1>2, <2>1, <2>2, <2>3
<1>4. CASE reader.id \in Selection(reader) /\ reader.asks = "get"
  <2> DEFINE r == [reader EXCEPT !.at = "shown", !.seen = {reader.id}]
  <2>1. GoOn(r)
    BY <1>4, <1>1 DEF FindOne, ReaderType
  <2>2. reader.id \in Table /\ MayRead(reader.who, reader.id)
    BY <1>1, <1>4, SelectionReadable DEF Selection
  <2>3. /\ r \in ReaderType /\ r.at = "shown" /\ r.who = reader.who /\ r.asks = reader.asks
        /\ r.found = reader.found /\ r.seen = {reader.id}
    BY <1>1, <2>2 DEF ReaderType
  <2> HIDE DEF r
  <2>4. Control(r) /\ Rights(r)
    BY <1>1, <2>2, <2>3 DEF Control, Rights
  <2> QED
    BY <1>2, <2>1, <2>3, <2>4
<1>5. CASE reader.id \in Selection(reader) /\ reader.asks # "get"
  <2> DEFINE r == [reader EXCEPT !.at = "write"]
  <2>1. GoOn(r)
    <3>1. r = [reader EXCEPT !.at = "write", !.seen = reader.seen]
      BY <1>1 DEF ReaderType
    <3>2. GoOn([reader EXCEPT !.at = IF reader.asks = "get" THEN "shown" ELSE "write",
                              !.seen = IF reader.asks = "get" THEN {reader.id} ELSE @])
      BY <1>5 DEF FindOne
    <3> QED
      BY <1>5, <3>1, <3>2
  <2>2. reader.id \in Table /\ MayRead(reader.who, reader.id) /\ reader.asks = "update"
    BY <1>1, <1>5, SelectionReadable DEF Selection, ReaderType
  <2>3. /\ r \in ReaderType /\ r.at = "write" /\ r.who = reader.who /\ r.asks = reader.asks
        /\ r.id = reader.id /\ r.found = reader.found /\ r.seen = reader.seen
    BY <1>1 DEF ReaderType
  <2> HIDE DEF r
  <2>4. Control(r) /\ Rights(r)
    BY <1>1, <2>2, <2>3 DEF Control, Rights
  <2> QED
    BY <1>2, <2>1, <2>3, <2>4
<1> QED
  BY <1>3, <1>4, <1>5

LEMMA UpdateRowKeeps == ASSUME LecturasInv, UpdateRow PROVE LecturasInv'
<1> DEFINE r == [reader EXCEPT !.at = "shown"]
<1>1. GoOn(r) /\ wrote' = {reader.id} /\ reader.at = "write"
  BY DEF UpdateRow
<1>2. reader.id \in Table /\ reader.asks = "update" /\ MayRead(reader.who, reader.id)
  BY <1>1, LecturasTypes DEF Control, Rights
<1>3. /\ r \in ReaderType /\ r.at = "shown" /\ r.who = reader.who /\ r.asks = reader.asks
      /\ r.found = reader.found /\ r.seen = reader.seen
  BY LecturasTypes DEF ReaderType
<1> HIDE DEF r
<1>4. Control(r) /\ Rights(r) /\ Walk(r)
  BY <1>2, <1>3, LecturasTypes DEF Control, Rights, Walk
<1> QED
  BY <1>1, <1>2, <1>3, <1>4, GoOnKeeps

(* Asking for a page keeps a walk, when what comes before that page was     *)
(* seen.                                                                    *)
LEMMA WalkToKeeps ==
  ASSUME LecturasInv, NEW p \in Nat \ {0}, WalkTo(p), reader.at \in {"shown", "failed"},
         reader.at = "shown" => family \in Paged, p = reader.page \/ family \in Paged,
         PagesSeen(reader) /\ reader.must \subseteq Selection(reader) =>
           \A x \in reader.must : Place(reader, x) < (p - 1) * Limit => x \in reader.seen
  PROVE  LecturasInv'
<1> DEFINE r == [reader EXCEPT !.at = "resolve", !.page = p, !.done = {}, !.found = {}, !.total = 0]
<1>1. GoOn(r) /\ UNCHANGED wrote
  BY DEF WalkTo
<1>2. 0 \in 0..MaxRows
  BY LecturasAssumption
<1>3. /\ r \in ReaderType /\ r.at = "resolve" /\ r.done = {} /\ r.found = {} /\ r.total = 0
      /\ r.who = reader.who /\ r.named = reader.named /\ r.asks = reader.asks
      /\ r.page = p /\ r.scope = reader.scope
      /\ r.seen = reader.seen /\ r.must = reader.must /\ r.shifted = reader.shifted
  BY <1>2, LecturasTypes DEF ReaderType
<1> HIDE DEF r
<1>4. Control(r) /\ Rights(r)
  BY <1>3, LecturasTypes DEF Control, Rights
<1>5. PagesSeen(reader) /\ reader.must \subseteq Selection(reader) => PagesSeen(r)
  BY <1>3, SameScope DEF PagesSeen
<1> QED
  BY <1>1, <1>3, <1>4, <1>5, SameRequest

LEMMA NextPageKeeps == ASSUME LecturasInv, NextPage PROVE LecturasInv'
<1>1. PageShown /\ WalkTo(reader.page + 1)
  BY DEF NextPage
<1>2. reader.page \in Nat \ {0} /\ reader.found \subseteq reader.seen
  BY <1>1, LecturasTypes DEF PageShown, Control, ReaderType
<1>3. reader.page + 1 \in Nat \ {0} /\ (reader.page + 1) - 1 = reader.page
  BY <1>2
<1>4. \A x \in reader.must : PagesSeen(reader) /\ Place(reader, x) < reader.page * Limit => x \in reader.seen
  BY <1>1, <1>2 DEF PageShown, PagesSeen
<1> QED
  BY <1>1, <1>3, <1>4, WalkToKeeps DEF PageShown

LEMMA PreviousPageKeeps == ASSUME LecturasInv, PreviousPage PROVE LecturasInv'
<1>1. PageShown /\ WalkTo(reader.page - 1) /\ reader.page > 1 /\ reader.page \in Nat
  BY LecturasTypes DEF PreviousPage, ReaderType
<1>2. reader.page - 1 \in Nat \ {0}
  BY <1>1
<1>3. ASSUME NEW x \in reader.must, PagesSeen(reader), reader.must \subseteq Selection(reader),
             Place(reader, x) < (reader.page - 1 - 1) * Limit
      PROVE  x \in reader.seen
  <2>1. Place(reader, x) \in Nat /\ Limit \in Nat
    BY <1>3, PlaceInside, LecturasAssumption
  <2>2. (reader.page - 1 - 1) * Limit = (reader.page - 1) * Limit - Limit /\ (reader.page - 1) * Limit \in Nat
    BY <1>1, <2>1
  <2>3. Place(reader, x) < (reader.page - 1) * Limit
    BY <1>3, <2>1, <2>2
  <2> QED
    BY <1>3, <2>3 DEF PagesSeen
<1> QED
  BY <1>1, <1>2, <1>3, WalkToKeeps DEF PageShown

LEMMA RetryPageKeeps == ASSUME LecturasInv, RetryPage PROVE LecturasInv'
<1>1. reader.at = "failed" /\ WalkTo(reader.page) /\ reader.page \in Nat \ {0}
  BY LecturasTypes DEF RetryPage, ReaderType
<1>2. \A x \in reader.must : PagesSeen(reader) /\ Place(reader, x) < (reader.page - 1) * Limit => x \in reader.seen
  BY DEF PagesSeen
<1> QED
  BY <1>1, <1>2, WalkToKeeps

-----------------------------------------------------------------------------
(* Whose rows                                                               *)

LEMMA ScopesAreVendedores ==
  ASSUME LecturasInv, NEW r \in ReaderType, NEW vs \in ScopesOf(r)
  PROVE  vs \in SUBSET Vendors
<1>1. r.who \in Readers /\ r.named \in Vendors \cup {Unnamed} /\ family \in Families
  BY LecturasTypes DEF ReaderType
<1>2. CASE family \in {"vendedores", "logs", "entregas"}
  BY <1>2 DEF ScopesOf, VendedoresScope, LogsScope, EntregasScope, OwnScope, RequireRole
<1>3. CASE family \in {"clientes", "invitaciones"}
  BY <1>1, <1>3 DEF ScopesOf, ClientesScope, CarteraScope, InvitacionesScope, OwnScope, RequireRole, NamedOrAll
<1>4. CASE family = "products"
  <2>1. ScopedVendedorIds(r.who) \in SUBSET Vendors
    BY DEF ScopedVendedorIds, Providers
  <2>2. CASE r.asks = "list"
    <3>1. vs \in ProductsScope(r.who, r.named)
      BY <1>4, <2>2 DEF ScopesOf
    <3> QED
      BY <1>1, <2>1, <3>1 DEF ProductsScope, NamedOrAll
  <2>3. CASE r.asks # "list"
    BY <1>4, <2>1, <2>3 DEF ScopesOf
  <2> QED
    BY <2>2, <2>3
<1>5. CASE family \in {"categories", "inactive"}
  BY <1>1, <1>5 DEF ScopesOf, CategoriesScope, InactiveScope, RequireRole, NamedOrAll
<1>6. CASE family \in {"orders", "jobs"}
  BY <1>6 DEF ScopesOf, OrdersScope, JobsScope, OwnScope, RequireRole
<1> QED
  BY <1>1, <1>2, <1>3, <1>4, <1>5, <1>6 DEF Families, Paged

(* Every scope a handler resolves is one whose rows the reader may see.     *)
LEMMA ScopesRightful ==
  ASSUME LecturasInv, NEW r \in ReaderType, NEW s, s.who = r.who, s.scope \in ScopesOf(r)
  PROVE  Rightful(s)
<1>1. r.who \in Readers /\ family \in Families /\ r.who \notin Vendors \cap Buyers
  BY LecturasTypes, LecturasAssumption DEF ReaderType
<1>2. CASE r.who = Root
  BY <1>2, LecturasAssumption DEF Rightful, ScopesOf, EntregasScope, OwnScope, RequireRole
<1>3. CASE r.who # Root /\ family \in {"vendedores", "logs", "inactive"}
  BY <1>3 DEF Rightful, ScopesOf, VendedoresScope, LogsScope, InactiveScope, RequireRole
<1>4. CASE r.who # Root /\ family \in {"clientes", "invitaciones", "entregas"}
  BY <1>4 DEF Rightful, ScopesOf, ClientesScope, CarteraScope, InvitacionesScope, EntregasScope,
              OwnScope, RequireRole
<1>5. CASE r.who # Root /\ family = "products"
  <2>1. \A v \in ScopedVendedorIds(r.who) : v = r.who \/ <<v, r.who>> \in related
    BY <1>5 DEF ScopedVendedorIds, Providers
  <2>2. s.scope \subseteq ScopedVendedorIds(r.who)
    BY <1>5 DEF ScopesOf, ProductsScope
  <2> QED
    BY <1>5, <2>1, <2>2 DEF Rightful
<1>6. CASE r.who # Root /\ family = "categories"
  BY <1>6 DEF Rightful, ScopesOf, CategoriesScope
<1>7. CASE r.who # Root /\ family \in {"orders", "jobs"}
  BY <1>7 DEF Rightful, ScopesOf, OrdersScope, JobsScope, OwnScope, RequireRole
<1> QED
  BY <1>1, <1>2, <1>3, <1>4, <1>5, <1>6, <1>7 DEF Families, Paged

(* A scope with rows in it is steady,                                       *)
LEMMA ScopeSteady ==
  ASSUME LecturasInv, NEW r \in ReaderType, family \in Paged, r.asks = "list",
         r.scope \in ScopesOf(r), NEW x \in Selection(r)
  PROVE  Steady(r)
<1>1. InSelection(r, x) /\ x \in Rows /\ RowOwner[x] \in Vendors
  BY LecturasTypes, LecturasAssumption DEF Selection, Table, Rows
<1>2. r.scope # {}
  <2>1. CASE family \in {"vendedores", "logs"}
    BY <1>1, <2>1 DEF ScopesOf, VendedoresScope, LogsScope, RequireRole
  <2>2. CASE family \in {"clientes", "products"}
    BY <1>1, <2>2 DEF InSelection, InCartera
  <2>3. CASE family \in {"invitaciones", "entregas"}
    BY <1>1, <2>3 DEF InSelection
  <2> QED
    BY <2>1, <2>2, <2>3 DEF Paged
<1>3. CASE family = "products" /\ r.who # Root
  BY <1>2, <1>3 DEF Steady, ScopesOf, ProductsScope
<1>4. CASE ~(family = "products" /\ r.who # Root)
  BY <1>2, <1>4 DEF Steady
<1> QED
  BY <1>3, <1>4

(* and resolved again to the same vendedores: with one provider more a      *)
(* cliente must name a vendedor, and is refused.                            *)
LEMMA ScopeResolvedAgain ==
  ASSUME LecturasInv, NEW r \in ReaderType, family \in Paged, r.asks = "list",
         Steady(r), NEW vs \in ScopesOf(r)
  PROVE  vs = r.scope
<1>1. r.who \in Readers /\ r.scope # {} /\ Root \notin Vendors
  BY LecturasAssumption DEF ReaderType, Steady
<1>2. CASE family \in {"vendedores", "logs", "entregas"}
  BY <1>2 DEF Steady, ScopesOf, VendedoresScope, LogsScope, EntregasScope, OwnScope, RequireRole
<1>3. CASE family \in {"clientes", "invitaciones"}
  BY <1>1, <1>3 DEF Steady, ScopesOf, ClientesScope, CarteraScope, InvitacionesScope, OwnScope, RequireRole
<1>4. CASE family = "products" /\ r.who = Root
  BY <1>4 DEF Steady, ScopesOf, ProductsScope
<1>5. CASE family = "products" /\ r.who # Root
  <2> DEFINE ids == ScopedVendedorIds(r.who)
  <2>1. r.scope \subseteq ids /\ ids # {} /\ (r.named # Unnamed => r.scope = {r.named})
    BY <1>1, <1>5 DEF Steady
  <2>2. vs \in ProductsScope(r.who, r.named)
    BY <1>5 DEF ScopesOf
  <2>3. CASE r.named # Unnamed
    BY <1>5, <2>1, <2>2, <2>3 DEF ProductsScope
  <2>4. CASE r.named = Unnamed
    <3>1. vs = ids /\ ~(r.who \in Buyers /\ Cardinality(ids) > 1)
      BY <1>5, <2>1, <2>2, <2>4 DEF ProductsScope
    <3>2. \E v \in ids : ids = {v}
      <4>1. CASE r.who \in Vendors
        BY <1>5, <4>1 DEF ScopedVendedorIds
      <4>2. CASE r.who \in Buyers
        <5>1. ids \in SUBSET Vendors
          BY <1>5, <4>2, LecturasAssumption DEF ScopedVendedorIds, Providers
        <5>2. IsFiniteSet(ids) /\ Cardinality(ids) \in Nat
          BY <5>1, LecturasAssumption, FS_Subset, FS_CardinalityType
        <5>3. Cardinality(ids) # 0
          BY <2>1, <5>2, FS_EmptySet
        <5>4. Cardinality(ids) = 1
          BY <3>1, <4>2, <5>2, <5>3
        <5>5. \E v : ids = {v}
          BY <5>2, <5>4, FS_Singleton
        <5> QED
          BY <5>5
      <4>3. CASE r.who = Guest
        <5>1. ids = {}
          BY <1>5, <4>3, LecturasAssumption DEF ScopedVendedorIds, Providers, LecturasInv
        <5> QED
          BY <2>1, <5>1
      <4> QED
        BY <1>1, <1>5, <4>1, <4>2, <4>3 DEF Readers
    <3> QED
      BY <1>1, <2>1, <3>1, <3>2
  <2> QED
    BY <2>3, <2>4
<1> QED
  BY <1>2, <1>3, <1>4, <1>5 DEF Paged

LEMMA ResolveKeeps == ASSUME LecturasInv, Resolve PROVE LecturasInv'
<1>1. /\ reader.at = "resolve" /\ UNCHANGED wrote /\ reader \in ReaderType
      /\ Control(reader) /\ Rights(reader) /\ Walk(reader)
  BY LecturasTypes DEF Resolve
<1>2. CASE ScopesOf(reader) = {}
  <2> DEFINE r == [reader EXCEPT !.at = "refused"]
  <2>1. GoOn(r)
    BY <1>2 DEF Resolve
  <2>2. /\ r \in ReaderType /\ r.at = "refused"
        /\ r.who = reader.who /\ r.named = reader.named /\ r.asks = reader.asks
        /\ r.page = reader.page /\ r.scope = reader.scope /\ r.found = reader.found
        /\ r.seen = reader.seen /\ r.must = reader.must /\ r.shifted = reader.shifted
    BY <1>1 DEF ReaderType
  <2> HIDE DEF r
  <2>3. Control(r) /\ Rights(r)
    BY <1>1, <2>2 DEF Control, Rights
  <2>4. PagesSeen(reader) => PagesSeen(r)
    BY <2>2, SameScope DEF PagesSeen
  <2> QED
    BY <1>1, <2>1, <2>2, <2>3, <2>4, SameRequest
<1>3. ASSUME NEW vs \in ScopesOf(reader),
             LET r == [reader EXCEPT !.scope = vs, !.outdated = FALSE] IN
               GoOn([r EXCEPT !.at = IF vs = {} /\ r.asks = "list" THEN "shown" ELSE "query",
                              !.must = IF r.page = 1 /\ r.seen = {} THEN Selection(r) ELSE @])
      PROVE  LecturasInv'
  <2> DEFINE r0 == [reader EXCEPT !.scope = vs, !.outdated = FALSE]
             r == [r0 EXCEPT !.at = IF vs = {} /\ r0.asks = "list" THEN "shown" ELSE "query",
                             !.must = IF r0.page = 1 /\ r0.seen = {} THEN Selection(r0) ELSE @]
  <2>1. GoOn(r)
    BY <1>3
  <2>2. vs \in SUBSET Vendors
    BY <1>1, <1>3, ScopesAreVendedores
  <2>3. /\ r0 \in ReaderType /\ r0.at = reader.at /\ r0.scope = vs /\ r0.outdated = FALSE
        /\ r0.who = reader.who /\ r0.asks = reader.asks /\ r0.named = reader.named
        /\ r0.page = reader.page /\ r0.found = reader.found /\ r0.done = reader.done
        /\ r0.seen = reader.seen /\ r0.must = reader.must /\ r0.shifted = reader.shifted
        /\ r0.total = reader.total
    BY <1>1, <2>2 DEF ReaderType
  <2> HIDE DEF r0
  <2>4. Selection(r0) \in SUBSET Table
    BY SelectionFinite
  <2>5. /\ r \in ReaderType /\ r.at = (IF vs = {} /\ reader.asks = "list" THEN "shown" ELSE "query")
        /\ r.scope = vs /\ r.outdated = FALSE
        /\ r.must = (IF reader.page = 1 /\ reader.seen = {} THEN Selection(r0) ELSE reader.must)
        /\ r.who = reader.who /\ r.asks = reader.asks /\ r.named = reader.named
        /\ r.page = reader.page /\ r.found = reader.found /\ r.done = reader.done
        /\ r.seen = reader.seen /\ r.shifted = reader.shifted
    BY <2>3, <2>4 DEF ReaderType
  <2> HIDE DEF r
  <2>6. ScopesOf(r) = ScopesOf(reader) /\ Selection(r) = Selection(r0)
    <3>1. ScopesOf(r) = ScopesOf(reader)
      BY <2>5 DEF ScopesOf
    <3>2. Selection(r) = Selection(r0)
      BY <2>3, <2>5, SameScope
    <3> QED
      BY <3>1, <3>2
  <2>7. Rightful(r)
    BY <1>1, <2>5, <2>6, ScopesRightful
  <2>8. reader.done = {} /\ reader.found = {} /\ reader.page \in Nat \ {0}
    BY <1>1 DEF Control, ReaderType
  <2>9. Control(r) /\ Rights(r)
    BY <1>1, <2>5, <2>7, <2>8 DEF Control, Rights
  <2>10. ASSUME reader.asks = "list", ~reader.shifted, r.must # {}
         PROVE  /\ r.must \subseteq Selection(r)
                /\ family \in Paged => Steady(r) /\ PagesSeen(r)
                /\ family \notin Paged /\ r.at = "shown" => r.must \subseteq r.seen \cup r.found
    <3>1. CASE reader.page = 1 /\ reader.seen = {}
      <4>1. r.must = Selection(r)
        BY <2>5, <2>6, <3>1
      <4>2. PICK x \in Selection(r) : TRUE
        BY <2>10, <4>1
      <4>3. vs # {}
        <5>1. InSelection(r, x) /\ x \in Rows /\ RowOwner[x] \in Vendors /\ family \in Families
          BY LecturasTypes, LecturasAssumption, <4>2 DEF Selection, Table, Rows
        <5>2. CASE family \in {"vendedores", "logs"}
          BY <1>3, <5>1, <5>2 DEF ScopesOf, VendedoresScope, LogsScope, RequireRole
        <5>3. CASE family \in {"clientes", "products", "categories"}
          BY <2>5, <5>1, <5>3 DEF InSelection, InCartera
        <5>4. CASE family \in {"invitaciones", "entregas", "inactive", "orders", "jobs"}
          BY <2>5, <5>1, <5>4 DEF InSelection
        <5> QED
          BY <5>1, <5>2, <5>3, <5>4 DEF Families, Paged
      <4>4. r.at = "query"
        BY <2>5, <4>3
      <4>5. family \in Paged => Steady(r)
        BY <2>5, <2>6, <2>10, <4>2, ScopeSteady
      <4>6. \A y \in r.must : ~(Place(r, y) < (r.page - 1) * Limit)
        <5>1. (r.page - 1) * Limit = 0
          BY <2>5, <3>1, LecturasAssumption
        <5>2. \A y \in r.must : Place(r, y) \in Nat
          BY <4>1, PlaceInside
        <5> QED
          BY <5>1, <5>2
      <4>7. PagesSeen(r)
        BY <2>5, <2>8, <4>4, <4>6 DEF PagesSeen
      <4> QED
        BY <4>1, <4>4, <4>5, <4>7
    <3>2. CASE ~(reader.page = 1 /\ reader.seen = {})
      <4>1. r.must = reader.must /\ family \in Paged
        BY <1>1, <2>5, <2>10, <3>2 DEF Control
      <4>2. reader.must \subseteq Selection(reader) /\ Steady(reader) /\ PagesSeen(reader)
        BY <1>1, <2>10, <4>1 DEF Walk
      <4>3. vs = reader.scope /\ vs # {}
        BY <1>1, <1>3, <2>10, <4>1, <4>2, ScopeResolvedAgain DEF Steady
      <4>4. r.at = "query" /\ r.scope = reader.scope
        BY <2>5, <4>3
      <4>5. Selection(r) = Selection(reader) /\ \A x : Place(r, x) = Place(reader, x)
        BY <2>5, <4>4, SameScope
      <4>6. Steady(r)
        BY <2>5, <4>2, <4>4, SameSteady
      <4>7. \A x \in r.must : Place(r, x) < (r.page - 1) * Limit => x \in r.seen
        BY <2>5, <4>1, <4>2, <4>5 DEF PagesSeen
      <4>8. PagesSeen(r)
        BY <2>5, <2>8, <4>4, <4>7 DEF PagesSeen
      <4> QED
        BY <4>1, <4>2, <4>4, <4>5, <4>6, <4>8
    <3> QED
      BY <3>1, <3>2
  <2>11. Walk(r)
    BY <2>5, <2>8, <2>10 DEF Walk
  <2>12. wrote' \subseteq Table /\ \A x \in wrote' : MayRead(r.who, x)
    BY <1>1, <2>5, LecturasTypes DEF LecturasInv
  <2> QED
    BY <2>1, <2>5, <2>9, <2>11, <2>12, GoOnKeeps
<1> QED
  BY <1>2, <1>3 DEF Resolve

-----------------------------------------------------------------------------
(* Meanwhile                                                                *)

(* What the reader may see only grows with the relations.                   *)
LEMMA RightsGrow ==
  ASSUME LecturasInv, UNCHANGED family, related \subseteq related', NEW w, NEW x, MayRead(w, x)
  PROVE  MayRead(w, x)'
BY LecturasTypes DEF MayRead

(* Rows that are created, or related, never move others to an earlier page. *)
LEMMA GrowthKeeps ==
  ASSUME LecturasInv, UNCHANGED <<family, withdrawn, wrote>>,
         created' \in 0..MaxRows, created <= created', related \subseteq related',
         related' \subseteq Vendors \X (Rows \cup Buyers),
         family = "products" => related' \subseteq Vendors \X Buyers,
         reader' = Growing(reader)
  PROVE  LecturasInv'
<1> DEFINE r == Growing(reader)
<1>1. /\ r.at = reader.at /\ r.who = reader.who /\ r.named = reader.named /\ r.asks = reader.asks
      /\ r.id = reader.id /\ r.page = reader.page /\ r.scope = reader.scope
      /\ r.found = reader.found /\ r.done = reader.done /\ r.total = reader.total
      /\ r.seen = reader.seen /\ r.must = reader.must /\ r.shifted = reader.shifted
      /\ r.outdated = (reader.outdated \/ reader.done = {"count"})
      /\ r \in ReaderType
  BY LecturasTypes DEF Growing, ReaderType
<1>2. reader' = r
  OBVIOUS
<1> HIDE DEF r
<1>3. created \in Nat /\ created' \in Nat /\ MaxRows \in Nat
  BY LecturasTypes, LecturasAssumption
<1>4. Table \subseteq Table' /\ IsFiniteSet(Table') /\ Table' \subseteq Rows
  <2>1. Table' = 1..created'
    BY DEF Table
  <2>2. IsFiniteSet(1..created')
    BY <1>3, FS_Interval
  <2> QED
    BY <1>3, <2>1, <2>2 DEF Table, Rows
<1>5. LecturasTypeOK'
  <2>1. /\ r.found \subseteq Table' /\ r.seen \subseteq Table' /\ r.must \subseteq Table'
    BY <1>1, <1>4 DEF ReaderType
  <2>2. withdrawn' \subseteq Table' /\ wrote' \subseteq Table'
    BY <1>4, LecturasTypes
  <2>3. reader' \in ReaderType'
    BY <1>1, <1>2, <2>1 DEF ReaderType
  <2> QED
    BY <2>2, <2>3, LecturasTypes DEF LecturasTypeOK, ReaderType
<1>6. Control(reader)'
  BY <1>1, <1>2, <1>4, LecturasTypes DEF Control
<1>7. \A w : Providers(w) \subseteq Providers(w)'
  BY DEF Providers
<1>8. Rightful(reader) => Rightful(reader)'
  BY <1>1, <1>2, LecturasTypes DEF Rightful
<1>9. Rights(reader)'
  BY <1>1, <1>2, <1>8, RightsGrow, LecturasTypes DEF Rights
<1>10. \A x \in wrote' : MayRead(reader.who, x)'
  BY <1>1, <1>2, RightsGrow DEF LecturasInv
<1>11. Selection(reader) \subseteq Selection(reader)'
  <2>1. \A x : InSelection(reader, x) => InSelection(reader, x)'
    <3>1. \A x : InCartera(reader.scope, x) => InCartera(reader.scope, x)'
      BY <1>1, <1>2 DEF InCartera
    <3>2. \A x : /\ InActiveCatalog(reader.who, x)' <=> InActiveCatalog(reader.who, x)
                 /\ OfCliente(reader.who, x)' <=> OfCliente(reader.who, x)
      BY <1>1, <1>2 DEF InActiveCatalog, OfCliente
    <3>3. family \in Families
      BY LecturasTypes
    <3> QED
      BY <1>1, <1>2, <3>1, <3>2, <3>3 DEF InSelection, Families, Paged
  <2> QED
    BY <1>4, <2>1 DEF Selection
<1>12. \A x \in Selection(reader) :
         Place(reader, x) \in Nat /\ Place(reader, x)' \in Nat /\ Place(reader, x) <= Place(reader, x)'
  <2>1. SUFFICES ASSUME NEW x \in Selection(reader)
                 PROVE  Place(reader, x) \in Nat /\ Place(reader, x)' \in Nat /\ Place(reader, x) <= Place(reader, x)'
    OBVIOUS
  <2> DEFINE E == {y \in Selection(reader) : Before(y, x)}
             F == {y \in Selection(reader)' : Before(y, x)}
  <2>2. E \in SUBSET F
    BY <1>11
  <2>3. F \in SUBSET Table'
    BY DEF Selection
  <2>4. IsFiniteSet(F) /\ Cardinality(F) \in Nat
    BY <1>4, <2>3, FS_Subset, FS_CardinalityType
  <2>5. IsFiniteSet(E) /\ Cardinality(E) <= Cardinality(F) /\ Cardinality(E) \in Nat
    BY <2>2, <2>4, FS_Subset, FS_CardinalityType
  <2>6. Place(reader, x)' = Cardinality(F)
    BY DEF Place, Before
  <2> QED
    BY <2>4, <2>5, <2>6 DEF Place
<1>13. Steady(reader) => Steady(reader)'
  <2>1. ASSUME family = "products", reader.who # Root, Steady(reader)
        PROVE  Steady(reader)'
    <3>1. ScopedVendedorIds(reader.who) \subseteq ScopedVendedorIds(reader.who)'
      BY <1>1, <1>2, <1>7, <2>1 DEF ScopedVendedorIds
    <3> QED
      BY <1>1, <1>2, <2>1, <3>1 DEF Steady
  <2>2. ASSUME ~(family = "products" /\ reader.who # Root), Steady(reader)
        PROVE  Steady(reader)'
    <3>1. ScopesOf(reader)' = ScopesOf(reader)
      <4>1. CASE family = "products"
        <5>1. ScopedVendedorIds(reader.who)' = ScopedVendedorIds(reader.who)
          BY <1>1, <1>2, <2>2, <4>1 DEF ScopedVendedorIds
        <5> QED
          BY <1>1, <1>2, <4>1, <5>1 DEF ScopesOf, ProductsScope
      <4>2. CASE family # "products"
        BY <1>1, <1>2, <4>2, LecturasTypes DEF ScopesOf, Families, Paged
      <4> QED
        BY <4>1, <4>2
    <3> QED
      BY <1>1, <1>2, <2>2, <3>1 DEF Steady
  <2> QED
    BY <2>1, <2>2
<1>14. ASSUME PagesSeen(reader), reader.must \subseteq Selection(reader)
       PROVE  PagesSeen(reader)'
  <2>1. reader.page * Limit \in Int /\ (reader.page - 1) * Limit \in Int
    BY LecturasTypes, LecturasAssumption DEF ReaderType
  <2>2. \A x \in reader.must : Place(reader, x)' < (reader.page - 1) * Limit => x \in reader.seen
    BY <1>12, <1>14, <2>1 DEF PagesSeen
  <2>3. reader.at = "shown" \/ (reader.at = "query" /\ "find" \in reader.done) =>
          \A x \in reader.must : Place(reader, x)' < reader.page * Limit => x \in reader.seen \cup reader.found
    BY <1>12, <1>14, <2>1 DEF PagesSeen
  <2> QED
    BY <1>1, <1>2, <1>14, <2>2, <2>3 DEF PagesSeen
<1>15. Walk(reader)'
  BY <1>1, <1>2, <1>11, <1>13, <1>14, LecturasTypes DEF Walk
<1> QED
  BY <1>5, <1>6, <1>9, <1>10, <1>15 DEF LecturasInv

LEMMA CreateRowKeeps == ASSUME LecturasInv, CreateRow PROVE LecturasInv'
<1>1. /\ created + 1 \in Rows /\ created' = created + 1 /\ reader' = Growing(reader)
      /\ UNCHANGED <<family, withdrawn, wrote>>
      /\ related' = IF family = "clientes" THEN related \cup {<<RowOwner[created + 1], created + 1>>}
                    ELSE related
  BY DEF CreateRow
<1>2. created' \in 0..MaxRows /\ created <= created'
  BY <1>1, LecturasTypes, LecturasAssumption DEF Rows
<1>3. related \subseteq related' /\ related' \subseteq Vendors \X (Rows \cup Buyers)
  BY <1>1, LecturasTypes, LecturasAssumption
<1>4. family = "products" => related' \subseteq Vendors \X Buyers
  BY <1>1 DEF LecturasInv
<1> QED
  BY <1>1, <1>2, <1>3, <1>4, GrowthKeeps

LEMMA RelateKeeps ==
  ASSUME LecturasInv, NEW v \in Vendors, NEW x \in Rows \cup Buyers, Relate(v, x)
  PROVE  LecturasInv'
<1>1. /\ related' = related \cup {<<v, x>>} /\ reader' = Growing(reader)
      /\ UNCHANGED <<family, created, withdrawn, wrote>>
      /\ family = "products" => x \in Buyers
  BY DEF Relate
<1>2. created' \in 0..MaxRows /\ created <= created'
  BY <1>1, LecturasTypes
<1>3. related \subseteq related' /\ related' \subseteq Vendors \X (Rows \cup Buyers)
  BY <1>1, LecturasTypes
<1>4. family = "products" => related' \subseteq Vendors \X Buyers
  BY <1>1 DEF LecturasInv
<1> QED
  BY <1>1, <1>2, <1>3, <1>4, GrowthKeeps

(* A walk whose rows moved is promised nothing but its rights.              *)
LEMMA ToggleRowKeeps == ASSUME LecturasInv, NEW x \in Rows, ToggleRow(x) PROVE LecturasInv'
<1> DEFINE r == [Growing(reader) EXCEPT !.shifted = TRUE]
<1>1. /\ x \in Table /\ withdrawn' = {x} \ withdrawn /\ reader' = r
      /\ UNCHANGED <<family, created, related, wrote>>
  BY DEF ToggleRow
<1>2. /\ r.at = reader.at /\ r.who = reader.who /\ r.asks = reader.asks
      /\ r.id = reader.id /\ r.page = reader.page /\ r.scope = reader.scope
      /\ r.found = reader.found /\ r.done = reader.done /\ r.total = reader.total
      /\ r.seen = reader.seen /\ r.must = reader.must /\ r.shifted = TRUE
      /\ r \in ReaderType
  BY LecturasTypes DEF Growing, ReaderType
<1> HIDE DEF r
<1>3. Table' = Table
  BY <1>1 DEF Table
<1>4. LecturasTypeOK'
  BY <1>1, <1>2, <1>3, LecturasTypes DEF LecturasTypeOK, ReaderType
<1>5. Control(reader)'
  BY <1>1, <1>2, <1>3, LecturasTypes DEF Control
<1>6. Rightful(reader) => Rightful(reader)'
  BY <1>1, <1>2 DEF Rightful
<1>7. Rights(reader)' /\ \A y \in wrote' : MayRead(reader.who, y)'
  BY <1>1, <1>2, <1>6, RightsGrow, LecturasTypes DEF Rights, LecturasInv
<1>8. Walk(reader)'
  BY <1>1, <1>2 DEF Walk
<1>9. (family = "products" => related \subseteq Vendors \X Buyers)'
  BY <1>1 DEF LecturasInv
<1> QED
  BY <1>4, <1>5, <1>7, <1>8, <1>9 DEF LecturasInv

-----------------------------------------------------------------------------
(* The theorem                                                              *)

LEMMA LecturasStarts == LecturasInit => LecturasInv
<1> SUFFICES ASSUME LecturasInit PROVE LecturasInv
  OBVIOUS
<1>1. 0 \in 0..MaxRows /\ 1 \in Nat \ {0}
  BY LecturasAssumption
<1>2. reader = NoRequest /\ family \in Families /\ created = 0 /\ related = {} /\ withdrawn = {} /\ wrote = {}
  BY DEF LecturasInit
<1>3. LecturasTypeOK
  BY <1>1, <1>2 DEF LecturasTypeOK, NoRequest, Readers
<1>4. Control(reader) /\ Rights(reader) /\ Walk(reader)
  BY <1>2 DEF NoRequest, Control, Rights, Walk
<1> QED
  BY <1>2, <1>3, <1>4 DEF LecturasInv

LEMMA LecturasStutters == ASSUME LecturasInv, UNCHANGED lecturasVars PROVE LecturasInv'
<1>1. GoOn(reader) /\ UNCHANGED wrote
  BY DEF lecturasVars, GoOn
<1> QED
  BY <1>1, LecturasTypes, GoOnKeeps DEF LecturasInv

LEMMA LecturasStep == LecturasInv /\ [LecturasNext]_lecturasVars => LecturasInv'
<1>1. ASSUME LecturasInv, LecturasNext PROVE LecturasInv'
  <2>0. LecturasNext
    BY <1>1
  <2>1. CASE \E who \in Readers, asks \in {"list", "get", "update"},
               named \in Vendors \cup {Unnamed}, id \in Rows \cup {Unnamed} : AskFor(who, asks, named, id)
    BY <1>1, <2>1, AskForKeeps
  <2>2. CASE Malformed \/ Resolve \/ FindMany \/ CountRows \/ ListAnswered
    BY <1>1, <2>2, MalformedKeeps, ResolveKeeps, FindManyKeeps, CountRowsKeeps, ListAnsweredKeeps
  <2>3. CASE FindOne \/ UpdateRow \/ RequestFails
    BY <1>1, <2>3, FindOneKeeps, UpdateRowKeeps, RequestFailsKeeps
  <2>4. CASE NextPage \/ PreviousPage \/ RetryPage
    BY <1>1, <2>4, NextPageKeeps, PreviousPageKeeps, RetryPageKeeps
  <2>5. CASE CreateRow \/ \E x \in Rows : ToggleRow(x)
    BY <1>1, <2>5, CreateRowKeeps, ToggleRowKeeps
  <2>6. CASE \E v \in Vendors, x \in Rows \cup Buyers : Relate(v, x)
    BY <1>1, <2>6, RelateKeeps
  <2> QED
    BY <2>0, <2>1, <2>2, <2>3, <2>4, <2>5, <2>6 DEF LecturasNext
<1> QED
  BY <1>1, LecturasStutters

LEMMA LecturasInvariance == LecturasSpec => []LecturasInv
BY LecturasStarts, LecturasStep, PTL DEF LecturasSpec

(* The state of a walk is of its type.                                      *)
THEOREM LecturasTyped == LecturasSpec => []LecturasTypeOK
<1>1. LecturasInv => LecturasTypeOK
  BY DEF LecturasInv
<1> QED
  BY <1>1, LecturasInvariance, PTL

LEMMA WalkFollows == LecturasInv => WalkShowsTheScope
<1> SUFFICES ASSUME LecturasInv PROVE WalkShowsTheScope
  OBVIOUS
<1>1. Control(reader) /\ Rights(reader) /\ Walk(reader)
  BY LecturasTypes
<1>2. \A x \in reader.seen \cup wrote : MayRead(reader.who, x)
  BY <1>1 DEF Rights, LecturasInv
<1>3. ASSUME reader.at = "shown", reader.asks = "list", ~reader.shifted, ~reader.outdated,
             family \in Paged => reader.page * Limit >= reader.total
      PROVE  reader.must \subseteq reader.seen
  <2>1. reader.found \subseteq reader.seen
    BY <1>1, <1>3 DEF Control
  <2>2. CASE family \in Paged
    BY <1>1, <1>3, <2>1, <2>2 DEF Walk, PagesSeen
  <2>3. CASE family \notin Paged
    BY <1>1, <1>3, <2>1, <2>3 DEF Walk
  <2> QED
    BY <2>2, <2>3
<1> QED
  BY <1>2, <1>3 DEF WalkShowsTheScope

(* A walk through a list, and an edit, touch only rows that their reader     *)
(* may read, whatever is created or related meanwhile; and when the last    *)
(* page is shown, all rows that were there when the walk began were shown,  *)
(* unless some were withdrawn or the count is older than the rows: findMany *)
(* and count() of every list, with the scope resolved for each page.        *)
THEOREM WalkComplete == LecturasSpec => []WalkShowsTheScope
BY WalkFollows, LecturasInvariance, PTL

=============================================================================
