------------------------------ MODULE CartScreen ------------------------------
(***************************************************************************)
(* The home and the cart page of a cliente in one tab (frontend            *)
(* features/cliente): the home selects a vendedor, remembered per user in  *)
(* localStorage; the cart page shows the cart of that vendedor and edits   *)
(* it while reads and edits are answered in any order, the session is      *)
(* replaced and another tab selects a different vendedor. A request counter *)
(* (requestId, mutationToken) is modelled by what it decides: an answer    *)
(* nobody waits for is dropped here when the counter moves, an edit        *)
(* remembers whether a read was started after it.                          *)
(***************************************************************************)
EXTENDS Identity, Naturals

CONSTANTS
  Vendedores,   \* vendedores
  Offered,      \* [Users -> SUBSET Vendedores]: the providers of each cliente
  MaxVersions,  \* bound: versions of each cart on the server
  NoProvider,   \* no vendedor selected
  NoCart        \* no cart on the screen

ASSUME CartScreenAssumption ==
  /\ MaxVersions \in Nat \ {0}
  /\ Offered \in [Users -> SUBSET Vendedores]
  /\ NoProvider \notin Vendedores

VARIABLES
  server,    \* orders-service: the version of a user's cart with a vendedor
  provider,  \* localStorage: the vendedor each user selected
  home,      \* the home: its reads, its selection
  screen,    \* the cart page: what it shows and its locks
  read,      \* the cart read that is current
  edit,      \* the edit that owns the lock
  acked      \* history: the newest version that an edit of this visit was
             \* answered with, of the cart with each vendedor

screenVars == <<idVars, server, provider, home, screen, read, edit, acked>>

Versions == 1..MaxVersions
(* loading, selectingId, selectedProvider. *)
EmptyHome == [loading |-> FALSE, selecting |-> NoProvider, selected |-> NoProvider]
HomeLoading == [EmptyHome EXCEPT !.loading = TRUE]
(* cart, loading, failed, mutatingProductId, redirectToHome. *)
EmptyScreen == [cart |-> NoCart, loading |-> FALSE, failed |-> FALSE,
                mutating |-> FALSE, redirect |-> FALSE]
(* The vendedor asked for, and the version the server answered, or 0. *)
NoRead == [on |-> FALSE, vendedor |-> NoProvider, got |-> 0]
(* The same of an edit; fresh: no read was started after it. *)
NoEdit == [on |-> FALSE, fresh |-> TRUE, vendedor |-> NoProvider, got |-> 0]

NoAcks == [v \in Vendedores |-> 0]

ScreenInit ==
  /\ IdentityInit
  /\ server = [u \in Users |-> [v \in Vendedores |-> 1]]
  /\ provider = [u \in Users |-> NoProvider]
  /\ home = EmptyHome
  /\ screen = EmptyScreen
  /\ read = NoRead /\ edit = NoEdit
  /\ acked = NoAcks

cartVars == <<screen, read, edit, acked>>

-----------------------------------------------------------------------------
(* ClienteHomeFacade and ClienteProviderSelectionService *)

(* The constructor and load(). *)
OpenHome ==
  /\ page = "none" /\ Enter("home")
  /\ home' = HomeLoading
  /\ UNCHANGED <<server, provider, cartVars>>

Remember(u, v) == provider' = [provider EXCEPT ![u] = v]

(* The home of another tab, or the answer to a request of another page,      *)
(* selects a vendedor or forgets the selection; this tab is not told.       *)
SelectElsewhere(u, v) ==
  /\ v \in Offered[u] \cup {NoProvider}
  /\ Remember(u, v)
  /\ UNCHANGED <<idVars, server, home, cartVars>>

(* The providers arrive and resolve() picks one: the stored id if it is     *)
(* still offered, or else the default, or else the only one.                *)
ProvidersListed(list, default) ==
  LET choice == IF provider[user] \in list THEN provider[user]
                ELSE IF default \in list THEN default
                ELSE IF \E v \in list : list = {v} THEN CHOOSE v \in list : TRUE
                ELSE NoProvider IN
  /\ page = "home" /\ home.loading
  /\ user # Nobody /\ list \subseteq Offered[user]
  /\ home' = [home EXCEPT !.loading = FALSE, !.selected = choice]
  /\ Remember(user, choice)
  /\ UNCHANGED <<idVars, server, cartVars>>

ListFailed ==
  /\ page = "home" /\ home.loading
  /\ home' = EmptyHome
  /\ UNCHANGED <<idVars, server, provider, cartVars>>

(* retry(): load() again; a selection in flight is not waited for any more. *)
RetryHome ==
  /\ page = "home" /\ ~home.loading
  /\ home' = HomeLoading
  /\ UNCHANGED <<idVars, server, provider, cartVars>>

(* select(): the server validates the choice, then it is remembered. *)
Select(v) ==
  /\ page = "home" /\ ~home.loading /\ user # Nobody
  /\ home.selecting = NoProvider /\ v \in Offered[user]
  /\ home' = [home EXCEPT !.selecting = v]
  /\ UNCHANGED <<idVars, server, provider, cartVars>>

Selected ==
  LET v == home.selecting IN
  /\ v # NoProvider
  /\ \/ home' = [home EXCEPT !.selected = v, !.selecting = NoProvider] /\ Remember(user, v)
     \/ home' = [home EXCEPT !.selecting = NoProvider] /\ UNCHANGED provider
  /\ UNCHANGED <<idVars, server, cartVars>>

(* session$: a different user resets the home and loads it again. *)
HomeAfter(u) ==
  IF page # "home" \/ u = user THEN home ELSE IF u = Nobody THEN EmptyHome ELSE HomeLoading

-----------------------------------------------------------------------------
(* ClienteCarritoDetalleFacade *)

(* readScope(). *)
InScope(u) == u # Nobody /\ provider[u] # NoProvider

(* resetForSessionChange() and resetForRedirect(). *)
Reset(s) == screen' = s /\ read' = NoRead /\ edit' = NoEdit
Redirect == Reset([EmptyScreen EXCEPT !.redirect = TRUE])
LoseProvider == provider' = [provider EXCEPT ![user] = NoProvider] /\ Redirect

(* load(), by u, from the screen s with the edit e in flight. *)
Load(u, s, e) ==
  IF InScope(u)
  THEN /\ screen' = [s EXCEPT !.loading = TRUE, !.failed = FALSE]
       /\ read' = [NoRead EXCEPT !.on = TRUE, !.vendedor = provider[u]]
       /\ edit' = [e EXCEPT !.fresh = FALSE]
  ELSE Redirect

OpenCartPage ==
  /\ page = "none" /\ Enter("cart")
  /\ Load(user, EmptyScreen, NoEdit)
  /\ acked' = NoAcks
  /\ UNCHANGED <<server, provider, home>>

(* retry(), or any other call of the public load(). *)
Retry ==
  /\ page = "cart" /\ ready /\ ~screen.loading /\ ~screen.redirect
  /\ Load(user, screen, edit)
  /\ UNCHANGED <<idVars, server, provider, home, acked>>

ServeRead ==
  /\ read.on /\ read.got = 0 /\ user # Nobody
  /\ read' = [read EXCEPT !.got = server[user][read.vendedor]]
  /\ UNCHANGED <<idVars, server, provider, home, screen, edit, acked>>

Shown(v, n) == [by |-> user, vendedor |-> v, version |-> n]

(* The read is answered. Without its user, nothing happens. *)
ReadArrives ==
  /\ read.on
  /\ \/ /\ read.got # 0 /\ user # Nobody
        /\ screen' = [screen EXCEPT !.cart = Shown(read.vendedor, read.got), !.loading = FALSE]
        /\ read' = NoRead
        /\ UNCHANGED <<provider, edit>>
     \/ /\ user # Nobody
        /\ screen' = [screen EXCEPT !.failed = TRUE, !.loading = FALSE]
        /\ read' = NoRead
        /\ UNCHANGED <<provider, edit>>
     \/ user # Nobody /\ LoseProvider
  /\ UNCHANGED <<idVars, server, home, acked>>

(* Faulty variant: the cart on the screen is not compared. *)
AnyVendedor == TRUE

(* The vendedor selected now is still that of the cart on the screen. *)
SameVendedor == screen.cart.vendedor = provider[user]

(* removeItem(), changeQuantity(): one at a time (mutationScope()), for the  *)
(* cart on the screen, which the page offers while it is neither loading    *)
(* nor failed. A vendedor selected meanwhile sends the user home.           *)
Edit ==
  /\ page = "cart" /\ ~screen.loading /\ ~screen.failed
  /\ ~screen.mutating /\ screen.cart # NoCart
  /\ IF InScope(user) /\ SameVendedor
     THEN /\ screen' = [screen EXCEPT !.mutating = TRUE]
          /\ edit' = [NoEdit EXCEPT !.on = TRUE, !.vendedor = provider[user]]
          /\ read' = NoRead
     ELSE Redirect
  /\ UNCHANGED <<idVars, server, provider, home, acked>>

(* orders-service changes a cart. *)
Changed(u, v) ==
  /\ server[u][v] < MaxVersions
  /\ server' = [server EXCEPT ![u][v] = @ + 1]

ServeEdit ==
  /\ edit.on /\ edit.got = 0 /\ user # Nobody
  /\ Changed(user, edit.vendedor)
  /\ edit' = [edit EXCEPT !.got = server'[user][edit.vendedor]]
  /\ UNCHANGED <<idVars, provider, home, screen, read, acked>>

Unlocked == [screen EXCEPT !.mutating = FALSE]

(* Faulty variant: an edit overtaken by a read is simply forgotten. *)
ForgetStaleEdit == screen' = Unlocked /\ edit' = NoEdit /\ UNCHANGED read

(* settleMutation(): a read started meanwhile may have seen the cart before *)
(* the edit, so the cart is loaded again.                                   *)
ReloadAfterStaleEdit == Load(user, Unlocked, NoEdit)

(* The edit is answered with the new cart. *)
EditArrives ==
  /\ edit.on /\ edit.got # 0
  /\ IF user = Nobody \/ screen.redirect THEN screen' = Unlocked /\ edit' = NoEdit /\ UNCHANGED <<read, acked>>
     ELSE /\ acked' = [acked EXCEPT ![edit.vendedor] = edit.got]
          /\ IF edit.fresh
             THEN /\ screen' = [Unlocked EXCEPT !.cart = Shown(edit.vendedor, edit.got)]
                  /\ edit' = NoEdit /\ UNCHANGED read
             ELSE ReloadAfterStaleEdit
  /\ UNCHANGED <<idVars, server, provider, home>>

(* handleMutationFailure(): the provider was lost, the cart drifted away    *)
(* from the screen, or something else went wrong.                           *)
EditFails ==
  /\ edit.on
  /\ IF user = Nobody \/ screen.redirect
     THEN screen' = Unlocked /\ edit' = NoEdit /\ UNCHANGED <<read, provider>>
     ELSE \/ edit.fresh /\ LoseProvider
          \/ Load(user, Unlocked, NoEdit) /\ UNCHANGED provider
          \/ /\ edit.fresh /\ screen' = Unlocked /\ edit' = NoEdit
             /\ UNCHANGED <<read, provider>>
  /\ UNCHANGED <<idVars, server, home, acked>>

-----------------------------------------------------------------------------
(* The session, the pages and the server *)

(* Faulty variant: the lock of the old session's edit survives. *)
ResetKeepingLock == Reset([EmptyScreen EXCEPT !.mutating = screen.mutating])

ResetForSession == Reset([EmptyScreen EXCEPT !.redirect = screen.redirect])

ReplaceSession(u) ==
  /\ ReplacedBy(u)
  /\ ResetForSession /\ acked' = NoAcks
  /\ home' = HomeAfter(u)
  /\ UNCHANGED <<server, provider>>

RestoreSession ==
  /\ Restored
  /\ IF page = "cart" THEN Load(user', screen, edit) ELSE UNCHANGED <<screen, read, edit>>
  /\ home' = HomeAfter(user')
  /\ UNCHANGED <<server, provider, acked>>

EndSession == SignedOut /\ home' = HomeAfter(Nobody) /\ UNCHANGED <<server, provider, cartVars>>

StartSession ==
  /\ \E u \in Users : SignIn(u)
  /\ UNCHANGED <<server, provider, home, cartVars>>

LeavePage ==
  /\ Exit
  /\ Reset(EmptyScreen) /\ acked' = NoAcks
  /\ home' = EmptyHome
  /\ UNCHANGED <<server, provider>>

(* A cart changes otherwise: another device, an abandoned edit. *)
OtherEdit(u, v) ==
  /\ v \in Offered[u]
  /\ Changed(u, v)
  /\ UNCHANGED <<idVars, provider, home, cartVars>>

ScreenNext ==
  \/ OpenHome \/ RetryHome \/ ListFailed \/ Selected
  \/ \E list \in SUBSET Vendedores, v \in Vendedores \cup {NoProvider} : ProvidersListed(list, v)
  \/ \E v \in Vendedores : Select(v)
  \/ OpenCartPage \/ Retry \/ ServeRead \/ ReadArrives
  \/ Edit \/ ServeEdit \/ EditArrives \/ EditFails
  \/ RestoreSession \/ EndSession \/ StartSession \/ LeavePage
  \/ \E u \in Users : ReplaceSession(u)
  \/ \E u \in Users, v \in Vendedores : OtherEdit(u, v)
  \/ \E u \in Users, v \in Vendedores \cup {NoProvider} : SelectElsewhere(u, v)

EditSettles == EditArrives \/ EditFails
AbandonedPageLeft == user = Nobody /\ LeavePage

(* The gateway answers every request in the end, and a page whose user is   *)
(* gone is left.                                                            *)
ScreenFairness ==
  WF_screenVars(ReadArrives) /\ WF_screenVars(EditSettles) /\ WF_screenVars(AbandonedPageLeft)

ScreenSpec == ScreenInit /\ [][ScreenNext]_screenVars /\ ScreenFairness

-----------------------------------------------------------------------------
(* Properties *)

ScreenTypeOK ==
  /\ IdentityTypeOK /\ page \in {"none", "home", "cart"}
  /\ server \in [Users -> [Vendedores -> Versions]]
  /\ provider \in [Users -> Vendedores \cup {NoProvider}]
  /\ home \in [loading : BOOLEAN, selecting : Vendedores \cup {NoProvider},
               selected : Vendedores \cup {NoProvider}]
  /\ screen \in [cart : [by : Users, vendedor : Vendedores, version : Versions] \cup {NoCart},
                 loading : BOOLEAN, failed : BOOLEAN, mutating : BOOLEAN, redirect : BOOLEAN]
  /\ read \in [on : BOOLEAN, vendedor : Vendedores \cup {NoProvider}, got : Versions \cup {0}]
  /\ edit \in [on : BOOLEAN, fresh : BOOLEAN, vendedor : Vendedores \cup {NoProvider},
               got : Versions \cup {0}]
  /\ acked \in [Vendedores -> Versions \cup {0}]

(* Of a cliente who is signed in, the cart on the screen is their own, and  *)
(* an edit whose answer will be put on the screen is one of the cart shown  *)
(* there: the answer never takes the place of another vendedor's cart,      *)
(* although sessions are replaced, another tab selects a vendedor at any    *)
(* time, and a reload during the edit brings that vendedor's cart           *)
(* (mutationScope(), settleMutation()).                                     *)
OwnCartOnly ==
  /\ user # Nobody /\ screen.cart # NoCart => screen.cart.by = user
  /\ edit.on /\ edit.fresh =>
       screen.cart # NoCart /\ screen.cart.vendedor = edit.vendedor

(* A screen at rest is not behind the cliente's own edits: whatever read or *)
(* edit was answered first and whatever vendedor was selected meanwhile, it *)
(* shows the newest edit of that cart it was answered with.                 *)
ScreenCatchesUp ==
  screen.cart # NoCart /\ ~screen.loading /\ ~screen.failed /\ ~screen.mutating
    => screen.cart.version >= acked[screen.cart.vendedor]

(* The screen never stays locked or loading: every edit and every read that *)
(* is in flight releases it, also when the session was replaced meanwhile.  *)
ScreenSettles == []<>~(screen.loading \/ screen.mutating)
=============================================================================
