------------------------------- MODULE Identity -------------------------------
(***************************************************************************)
(* Who is signed in, as the pages of one tab see it (ClienteSessionReader  *)
(* and ClienteSessionReadinessReader): what Sesion shows of a tab, without *)
(* tokens. A page opens only for a validated session; while it is open,    *)
(* another tab may install the session of somebody else, or end it.        *)
(***************************************************************************)
CONSTANTS
  Users,   \* clientes who share the browser
  Nobody   \* no session

ASSUME IdentityAssumption == Nobody \notin Users

VARIABLES
  user,   \* currentSession.user.id, or Nobody
  ready,  \* sessionReady$
  page    \* the open page, or "none"

idVars == <<user, ready, page>>

IdentityInit == user = Nobody /\ ready = TRUE /\ page = "none"

(* Each of these steps is one part of an action of the pages, which say     *)
(* what they do about it.                                                   *)
SignIn(u) == user = Nobody /\ page = "none" /\ user' = u /\ UNCHANGED <<ready, page>>

(* A storage event: the pages hear ready = false, then the replacement.     *)
ReplacedBy(u) == user' = u /\ ready' = FALSE /\ UNCHANGED page

(* The restore is over; it may have ended the session. *)
Restored ==
  /\ ~ready /\ ready' = TRUE
  /\ user' \in {user, Nobody}
  /\ UNCHANGED page

(* Logout, here or in another tab, or a 401. The router leaves the page     *)
(* after the session is gone, not with it.                                  *)
SignedOut == user # Nobody /\ user' = Nobody /\ UNCHANGED <<ready, page>>

(* authGuard: a page needs a validated session. *)
Enter(p) == ready /\ user # Nobody /\ page' = p /\ UNCHANGED <<user, ready>>
Exit == page # "none" /\ page' = "none" /\ UNCHANGED <<user, ready>>

IdentityTypeOK == user \in Users \cup {Nobody} /\ ready \in BOOLEAN
=============================================================================
