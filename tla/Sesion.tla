-------------------------------- MODULE Sesion --------------------------------
(***************************************************************************)
(* The session of one user in the tabs of a browser (frontend core/auth)   *)
(* and its refresh token in usuario-service. localStorage is shared, every *)
(* tab keeps its own copy, and a `storage` event tells the other tabs of a *)
(* write some time after it. A session that another tab installed is       *)
(* restored again: refreshed, then validated against the profile.          *)
(***************************************************************************)
EXTENDS Naturals

CONSTANTS
  Tabs,           \* tabs of the browser
  MaxTokens,      \* bound: token pairs usuario-service ever mints
  LateRefreshes,  \* whether late and repeated refreshes are in the behaviour
  NoSession       \* null

ASSUME SesionAssumption == MaxTokens \in Nat \ {0} /\ LateRefreshes \in BOOLEAN

VARIABLES
  hash,     \* usuario-service: refresh_token_hash of the user, 0: null
  minted,   \* usuario-service: token pairs generated so far
  allowed,  \* usuario-service: the account is active
  stored,   \* localStorage: the session, or NoSession
  tab,      \* the state of each tab
  revoke    \* a logout call is under way

sesionVars == <<hash, minted, allowed, stored, tab, revoke>>

Tokens == 1..MaxTokens
(* A refresh token belongs to one user and one login, so it stands for the  *)
(* principal; `token` is the access token.                                  *)
Sessions == [refresh : Tokens, token : Tokens]
Phases == {"idle", "refresh", "verified", "renewed", "rejected", "profile"}

(* session: sessionSubject; ready: sessionReadySubject; event: a storage    *)
(* event is queued; phase, with, fresh: the restore in flight, the session  *)
(* it started with and the token it got; grant: the pair a login in flight  *)
(* was granted, or 0.                                                       *)
NewTab == [session |-> stored, ready |-> stored = NoSession, event |-> FALSE,
           phase |-> IF stored = NoSession THEN "idle" ELSE "refresh",
           with |-> stored, fresh |-> 0, grant |-> 0]

(* The user has signed in once; this browser may still hold that session. *)
SesionInit ==
  /\ hash = 1 /\ minted = 1 /\ allowed = TRUE
  /\ stored \in {[refresh |-> 1, token |-> 1], NoSession}
  /\ tab = [t \in Tabs |-> NewTab]
  /\ revoke = FALSE

IsSameSession(t) == tab[t].session # NoSession /\ tab[t].session = tab[t].with
IsSamePrincipal(t) ==
  tab[t].session # NoSession /\ tab[t].session.refresh = tab[t].with.refresh

(* Faulty variant: the other tabs get no event. *)
StoreSilently(t, s, r) ==
  /\ stored' = s
  /\ tab' = [tab EXCEPT ![t] = [r EXCEPT !.session = s]]

(* SessionStorageService.set() and clear(): the other tabs get an event if   *)
(* the stored value changes.                                                *)
Store(t, s, r) ==
  /\ stored' = s
  /\ tab' = [u \in Tabs |-> IF u = t THEN [r EXCEPT !.session = s]
                            ELSE [tab[u] EXCEPT !.event = @ \/ s # stored]]
Clear(t, r) == Store(t, NoSession, r)

Settled(t) == [tab[t] EXCEPT !.phase = "idle", !.ready = TRUE, !.with = NoSession, !.fresh = 0]
Settle(t) == tab' = [tab EXCEPT ![t] = Settled(t)] /\ UNCHANGED stored

-----------------------------------------------------------------------------
(* usuario-service *)

Mint == minted < MaxTokens /\ minted' = minted + 1

(* login(), asked for from the login page, which opens without a session. *)
Login(t) ==
  /\ allowed
  /\ tab[t].session = NoSession /\ tab[t].grant = 0
  /\ Mint
  /\ hash' = minted'
  /\ tab' = [tab EXCEPT ![t].grant = minted']
  /\ UNCHANGED <<allowed, stored, revoke>>

(* refresh(): the hash is compared first, *)
Verify(t) ==
  /\ tab[t].phase = "refresh"
  /\ tab' = [tab EXCEPT ![t].phase =
       IF allowed /\ tab[t].with.refresh = hash THEN "verified" ELSE "rejected"]
  /\ UNCHANGED <<hash, minted, allowed, stored, revoke>>

(* and the new pair's hash replaces it later. *)
Rotate(t) ==
  /\ tab[t].phase = "verified"
  /\ Mint
  /\ hash' = minted'
  /\ tab' = [tab EXCEPT ![t].phase = "renewed", ![t].fresh = minted']
  /\ UNCHANGED <<allowed, stored, revoke>>

(* The gateway sends a late refresh twice, and one nobody waits for any more *)
(* (a timeout, a reload, a superseded restore) is executed all the same.    *)
LateRefresh ==
  /\ LateRefreshes
  /\ hash # 0
  /\ Mint
  /\ hash' = minted'
  /\ UNCHANGED <<allowed, stored, tab, revoke>>

(* logout(): the hash is removed, if the call arrives. *)
Revoke ==
  /\ revoke
  /\ revoke' = FALSE
  /\ hash' \in {0, hash}
  /\ UNCHANGED <<minted, allowed, stored, tab>>

(* changePassword() and resetPassword() revoke every refresh token. What a  *)
(* reset token is worth is left out.                                        *)
ChangePassword ==
  /\ hash # 0 /\ hash' = 0
  /\ UNCHANGED <<minted, allowed, stored, tab, revoke>>

(* The account is deactivated, or its vendedor blocked. *)
Block ==
  /\ allowed /\ allowed' = FALSE
  /\ UNCHANGED <<hash, minted, stored, tab, revoke>>

-----------------------------------------------------------------------------
(* AuthService of the frontend *)

(* login(): the answer installs the session, or is lost. *)
LoginAnswered(t) ==
  LET n == tab[t].grant IN
  /\ n # 0
  /\ \/ Store(t, [refresh |-> n, token |-> n], [tab[t] EXCEPT !.grant = 0])
     \/ tab' = [tab EXCEPT ![t].grant = 0] /\ UNCHANGED stored
  /\ UNCHANGED <<hash, minted, allowed, revoke>>

(* logout(): the server call is best effort, the local session always goes. *)
Logout(t) ==
  /\ tab[t].session # NoSession
  /\ revoke' = TRUE
  /\ Clear(t, tab[t])
  /\ UNCHANGED <<hash, minted, allowed>>

(* refreshSession() succeeds: only the access token of the answer is kept.  *)
Refreshed(t) ==
  /\ tab[t].phase = "renewed"
  /\ IF IsSameSession(t)   \* isStillTheSameSession()
     THEN LET s == [tab[t].session EXCEPT !.token = tab[t].fresh] IN
            Store(t, s, [tab[t] EXCEPT !.phase = "profile", !.with = s])
     ELSE Settle(t)
  /\ UNCHANGED <<hash, minted, allowed, revoke>>

(* It fails: a refusal, a timeout of the gateway (whatever was done), no    *)
(* network.                                                                 *)
RefreshFailed(t) ==
  /\ tab[t].phase \in {"refresh", "verified", "renewed", "rejected"}
  /\ IF IsSameSession(t) THEN Clear(t, Settled(t)) ELSE Settle(t)
  /\ UNCHANGED <<hash, minted, allowed, revoke>>

(* validateSessionProfile(): the server's identity is the one stored at the *)
(* login, so a good answer writes nothing; an inactive account or a failure *)
(* ends the session, if it is still the same principal.                     *)
ProfileAnswered(t) ==
  /\ tab[t].phase = "profile"
  /\ \/ Settle(t)
     \/ IF IsSamePrincipal(t) THEN Clear(t, Settled(t)) ELSE Settle(t)
  /\ UNCHANGED <<hash, minted, allowed, revoke>>

(* Faulty variant: a replacement is published but never restored. *)
Unrestored(t, s) == [tab[t] EXCEPT !.event = FALSE, !.session = s, !.ready = FALSE]

(* A replacement makes the tab unready, is published, and starts the restore *)
(* again; switchMap drops the one in flight.                                *)
Replaced(t, s) == [tab[t] EXCEPT !.event = FALSE, !.session = s, !.ready = FALSE,
                                 !.phase = "refresh", !.with = s]
IsTokenRotation(t, s) ==
  tab[t].session # NoSession /\ tab[t].session.refresh = s.refresh

(* handleStorageEvent(): reads what is stored now, not what the event says. *)
StorageEvent(t) ==
  /\ tab[t].event
  /\ tab' = [tab EXCEPT ![t] =
       IF stored = NoSession \/ IsTokenRotation(t, stored)
       THEN [tab[t] EXCEPT !.event = FALSE, !.session = stored]
       ELSE Replaced(t, stored)]
  /\ UNCHANGED <<hash, minted, allowed, stored, revoke>>

(* authInterceptor(): a 401 (the access token expired) ends the session if  *)
(* the request carried the one still held, and changes nothing otherwise.   *)
Unauthorized(t) ==
  /\ tab[t].session # NoSession
  /\ Clear(t, tab[t])
  /\ UNCHANGED <<hash, minted, allowed, revoke>>

(* The page is loaded again: what was in flight in the tab is dropped. *)
Reload(t) ==
  /\ tab' = [tab EXCEPT ![t] = NewTab]
  /\ UNCHANGED <<hash, minted, allowed, stored, revoke>>

SesionNext ==
  \/ Revoke \/ ChangePassword \/ Block \/ LateRefresh
  \/ \E t \in Tabs :
       \/ Login(t) \/ Verify(t) \/ Rotate(t)
       \/ LoginAnswered(t) \/ Logout(t)
       \/ Refreshed(t) \/ RefreshFailed(t) \/ ProfileAnswered(t)
       \/ StorageEvent(t) \/ Unauthorized(t) \/ Reload(t)

RestoreStep(t) == Refreshed(t) \/ RefreshFailed(t)

(* Requests are answered sooner or later, if only by the gateway's timeout,  *)
(* and the browser delivers its events.                                     *)
SesionFairness == \A t \in Tabs :
  /\ WF_sesionVars(RestoreStep(t))
  /\ WF_sesionVars(ProfileAnswered(t))
  /\ WF_sesionVars(StorageEvent(t))

SesionSpec == SesionInit /\ [][SesionNext]_sesionVars /\ SesionFairness

-----------------------------------------------------------------------------
(* Properties *)

SesionTypeOK ==
  /\ hash \in Tokens \cup {0} /\ minted \in Tokens
  /\ stored \in Sessions \cup {NoSession}
  /\ tab \in [Tabs -> [session : Sessions \cup {NoSession}, ready : BOOLEAN, event : BOOLEAN,
                       phase : Phases, with : Sessions \cup {NoSession},
                       fresh : Tokens \cup {0}, grant : Tokens \cup {0}]]

(* Whatever tabs log in, refresh and log out at the same time: a tab that    *)
(* has no event left to deliver holds the session the browser stores.       *)
TabsAgree == \A t \in Tabs : ~tab[t].event => tab[t].session = stored

(* A tab that is restoring a session is ready again in the end: sessions    *)
(* replaced by other tabs, and restores superseded by others, leave no      *)
(* guard waiting for ever.                                                  *)
ReadySettles == \A t \in Tabs : []<>tab[t].ready
=============================================================================
