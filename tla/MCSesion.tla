------------------------------- MODULE MCSesion -------------------------------
(* What the comments of AuthService say of a restored session: in one tab    *)
(* whose page is loaded again and again, and in two tabs of one browser.    *)
EXTENDS Sesion

VARIABLE ended  \* somebody ended the session, or a refresh was not answered (history)

Ends ==
  \/ revoke' \/ ~allowed' \/ hash' = 0
  \/ \E t \in Tabs :
       \/ tab'[t].grant # 0
       \/ /\ tab[t].phase \in {"verified", "renewed"}
          /\ tab'[t].phase \notin {"verified", "renewed", "profile"}

MCSesionSpec ==
  /\ SesionInit /\ ended = FALSE
  /\ [][SesionNext /\ ended' = (ended \/ Ends)]_<<sesionVars, ended>>
  /\ SesionFairness

(* "on bootstrap an existing session is restored, refreshed through          *)
(* auth.refresh": usuario-service refuses the refresh of a stored session   *)
(* only when somebody ended it, or when an answer to it was lost.           *)
RefusedForAReason == \A t \in Tabs : tab[t].phase = "rejected" => ended

(* Another tab has logged out, or logged in again; a newer access token of  *)
(* the same login does not count.                                           *)
Superseded(t) == stored = NoSession \/ stored.refresh # tab[t].with.refresh

(* "a stale response never overwrites or clears a newer session": the answer *)
(* of a refresh or of a profile check that another tab has superseded leaves *)
(* what the browser stores as it is, a removed session included.            *)
StaleAnswersWriteNothing ==
  [][\A t \in Tabs : (RestoreStep(t) \/ ProfileAnswered(t)) /\ Superseded(t)
                     => stored' = stored]_sesionVars
=============================================================================
