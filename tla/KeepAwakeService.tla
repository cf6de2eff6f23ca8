-------------------------- MODULE KeepAwakeService --------------------------
(***************************************************************************)
(* What the keep-awake manager promises the web interface: a session is    *)
(* idle, queued behind the archive or the drive processing, or active.  It *)
(* comes from idle only when somebody asks, and it is on record as wanted  *)
(* for as long as it is not idle.                                          *)
(***************************************************************************)
VARIABLES
  session,   \* "idle", "pending" or "active"
  wanted     \* whether "webui" is among those who want the car awake

svars == <<session, wanted>>

SInit == session = "idle" /\ wanted = FALSE

\* a start or a heartbeat, which a session under way survives
Ask ==
  /\ wanted' = TRUE
  /\ session' \in (IF session = "idle" THEN {"pending", "active"} ELSE {session})

\* a queued session gets its turn
Begin == session = "pending" /\ wanted /\ session' = "active" /\ UNCHANGED wanted

\* stopped, cancelled or expired
End == session # "idle" /\ session' = "idle" /\ wanted' = FALSE

SNext == Ask \/ Begin \/ End
SSpec == SInit /\ [][SNext]_svars
=============================================================================
