------------------------------- MODULE Tracking -------------------------------
(***************************************************************************)
(* What the owners of a TrackerWnd rely on: rounds of tracking come one    *)
(* after the other, each with a worker of its own, and neither the next    *)
(* round nor the end of the object comes before the worker of the last is  *)
(* through with it.                                                        *)
(***************************************************************************)
CONSTANT Rounds

VARIABLES tracking,  \* a round has been started and not stopped
          begun,     \* rounds so far
          users,     \* workers that use the object
          freed      \* the object is no more

tvars == <<tracking, begun, users, freed>>

TrackingInit ==
  /\ tracking = FALSE
  /\ begun = {}
  /\ users = {}
  /\ freed = FALSE

(* The thread of a round may fail to start. *)
Begin(r) ==
  /\ ~tracking /\ users = {} /\ ~freed
  /\ r \notin begun
  /\ tracking' = TRUE
  /\ begun' = begun \cup {r}
  /\ users' \in {{}, {r}}
  /\ UNCHANGED freed

Leave(r) ==
  /\ r \in users
  /\ users' = users \ {r}
  /\ UNCHANGED <<tracking, begun, freed>>

(* The destructor ends a round and the object in one. *)
End ==
  /\ tracking /\ users = {} /\ ~freed
  /\ tracking' = FALSE
  /\ freed' \in BOOLEAN
  /\ UNCHANGED <<begun, users>>

Free ==
  /\ ~tracking /\ users = {} /\ ~freed
  /\ freed' = TRUE
  /\ UNCHANGED <<tracking, begun, users>>

TrackingNext == End \/ Free \/ \E r \in Rounds : Begin(r) \/ Leave(r)

TrackingSpec == TrackingInit /\ [][TrackingNext]_tvars
=============================================================================
