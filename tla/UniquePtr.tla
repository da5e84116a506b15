------------------------------ MODULE UniquePtr ------------------------------
(***************************************************************************)
(* The owning pointer of the smart pointer exercise.  release hands the    *)
(* object to the client, who may give it to another pointer or delete it.  *)
(***************************************************************************)
CONSTANTS Uniques,   \* UniquePtr variables
          Things     \* what new makes

nothing == "nothing"
client == "client"

ASSUME UniqueAssumption == nothing \notin Things /\ client \notin Uniques

VARIABLES scope,     \* the pointers in scope
          data_,     \* of each pointer
          loose,     \* objects the client holds by a bare pointer
          existence  \* of each object: new, live, released, broken

uvars == <<scope, data_, loose, existence>>

UTypeOK ==
  /\ scope \in SUBSET Uniques
  /\ data_ \in [Uniques -> Things \cup {nothing}]
  /\ loose \in SUBSET Things
  /\ existence \in [Things -> {"new", "live", "released", "broken"}]

UInit ==
  /\ scope = {}
  /\ data_ = [u \in Uniques |-> nothing]
  /\ loose = {}
  /\ existence = [t \in Things |-> "new"]

-----------------------------------------------------------------------------
(* delete, which does nothing for a null pointer *)
delete(t) ==
  existence' = IF t = nothing THEN existence
               ELSE [existence EXCEPT ![t] = IF @ = "live" THEN "released" ELSE "broken"]

new(t) ==
  /\ existence[t] = "new"
  /\ existence' = [existence EXCEPT ![t] = "live"]
  /\ loose' = loose \cup {t}
  /\ UNCHANGED <<scope, data_>>

ClientDeletes(t) ==
  /\ t \in loose
  /\ loose' = loose \ {t}
  /\ delete(t)
  /\ UNCHANGED <<scope, data_>>

(* The constructors from nothing, nullptr, a pointer and an rvalue, whose  *)
(* reset finds data_ null.                                                 *)
Enter(u) == u \notin scope /\ scope' = scope \cup {u}

ConstructFrom(u, t) ==
  /\ Enter(u)
  /\ t \in loose \cup {nothing}
  /\ data_' = [data_ EXCEPT ![u] = t]
  /\ loose' = loose \ {t}
  /\ UNCHANGED existence

ConstructByMove(u, v) ==
  /\ Enter(u) /\ v \in scope
  /\ data_' = [data_ EXCEPT ![u] = data_[v], ![v] = nothing]
  /\ UNCHANGED <<loose, existence>>

ResetForgets(u, t) ==
  /\ u \in scope /\ t \in loose \cup {nothing}
  /\ data_' = [data_ EXCEPT ![u] = t]
  /\ loose' = loose \ {t}
  /\ UNCHANGED <<scope, existence>>

(* reset, and operator= of nullptr *)
reset(u, t) ==
  /\ u \in scope /\ t \in loose \cup {nothing}
  /\ data_' = [data_ EXCEPT ![u] = t]
  /\ loose' = loose \ {t}
  /\ delete(data_[u])
  /\ UNCHANGED scope

ReleaseForgets(u) ==
  /\ u \in scope
  /\ loose' = (loose \cup {data_[u]}) \ {nothing}
  /\ UNCHANGED <<scope, data_, existence>>

release(u) ==
  /\ u \in scope
  /\ data_' = [data_ EXCEPT ![u] = nothing]
  /\ loose' = (loose \cup {data_[u]}) \ {nothing}
  /\ UNCHANGED <<scope, existence>>

(* operator= of an rvalue: the right side is released before the left side *)
(* is reset, and an assignment to itself does nothing.                     *)
MoveAssign(u, v) ==
  /\ u \in scope /\ v \in scope
  /\ IF u = v
     THEN UNCHANGED <<data_, existence>>
     ELSE /\ data_' = [data_ EXCEPT ![u] = data_[v], ![v] = nothing]
          /\ delete(data_[u])
  /\ UNCHANGED <<scope, loose>>

Leave(u) ==
  /\ u \in scope
  /\ scope' = scope \ {u}
  /\ data_' = [data_ EXCEPT ![u] = nothing]
  /\ delete(data_[u])
  /\ UNCHANGED loose

UNext ==
  \/ \E t \in Things : new(t) \/ ClientDeletes(t)
  \/ \E u \in Uniques, t \in Things \cup {nothing} : ConstructFrom(u, t) \/ reset(u, t)
  \/ \E u, v \in Uniques : ConstructByMove(u, v) \/ MoveAssign(u, v)
  \/ \E u \in Uniques : release(u) \/ Leave(u)

USpec == UInit /\ [][UNext]_uvars

-----------------------------------------------------------------------------
OwnersOf(t) == {u \in scope : data_[u] = t} \cup (IF t \in loose THEN {client} ELSE {})

(* An object that exists has exactly one owner, a pointer or the client,   *)
(* and one that was deleted has none.                                      *)
OneOwner ==
  \A t \in Things :
    IF existence[t] = "live"
    THEN \E u \in Uniques \cup {client} : OwnersOf(t) = {u}
    ELSE OwnersOf(t) = {} /\ existence[t] # "broken"

UOwned == INSTANCE Ownership WITH Owners <- Uniques \cup {client}, Objects <- Things,
                                  owners <- [t \in Things |-> OwnersOf(t)], life <- existence

(* UniquePtr owns objects as Ownership says. *)
UniquePtrOwns == [][UOwned!OwnershipNext]_uvars
=============================================================================
