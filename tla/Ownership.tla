------------------------------ MODULE Ownership ------------------------------
(***************************************************************************)
(* What a smart pointer promises: an object lives exactly as long as       *)
(* somebody owns it, and nobody ever owns it again.                        *)
(***************************************************************************)
CONSTANTS Owners, Objects

VARIABLES owners,  \* of each object
          life     \* of each object: new, live, released, broken

OwnershipInit ==
  /\ owners = [o \in Objects |-> {}]
  /\ life = [o \in Objects |-> "new"]

(* An object is made for its first owner, passes from owners to owners, or *)
(* is released when the last of them lets it go.                           *)
Fate(o) ==
  \/ life[o] = "new" /\ life'[o] = "live" /\ owners'[o] # {}
  \/ life[o] = "live" /\ life'[o] = "live" /\ owners[o] # {} /\ owners'[o] # {}
  \/ life[o] = "live" /\ life'[o] = "released" /\ owners[o] # {} /\ owners'[o] = {}
  \/ life'[o] = life[o] /\ owners'[o] = owners[o]

OwnershipNext == \A o \in Objects : Fate(o)
=============================================================================
