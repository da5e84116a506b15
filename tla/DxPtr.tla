-------------------------------- MODULE DxPtr --------------------------------
(***************************************************************************)
(* The reference counted pointer of the Direct3D samples.  Every pointer,  *)
(* the null ones too, has a count that it shares with its copies; filling  *)
(* one through operator& bypasses that count.                              *)
(***************************************************************************)
EXTENDS Naturals, FiniteSets

CONSTANTS Pointers,   \* DxPtr variables of one COM type
          Interfaces, \* COM objects, each made with one reference
          Blocks      \* where new int can put a count

noObj == "no object"
noCount == "no count"

ASSUME DxAssumption ==
  IsFiniteSet(Pointers) /\ noObj \notin Interfaces /\ noCount \notin Blocks

VARIABLES constructed,  \* the pointers in scope
          obj_, count_, \* of each pointer
          counts,       \* the int of each block, 0 when it is not allocated
          life,         \* of each object
          misused,      \* history: operator& on a pointer that was not fresh
          crashed       \* null dereferenced

dxvars == <<constructed, obj_, count_, counts, life, misused, crashed>>

DxTypeOK ==
  /\ constructed \in SUBSET Pointers
  /\ obj_ \in [Pointers -> Interfaces \cup {noObj}]
  /\ count_ \in [Pointers -> Blocks \cup {noCount}]
  /\ counts \in [Blocks -> Nat]
  /\ life \in [Interfaces -> {"new", "live", "released", "broken"}]
  /\ misused \in BOOLEAN
  /\ crashed \in BOOLEAN

DxInit ==
  /\ constructed = {}
  /\ obj_ = [p \in Pointers |-> noObj]
  /\ count_ = [p \in Pointers |-> noCount]
  /\ counts = [b \in Blocks |-> 0]
  /\ life = [i \in Interfaces |-> "new"]
  /\ misused = FALSE
  /\ crashed = FALSE

-----------------------------------------------------------------------------
Begin(p) == ~crashed /\ p \notin constructed /\ constructed' = constructed \cup {p}
Use(p) == ~crashed /\ p \in constructed

(* The constructors from nothing, nullptr or a pointer, whose reference    *)
(* they take over.                                                         *)
ConstructPtr(p, i, b) ==
  /\ Begin(p)
  /\ i # noObj => life[i] = "new"
  /\ counts[b] = 0
  /\ obj_' = [obj_ EXCEPT ![p] = i]
  /\ count_' = [count_ EXCEPT ![p] = b]
  /\ counts' = [counts EXCEPT ![b] = 1]
  /\ life' = IF i = noObj THEN life ELSE [life EXCEPT ![i] = "live"]
  /\ UNCHANGED <<misused, crashed>>

Copy(p, q) ==
  /\ Begin(p) /\ Use(q)
  /\ obj_' = [obj_ EXCEPT ![p] = obj_[q]]
  /\ count_' = [count_ EXCEPT ![p] = count_[q]]
  /\ IF count_[q] = noCount
     THEN crashed' = TRUE /\ UNCHANGED counts
     ELSE counts' = [counts EXCEPT ![count_[q]] = @ + 1] /\ UNCHANGED crashed
  /\ UNCHANGED <<life, misused>>

Move(p, q) ==
  /\ Begin(p) /\ Use(q)
  /\ obj_' = [obj_ EXCEPT ![p] = obj_[q], ![q] = noObj]
  /\ count_' = [count_ EXCEPT ![p] = count_[q], ![q] = noCount]
  /\ UNCHANGED <<counts, life, misused, crashed>>

DropEager(i, b, ints) ==
  IF b = noCount
  THEN counts' = ints /\ UNCHANGED life
  ELSE /\ counts' = [ints EXCEPT ![b] = @ - 1]
       /\ life' = IF i # noObj
                  THEN [life EXCEPT ![i] = IF @ = "live" THEN "released" ELSE "broken"]
                  ELSE life

(* What the destructor does with an object and a count, given all counts.  *)
Drop(i, b, ints) ==
  IF b = noCount
  THEN counts' = ints /\ UNCHANGED life
  ELSE /\ counts' = [ints EXCEPT ![b] = @ - 1]
       /\ life' = IF ints[b] = 1 /\ i # noObj
                  THEN [life EXCEPT ![i] = IF @ = "live" THEN "released" ELSE "broken"]
                  ELSE life

DestructPtr(p) ==
  /\ Use(p)
  /\ constructed' = constructed \ {p}
  /\ obj_' = [obj_ EXCEPT ![p] = noObj]
  /\ count_' = [count_ EXCEPT ![p] = noCount]
  /\ Drop(obj_[p], count_[p], counts)
  /\ UNCHANGED <<misused, crashed>>

AssignKeeps(p, q) ==
  /\ Use(p) /\ Use(q)
  /\ obj_' = [obj_ EXCEPT ![p] = obj_[q]]
  /\ count_' = [count_ EXCEPT ![p] = count_[q]]
  /\ IF count_[q] = noCount
     THEN crashed' = TRUE /\ UNCHANGED <<counts, life>>
     ELSE counts' = [counts EXCEPT ![count_[q]] = @ + 1] /\ UNCHANGED <<life, crashed>>
  /\ UNCHANGED <<constructed, misused>>

(* A temporary copy of q, which takes what p had with it.  The assignment  *)
(* of an rvalue calls swap with a pointer and does not compile.            *)
Assign(p, q) ==
  /\ Use(p) /\ Use(q)
  /\ IF count_[q] = noCount
     THEN crashed' = TRUE /\ UNCHANGED <<obj_, count_, counts, life>>
     ELSE /\ obj_' = [obj_ EXCEPT ![p] = obj_[q]]
          /\ count_' = [count_ EXCEPT ![p] = count_[q]]
          /\ Drop(obj_[p], count_[p], [counts EXCEPT ![count_[q]] = @ + 1])
          /\ UNCHANGED crashed
  /\ UNCHANGED <<constructed, misused>>

swap(p, q) ==
  /\ Use(p) /\ Use(q)
  /\ obj_' = [obj_ EXCEPT ![p] = obj_[q], ![q] = obj_[p]]
  /\ count_' = [count_ EXCEPT ![p] = count_[q], ![q] = count_[p]]
  /\ UNCHANGED <<constructed, counts, life, misused, crashed>>

(* Only an empty pointer with a count of its own may be filled. *)
Fresh(p) == obj_[p] = noObj /\ count_[p] # noCount /\ counts[count_[p]] = 1

(* operator&, given to a function that makes an object. *)
Fill(p, i) ==
  /\ Use(p)
  /\ life[i] = "new"
  /\ obj_' = [obj_ EXCEPT ![p] = i]
  /\ life' = [life EXCEPT ![i] = "live"]
  /\ misused' = (misused \/ ~Fresh(p))
  /\ UNCHANGED <<constructed, count_, counts, crashed>>

DxNext ==
  \E p \in Pointers :
    \/ \E i \in Interfaces \cup {noObj}, b \in Blocks : ConstructPtr(p, i, b)
    \/ \E q \in Pointers : Copy(p, q) \/ Move(p, q) \/ Assign(p, q) \/ swap(p, q)
    \/ DestructPtr(p)
    \/ \E i \in Interfaces : Fill(p, i)

DxSpec == DxInit /\ [][DxNext]_dxvars

-----------------------------------------------------------------------------
Holders(i) == {p \in constructed : obj_[p] = i}
Sharing(b) == {p \in constructed : count_[p] = b}

(* However pointers are copied, moved, swapped, assigned and filled, none  *)
(* points to an object that was released, and none is released twice.      *)
NoDanglingPtr ==
  ~crashed => \A i \in Interfaces :
                /\ life[i] # "broken"
                /\ Holders(i) # {} => life[i] = "live"

(* A count is the number of pointers that share it. *)
CountsPointers ==
  ~crashed => \A b \in Blocks : counts[b] = Cardinality(Sharing(b))

(* An object is kept alive by a pointer to it, unless operator& was used   *)
(* on a pointer that was not fresh.                                        *)
NoLostObject ==
  ~crashed /\ ~misused => \A i \in Interfaces : life[i] = "live" => Holders(i) # {}

Owned == INSTANCE Ownership WITH Owners <- Pointers, Objects <- Interfaces,
                                 owners <- [i \in Interfaces |-> Holders(i)]

(* DxPtr owns objects as Ownership says. *)
DxPtrOwns == [][crashed' \/ misused' \/ Owned!OwnershipNext]_dxvars

-----------------------------------------------------------------------------
(* The inductive invariant.  Pointers to the same object share a count, so *)
(* that the last of them is known; an object whose pointer has no count or *)
(* shares it with pointers to something else is an object that was misused.*)
SharedTogether ==
  \A p, q \in constructed :
    /\ obj_[p] = obj_[q] /\ obj_[p] # noObj => count_[p] = count_[q]
    /\ ~misused /\ count_[p] = count_[q] /\ count_[p] # noCount => obj_[p] = obj_[q]
    /\ ~misused /\ count_[p] = noCount => obj_[p] = noObj

DxInv ==
  /\ DxTypeOK
  /\ CountsPointers
  /\ NoDanglingPtr
  /\ NoLostObject
  /\ ~crashed => SharedTogether
=============================================================================
