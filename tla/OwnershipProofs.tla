--------------------------- MODULE OwnershipProofs ---------------------------
(***************************************************************************)
(* Both smart pointers implement Ownership, for any number of pointers and *)
(* objects.                                                                *)
(***************************************************************************)
EXTENDS DxPtr, UniquePtr, FiniteSetTheorems, TLAPS

(* OneOwner said of pairs: what is loose or pointed to exists, in one      *)
(* place only, and what exists is loose or pointed to.                     *)
Possession ==
  /\ \A t \in loose : existence[t] = "live" /\ \A u \in scope : data_[u] # t
  /\ \A u \in scope : data_[u] # nothing => existence[data_[u]] = "live"
  /\ \A u, v \in scope : data_[u] = data_[v] /\ data_[u] # nothing => u = v
  /\ \A t \in Things : existence[t] = "live" => t \in loose \/ \E u \in scope : data_[u] = t
  /\ \A t \in Things : existence[t] # "broken"

UInv == UTypeOK /\ Possession

LEMMA UniqueInit == UInit => UInv
  BY UniqueAssumption DEF UInit, UInv, UTypeOK, Possession

LEMMA UniqueTypes == UTypeOK /\ [UNext]_uvars => UTypeOK'
<1> SUFFICES ASSUME UTypeOK, [UNext]_uvars PROVE UTypeOK'
  OBVIOUS
<1> USE UniqueAssumption DEF UTypeOK, delete, Enter
<1>1. ASSUME NEW t \in Things, new(t) \/ ClientDeletes(t) PROVE UTypeOK'
  BY <1>1 DEF new, ClientDeletes
<1>2. ASSUME NEW u \in Uniques, NEW t \in Things \cup {nothing}, ConstructFrom(u, t) \/ reset(u, t)
      PROVE  UTypeOK'
  BY <1>2 DEF ConstructFrom, reset
<1>3. ASSUME NEW u \in Uniques, NEW v \in Uniques, ConstructByMove(u, v) \/ MoveAssign(u, v)
      PROVE  UTypeOK'
  BY <1>3 DEF ConstructByMove, MoveAssign
<1>4. ASSUME NEW u \in Uniques, release(u) \/ Leave(u) PROVE UTypeOK'
  BY <1>4 DEF release, Leave
<1>5. CASE UNCHANGED uvars
  BY <1>5 DEF uvars
<1>6. QED
  BY <1>1, <1>2, <1>3, <1>4, <1>5 DEF UNext

LEMMA UniqueNext == UInv /\ [UNext]_uvars => UInv'
<1> SUFFICES ASSUME UInv, [UNext]_uvars PROVE Possession'
  BY UniqueTypes DEF UInv
<1>0. UTypeOK /\ UTypeOK' /\ Possession
  BY UniqueTypes DEF UInv
<1> USE <1>0, UniqueAssumption DEF UTypeOK, Possession, delete, Enter
<1>1. ASSUME NEW t \in Things, new(t) PROVE Possession'
  BY <1>1 DEF new
<1>2. ASSUME NEW t \in Things, ClientDeletes(t) PROVE Possession'
  BY <1>2 DEF ClientDeletes
<1>3. ASSUME NEW u \in Uniques, NEW t \in Things \cup {nothing}, ConstructFrom(u, t)
      PROVE  Possession'
  BY <1>3 DEF ConstructFrom
<1>4. ASSUME NEW u \in Uniques, NEW t \in Things \cup {nothing}, reset(u, t)
      PROVE  Possession'
  BY <1>4 DEF reset
<1>5. ASSUME NEW u \in Uniques, NEW v \in Uniques, ConstructByMove(u, v) PROVE Possession'
  BY <1>5 DEF ConstructByMove
<1>6. ASSUME NEW u \in Uniques, NEW v \in Uniques, MoveAssign(u, v) PROVE Possession'
  BY <1>6 DEF MoveAssign
<1>7. ASSUME NEW u \in Uniques, release(u) PROVE Possession'
  BY <1>7 DEF release
<1>8. ASSUME NEW u \in Uniques, Leave(u) PROVE Possession'
  BY <1>8 DEF Leave
<1>9. CASE UNCHANGED uvars
  BY <1>9 DEF uvars
<1>10. QED
  BY <1>1, <1>2, <1>3, <1>4, <1>5, <1>6, <1>7, <1>8, <1>9 DEF UNext

LEMMA PossessionIsOwnership == UInv => OneOwner
<1> SUFFICES ASSUME UInv, NEW t \in Things
             PROVE  IF existence[t] = "live"
                    THEN \E u \in Uniques \cup {client} : OwnersOf(t) = {u}
                    ELSE OwnersOf(t) = {} /\ existence[t] # "broken"
  BY DEF OneOwner
<1> USE UniqueAssumption DEF UInv, UTypeOK, Possession, OwnersOf
<1>1. CASE existence[t] # "live"
  BY <1>1
<1>2. CASE existence[t] = "live" /\ t \in loose
  <2>1. OwnersOf(t) = {client}
    BY <1>2
  <2>2. QED
    BY <1>2, <2>1
<1>3. CASE existence[t] = "live" /\ t \notin loose
  <2>1. PICK u \in scope : data_[u] = t
    BY <1>3
  <2>2. OwnersOf(t) = {u}
    BY <1>3, <2>1
  <2>3. QED
    BY <1>3, <2>1, <2>2
<1>4. QED
  BY <1>1, <1>2, <1>3

(* An object that exists has one owner, whatever its pointers do.          *)
THEOREM ExclusiveOwner == USpec => []OneOwner
<1>1. QED
  BY UniqueInit, UniqueNext, PossessionIsOwnership, PTL DEF USpec

(* An object is new, exists, and was deleted, in this order.               *)
LEMMA ThingsAge ==
  ASSUME UInv, UInv', [UNext]_uvars, NEW t \in Things
  PROVE  \/ existence'[t] = existence[t]
         \/ existence[t] = "new" /\ existence'[t] = "live"
         \/ existence[t] = "live" /\ existence'[t] = "released"
<1> USE UniqueAssumption DEF UInv, UTypeOK, Possession, delete
<1>1. ASSUME NEW s \in Things, new(s) \/ ClientDeletes(s)
      PROVE  \/ existence'[t] = existence[t]
             \/ existence[t] = "new" /\ existence'[t] = "live"
             \/ existence[t] = "live" /\ existence'[t] = "released"
  BY <1>1 DEF new, ClientDeletes
<1>2. ASSUME NEW u \in Uniques, NEW s \in Things \cup {nothing}, ConstructFrom(u, s) \/ reset(u, s)
      PROVE  existence'[t] = existence[t] \/ (existence[t] = "live" /\ existence'[t] = "released")
  BY <1>2 DEF ConstructFrom, reset
<1>3. ASSUME NEW u \in Uniques, NEW v \in Uniques, ConstructByMove(u, v) \/ MoveAssign(u, v)
      PROVE  existence'[t] = existence[t] \/ (existence[t] = "live" /\ existence'[t] = "released")
  BY <1>3 DEF ConstructByMove, MoveAssign
<1>4. ASSUME NEW u \in Uniques, release(u) \/ Leave(u)
      PROVE  existence'[t] = existence[t] \/ (existence[t] = "live" /\ existence'[t] = "released")
  BY <1>4 DEF release, Leave
<1>5. CASE UNCHANGED uvars
  BY <1>5 DEF uvars
<1>6. QED
  BY <1>1, <1>2, <1>3, <1>4, <1>5 DEF UNext

(* UniquePtr implements Ownership.                                         *)
THEOREM UniqueRefines == USpec => UniquePtrOwns
<1>1. ASSUME UInv, UInv', [UNext]_uvars PROVE [UOwned!OwnershipNext]_uvars
  <2> SUFFICES ASSUME NEW t \in Things PROVE UOwned!Fate(t)
    BY DEF UOwned!OwnershipNext
  <2>1. OneOwner /\ OneOwner'
    BY <1>1, PossessionIsOwnership, PTL
  <2>2. /\ existence[t] = "live" <=> OwnersOf(t) # {}
        /\ existence'[t] = "live" <=> OwnersOf(t)' # {}
    BY <2>1 DEF OneOwner
  <2>3. QED
    BY <1>1, <2>2, ThingsAge DEF UOwned!Fate
<1>2. QED
  BY <1>1, UniqueInit, UniqueNext, PTL DEF USpec, UniquePtrOwns

-----------------------------------------------------------------------------
LEMMA DxStart == DxInit => DxInv
<1> SUFFICES ASSUME DxInit PROVE DxInv
  OBVIOUS
<1>1. \A b \in Blocks : Sharing(b) = {} /\ counts[b] = 0
  BY DEF DxInit, Sharing
<1>2. CountsPointers
  BY <1>1, FS_EmptySet DEF CountsPointers
<1>3. QED
  BY <1>2, DxAssumption
     DEF DxInit, DxInv, DxTypeOK, NoDanglingPtr, NoLostObject, Holders, SharedTogether

LEMMA SharingFinite == ASSUME DxTypeOK, NEW b PROVE IsFiniteSet(Sharing(b))
<1>1. Sharing(b) \in SUBSET Pointers
  BY DEF Sharing, DxTypeOK
<1>2. QED
  BY <1>1, FS_Subset, DxAssumption

(* What a count of one tells: nobody else shares it; a larger one says     *)
(* that somebody does.                                                     *)
LEMMA CountOfOne ==
  ASSUME DxTypeOK, CountsPointers, ~crashed,
         NEW p \in constructed, count_[p] # noCount
  PROVE  /\ counts[count_[p]] \in Nat \ {0}
         /\ counts[count_[p]] = 1 =>
              \A q \in constructed : count_[q] = count_[p] => q = p
         /\ counts[count_[p]] # 1 =>
              \E q \in constructed \ {p} : count_[q] = count_[p]
<1> DEFINE b == count_[p]
<1>1. b \in Blocks /\ p \in Sharing(b) /\ counts[b] = Cardinality(Sharing(b))
  BY DEF DxTypeOK, CountsPointers, Sharing
<1>2. IsFiniteSet(Sharing(b))
  BY SharingFinite
<1>3. counts[b] \in Nat /\ counts[b] # 0
  BY <1>1, <1>2, FS_EmptySet DEF DxTypeOK
<1>4. counts[b] = 1 <=> \E x : Sharing(b) = {x}
  BY <1>1, <1>2, FS_Singleton
<1>5. ASSUME counts[b] = 1, NEW q \in constructed, count_[q] = b PROVE q = p
  <2>1. q \in Sharing(b)
    BY <1>5 DEF Sharing
  <2>2. PICK x : Sharing(b) = {x}
    BY <1>4, <1>5
  <2>3. QED
    BY <1>1, <2>1, <2>2
<1>6. ASSUME counts[b] # 1 PROVE \E q \in constructed \ {p} : count_[q] = b
  <2>1. Sharing(b) # {p}
    BY <1>4, <1>6
  <2>2. PICK q \in Sharing(b) : q # p
    BY <1>1, <2>1
  <2>3. QED
    BY <2>2 DEF Sharing
<1>7. QED
  BY <1>3, <1>5, <1>6

(* A count stays right when a pointer joins it, leaves it, or takes the    *)
(* place of another.                                                       *)
LEMMA Recount ==
  ASSUME DxTypeOK, CountsPointers, ~crashed, NEW b \in Blocks,
         \/ Sharing(b)' = Sharing(b) /\ counts'[b] = counts[b]
         \/ \E p : p \notin Sharing(b) /\ Sharing(b)' = Sharing(b) \cup {p} /\ counts'[b] = counts[b] + 1
         \/ \E p : p \in Sharing(b) /\ Sharing(b)' = Sharing(b) \ {p} /\ counts'[b] = counts[b] - 1
         \/ \E p, q : /\ p \notin Sharing(b) /\ q \in Sharing(b)
                      /\ Sharing(b)' = (Sharing(b) \ {q}) \cup {p} /\ counts'[b] = counts[b]
  PROVE  counts'[b] = Cardinality(Sharing(b)')
<1> DEFINE S == Sharing(b)
<1>1. IsFiniteSet(S) /\ counts[b] = Cardinality(S) /\ counts[b] \in Nat
  BY SharingFinite DEF CountsPointers, DxTypeOK
<1>2. CASE Sharing(b)' = S /\ counts'[b] = counts[b]
  BY <1>1, <1>2
<1>3. ASSUME NEW p, p \notin S, Sharing(b)' = S \cup {p}, counts'[b] = counts[b] + 1
      PROVE  counts'[b] = Cardinality(Sharing(b)')
  BY <1>1, <1>3, FS_AddElement
<1>4. ASSUME NEW p, p \in S, Sharing(b)' = S \ {p}, counts'[b] = counts[b] - 1
      PROVE  counts'[b] = Cardinality(Sharing(b)')
  BY <1>1, <1>4, FS_RemoveElement
<1>5. ASSUME NEW p, NEW q, p \notin S, q \in S, Sharing(b)' = (S \ {q}) \cup {p}, counts'[b] = counts[b]
      PROVE  counts'[b] = Cardinality(Sharing(b)')
  <2> DEFINE R == S \ {q}
  <2>1. IsFiniteSet(R) /\ Cardinality(R) = counts[b] - 1
    BY <1>1, <1>5, FS_RemoveElement
  <2>2. p \notin R
    BY <1>5
  <2>3. Cardinality(R \cup {p}) = counts[b] - 1 + 1
    BY <2>1, <2>2, FS_AddElement
  <2>4. QED
    BY <1>1, <1>5, <2>3
<1>6. QED
  BY <1>2, <1>3, <1>4, <1>5

LEMMA ConstructKeeps ==
  ASSUME DxInv, NEW p \in Pointers, NEW i \in Interfaces \cup {noObj}, NEW b \in Blocks,
         ConstructPtr(p, i, b)
  PROVE  DxInv'
<1> USE DxAssumption DEF DxInv, DxTypeOK, ConstructPtr, Begin
<1>1. Sharing(b) = {}
  <2>1. IsFiniteSet(Sharing(b)) /\ Cardinality(Sharing(b)) = 0
    BY SharingFinite DEF CountsPointers
  <2>2. QED
    BY <2>1, FS_EmptySet
<1>2. ASSUME NEW c \in Blocks PROVE counts'[c] = Cardinality(Sharing(c)')
  <2>1. CASE c = b
    <3>1. p \notin Sharing(c) /\ Sharing(c)' = Sharing(c) \cup {p} /\ counts'[c] = counts[c] + 1
      BY <1>1, <2>1 DEF Sharing
    <3>2. QED
      BY <3>1, Recount
  <2>2. CASE c # b
    <3>1. Sharing(c)' = Sharing(c) /\ counts'[c] = counts[c]
      BY <2>2 DEF Sharing
    <3>2. QED
      BY <3>1, Recount
  <2>3. QED
    BY <2>1, <2>2
<1>3. \A q \in constructed : count_[q] # b
  BY <1>1 DEF Sharing
<1>4. NoDanglingPtr'
  BY DEF NoDanglingPtr, Holders
<1>5. NoLostObject'
  BY DEF NoLostObject, Holders
<1>6. SharedTogether'
  BY <1>3 DEF SharedTogether, NoDanglingPtr, Holders
<1>7. QED
  BY <1>2, <1>4, <1>5, <1>6 DEF CountsPointers

LEMMA CopyKeeps ==
  ASSUME DxInv, NEW p \in Pointers, NEW q \in Pointers, Copy(p, q)
  PROVE  DxInv'
<1> USE DxAssumption DEF DxInv, DxTypeOK, Copy, Begin, Use
<1>1. CASE count_[q] = noCount
  BY <1>1 DEF CountsPointers, NoDanglingPtr, NoLostObject
<1>2. CASE count_[q] # noCount
  <2>1. ASSUME NEW b \in Blocks PROVE counts'[b] = Cardinality(Sharing(b)')
    <3>1. CASE b = count_[q]
      <4>1. p \notin Sharing(b) /\ Sharing(b)' = Sharing(b) \cup {p} /\ counts'[b] = counts[b] + 1
        BY <1>2, <3>1 DEF Sharing
      <4>2. QED
        BY <4>1, Recount
    <3>2. CASE b # count_[q]
      <4>1. Sharing(b)' = Sharing(b) /\ counts'[b] = counts[b]
        BY <1>2, <3>2 DEF Sharing
      <4>2. QED
        BY <4>1, Recount
    <3>3. QED
      BY <3>1, <3>2
  <2>2. NoDanglingPtr'
    BY <1>2 DEF NoDanglingPtr, Holders
  <2>3. NoLostObject'
    BY <1>2 DEF NoLostObject, Holders
  <2>4. SharedTogether'
    BY <1>2 DEF SharedTogether
  <2>5. QED
    BY <1>2, <2>1, <2>2, <2>3, <2>4 DEF CountsPointers
<1>3. QED
  BY <1>1, <1>2

LEMMA MoveKeeps ==
  ASSUME DxInv, NEW p \in Pointers, NEW q \in Pointers, Move(p, q)
  PROVE  DxInv'
<1> USE DxAssumption DEF DxInv, DxTypeOK, Move, Begin, Use
<1>1. ASSUME NEW b \in Blocks PROVE counts'[b] = Cardinality(Sharing(b)')
  <2>1. CASE b = count_[q]
    <3>1. /\ p \notin Sharing(b) /\ q \in Sharing(b)
          /\ Sharing(b)' = (Sharing(b) \ {q}) \cup {p} /\ counts'[b] = counts[b]
      BY <2>1 DEF Sharing
    <3>2. QED
      BY <3>1, Recount
  <2>2. CASE b # count_[q]
    <3>1. Sharing(b)' = Sharing(b) /\ counts'[b] = counts[b]
      BY <2>2 DEF Sharing
    <3>2. QED
      BY <3>1, Recount
  <2>3. QED
    BY <2>1, <2>2
<1>2. NoDanglingPtr'
  BY DEF NoDanglingPtr, Holders
<1>3. NoLostObject'
  BY DEF NoLostObject, Holders
<1>4. SharedTogether'
  BY DEF SharedTogether
<1>5. QED
  BY <1>1, <1>2, <1>3, <1>4 DEF CountsPointers

LEMMA SwapKeeps ==
  ASSUME DxInv, NEW p \in Pointers, NEW q \in Pointers, swap(p, q)
  PROVE  DxInv'
<1> USE DxAssumption DEF DxInv, DxTypeOK, swap, Use
<1>1. ASSUME NEW b \in Blocks PROVE counts'[b] = Cardinality(Sharing(b)')
  <2>1. CASE count_[p] = count_[q] \/ b \notin {count_[p], count_[q]}
    <3>1. Sharing(b)' = Sharing(b) /\ counts'[b] = counts[b]
      BY <2>1 DEF Sharing
    <3>2. QED
      BY <3>1, Recount
  <2>2. CASE count_[p] # count_[q] /\ b = count_[p]
    <3>1. /\ q \notin Sharing(b) /\ p \in Sharing(b)
          /\ Sharing(b)' = (Sharing(b) \ {p}) \cup {q} /\ counts'[b] = counts[b]
      BY <2>2 DEF Sharing
    <3>2. QED
      BY <3>1, Recount
  <2>3. CASE count_[p] # count_[q] /\ b = count_[q]
    <3>1. /\ p \notin Sharing(b) /\ q \in Sharing(b)
          /\ Sharing(b)' = (Sharing(b) \ {q}) \cup {p} /\ counts'[b] = counts[b]
      BY <2>3 DEF Sharing
    <3>2. QED
      BY <3>1, Recount
  <2>4. QED
    BY <2>1, <2>2, <2>3
<1>2. NoDanglingPtr'
  BY DEF NoDanglingPtr, Holders
<1>3. NoLostObject'
  BY DEF NoLostObject, Holders
<1>4. SharedTogether'
  BY DEF SharedTogether
<1>5. QED
  BY <1>1, <1>2, <1>3, <1>4 DEF CountsPointers

(* A fresh pointer shares its count with no other. *)
LEMMA FillKeeps ==
  ASSUME DxInv, NEW p \in Pointers, NEW i \in Interfaces, Fill(p, i)
  PROVE  DxInv'
<1> USE DxAssumption DEF DxInv, DxTypeOK, Fill, Use
<1>1. ASSUME NEW b \in Blocks PROVE counts'[b] = Cardinality(Sharing(b)')
  <2>1. Sharing(b)' = Sharing(b) /\ counts'[b] = counts[b]
    BY DEF Sharing
  <2>2. QED
    BY <2>1, Recount
<1>2. NoDanglingPtr'
  BY DEF NoDanglingPtr, Holders
<1>3. NoLostObject'
  <2> SUFFICES ASSUME ~misused', NEW j \in Interfaces, life'[j] = "live"
               PROVE  \E r \in constructed : obj_'[r] = j
    BY DEF NoLostObject, Holders
  <2>1. CASE j = i
    BY <2>1
  <2>2. CASE j # i
    <3>1. obj_[p] = noObj /\ ~misused
      BY DEF Fresh
    <3>2. life[j] = "live"
      BY <2>2
    <3>3. PICK r \in constructed : obj_[r] = j
      BY <3>1, <3>2 DEF NoLostObject, Holders
    <3>4. QED
      BY <3>1, <3>3
  <2>3. QED
    BY <2>1, <2>2
<1>4. SharedTogether'
  <2>1. \A q \in constructed : obj_[q] # i
    BY DEF NoDanglingPtr, Holders
  <2>2. ~misused' => \A q \in constructed : count_[q] = count_[p] => q = p
    BY CountOfOne DEF Fresh
  <2>3. ~misused' => count_[p] # noCount
    BY DEF Fresh
  <2>4. QED
    BY <2>1, <2>2, <2>3 DEF SharedTogether
<1>5. QED
  BY <1>1, <1>2, <1>3, <1>4 DEF CountsPointers

(* The destructor: the object goes with the last pointer of its count.     *)
LEMMA DestructKeeps ==
  ASSUME DxInv, NEW p \in Pointers, DestructPtr(p)
  PROVE  DxInv'
<1> DEFINE b == count_[p]
           i == obj_[p]
<1> USE DxAssumption DEF DxInv, DxTypeOK, DestructPtr, Use
<1>1. CASE b = noCount
  <2>1. UNCHANGED <<counts, life>>
    BY <1>1 DEF Drop
  <2>2. ASSUME NEW c \in Blocks PROVE counts'[c] = Cardinality(Sharing(c)')
    <3>1. Sharing(c)' = Sharing(c) /\ counts'[c] = counts[c]
      BY <1>1, <2>1 DEF Sharing
    <3>2. QED
      BY <3>1, Recount
  <2>3. NoDanglingPtr'
    BY <2>1 DEF NoDanglingPtr, Holders
  <2>4. NoLostObject'
    BY <1>1, <2>1 DEF NoLostObject, Holders, SharedTogether
  <2>5. SharedTogether'
    BY DEF SharedTogether
  <2>6. QED
    BY <2>1, <2>2, <2>3, <2>4, <2>5 DEF CountsPointers
<1>2. CASE b # noCount
  <2>1. b \in Blocks /\ counts[b] \in Nat \ {0}
    BY <1>2, CountOfOne
  <2>2. /\ counts' = [counts EXCEPT ![b] = @ - 1]
        /\ life' = IF counts[b] = 1 /\ i # noObj
                   THEN [life EXCEPT ![i] = IF @ = "live" THEN "released" ELSE "broken"]
                   ELSE life
    BY <1>2 DEF Drop
  <2>3. DxTypeOK'
    BY <2>1, <2>2
  <2>4. ASSUME NEW c \in Blocks PROVE counts'[c] = Cardinality(Sharing(c)')
    <3>1. CASE c = b
      <4>1. p \in Sharing(c) /\ Sharing(c)' = Sharing(c) \ {p} /\ counts'[c] = counts[c] - 1
        BY <1>2, <2>1, <2>2, <3>1 DEF Sharing
      <4>2. QED
        BY <4>1, Recount
    <3>2. CASE c # b
      <4>1. Sharing(c)' = Sharing(c) /\ counts'[c] = counts[c]
        BY <2>2, <3>2 DEF Sharing
      <4>2. QED
        BY <4>1, Recount
    <3>3. QED
      BY <3>1, <3>2
  <2>5. i # noObj => life[i] = "live"
    BY DEF NoDanglingPtr, Holders
  <2>6. counts[b] = 1 => \A q \in constructed : obj_[q] = i /\ i # noObj => q = p
    BY <1>2, CountOfOne DEF SharedTogether
  <2>7. counts[b] # 1 /\ ~misused => \E q \in constructed \ {p} : obj_[q] = i
    BY <1>2, CountOfOne DEF SharedTogether
  <2>8. NoDanglingPtr'
    BY <2>2, <2>5, <2>6 DEF NoDanglingPtr, Holders
  <2>9. NoLostObject'
    BY <2>2, <2>5, <2>7 DEF NoLostObject, Holders
  <2>10. SharedTogether'
    BY DEF SharedTogether
  <2>11. QED
    BY <2>3, <2>4, <2>8, <2>9, <2>10 DEF CountsPointers
<1>3. QED
  BY <1>1, <1>2

(* The assignment: q's count gains a pointer before p's count loses it, so *)
(* that nothing is released when both are the same.                        *)
LEMMA AssignmentKeeps ==
  ASSUME DxInv, NEW p \in Pointers, NEW q \in Pointers, Assign(p, q)
  PROVE  DxInv'
<1> DEFINE b == count_[p]
           c == count_[q]
           i == obj_[p]
<1> USE DxAssumption DEF DxInv, DxTypeOK, Use
<1>1. CASE c = noCount
  BY <1>1 DEF Assign, CountsPointers, NoDanglingPtr, NoLostObject
<1>2. CASE c # noCount
  <2> DEFINE ints == [counts EXCEPT ![c] = @ + 1]
  <2>1. /\ ~crashed /\ p \in constructed /\ q \in constructed
        /\ obj_' = [obj_ EXCEPT ![p] = obj_[q]]
        /\ count_' = [count_ EXCEPT ![p] = c]
        /\ Drop(i, b, ints)
        /\ UNCHANGED <<constructed, misused, crashed>>
    BY <1>2 DEF Assign
  <2>2. c \in Blocks /\ counts[c] \in Nat \ {0} /\ ints[c] = counts[c] + 1
    BY <1>2, <2>1, CountOfOne
  <2>3. b # noCount => b \in Blocks /\ counts[b] \in Nat \ {0}
    BY <2>1, CountOfOne
  <2>4. SharedTogether'
    BY <2>1 DEF SharedTogether
  <2>5. i # noObj => life[i] = "live"
    BY <2>1 DEF NoDanglingPtr, Holders
  <2>6. obj_[q] # noObj => life[obj_[q]] = "live"
    BY <2>1 DEF NoDanglingPtr, Holders
  <2>7. CASE b = c
    <3>1. UNCHANGED <<counts, life>>
      BY <1>2, <2>1, <2>2, <2>7 DEF Drop
    <3>2. ASSUME NEW d \in Blocks PROVE counts'[d] = Cardinality(Sharing(d)')
      <4>1. Sharing(d)' = Sharing(d) /\ counts'[d] = counts[d]
        BY <2>1, <2>7, <3>1 DEF Sharing
      <4>2. QED
        BY <2>1, <4>1, Recount
    <3>3. NoDanglingPtr'
      BY <2>1, <3>1 DEF NoDanglingPtr, Holders
    <3>4. ~misused => obj_[p] = obj_[q]
      BY <1>2, <2>1, <2>7 DEF SharedTogether
    <3>5. NoLostObject'
      BY <2>1, <3>1, <3>4 DEF NoLostObject, Holders
    <3>6. QED
      BY <2>1, <2>4, <3>1, <3>2, <3>3, <3>5 DEF CountsPointers
  <2>8. CASE b = noCount
    <3>1. counts' = ints /\ life' = life
      BY <2>1, <2>8 DEF Drop
    <3>2. DxTypeOK'
      BY <2>1, <2>2, <3>1
    <3>3. ASSUME NEW d \in Blocks PROVE counts'[d] = Cardinality(Sharing(d)')
      <4>1. CASE d = c
        <5>1. p \notin Sharing(d) /\ Sharing(d)' = Sharing(d) \cup {p} /\ counts'[d] = counts[d] + 1
          BY <1>2, <2>1, <2>2, <2>8, <3>1, <4>1 DEF Sharing
        <5>2. QED
          BY <2>1, <5>1, Recount
      <4>2. CASE d # c
        <5>1. Sharing(d)' = Sharing(d) /\ counts'[d] = counts[d]
          BY <2>1, <2>8, <3>1, <4>2 DEF Sharing
        <5>2. QED
          BY <2>1, <5>1, Recount
      <4>3. QED
        BY <4>1, <4>2
    <3>4. NoDanglingPtr'
      BY <2>1, <3>1 DEF NoDanglingPtr, Holders
    <3>5. ~misused => i = noObj
      BY <2>1, <2>8 DEF SharedTogether
    <3>6. NoLostObject'
      BY <2>1, <3>1, <3>5 DEF NoLostObject, Holders
    <3>7. QED
      BY <2>1, <2>4, <3>2, <3>3, <3>4, <3>6 DEF CountsPointers
  <2>9. CASE b # noCount /\ b # c
    <3>1. /\ counts' = [ints EXCEPT ![b] = @ - 1]
          /\ ints[b] = counts[b]
          /\ life' = IF counts[b] = 1 /\ i # noObj
                     THEN [life EXCEPT ![i] = IF @ = "live" THEN "released" ELSE "broken"]
                     ELSE life
      BY <2>1, <2>2, <2>3, <2>9 DEF Drop
    <3>2. DxTypeOK'
      BY <2>1, <2>2, <2>3, <2>9, <3>1
    <3>3. ASSUME NEW d \in Blocks PROVE counts'[d] = Cardinality(Sharing(d)')
      <4>1. CASE d = c
        <5>1. p \notin Sharing(d) /\ Sharing(d)' = Sharing(d) \cup {p} /\ counts'[d] = counts[d] + 1
          BY <1>2, <2>1, <2>2, <2>3, <2>9, <3>1, <4>1 DEF Sharing
        <5>2. QED
          BY <2>1, <5>1, Recount
      <4>2. CASE d = b
        <5>1. p \in Sharing(d) /\ Sharing(d)' = Sharing(d) \ {p} /\ counts'[d] = counts[d] - 1
          BY <2>1, <2>2, <2>3, <2>9, <3>1, <4>2 DEF Sharing
        <5>2. QED
          BY <2>1, <5>1, Recount
      <4>3. CASE d # b /\ d # c
        <5>1. Sharing(d)' = Sharing(d) /\ counts'[d] = counts[d]
          BY <2>1, <3>1, <4>3 DEF Sharing
        <5>2. QED
          BY <2>1, <5>1, Recount
      <4>4. QED
        BY <4>1, <4>2, <4>3
    <3>4. i # noObj => obj_[q] # i
      BY <2>1, <2>9 DEF SharedTogether
    <3>5. counts[b] = 1 => \A r \in constructed : obj_[r] = i /\ i # noObj => r = p
      BY <2>1, <2>9, CountOfOne DEF SharedTogether
    <3>6. counts[b] # 1 /\ ~misused => \E r \in constructed \ {p} : obj_[r] = i
      BY <2>1, <2>9, CountOfOne DEF SharedTogether
    <3>7. NoDanglingPtr'
      BY <2>1, <2>5, <2>6, <3>1, <3>4, <3>5 DEF NoDanglingPtr, Holders
    <3>8. NoLostObject'
      BY <2>1, <2>5, <3>1, <3>6 DEF NoLostObject, Holders
    <3>9. QED
      BY <2>1, <2>4, <3>2, <3>3, <3>7, <3>8 DEF CountsPointers
  <2>10. QED
    BY <2>7, <2>8, <2>9
<1>3. QED
  BY <1>1, <1>2

LEMMA DxStep == DxInv /\ [DxNext]_dxvars => DxInv'
<1> SUFFICES ASSUME DxInv, [DxNext]_dxvars PROVE DxInv'
  OBVIOUS
<1>1. CASE DxNext
  BY <1>1, ConstructKeeps, CopyKeeps, MoveKeeps, AssignmentKeeps, SwapKeeps, DestructKeeps,
     FillKeeps DEF DxNext
<1>2. CASE UNCHANGED dxvars
  BY <1>2 DEF dxvars, DxInv, DxTypeOK, CountsPointers, NoDanglingPtr, NoLostObject,
              SharedTogether, Holders, Sharing
<1>3. QED
  BY <1>1, <1>2

(* The inductive invariant of DxPtr: pointers to one object share a count, *)
(* and as long as operator& is used on fresh pointers only, the converse.  *)
THEOREM DxSafety == DxSpec => []DxInv
<1>1. QED
  BY DxStart, DxStep, PTL DEF DxSpec

(* No DxPtr dangles and nothing is released twice, misused or not.         *)
THEOREM DxNeverDangles == DxSpec => []NoDanglingPtr
<1>1. DxInv => NoDanglingPtr
  BY DEF DxInv
<1>2. QED
  BY <1>1, DxSafety, PTL

(* A count is the number of the DxPtrs that share it.                      *)
THEOREM DxCounts == DxSpec => []CountsPointers
<1>1. DxInv => CountsPointers
  BY DEF DxInv
<1>2. QED
  BY <1>1, DxSafety, PTL

(* Without misuse of operator& no object outlives its last DxPtr.          *)
THEOREM DxLosesNothing == DxSpec => []NoLostObject
<1>1. DxInv => NoLostObject
  BY DEF DxInv
<1>2. QED
  BY <1>1, DxSafety, PTL

(* An object is new, exists, and was released, in this order.              *)
LEMMA InterfacesAge ==
  ASSUME DxInv, DxInv', DxNext, ~crashed', NEW i \in Interfaces
  PROVE  \/ life'[i] = life[i]
         \/ life[i] = "new" /\ life'[i] = "live"
         \/ life[i] = "live" /\ life'[i] = "released"
<1> USE DxAssumption DEF DxInv, DxTypeOK
<1>0. life'[i] # "broken"
  BY DEF NoDanglingPtr
<1>1. ASSUME NEW p \in Pointers, NEW j \in Interfaces \cup {noObj}, NEW b \in Blocks,
             ConstructPtr(p, j, b)
      PROVE  life'[i] = life[i] \/ (life[i] = "new" /\ life'[i] = "live")
  BY <1>1 DEF ConstructPtr
<1>2. ASSUME NEW p \in Pointers, NEW j \in Interfaces, Fill(p, j)
      PROVE  life'[i] = life[i] \/ (life[i] = "new" /\ life'[i] = "live")
  BY <1>2 DEF Fill
<1>3. ASSUME NEW p \in Pointers, NEW q \in Pointers, Copy(p, q) \/ Move(p, q) \/ swap(p, q)
      PROVE  life'[i] = life[i]
  BY <1>3 DEF Copy, Move, swap
<1>4. ASSUME NEW o \in Interfaces \cup {noObj}, NEW b \in Blocks \cup {noCount}, NEW ints,
             Drop(o, b, ints)
      PROVE  life'[i] = life[i] \/ (life[i] = "live" /\ life'[i] = "released")
  BY <1>0, <1>4 DEF Drop
<1>5. ASSUME NEW p \in Pointers, DestructPtr(p)
      PROVE  life'[i] = life[i] \/ (life[i] = "live" /\ life'[i] = "released")
  BY <1>4, <1>5 DEF DestructPtr, Use
<1>6. ASSUME NEW p \in Pointers, NEW q \in Pointers, Assign(p, q)
      PROVE  life'[i] = life[i] \/ (life[i] = "live" /\ life'[i] = "released")
  BY <1>4, <1>6 DEF Assign, Use
<1>7. QED
  BY <1>1, <1>2, <1>3, <1>5, <1>6 DEF DxNext

(* DxPtr implements Ownership until a null count is dereferenced or        *)
(* operator& is misused.                                                   *)
THEOREM DxRefines == DxSpec => DxPtrOwns
<1>1. ASSUME DxInv, DxInv', DxNext, ~crashed', ~misused' PROVE Owned!OwnershipNext
  <2> SUFFICES ASSUME NEW i \in Interfaces PROVE Owned!Fate(i)
    BY DEF Owned!OwnershipNext
  <2>1. ~crashed /\ ~misused
    <3>1. ~crashed
      BY <1>1 DEF DxNext, ConstructPtr, Copy, Move, Assign, swap, DestructPtr, Fill, Begin, Use
    <3>2. misused => misused'
      BY <1>1 DEF DxNext, ConstructPtr, Copy, Move, Assign, swap, DestructPtr, Fill
    <3>3. QED
      BY <1>1, <3>1, <3>2
  <2>2. life[i] = "live" <=> Holders(i) # {}
    BY <1>1, <2>1 DEF DxInv, NoDanglingPtr, NoLostObject
  <2>3. life'[i] = "live" <=> Holders(i)' # {}
    BY <1>1 DEF DxInv, NoDanglingPtr, NoLostObject
  <2>4. QED
    BY <1>1, <2>2, <2>3, InterfacesAge DEF Owned!Fate
<1>2. ASSUME DxInv, DxInv', [DxNext]_dxvars
      PROVE  [crashed' \/ misused' \/ Owned!OwnershipNext]_dxvars
  BY <1>1, <1>2
<1>3. QED
  BY <1>2, DxStart, DxStep, PTL DEF DxSpec, DxPtrOwns
=============================================================================
