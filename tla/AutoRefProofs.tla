----------------------------- MODULE AutoRefProofs -----------------------------
(***************************************************************************)
(* Ownership through auto_ref, for any number of references and addresses. *)
(* The inductive invariant adds to SoleOwner and NothingLost only that a   *)
(* reference that is not constructed owns nothing.                         *)
(***************************************************************************)
EXTENDS AutoRef, TLAPS

Unmade == \A r \in Refs \ made : ~owns[r]

OwnershipInv == RefTypeOK /\ SoleOwner /\ NothingLost /\ Unmade

\* No reference owns anything at the start.
LEMMA InitOwnership == RefInit => OwnershipInv
  BY DEF RefInit, OwnershipInv, RefTypeOK, SoleOwner, NothingLost, Unmade, Addresses

\* Under the invariant a delete through a reference that does not dangle is of an object
\* that exists and that nobody else owns or holds.
LEMMA DeletedIsOwn ==
    ASSUME OwnershipInv, NEW r \in Refs, ~Dangles(r)
    PROVE  /\ owns[r] => Deleted(r) = {ptr[r]} /\ ptr[r] \in live \ raw
           /\ ~owns[r] => Deleted(r) = {}
  <1>1. owns[r] => ptr[r] \in live \ raw /\ ptr[r] # Null
    BY AutoRefAssumption DEF OwnershipInv, SoleOwner, RefTypeOK
  <1> QED BY <1>1 DEF Deleted

\* Building a reference, or filling one that has given up what it owned, keeps
\* the invariant: from a new object or from a pointer it does not own.
LEMMA CopyKeepsOwnership ==
    ASSUME OwnershipInv, NEW r \in Refs, NEW from \in made, from # r,
           CopyInto(r, from, Deleted(r)), made' = made \cup {r}, raw' = raw
    PROVE  OwnershipInv'
  <1> USE DEF OwnershipInv, RefTypeOK, SoleOwner, NothingLost, Unmade, Set, Addresses, Dangles
  <1>1. /\ owns[r] => Deleted(r) = {ptr[r]} /\ ptr[r] \in live \ raw
        /\ ~owns[r] => Deleted(r) = {}
    BY DeletedIsOwn DEF CopyInto
  <1> USE AutoRefAssumption
  <1>2. CASE owns[from]
    <2>1. PICK a \in Heap \ (live \ Deleted(r)) :
            /\ ptr' = [ptr EXCEPT ![r] = a]
            /\ owns' = [owns EXCEPT ![r] = TRUE]
            /\ live' = (live \ Deleted(r)) \cup {a}
      BY <1>2 DEF CopyInto
    <2>2. RefTypeOK' BY <1>1, <2>1
    <2>3. SoleOwner' BY <1>1, <2>1
    <2>4. NothingLost' BY <1>1, <2>1
    <2>5. Unmade' BY <2>1
    <2> QED BY <2>2, <2>3, <2>4, <2>5
  <1>3. CASE ~owns[from]
    <2>1. /\ ptr' = [ptr EXCEPT ![r] = ptr[from]]
          /\ owns' = [owns EXCEPT ![r] = FALSE]
          /\ live' = live \ Deleted(r)
      BY <1>3 DEF CopyInto
    <2>2. RefTypeOK' BY <1>1, <2>1
    <2>3. SoleOwner' BY <1>1, <2>1
    <2>4. NothingLost' BY <1>1, <2>1
    <2>5. Unmade' BY <2>1
    <2> QED BY <2>2, <2>3, <2>4, <2>5
  <1> QED BY <1>2, <1>3

\* A move hands ownership on.
LEMMA MoveKeepsOwnership ==
    ASSUME OwnershipInv, NEW r \in Refs, NEW from \in made, from # r, ~Dangles(r),
           MoveInto(r, from), made' = made \cup {r}, live' = live \ Deleted(r), raw' = raw
    PROVE  OwnershipInv'
  <1> USE DEF OwnershipInv, RefTypeOK, SoleOwner, NothingLost, Unmade, MoveInto, Addresses,
              Dangles
  <1>1. /\ owns[r] => Deleted(r) = {ptr[r]} /\ ptr[r] \in live \ raw
        /\ ~owns[r] => Deleted(r) = {}
    BY DeletedIsOwn
  <1> USE AutoRefAssumption
  <1>2. RefTypeOK' BY <1>1
  <1>3. SoleOwner' BY <1>1
  <1>4. NothingLost' BY <1>1
  <1>5. Unmade' OBVIOUS
  <1> QED BY <1>2, <1>3, <1>4, <1>5

\* Every operation keeps the invariant.
LEMMA StepOwnership == OwnershipInv /\ [RefNext]_refVars => OwnershipInv'
  <1> SUFFICES ASSUME OwnershipInv, [RefNext]_refVars PROVE OwnershipInv'
    OBVIOUS
  <1> USE DEF OwnershipInv, RefTypeOK, SoleOwner, NothingLost, Unmade, Set, Addresses, Dangles
  <1> USE AutoRefAssumption
  <1>1. ASSUME NEW r \in Refs, DefaultConstruct(r) PROVE OwnershipInv'
    <2>1. PICK a \in Heap \ live :
            /\ ptr' = [ptr EXCEPT ![r] = a]
            /\ owns' = [owns EXCEPT ![r] = TRUE]
            /\ live' = live \cup {a}
      BY <1>1 DEF DefaultConstruct, Fresh
    <2>2. r \notin made /\ ~owns[r] /\ made' = made \cup {r} /\ raw' = raw
      BY <1>1 DEF DefaultConstruct
    <2>3. RefTypeOK' BY <2>1, <2>2
    <2>4. SoleOwner' BY <2>1, <2>2
    <2>5. NothingLost' BY <2>1, <2>2
    <2>6. Unmade' BY <2>1, <2>2
    <2> QED BY <2>3, <2>4, <2>5, <2>6
  <1>2. ASSUME NEW r \in Refs, WrapValue(r) PROVE OwnershipInv'
    <2>1. PICK a \in Locals \cup live :
            ptr' = [ptr EXCEPT ![r] = a] /\ owns' = [owns EXCEPT ![r] = FALSE]
      BY <1>2 DEF WrapValue
    <2>2. r \notin made /\ ~owns[r] /\ made' = made \cup {r} /\ live' = live /\ raw' = raw
      BY <1>2 DEF WrapValue
    <2> QED BY <2>1, <2>2
  <1>3. ASSUME NEW r \in Refs, NEW from \in Refs, CopyConstruct(r, from) PROVE OwnershipInv'
    <2>1. r \notin made /\ from \in made /\ Deleted(r) = {}
      BY <1>3 DEF CopyConstruct, Deleted
    <2> QED BY <1>3, <2>1, CopyKeepsOwnership DEF CopyConstruct
  <1>4. ASSUME NEW r \in Refs, NEW from \in Refs, MoveConstruct(r, from) PROVE OwnershipInv'
    <2>1. r \notin made /\ from \in made /\ Deleted(r) = {} /\ ~Dangles(r)
      BY <1>4 DEF MoveConstruct, Deleted
    <2> QED BY <1>4, <2>1, MoveKeepsOwnership DEF MoveConstruct
  <1>5. ASSUME NEW r \in Refs, Destroy(r) PROVE OwnershipInv'
    <2>1. /\ owns[r] => Deleted(r) = {ptr[r]} /\ ptr[r] \in live \ raw
          /\ ~owns[r] => Deleted(r) = {}
      BY <1>5, DeletedIsOwn DEF Destroy
    <2>2. RefTypeOK' BY <1>5, <2>1 DEF Destroy
    <2>3. SoleOwner' BY <1>5, <2>1 DEF Destroy
    <2>4. NothingLost' BY <1>5, <2>1 DEF Destroy
    <2>5. Unmade' BY <1>5 DEF Destroy
    <2> QED BY <2>2, <2>3, <2>4, <2>5
  <1>6. ASSUME NEW r \in Refs, NEW from \in Refs, CopyAssign(r, from) PROVE OwnershipInv'
    <2>1. r \in made /\ from \in made /\ from # r /\ made \cup {r} = made
      BY <1>6 DEF CopyAssign
    <2> QED BY <1>6, <2>1, CopyKeepsOwnership DEF CopyAssign
  <1>7. ASSUME NEW r \in Refs, NEW from \in Refs, MoveAssign(r, from) PROVE OwnershipInv'
    <2>1. r \in made /\ from \in made /\ from # r /\ made \cup {r} = made /\ ~Dangles(r)
      BY <1>7 DEF MoveAssign
    <2> QED BY <1>7, <2>1, MoveKeepsOwnership DEF MoveAssign
  <1>8. ASSUME NEW r \in Refs, Release(r) PROVE OwnershipInv'
    <2>1. RefTypeOK' BY <1>8 DEF Release
    <2>2. SoleOwner' BY <1>8 DEF Release
    <2>3. NothingLost' BY <1>8 DEF Release
    <2>4. Unmade' BY <1>8 DEF Release
    <2> QED BY <2>1, <2>2, <2>3, <2>4
  <1>9. ASSUME NEW r \in Refs, Reset(r) PROVE OwnershipInv'
    <2>1. /\ owns[r] => Deleted(r) = {ptr[r]} /\ ptr[r] \in live \ raw
          /\ ~owns[r] => Deleted(r) = {}
      BY <1>9, DeletedIsOwn DEF Reset
    <2>2. PICK p \in raw \cup {Null} :
            /\ ptr' = [ptr EXCEPT ![r] = p]
            /\ owns' = [owns EXCEPT ![r] = (p # Null)]
            /\ raw' = raw \ {p}
      BY <1>9 DEF Reset
    <2>3. r \in made /\ made' = made /\ live' = live \ Deleted(r)
      BY <1>9 DEF Reset
    <2>4. CASE p = Null
      <3>1. /\ ptr' = [ptr EXCEPT ![r] = Null]
            /\ owns' = [owns EXCEPT ![r] = FALSE]
            /\ raw' = raw
        <4>1. (p # Null) = FALSE BY <2>4
        <4>2. raw \ {Null} = raw BY AutoRefAssumption
        <4> QED BY <2>2, <2>4, <4>1, <4>2, Zenon
      <3> QED BY <2>1, <2>3, <3>1
    <2>5. CASE p \in raw
      <3>1. owns' = [owns EXCEPT ![r] = TRUE]
        BY <2>2, <2>5, AutoRefAssumption
      <3>2. RefTypeOK' BY <2>1, <2>2, <2>3, <2>5, <3>1
      <3>3. SoleOwner' BY <2>1, <2>2, <2>3, <2>5, <3>1
      <3>4. NothingLost' BY <2>1, <2>2, <2>3, <2>5, <3>1
      <3>5. Unmade' BY <2>2, <2>3, <3>1
      <3> QED BY <3>2, <3>3, <3>4, <3>5
    <2> QED BY <2>2, <2>4, <2>5
  <1>10. ASSUME NEW r \in Refs, NEW other \in Refs, Swap(r, other) PROVE OwnershipInv'
    <2>1. RefTypeOK' BY <1>10 DEF Swap
    <2>2. SoleOwner' BY <1>10 DEF Swap
    <2>3. NothingLost' BY <1>10 DEF Swap
    <2>4. Unmade' BY <1>10 DEF Swap
    <2> QED BY <2>1, <2>2, <2>3, <2>4
  <1>11. ASSUME NEW r \in Refs, Clone(r) PROVE OwnershipInv'
    BY <1>11 DEF Clone, Fresh
  <1>12. CASE DeleteRaw
    BY <1>12 DEF DeleteRaw
  <1>13. ASSUME NEW r \in Refs, NEW from \in Refs, CopyAssignThrows(r, from)
         PROVE  OwnershipInv'
    <2>1. /\ Deleted(r) = {ptr[r]} /\ ptr[r] \in live \ raw
          /\ ptr' = [ptr EXCEPT ![r] = Dangling]
          /\ live' = live \ {ptr[r]}
          /\ made' = made /\ owns' = owns /\ raw' = raw
      BY <1>13, DeletedIsOwn DEF CopyAssignThrows
    <2>2. RefTypeOK' BY <2>1
    <2>3. SoleOwner'
      <3> SUFFICES ASSUME NEW s \in Refs, owns'[s], ~Dangles(s)'
                   PROVE  /\ ptr'[s] \in live' \ raw'
                          /\ \A t \in Refs \ {s} : owns'[t] => ptr'[t] # ptr'[s]
        OBVIOUS
      <3>1. s # r /\ owns[s] /\ ~Dangles(s) /\ ptr'[s] = ptr[s] /\ ptr[s] # Dangling
        BY <2>1
      <3>2. ptr[s] \in live \ raw /\ ptr[s] # ptr[r]
        BY <1>13, <3>1 DEF CopyAssignThrows
      <3>3. ASSUME NEW t \in Refs \ {s}, owns'[t] PROVE ptr'[t] # ptr'[s]
        BY <2>1, <3>1, <3>3
      <3> QED BY <2>1, <3>1, <3>2, <3>3
    <2>4. NothingLost' BY <2>1
    <2>5. Unmade' BY <2>1
    <2> QED BY <2>2, <2>3, <2>4, <2>5
  <1>14. CASE UNCHANGED refVars
    BY <1>14 DEF refVars
  <1> QED
    BY <1>1, <1>2, <1>3, <1>4, <1>5, <1>6, <1>7, <1>8, <1>9, <1>10, <1>11, <1>12, <1>13,
       <1>14
       DEF RefNext

\* The invariant holds throughout.
LEMMA OwnershipInvariant == RefSpec => []OwnershipInv
  BY InitOwnership, StepOwnership, PTL DEF RefSpec

\* Types: whatever the program still has to delete exists.
THEOREM RefTypesHold == RefSpec => []RefTypeOK
  BY OwnershipInvariant, PTL DEF OwnershipInv

\* Whatever order auto_refs are made, copied, moved, assigned, reset and
\* destroyed in, an object has at most one owner, and that owner's delete is of an
\* object that exists, unless the owner was left dangling by an assignment that threw.
THEOREM OwnersAreUnique == RefSpec => []SoleOwner
  BY OwnershipInvariant, PTL DEF OwnershipInv

\* And no object is left without an owner unless the program was given it.
THEOREM ObjectsAreOwned == RefSpec => []NothingLost
  BY OwnershipInvariant, PTL DEF OwnershipInv
================================================================================
