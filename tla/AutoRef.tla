-------------------------------- MODULE AutoRef --------------------------------
(***************************************************************************)
(* auto_ref.h: a pointer that may own what it points to.  A program makes, *)
(* copies, moves, assigns, resets and destroys auto_refs in any order.     *)
(* Objects are their addresses: `new' may return one that was used before. *)
(***************************************************************************)
EXTENDS Integers

CONSTANTS
    Refs,       \* the auto_ref variables of the program
    Heap,       \* the addresses new can return
    Locals,     \* addresses of objects that are not on the heap
    Null,
    Dangling    \* what an owner holds whose object is deleted and not replaced

ASSUME AutoRefAssumption ==
    /\ Heap \cap Locals = {}
    /\ {Null, Dangling} \cap (Heap \cup Locals) = {}
    /\ Null # Dangling

VARIABLES
    made,       \* the auto_refs that are constructed
    ptr,        \* m_ptr
    owns,       \* m_owns
    live,       \* the heap objects that exist
    raw         \* those the program itself must delete: release() or clone() gave
                \* them to it as plain pointers

refVars == <<made, ptr, owns, live, raw>>

Addresses == Heap \cup Locals

RefTypeOK ==
    /\ made \subseteq Refs
    /\ ptr \in [Refs -> Addresses \cup {Null, Dangling}]
    /\ owns \in [Refs -> BOOLEAN]
    /\ live \subseteq Heap
    /\ raw \subseteq live

RefInit ==
    /\ made = {}
    /\ ptr = [r \in Refs |-> Null]
    /\ owns = [r \in Refs |-> FALSE]
    /\ live = {}
    /\ raw = {}

--------------------------------------------------------------------------------
\* if (m_owns && m_ptr) delete m_ptr;
Deleted(r) == IF owns[r] /\ ptr[r] # Null THEN {ptr[r]} ELSE {}

\* To delete or to copy through such a reference is undefined: the model has no step
\* for it.  It may be moved, swapped and released.
Dangles(r) == owns[r] /\ ptr[r] = Dangling

Fresh == Heap \ live

Set(r, p, o) ==
    /\ ptr' = [ptr EXCEPT ![r] = p]
    /\ owns' = [owns EXCEPT ![r] = o]

\* auto_ref()
DefaultConstruct(r) ==
    /\ r \notin made
    /\ made' = made \cup {r}
    /\ \E a \in Fresh : Set(r, a, TRUE) /\ live' = live \cup {a}
    /\ UNCHANGED raw

\* auto_ref(T& value), for any object that exists
WrapValue(r) ==
    /\ r \notin made
    /\ made' = made \cup {r}
    /\ \E a \in Locals \cup live : Set(r, a, FALSE)
    /\ UNCHANGED <<live, raw>>

\* What copying `from' stores, after `gone' was deleted: a new object, or the
\* same pointer.
CopyInto(r, from, gone) ==
    /\ ~Dangles(r)
    /\ ~Dangles(from)
    /\ IF owns[from]
       THEN \E a \in Heap \ (live \ gone) :
               Set(r, a, TRUE) /\ live' = (live \ gone) \cup {a}
       ELSE Set(r, ptr[from], FALSE) /\ live' = live \ gone

CopyConstruct(r, from) ==
    /\ r \notin made
    /\ from \in made
    /\ made' = made \cup {r}
    /\ CopyInto(r, from, {})
    /\ UNCHANGED raw

\* Fault for the mutation run: `from' keeps what it had.
MoveIntoKept(r, from) == Set(r, ptr[from], owns[from])

\* std::exchange: `from' is left empty.
MoveInto(r, from) ==
    /\ ptr' = [ptr EXCEPT ![r] = ptr[from], ![from] = Null]
    /\ owns' = [owns EXCEPT ![r] = owns[from], ![from] = FALSE]

MoveConstruct(r, from) ==
    /\ r \notin made
    /\ from \in made
    /\ made' = made \cup {r}
    /\ MoveInto(r, from)
    /\ UNCHANGED <<live, raw>>

\* ~auto_ref()
Destroy(r) ==
    /\ r \in made
    /\ ~Dangles(r)
    /\ made' = made \ {r}
    /\ live' = live \ Deleted(r)
    /\ Set(r, Null, FALSE)
    /\ UNCHANGED raw

\* Fault for the mutation run: assignment forgets the object it replaces.
CopyAssignForgets(r, from) ==
    /\ r \in made
    /\ from \in made \ {r}
    /\ CopyInto(r, from, {})
    /\ UNCHANGED <<made, raw>>

\* Assigning a reference to itself does nothing.
CopyAssign(r, from) ==
    /\ r \in made
    /\ from \in made \ {r}
    /\ CopyInto(r, from, Deleted(r))
    /\ UNCHANGED <<made, raw>>

\* The allocation or T's copy constructor throws after the delete: `r' still owns, and
\* points to what it has deleted.
CopyAssignThrows(r, from) ==
    /\ r \in made
    /\ from \in made \ {r}
    /\ owns[r] /\ ~Dangles(r)
    /\ owns[from] /\ ~Dangles(from)
    /\ ptr' = [ptr EXCEPT ![r] = Dangling]
    /\ live' = live \ Deleted(r)
    /\ UNCHANGED <<made, owns, raw>>

MoveAssign(r, from) ==
    /\ r \in made
    /\ from \in made \ {r}
    /\ ~Dangles(r)
    /\ MoveInto(r, from)
    /\ live' = live \ Deleted(r)
    /\ UNCHANGED <<made, raw>>

\* Fault for the mutation run: a released pointer is still owned.
ReleaseKeeps(r) ==
    /\ r \in made
    /\ raw' = IF owns[r] /\ ~Dangles(r) THEN raw \cup {ptr[r]} ELSE raw
    /\ UNCHANGED <<made, live, ptr, owns>>

\* A dangling pointer that is released is none the program may delete.
Release(r) ==
    /\ r \in made
    /\ Set(r, Null, FALSE)
    /\ raw' = IF owns[r] /\ ~Dangles(r) THEN raw \cup {ptr[r]} ELSE raw
    /\ UNCHANGED <<made, live>>

\* reset(p): p is nullptr or a plain pointer the program has to delete.
Reset(r) ==
    /\ r \in made
    /\ ~Dangles(r)
    /\ \E p \in raw \cup {Null} :
        /\ Set(r, p, p # Null)
        /\ raw' = raw \ {p}
    /\ live' = live \ Deleted(r)
    /\ UNCHANGED made

Swap(r, other) ==
    /\ r \in made
    /\ other \in made
    /\ ptr' = [ptr EXCEPT ![r] = ptr[other], ![other] = ptr[r]]
    /\ owns' = [owns EXCEPT ![r] = owns[other], ![other] = owns[r]]
    /\ UNCHANGED <<made, live, raw>>

\* clone() copies the object pointed to, which must exist.
Clone(r) ==
    /\ r \in made
    /\ ptr[r] \in live \cup Locals
    /\ \E a \in Fresh : live' = live \cup {a} /\ raw' = raw \cup {a}
    /\ UNCHANGED <<made, ptr, owns>>

\* The program deletes a plain pointer it was given.
DeleteRaw ==
    /\ \E a \in raw : raw' = raw \ {a} /\ live' = live \ {a}
    /\ UNCHANGED <<made, ptr, owns>>

RefNext ==
    \/ \E r \in Refs :
        \/ DefaultConstruct(r) \/ WrapValue(r) \/ Destroy(r)
        \/ Release(r) \/ Reset(r) \/ Clone(r)
    \/ \E r, from \in Refs :
        \/ CopyConstruct(r, from) \/ MoveConstruct(r, from)
        \/ CopyAssign(r, from) \/ CopyAssignThrows(r, from)
        \/ MoveAssign(r, from) \/ Swap(r, from)
    \/ DeleteRaw

RefSpec == RefInit /\ [][RefNext]_refVars

--------------------------------------------------------------------------------
(***************************************************************************)
(* Properties.                                                             *)
(***************************************************************************)

\* What an auto_ref owns exists, is on the heap, and nobody else is to delete
\* it: neither the program nor another auto_ref.  So no operation, in any order,
\* deletes an object twice or one that is not on the heap, unless it is an operation on
\* a reference that a copy assignment left dangling when it threw.
SoleOwner ==
    \A r \in Refs : owns[r] /\ ~Dangles(r) =>
        /\ ptr[r] \in live \ raw
        /\ \A s \in Refs \ {r} : owns[s] => ptr[s] # ptr[r]

\* Every object that exists has somebody who will delete it, after an assignment that
\* threw as well.
NothingLost ==
    \A a \in live \ raw : \E r \in made : owns[r] /\ ptr[r] = a
================================================================================
