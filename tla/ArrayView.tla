----------------------------- MODULE ArrayView ------------------------------
(***************************************************************************)
(* ArrayView (libBDX/Common/ArrayView.h): a pointer to an array and its    *)
(* size, which deletes the array in its destructor when it is the owner.   *)
(* Arrays are made by a view, or lent to it by a container.  Callers       *)
(* destroy an owner, or a container, only after the other views of its     *)
(* array.                                                                  *)
(***************************************************************************)
EXTENDS Naturals, FiniteSets

CONSTANTS Views, Arrays,
          MovesLent,    \* whether a view that is not an owner may be moved from
          AssignsOwners \* whether a view that is an owner may be assigned to
ArrayViewAssumption == /\ IsFiniteSet(Views) /\ IsFiniteSet(Arrays)
                       /\ MovesLent \in BOOLEAN /\ AssignsOwners \in BOOLEAN

nullptr == "nullptr"

VARIABLES view,         \* view[v]: the array and whether v is the owner, or None
          lent,         \* arrays of containers
          made,         \* arrays made by views
          deleted       \* how often each was deleted

vars == <<view, lent, made, deleted>>

None == [mData |-> nullptr, mOwner |-> FALSE, there |-> FALSE]
Now(data, owner) == [mData |-> data, mOwner |-> owner, there |-> TRUE]
ViewsOf(a) == {v \in Views : view[v].there /\ view[v].mData = a}
New == Arrays \ (lent \cup made)
DeletesAlways(v) == {view[v].mData} \ {nullptr}       \* fault
Deletes(v) == IF view[v].mOwner THEN {view[v].mData} \ {nullptr} ELSE {}
Deleted(as) == deleted' = [a \in Arrays |-> deleted[a] + IF a \in as THEN 1 ELSE 0]

Init == /\ view = [v \in Views |-> None] /\ lent = {} /\ made = {} /\ deleted = [a \in Arrays |-> 0]

Construct(v) == /\ ~view[v].there
                /\ \E a \in New :
                      \/ made' = made \cup {a} /\ view' = [view EXCEPT ![v] = Now(a, TRUE)] /\ UNCHANGED lent
                      \/ lent' = lent \cup {a} /\ view' = [view EXCEPT ![v] = Now(a, FALSE)] /\ UNCHANGED made
                /\ UNCHANGED deleted
Default(v) == ~view[v].there /\ view' = [view EXCEPT ![v] = Now(nullptr, FALSE)] /\ UNCHANGED <<lent, made, deleted>>

OwnerOfCopy(w) == FALSE
Copy(v, w) == /\ ~view[v].there /\ view[w].there
              /\ view' = [view EXCEPT ![v] = Now(view[w].mData, OwnerOfCopy(w))]
              /\ UNCHANGED <<lent, made, deleted>>
KeptBy(w) == view[w]                                  \* fault: the source keeps the array
LeftIn(w) == Now(nullptr, FALSE)
Move(v, w) == /\ ~view[v].there /\ view[w].there /\ v # w
              /\ MovesLent \/ view[w].mOwner
              /\ view' = [view EXCEPT ![v] = Now(view[w].mData, TRUE), ![w] = LeftIn(w)]
              /\ UNCHANGED <<lent, made, deleted>>
\* operator=: what the view had is left as it is, an array that it owned too.
Assign(v, w) == /\ view[v].there /\ view[w].there
                /\ AssignsOwners \/ ~view[v].mOwner
                /\ view' = [view EXCEPT ![v] = Now(view[w].mData, OwnerOfCopy(w))]
                /\ UNCHANGED <<lent, made, deleted>>
Destroy(v) == /\ view[v].there /\ (view[v].mOwner => ViewsOf(view[v].mData) \ {v} = {} \/ view[v].mData = nullptr)
              /\ Deleted(Deletes(v)) /\ view' = [view EXCEPT ![v] = None] /\ UNCHANGED <<lent, made>>
\* A container deletes its array.
EndOfLoan(a) == /\ a \in lent /\ ViewsOf(a) = {}
                /\ lent' = lent \ {a} /\ made' = made \cup {a} /\ Deleted({a}) /\ UNCHANGED view

Next == \/ \E v \in Views : Construct(v) \/ Default(v) \/ Destroy(v) \/ \E w \in Views : Copy(v, w) \/ Move(v, w) \/ Assign(v, w)
        \/ \E a \in Arrays : EndOfLoan(a)
Spec == Init /\ [][Next]_vars
-----------------------------------------------------------------------------
\* No array has two owners, and a container's has none beside it.
SingleOwner == \A a \in Arrays :
    Cardinality({v \in ViewsOf(a) : view[v].mOwner}) + (IF a \in lent THEN 1 ELSE 0) <= 1

\* No view points to an array that was deleted, and none is deleted twice.
NoDangling == \A a \in Arrays : deleted[a] <= 1 /\ (deleted[a] = 1 => ViewsOf(a) = {})

\* Every array that a view made has an owner until it is deleted, so the last view of it
\* deletes it: moves hand ownership on, and copies leave it where it is.
NoneLost == \A a \in made : deleted[a] = 0 => \E v \in ViewsOf(a) : view[v].mOwner

=============================================================================
