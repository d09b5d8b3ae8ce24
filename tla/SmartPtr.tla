------------------------------ MODULE SmartPtr ------------------------------
(***************************************************************************)
(* SharedPtr and WeakPtr of fflib/base/smart_ptr.h: the counts of one      *)
(* object, RefData, under pointers that threads copy, lock and destroy at  *)
(* once.  A pointer variable is used by one thread at a time, and what is  *)
(* copied from stays as it is meanwhile; the counts are shared.            *)
(*                                                                         *)
(* RefCount of atomic_op.h is atomic: each inc() and dec_and_check_zero()  *)
(* is one step, and what its result decides comes in a later step.         *)
(***************************************************************************)
EXTENDS Integers, FiniteSets

CONSTANTS Shared,   \* variables of type SharedPtr
          Weak,     \* variables of type WeakPtr
          First     \* the SharedPtr the object was created with

Ptr == Shared \cup Weak
NoPtr == "nothing"
Free == "free"

ASSUME SmartPtrAssumption == /\ IsFiniteSet(Shared) /\ IsFiniteSet(Weak)
                             /\ Shared \cap Weak = {} /\ First \in Shared
                             /\ NoPtr \notin Ptr /\ Free \notin Ptr

VARIABLES m_ref_count,       \* RefData::m_ref_count
          m_weak_ref_count,  \* RefData::m_weak_ref_count
          m_mutex,           \* RefData::m_mutex: the WeakPtr that holds it, or Free
          freed,             \* what was deleted: "object", "RefData"
          at,                \* where each variable is: null, held or in an operation
          src,               \* what it is copied from, or Nothing
          dest               \* the SharedPtr that lock() of a WeakPtr constructs, or Nothing

ptrVars == <<m_ref_count, m_weak_ref_count, m_mutex, freed, at, src, dest>>

PtrInit == /\ m_ref_count = 1 /\ m_weak_ref_count = 1
           /\ m_mutex = Free /\ freed = {}
           /\ at = [p \in Ptr |-> IF p = First THEN "held" ELSE "null"]
           /\ src = [p \in Ptr |-> NoPtr]
           /\ dest = [w \in Weak |-> NoPtr]

\* Nobody copies from p, and no lock() constructs it.
Idle(p, place) == at[p] = place /\ (\A q \in Ptr : src[q] # p) /\ (\A w \in Weak : dest[w] # p)
GoesTo(p, place) == at' = [at EXCEPT ![p] = place]

-----------------------------------------------------------------------------
(* Copying: SharedPtr(const SharedPtr&), WeakPtr(const SharedPtr&),        *)
(* WeakPtr(const WeakPtr&); operator= is a reset() and then a copy.        *)

copy(p, q) == /\ Idle(p, "null")
              /\ \/ q \in Shared /\ at[q] = "held"
                 \/ p \in Weak /\ q \in Weak /\ at[q] \in {"held", "expired"}
              /\ src' = [src EXCEPT ![p] = q]
              /\ GoesTo(p, IF p \in Shared THEN "incRef" ELSE "incWeak")
              /\ UNCHANGED <<m_ref_count, m_weak_ref_count, m_mutex, freed, dest>>

incRef(s) == /\ at[s] = "incRef"
             /\ m_ref_count' = m_ref_count + 1
             /\ GoesTo(s, "incWeak")
             /\ UNCHANGED <<m_weak_ref_count, m_mutex, freed, src, dest>>

\* A copy of an expired WeakPtr has no m_dest_ptr either, but counts.
incWeak(p) == /\ at[p] = "incWeak"
              /\ m_weak_ref_count' = m_weak_ref_count + 1
              /\ GoesTo(p, at[src[p]])
              /\ src' = [src EXCEPT ![p] = NoPtr]
              /\ UNCHANGED <<m_ref_count, m_mutex, freed, dest>>

-----------------------------------------------------------------------------
(* SharedPtr::reset() and WeakPtr::reset(), as the destructors call them. *)

resetShared(s) == /\ Idle(s, "held")
                  /\ m_ref_count' = m_ref_count - 1
                  /\ GoesTo(s, IF m_ref_count' = 0 THEN "delete" ELSE "decWeak")
                  /\ UNCHANGED <<m_weak_ref_count, m_mutex, freed, src, dest>>

deleteObject(s) == /\ at[s] = "delete"
                   /\ freed' = freed \cup {"object"}
                   /\ GoesTo(s, "decWeak")
                   /\ UNCHANGED <<m_ref_count, m_weak_ref_count, m_mutex, src, dest>>

\* The second half of SharedPtr::reset(), all of WeakPtr::reset().
resetWeak(p) ==
    /\ \/ p \in Shared /\ at[p] = "decWeak"
       \/ p \in Weak /\ (Idle(p, "held") \/ Idle(p, "expired"))
    /\ m_weak_ref_count' = m_weak_ref_count - 1
    /\ GoesTo(p, IF m_weak_ref_count' = 0 THEN "deleteRef" ELSE "null")
    /\ UNCHANGED <<m_ref_count, m_mutex, freed, src, dest>>

deleteRefData(p) == /\ at[p] = "deleteRef"
                    /\ freed' = freed \cup {"RefData"}
                    /\ GoesTo(p, "null")
                    /\ UNCHANGED <<m_ref_count, m_weak_ref_count, m_mutex, src, dest>>

-----------------------------------------------------------------------------
(* WeakPtr::lock(): one thread at a time between the two counts. *)

\* Mutant: without the spin lock.
lockSpin_Ignored(w, s) ==
    /\ Idle(w, "held") /\ Idle(s, "null")
    /\ dest' = [dest EXCEPT ![w] = s]
    /\ GoesTo(w, "incFetch")
    /\ UNCHANGED <<m_ref_count, m_weak_ref_count, m_mutex, freed, src>>
lockSpin(w, s) == /\ Idle(w, "held") /\ Idle(s, "null") /\ m_mutex = Free
                  /\ m_mutex' = w
                  /\ dest' = [dest EXCEPT ![w] = s]
                  /\ GoesTo(w, "incFetch")
                  /\ UNCHANGED <<m_ref_count, m_weak_ref_count, freed, src>>

lockIncFetch(w) == /\ at[w] = "incFetch"
                   /\ m_ref_count' = m_ref_count + 1
                   /\ \/ m_ref_count' = 1 /\ GoesTo(w, "undo") /\ UNCHANGED m_mutex
                      \/ m_ref_count' # 1 /\ GoesTo(w, "construct") /\ m_mutex' = Free
                   /\ UNCHANGED <<m_weak_ref_count, freed, src, dest>>

lockUndo(w) == /\ at[w] = "undo"
               /\ m_ref_count' = m_ref_count - 1
               /\ GoesTo(w, "expired")
               /\ m_mutex' = Free
               /\ dest' = [dest EXCEPT ![w] = NoPtr]
               /\ UNCHANGED <<m_weak_ref_count, freed, src>>

\* SharedPtr(p, RefData): the strong count was taken by lock().
lockConstruct(w) == /\ at[w] = "construct"
                    /\ m_weak_ref_count' = m_weak_ref_count + 1
                    /\ at' = [at EXCEPT ![w] = "held", ![dest[w]] = "held"]
                    /\ dest' = [dest EXCEPT ![w] = NoPtr]
                    /\ UNCHANGED <<m_ref_count, m_mutex, freed, src>>

-----------------------------------------------------------------------------
PtrNext == \/ \E p, q \in Ptr : copy(p, q)
           \/ \E s \in Shared : incRef(s) \/ resetShared(s) \/ deleteObject(s)
           \/ \E p \in Ptr : incWeak(p) \/ resetWeak(p) \/ deleteRefData(p)
           \/ \E w \in Weak : \/ \E s \in Shared : lockSpin(w, s)
                              \/ lockIncFetch(w) \/ lockUndo(w) \/ lockConstruct(w)

PtrSpec == PtrInit /\ [][PtrNext]_ptrVars

-----------------------------------------------------------------------------
Place == {"null", "held", "expired", "incRef", "incWeak", "delete", "decWeak", "deleteRef",
          "incFetch", "undo", "construct"}

\* Type invariant: counts never go below zero, and every variable is at a place of
\* its operations.
SmartPtrTypeOK == /\ m_ref_count \in Nat /\ m_weak_ref_count \in Nat
                  /\ m_mutex \in Weak \cup {Free}
                  /\ freed \subseteq {"object", "RefData"}
                  /\ at \in [Ptr -> Place]
                  /\ src \in [Ptr -> Ptr \cup {NoPtr}]
                  /\ dest \in [Weak -> Shared \cup {NoPtr}]

\* The variables that own the object: SharedPtrs that hold it or have counted
\* themselves, and locks that are sure of it.
Owners == {s \in Shared : at[s] \in {"held", "incWeak"}} \cup {w \in Weak : at[w] = "construct"}

\* The object lives as long as somebody owns it, and is deleted by one reset() only,
\* whatever lock() and reset() do in between (inc_and_fetch under the spin lock
\* tells a count that was zero from one that was not).
OwnedIsAlive == /\ Owners # {} => "object" \notin freed
                /\ \A s \in Shared : at[s] = "delete" =>
                       /\ "object" \notin freed /\ Owners = {}
                       /\ \A t \in Shared \ {s} : at[t] # "delete"

\* RefData lives as long as any variable may still use its counts or its lock, also
\* after the object is gone (a SharedPtr counts as weak for its whole life).
CountsOutliveTheirUsers ==
    "RefData" \in freed => \A p \in Ptr : at[p] = "null"

\* When the last variable has let go nothing is left behind: object and RefData are
\* deleted, the lock is free.
NothingLeaks ==
    (\A p \in Ptr : at[p] = "null") => freed = {"object", "RefData"} /\ m_mutex = Free

\* All of it together: what is shared is deleted once, at the right time and in the end.
SharedOwnership == SmartPtrTypeOK /\ OwnedIsAlive /\ CountsOutliveTheirUsers /\ NothingLeaks
=============================================================================
