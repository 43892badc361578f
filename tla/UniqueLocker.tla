---------------------------- MODULE UniqueLocker ----------------------------
(***************************************************************************)
(* utils::UniqueLocker<T> (src/src/utils/utils.h): a container that lends  *)
(* the datum it holds to one owner at a time.  Each locker is a mutex and  *)
(* a unique pointer; a thread that takes the datum keeps the mutex locked  *)
(* until it yields the datum back or resets the locker.                    *)
(*                                                                         *)
(* The operations are operators that a user of the lockers INSTANCEs (the  *)
(* TCP server keeps one locker per client descriptor).  Contract is the    *)
(* use the comments of the class allow: everything else they call          *)
(* undefined behaviour.  A call they forbid may leave the locker as it is, *)
(* so the history variable misused remembers it.                           *)
(***************************************************************************)
CONSTANTS
  Owners,   \* the threads that call the lockers
  Lockers,  \* the lockers
  Data,     \* what unique_ptr<T> can point to
  None      \* the null pointer, and the owner of an unlocked mutex

ASSUME NoneAssumption == None \notin Owners /\ None \notin Data

VARIABLES
  lock_,    \* lock_[l]: the thread that locked the mutex of locker l
  data_,    \* data_[l]: the datum inside locker l
  hand,     \* hand[t]: the datum in the unique_ptr local to thread t
  misused   \* history: a try_take by the owner, a yield or reset by another

vars == <<lock_, data_, hand, misused>>

TypeOK ==
  /\ lock_ \in [Lockers -> Owners \cup {None}]
  /\ data_ \in [Lockers -> Data \cup {None}]
  /\ hand \in [Owners -> Data \cup {None}]
  /\ misused \in BOOLEAN

Init ==
  /\ lock_ = [l \in Lockers |-> None]
  /\ data_ = [l \in Lockers |-> None]
  /\ hand = [t \in Owners |-> None]
  /\ misused = FALSE

(* take: waits for the mutex and moves the datum out; the mutex stays      *)
(* locked.  The owner would wait for itself: its call never goes on.       *)
Take(t, l) ==
  /\ lock_[l] = None
  /\ lock_' = [lock_ EXCEPT ![l] = t]
  /\ hand' = [hand EXCEPT ![t] = data_[l]]
  /\ data_' = [data_ EXCEPT ![l] = None]
  /\ UNCHANGED misused

(* A try_take that copies the pointer instead of moving it.                *)
TryTakeCopying(t, l) ==
  \/ /\ lock_[l] = None
     /\ lock_' = [lock_ EXCEPT ![l] = t]
     /\ hand' = [hand EXCEPT ![t] = data_[l]]
     /\ UNCHANGED <<data_, misused>>
  \/ /\ lock_[l] # None
     /\ hand' = [hand EXCEPT ![t] = None]
     /\ misused' = (misused \/ lock_[l] = t)
     /\ UNCHANGED <<lock_, data_>>

(* try_take: an empty pointer when the mutex is locked.  A locker that     *)
(* holds nothing and is not locked also gives an empty pointer, and then   *)
(* its mutex stays locked.                                                 *)
TryTake(t, l) ==
  \/ Take(t, l)
  \/ /\ lock_[l] # None
     /\ hand' = [hand EXCEPT ![t] = None]
     /\ misused' = (misused \/ lock_[l] = t)
     /\ UNCHANGED <<lock_, data_>>

(* A yield that puts the datum back and does not unlock.                   *)
YieldLeavingLocked(t, l) ==
  /\ data_' = [data_ EXCEPT ![l] = hand[t]]
  /\ hand' = [hand EXCEPT ![t] = None]
  /\ misused' = (misused \/ lock_[l] # t)
  /\ UNCHANGED lock_

(* yield: puts a datum back and unlocks.                                   *)
Yield(t, l) ==
  /\ data_' = [data_ EXCEPT ![l] = hand[t]]
  /\ hand' = [hand EXCEPT ![t] = None]
  /\ lock_' = [lock_ EXCEPT ![l] = None]
  /\ misused' = (misused \/ lock_[l] # t)

(* reset: destroys what the locker holds (not what the caller holds) and   *)
(* unlocks.                                                                *)
Reset(t, l) ==
  /\ data_' = [data_ EXCEPT ![l] = None]
  /\ lock_' = [lock_ EXCEPT ![l] = None]
  /\ misused' = (misused \/ lock_[l] # t)
  /\ UNCHANGED hand

(* An assignment that does not look at the mutex.                          *)
AssignIgnoringLock(t, l) ==
  /\ data_' = [data_ EXCEPT ![l] = hand[t]]
  /\ hand' = [hand EXCEPT ![t] = None]
  /\ UNCHANGED <<lock_, misused>>

(* operator=(unique_ptr &&): waits for the mutex, replaces the datum and   *)
(* unlocks.  It is one step: while it lasts, the only thing another thread *)
(* could observe is a try_take that fails, and a failed try_take into an   *)
(* empty pointer changes nothing.                                          *)
Assign(t, l) ==
  /\ lock_[l] = None
  /\ data_' = [data_ EXCEPT ![l] = hand[t]]
  /\ hand' = [hand EXCEPT ![t] = None]
  /\ UNCHANGED <<lock_, misused>>

-----------------------------------------------------------------------------
(* The owners: a thread comes by a new datum, or destroys the one it has.  *)

Held == {hand[t] : t \in Owners} \cup {data_[l] : l \in Lockers}

Obtain(t, d) ==
  /\ hand[t] = None
  /\ d \notin Held
  /\ hand' = [hand EXCEPT ![t] = d]
  /\ UNCHANGED <<lock_, data_, misused>>

Drop(t) ==
  /\ hand' = [hand EXCEPT ![t] = None]
  /\ UNCHANGED <<lock_, data_, misused>>

(* The documented preconditions: a thread does not try to take from a      *)
(* locker it already owns, and only the owner yields or resets.            *)
Next ==
  \/ \E t \in Owners, l \in Lockers :
       \/ hand[t] = None /\ Take(t, l)
       \/ hand[t] = None /\ lock_[l] # t /\ TryTake(t, l)
       \/ lock_[l] = t /\ Yield(t, l)
       \/ lock_[l] = t /\ Reset(t, l)
       \/ Assign(t, l)
  \/ \E t \in Owners, d \in Data : Obtain(t, d)
  \/ \E t \in Owners : Drop(t)

Contract == Init /\ [][Next]_vars

-----------------------------------------------------------------------------
(* "A shareable container that allows only one owner for the data it       *)
(* holds": a datum is in one locker, or in the hand of one thread.         *)
OneOwner ==
  /\ \A t, u \in Owners : hand[t] # None /\ hand[t] = hand[u] => t = u
  /\ \A l, m \in Lockers : data_[l] # None /\ data_[l] = data_[m] => l = m
  /\ \A t \in Owners, l \in Lockers : hand[t] # None => hand[t] # data_[l]

(* "Used to prevent threads from taking ownership of the same data         *)
(* concurrently": while a thread owns a locker there is nothing in it.     *)
LockedIsEmpty == \A l \in Lockers : lock_[l] # None => data_[l] = None
=============================================================================
