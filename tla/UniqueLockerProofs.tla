------------------------- MODULE UniqueLockerProofs -------------------------
(***************************************************************************)
(* The contract of utils::UniqueLocker keeps every datum with one owner,   *)
(* for any set of threads, of lockers and of data.                         *)
(***************************************************************************)
EXTENDS UniqueLocker, TLAPS

(* The three invariants together are inductive.                            *)
Inv == TypeOK /\ OneOwner /\ LockedIsEmpty

(* A take, whatever the caller had in its hand, moves the datum from the   *)
(* locker to the hand and leaves it with one owner.                        *)
LEMMA TakeKeepsInv ==
  ASSUME Inv, NEW t \in Owners, NEW l \in Lockers, Take(t, l)
  PROVE  Inv'
<1>1. TypeOK' BY DEF Inv, TypeOK, Take
<1>2. OneOwner' BY NoneAssumption DEF Inv, TypeOK, OneOwner, Take
<1>3. LockedIsEmpty' BY NoneAssumption DEF Inv, TypeOK, LockedIsEmpty, Take
<1> QED BY <1>1, <1>2, <1>3 DEF Inv

(* So does a try_take, whether it takes the datum or not.                  *)
LEMMA TryTakeKeepsInv ==
  ASSUME Inv, NEW t \in Owners, NEW l \in Lockers, TryTake(t, l)
  PROVE  Inv'
<1>1. CASE Take(t, l) BY <1>1, TakeKeepsInv
<1>2. CASE /\ lock_[l] # None
           /\ hand' = [hand EXCEPT ![t] = None]
           /\ misused' = (misused \/ lock_[l] = t)
           /\ UNCHANGED <<lock_, data_>>
  <2>1. TypeOK'
    <3>1. misused' \in BOOLEAN
      BY <1>2
    <3> QED BY <1>2, <3>1 DEF Inv, TypeOK
  <2>2. OneOwner' BY <1>2 DEF Inv, TypeOK, OneOwner
  <2>3. LockedIsEmpty' BY <1>2 DEF Inv, LockedIsEmpty
  <2> QED BY <2>1, <2>2, <2>3 DEF Inv
<1> QED BY <1>1, <1>2 DEF TryTake

(* Both ways of putting a datum into a locker keep it with one owner.      *)
LEMMA PutKeepsInv ==
  ASSUME Inv, NEW t \in Owners, NEW l \in Lockers, Yield(t, l) \/ Assign(t, l)
  PROVE  Inv'
<1>1. TypeOK' BY DEF Inv, TypeOK, Yield, Assign
<1>2. OneOwner' BY DEF Inv, TypeOK, OneOwner, Yield, Assign
<1>3. LockedIsEmpty' BY DEF Inv, TypeOK, LockedIsEmpty, Yield, Assign
<1> QED BY <1>1, <1>2, <1>3 DEF Inv

LEMMA ResetKeepsInv ==
  ASSUME Inv, NEW t \in Owners, NEW l \in Lockers, Reset(t, l)
  PROVE  Inv'
<1>1. TypeOK' BY DEF Inv, TypeOK, Reset
<1>2. OneOwner' BY DEF Inv, TypeOK, OneOwner, Reset
<1>3. LockedIsEmpty' BY DEF Inv, TypeOK, LockedIsEmpty, Reset
<1> QED BY <1>1, <1>2, <1>3 DEF Inv

(* A thread may come by a new datum if nobody holds it.                    *)
LEMMA ObtainKeepsInv ==
  ASSUME Inv, NEW t \in Owners, NEW d \in Data, Obtain(t, d)
  PROVE  Inv'
<1>1. TypeOK' BY DEF Inv, TypeOK, Obtain
<1>2. OneOwner' BY DEF Inv, TypeOK, OneOwner, Obtain, Held
<1>3. LockedIsEmpty' BY DEF Inv, LockedIsEmpty, Obtain
<1> QED BY <1>1, <1>2, <1>3 DEF Inv

LEMMA DropKeepsInv ==
  ASSUME Inv, NEW t \in Owners, Drop(t)
  PROVE  Inv'
<1>1. TypeOK' BY DEF Inv, TypeOK, Drop
<1>2. OneOwner' BY DEF Inv, TypeOK, OneOwner, Drop
<1>3. LockedIsEmpty' BY DEF Inv, LockedIsEmpty, Drop
<1> QED BY <1>1, <1>2, <1>3 DEF Inv

(* Under the documented contract the lockers are well typed, a datum never *)
(* has two owners, and a locker whose mutex is locked is empty.            *)
THEOREM LockerCorrect == Contract => [](TypeOK /\ OneOwner /\ LockedIsEmpty)
<1>1. Init => Inv
  BY NoneAssumption DEF Init, Inv, TypeOK, OneOwner, LockedIsEmpty
<1>2. Inv /\ [Next]_vars => Inv'
  <2> SUFFICES ASSUME Inv, [Next]_vars PROVE Inv'
    OBVIOUS
  <2>1. ASSUME NEW t \in Owners, NEW l \in Lockers,
               \/ hand[t] = None /\ Take(t, l)
               \/ hand[t] = None /\ lock_[l] # t /\ TryTake(t, l)
        PROVE  Inv'
    BY <2>1, TakeKeepsInv, TryTakeKeepsInv
  <2>2. ASSUME NEW t \in Owners, NEW l \in Lockers,
               \/ lock_[l] = t /\ Yield(t, l)
               \/ lock_[l] = t /\ Reset(t, l)
               \/ Assign(t, l)
        PROVE  Inv'
    BY <2>2, PutKeepsInv, ResetKeepsInv
  <2>3. ASSUME NEW t \in Owners, NEW d \in Data, Obtain(t, d)
        PROVE  Inv'
    BY <2>3, ObtainKeepsInv
  <2>4. ASSUME NEW t \in Owners, Drop(t)
        PROVE  Inv'
    BY <2>4, DropKeepsInv
  <2>5. CASE UNCHANGED vars
    <3>1. TypeOK'
      <4>1. UNCHANGED <<lock_, data_, hand>> /\ misused' = misused
        BY <2>5 DEF vars
      <4>2. misused' \in BOOLEAN
        BY <4>1 DEF Inv, TypeOK
      <4> QED BY <4>1, <4>2 DEF Inv, TypeOK
    <3> QED BY <2>5, <3>1 DEF Inv, OneOwner, LockedIsEmpty, vars
  <2> QED BY <2>1, <2>2, <2>3, <2>4, <2>5 DEF Next
<1>3. Inv => TypeOK /\ OneOwner /\ LockedIsEmpty
  BY DEF Inv
<1> QED BY <1>1, <1>2, <1>3, PTL DEF Contract

(* A locker whose mutex is locked holds nothing that another thread could  *)
(* get.                                                                    *)
THEOREM LockedLockersAreEmpty == Contract => []LockedIsEmpty
  BY LockerCorrect, PTL
=============================================================================
