--------------------------- MODULE TcpServerProofs ---------------------------
(***************************************************************************)
(* The safety of net::TCPServer for any number of threads, connections and *)
(* descriptors, whatever exceptions end some of the threads and whatever   *)
(* the race on the map of listeners does: the sockets stay with one owner, *)
(* none leaks, and each stays under its own descriptor.                    *)
(*                                                                         *)
(* Inv is inductive.  TypeOK, Ownership and Descriptors are each shown to  *)
(* be kept by every action, from all three.  Of it follows that the server *)
(* implements ClientLifespan.  Then: what EPOLLONESHOT gives the threads   *)
(* (EventInv), and what one thread, as main() runs it, promises its        *)
(* clients (AloneInv).                                                     *)
(***************************************************************************)
EXTENDS TcpServer, FiniteSetTheorems, TLAPS

-----------------------------------------------------------------------------
(* Types.                                                                  *)

LEMMA ReadyEventsType ==
  ASSUME TypeOK
  PROVE  ReadyEvents \subseteq ClientEvent \cup {ListenEvent}
<1>1. ASSUME NEW c \in Open
      PROVE  EventOf(c) \in ClientEvent
  <2>1. fd[c] \in Fds
    BY DEF TypeOK, Open
  <2>2. (c \in hup) \in BOOLEAN
    OBVIOUS
  <2> QED BY <2>1, <2>2 DEF EventOf, ClientEvent
<1> QED BY <1>1 DEF ReadyEvents

LEMMA ExitTypeOK ==
  ASSUME Inv, NEW t \in Threads, Exit(t), addFailed' \in BOOLEAN
  PROVE  TypeOK'
BY NoneAssumption, BoundsAssumption
DEF Inv, TypeOK, Locker!TypeOK, Labels, Exit, DropClient, Locker!Drop, Close, Open, Goto,
    kernelVars

(* The client in the hand of a thread that adds it has a descriptor.       *)
LEMMA IdType ==
  ASSUME Inv, NEW t \in Threads, pc[t] \in Adding
  PROVE  client[t] \in Conns /\ Id(t) \in Fds
BY DEF Inv, TypeOK, Descriptors, AddedIsOpen, Open, Id

LEMMA ThreadTypeOK ==
  ASSUME Inv, NEW t \in Threads, Step(t)
  PROVE  TypeOK'
<1> USE DEF At, Goto, Labels
<1>1. CASE EpollWait(t)
  <2>1. ready' \in [Threads -> SUBSET (ClientEvent \cup {ListenEvent})]
    BY <1>1, ReadyEventsType DEF Inv, TypeOK, EpollWait
  <2>2. epoll' \in [Fds -> {"none", "armed", "disarmed"}]
    BY <1>1 DEF Inv, TypeOK, EpollWait
  <2> QED
    BY <1>1, <2>1, <2>2 DEF Inv, TypeOK, Locker!TypeOK, EpollWait, lockerVars, mapVars
<1>2. CASE Accept(t)
  BY <1>2 DEF Inv, TypeOK, Locker!TypeOK, Accept, FreeFds, Locker!Obtain, lockerVars, mapVars
<1>3. CASE AcceptFails(t) \/ EpollFails(t)
  BY <1>3, ExitTypeOK DEF Inv, TypeOK, AcceptFails, EpollFails
<1>4. CASE Register(t)
  BY <1>4, IdType DEF Inv, TypeOK, Locker!TypeOK, Register, Adding, lockerVars, mapVars,
                      localVars
<1>5. CASE Attach(t)
  BY <1>5 DEF Inv, TypeOK, Locker!TypeOK, Attach, kernelVars, lockerVars, mapVars, localVars
<1>6. CASE Emplace(t)
  BY <1>6, IdType DEF Inv, TypeOK, Locker!TypeOK, Emplace, Adding, kernelVars, lockerVars,
                      localVars
<1>7. CASE Connected(t)
  <2>1. addFailed' \in BOOLEAN
    BY <1>7 DEF Inv, TypeOK, Connected
  <2>2. CASE Exit(t)
    BY <2>1, <2>2, ExitTypeOK
  <2>3. CASE ~Exit(t)
    BY <1>7, <2>1, <2>3, IdType DEF Inv, TypeOK, Locker!TypeOK, Connected, Adding, kernelVars,
                                    lockerVars, localVars
  <2> QED BY <2>2, <2>3
<1>8. CASE LockAdd(t)
  BY <1>8 DEF Inv, TypeOK, Locker!TypeOK, LockAdd, kernelVars, lockerVars, mapVars, localVars
<1>9. CASE Assign(t)
  BY <1>9, IdType DEF Inv, TypeOK, Locker!TypeOK, Assign, Locker!Assign, Adding, kernelVars,
                      mapVars, localVars
<1>10. CASE TakeEvent(t)
  <2>1. CASE Exit(t)
    BY <1>10, <2>1, ExitTypeOK DEF Inv, TypeOK, TakeEvent
  <2>2. CASE ~Exit(t)
    BY <1>10, <2>2 DEF Inv, TypeOK, Locker!TypeOK, TakeEvent, ClientEvent, lockerVars
  <2> QED BY <2>1, <2>2
<1>11. CASE TryTake(t)
  <2>1. misused' \in BOOLEAN
    BY <1>11 DEF Inv, TypeOK, Locker!TypeOK, TryTake, Locker!TryTake, Locker!Take
  <2>2. cur[t] \in Fds
    BY <1>11 DEF Inv, Ownership, CurIsSet, TryTake, At
  <2>3. lock_' \in [Fds -> Threads \cup {None}] /\ data_' \in [Fds -> Conns \cup {None}]
        /\ client' \in [Threads -> Conns \cup {None}]
    BY <1>11, <2>2 DEF Inv, TypeOK, Locker!TypeOK, TryTake, Locker!TryTake, Locker!Take
  <2> QED
    BY <1>11, <2>1, <2>2, <2>3
    DEF Inv, TypeOK, Locker!TypeOK, TryTake, At, Goto, Labels, kernelVars, mapVars, localVars
<1>12. CASE DataAvailable(t)
  <2>1. addFailed' \in BOOLEAN
    BY <1>12 DEF Inv, TypeOK, DataAvailable
  <2>2. CASE Exit(t)
    BY <2>1, <2>2, ExitTypeOK
  <2>3. CASE ~Exit(t)
    BY <1>12, <2>1, <2>3, NoneAssumption, BoundsAssumption
    DEF Inv, TypeOK, Locker!TypeOK, DataAvailable, Receives, Close, Open, kernelVars,
        lockerVars, localVars
  <2> QED BY <2>2, <2>3
<1>13. CASE Finish(t)
  <2>1. addFailed' \in BOOLEAN
    BY <1>13 DEF Inv, TypeOK, Finish
  <2>2. CASE Exit(t)
    BY <2>1, <2>2, ExitTypeOK
  <2>3. CASE ~Exit(t)
    <3>1. (shutdown[t] \/ client[t] \notin Open) \in BOOLEAN
      BY DEF Inv, TypeOK, Open
    <3>2. shutdown' \in [Threads -> BOOLEAN]
      BY <1>13, <2>3, <3>1 DEF Inv, TypeOK, Finish
    <3> QED
      BY <1>13, <2>1, <2>3, <3>2 DEF Inv, TypeOK, Locker!TypeOK, Finish, kernelVars, lockerVars
  <2> QED BY <2>2, <2>3
<1>14. CASE Give(t)
  BY <1>14 DEF Inv, TypeOK, Locker!TypeOK, Give, Locker!Reset, Locker!Yield, kernelVars,
               mapVars, localVars
<1>15. CASE Dispose(t)
  BY <1>15, NoneAssumption, BoundsAssumption
  DEF Inv, TypeOK, Locker!TypeOK, Dispose, DropClient, Locker!Drop, Close, Open, kernelVars,
      mapVars, localVars
<1>16. CASE Rearm(t)
  <2>1. CASE Exit(t)
    BY <1>16, <2>1, ExitTypeOK DEF Inv, TypeOK, Rearm
  <2>2. CASE ~Exit(t)
    BY <1>16, <2>2 DEF Inv, TypeOK, Locker!TypeOK, Ownership, CurIsSet, Rearm, lockerVars,
                       localVars
  <2> QED BY <2>1, <2>2
<1> QED
  BY <1>1, <1>2, <1>3, <1>4, <1>5, <1>6, <1>7, <1>8, <1>9, <1>10, <1>11, <1>12, <1>13, <1>14,
     <1>15, <1>16 DEF Step

-----------------------------------------------------------------------------
(* Who owns the sockets.                                                   *)

(* A step of addClient that moves no socket.                               *)
LEMMA AddingGoesOn ==
  ASSUME Inv, NEW t \in Threads, NEW l \in Adding, pc[t] \in Adding,
         pc' = [pc EXCEPT ![t] = l],
         UNCHANGED <<backlog, fd, lockerVars, cur, shutdown>>
  PROVE  Ownership' /\ Descriptors'
<1> USE DEF Inv, TypeOK, Ownership, Descriptors, Adding, Serving, lockerVars
<1>1. Ownership'
  BY DEF OneOwner, Locker!OneOwner, LockedIsEmpty, Locker!LockedIsEmpty, HandFollowsPc,
         CurIsSet, ServingOwnsLocker
<1>2. Descriptors'
  BY DEF AddedIsOpen, ServedUnderCur, At, Open, OneClientPerDescriptor, BacklogIsUnknown,
         Locker!Held, NoDescriptorLeak, ClientUnderItsDescriptor
<1> QED BY <1>1, <1>2

(* A step of run() around processClient, by a thread that has no socket.   *)
LEMMA EmptyHandedGoesOn ==
  ASSUME Inv, NEW t \in Threads, NEW l \in {"loop", "take"}, pc[t] \in {"loop", "rearm"},
         pc' = [pc EXCEPT ![t] = l], cur' \in [Threads -> Fds \cup {None}],
         l = "take" => cur'[t] \in Fds,
         \A u \in Threads \ {t} : cur'[u] = cur[u] /\ shutdown'[u] = shutdown[u],
         UNCHANGED <<backlog, fd, lockerVars>>
  PROVE  Ownership' /\ Descriptors'
<1> USE DEF Inv, TypeOK, Ownership, Descriptors, Adding, Serving, lockerVars
<1>1. Ownership'
  BY DEF OneOwner, Locker!OneOwner, LockedIsEmpty, Locker!LockedIsEmpty, HandFollowsPc,
         CurIsSet, ServingOwnsLocker
<1>2. Descriptors'
  BY DEF AddedIsOpen, ServedUnderCur, At, Open, OneClientPerDescriptor, BacklogIsUnknown,
         Locker!Held, NoDescriptorLeak, ClientUnderItsDescriptor
<1> QED BY <1>1, <1>2

(* A thread that loses the socket it may own, closes it, and goes where it *)
(* needs none: Exit and Dispose.                                           *)
LEMMA LosingClient ==
  ASSUME Inv, NEW t \in Threads, NEW l \in {"loop", "exited"}, DropClient(t),
         pc' = [pc EXCEPT ![t] = l], UNCHANGED <<cur, shutdown>>
  PROVE  Ownership' /\ Descriptors'
<1> USE NoneAssumption
    DEF Inv, TypeOK, Locker!TypeOK, Ownership, Descriptors, Adding, Serving, DropClient,
        Locker!Drop
<1>1. backlog' = backlog
  BY DEF Close, kernelVars
<1>2. \A c \in Conns : fd'[c] = IF c = client[t] THEN None ELSE fd[c]
  BY DEF Close, Open, kernelVars
<1>3. Ownership'
  <2>1. OneOwner'
    BY DEF OneOwner, Locker!OneOwner
  <2>2. LockedIsEmpty'
    BY DEF LockedIsEmpty, Locker!LockedIsEmpty
  <2>3. HandFollowsPc' /\ CurIsSet' /\ ServingOwnsLocker'
    BY DEF HandFollowsPc, CurIsSet, ServingOwnsLocker
  <2> QED BY <2>1, <2>2, <2>3
<1> USE <1>1, <1>2 DEF Open, OneOwner, Locker!OneOwner
<1>4. AddedIsOpen' /\ ServedUnderCur'
  BY DEF AddedIsOpen, ServedUnderCur, At, HandFollowsPc
<1>5. OneClientPerDescriptor'
  BY DEF OneClientPerDescriptor
<1>6. BacklogIsUnknown'
  BY DEF BacklogIsUnknown, Locker!Held
<1>7. NoDescriptorLeak'
  BY DEF NoDescriptorLeak, Locker!Held
<1>8. ClientUnderItsDescriptor'
  BY DEF ClientUnderItsDescriptor
<1> QED BY <1>3, <1>4, <1>5, <1>6, <1>7, <1>8

LEMMA ExitKeepsInv ==
  ASSUME Inv, NEW t \in Threads, Exit(t)
  PROVE  Ownership' /\ Descriptors'
BY LosingClient DEF Exit, Goto

(* accept() gives an open socket, of a connection nobody knew, under a     *)
(* descriptor nobody had.                                                  *)
LEMMA AcceptKeepsInv ==
  ASSUME Inv, NEW t \in Threads, Accept(t)
  PROVE  Ownership' /\ Descriptors'
<1> USE NoneAssumption
    DEF Inv, TypeOK, Locker!TypeOK, Ownership, Descriptors, At, Goto, Adding, Serving,
        lockerVars
<1>1. CASE UNCHANGED <<backlog, fd, lockerVars, pc>>
  BY <1>1 DEF Accept, OneOwner, Locker!OneOwner, LockedIsEmpty, Locker!LockedIsEmpty,
              HandFollowsPc, CurIsSet, ServingOwnsLocker, AddedIsOpen, ServedUnderCur, Open,
              OneClientPerDescriptor, BacklogIsUnknown, Locker!Held, NoDescriptorLeak,
              ClientUnderItsDescriptor
<1>2. ASSUME NEW c \in backlog, NEW f \in FreeFds,
             backlog' = backlog \ {c}, fd' = [fd EXCEPT ![c] = f],
             Locker!Obtain(t, c), pc' = [pc EXCEPT ![t] = "register"]
      PROVE  Ownership' /\ Descriptors'
  <2>1. c \notin Open /\ c \notin Locker!Held
    BY DEF BacklogIsUnknown
  <2>2. f \in Fds /\ \A d \in Conns : fd[d] # f
    BY DEF FreeFds
  <2> USE <1>2 DEF Accept, Locker!Obtain
  <2>3. OneOwner'
    BY <2>1 DEF OneOwner, Locker!OneOwner, Locker!Held
  <2>4. LockedIsEmpty'
    BY DEF LockedIsEmpty, Locker!LockedIsEmpty
  <2>5. HandFollowsPc' /\ CurIsSet' /\ ServingOwnsLocker'
    BY DEF HandFollowsPc, CurIsSet, ServingOwnsLocker
  <2>6. AddedIsOpen' /\ ServedUnderCur'
    BY <2>2 DEF AddedIsOpen, ServedUnderCur, Open, BacklogIsUnknown, Locker!Held
  <2>7. OneClientPerDescriptor'
    BY <2>2 DEF OneClientPerDescriptor, Open
  <2>8. BacklogIsUnknown'
    BY DEF BacklogIsUnknown, Open, Locker!Held
  <2>9. NoDescriptorLeak'
    BY DEF NoDescriptorLeak, Open, Locker!Held
  <2>10. ClientUnderItsDescriptor'
    BY <2>1 DEF ClientUnderItsDescriptor, Locker!Held
  <2> QED BY <2>3, <2>4, <2>5, <2>6, <2>7, <2>8, <2>9, <2>10
<1> QED BY <1>1, <1>2 DEF Accept

(* clients_[id] = move(client): whatever was under the descriptor is gone, *)
(* for only an open socket could be there, and this one is it.             *)
LEMMA AssignKeepsInv ==
  ASSUME Inv, NEW t \in Threads, Assign(t)
  PROVE  Ownership' /\ Descriptors'
<1> USE NoneAssumption
    DEF Inv, TypeOK, Locker!TypeOK, Ownership, Descriptors, At, Goto, Adding, Serving, Assign,
        Locker!Assign, kernelVars, localVars
<1>1. client[t] \in Conns /\ client[t] \in Open /\ Id(t) \in Fds
  BY IdType DEF AddedIsOpen
<1>2. data_[Id(t)] = None
  BY <1>1 DEF ClientUnderItsDescriptor, OneClientPerDescriptor, Open, Id, OneOwner,
              Locker!OneOwner
<1>3. OneOwner'
  BY <1>1 DEF OneOwner, Locker!OneOwner
<1>4. LockedIsEmpty'
  BY DEF LockedIsEmpty, Locker!LockedIsEmpty
<1>5. HandFollowsPc' /\ CurIsSet' /\ ServingOwnsLocker'
  BY DEF HandFollowsPc, CurIsSet, ServingOwnsLocker
<1>6. AddedIsOpen' /\ ServedUnderCur' /\ OneClientPerDescriptor'
  BY DEF AddedIsOpen, ServedUnderCur, OneClientPerDescriptor, Open
<1>7. BacklogIsUnknown'
  BY DEF BacklogIsUnknown, Open, Locker!Held
<1>8. NoDescriptorLeak'
  BY <1>1, <1>2 DEF NoDescriptorLeak, Open, Locker!Held
<1>9. ClientUnderItsDescriptor'
  BY <1>1 DEF ClientUnderItsDescriptor, Id
<1> QED BY <1>3, <1>4, <1>5, <1>6, <1>7, <1>8, <1>9

(* try_take: the socket comes out of the locker of the descriptor, which   *)
(* is its own.                                                             *)
LEMMA TryTakeKeepsInv ==
  ASSUME Inv, NEW t \in Threads, TryTake(t)
  PROVE  Ownership' /\ Descriptors'
<1> USE NoneAssumption
    DEF Inv, TypeOK, Locker!TypeOK, Ownership, Descriptors, At, Goto, Adding, Serving, TryTake,
        Locker!TryTake, Locker!Take, kernelVars, localVars
<1>1. client[t] = None /\ cur[t] \in Fds
  BY DEF HandFollowsPc, CurIsSet
<1>2. OneOwner'
  <2> DEFINE f == cur[t]
  <2>1. \/ /\ client' = [client EXCEPT ![t] = data_[f]]
           /\ data_' = [data_ EXCEPT ![f] = None]
        \/ client' = [client EXCEPT ![t] = None] /\ data_' = data_
    OBVIOUS
  <2>2. /\ client \in [Threads -> Conns \cup {None}] /\ data_ \in [Fds -> Conns \cup {None}]
        /\ OneOwner /\ f \in Fds
    BY <1>1
  <2> HIDE DEF Inv, TypeOK, Locker!TypeOK, Ownership, TryTake, Locker!TryTake, Locker!Take
  <2> HIDE DEF f
  <2> QED BY <2>1, <2>2 DEF OneOwner, Locker!OneOwner
<1>3. LockedIsEmpty'
  BY <1>1 DEF LockedIsEmpty, Locker!LockedIsEmpty
<1>4. HandFollowsPc' /\ CurIsSet' /\ ServingOwnsLocker'
  BY <1>1 DEF HandFollowsPc, CurIsSet, ServingOwnsLocker
<1>5. AddedIsOpen' /\ ServedUnderCur' /\ OneClientPerDescriptor'
  BY <1>1 DEF AddedIsOpen, ServedUnderCur, OneClientPerDescriptor, Open,
              ClientUnderItsDescriptor
<1>6. BacklogIsUnknown'
  BY <1>1 DEF BacklogIsUnknown, Open, Locker!Held
<1>7. NoDescriptorLeak'
  BY <1>1 DEF NoDescriptorLeak, Open, Locker!Held
<1>8. ClientUnderItsDescriptor'
  BY DEF ClientUnderItsDescriptor
<1> QED BY <1>2, <1>3, <1>4, <1>5, <1>6, <1>7, <1>8

(* dataAvailable may close the socket, which stays in the hands of the     *)
(* thread.                                                                 *)
LEMMA DataAvailableKeepsInv ==
  ASSUME Inv, NEW t \in Threads, DataAvailable(t), ~Exit(t)
  PROVE  Ownership' /\ Descriptors'
<1> USE NoneAssumption
    DEF Inv, TypeOK, Locker!TypeOK, Ownership, Descriptors, At, Goto, Adding, Serving,
        lockerVars, localVars
<1>1. /\ pc[t] = "serve" /\ pc' = [pc EXCEPT ![t] = "finish"]
      /\ UNCHANGED <<lockerVars, localVars>>
  BY DEF DataAvailable
<1>2. backlog' = backlog
  BY DEF DataAvailable, Close, kernelVars
<1>3. \A c \in Conns : fd'[c] = fd[c] \/ (c = client[t] /\ fd'[c] = None)
  BY DEF DataAvailable, Close, Open, kernelVars
<1>4. Ownership'
  BY <1>1 DEF OneOwner, Locker!OneOwner, LockedIsEmpty, Locker!LockedIsEmpty, HandFollowsPc,
              CurIsSet, ServingOwnsLocker
<1> USE <1>1, <1>2, <1>3 DEF Open
<1>5. AddedIsOpen' /\ ServedUnderCur'
  BY DEF AddedIsOpen, ServedUnderCur, OneOwner, Locker!OneOwner, HandFollowsPc
<1>6. OneClientPerDescriptor'
  BY DEF OneClientPerDescriptor
<1>7. BacklogIsUnknown'
  BY DEF BacklogIsUnknown, Locker!Held
<1>8. NoDescriptorLeak'
  BY DEF NoDescriptorLeak, Locker!Held
<1>9. ClientUnderItsDescriptor'
  BY DEF ClientUnderItsDescriptor, ServingOwnsLocker, OneOwner, Locker!OneOwner
<1> QED BY <1>4, <1>5, <1>6, <1>7, <1>8, <1>9

(* isInvalid() decides: a socket that is not shut down is open.            *)
LEMMA FinishKeepsInv ==
  ASSUME Inv, NEW t \in Threads, Finish(t), ~Exit(t)
  PROVE  Ownership' /\ Descriptors'
<1> USE DEF Inv, TypeOK, Ownership, Descriptors, At, Goto, Adding, Serving, kernelVars, lockerVars
<1>1. Ownership'
  BY DEF Finish, OneOwner, Locker!OneOwner, LockedIsEmpty, Locker!LockedIsEmpty, HandFollowsPc,
         CurIsSet, ServingOwnsLocker
<1>2. AddedIsOpen' /\ OneClientPerDescriptor' /\ BacklogIsUnknown'
  BY DEF Finish, AddedIsOpen, OneClientPerDescriptor, BacklogIsUnknown, Open, Locker!Held
<1>3. ServedUnderCur'
  <2>1. PICK ends \in BOOLEAN : /\ ends <=> shutdown[t] \/ client[t] \notin Open
                               /\ shutdown' = [shutdown EXCEPT ![t] = ends]
    <3>1. (shutdown[t] \/ client[t] \notin Open) \in BOOLEAN
      BY DEF Open
    <3> QED BY <3>1 DEF Finish
  <2> QED BY <2>1 DEF Finish, ServedUnderCur, Open
<1>4. NoDescriptorLeak' /\ ClientUnderItsDescriptor'
  BY DEF Finish, NoDescriptorLeak, ClientUnderItsDescriptor, Open, Locker!Held
<1> QED BY <1>1, <1>2, <1>3, <1>4

(* yield puts the open socket back under its own descriptor; reset finds   *)
(* an empty locker, and the socket stays in the hands of the thread.       *)
LEMMA GiveKeepsInv ==
  ASSUME Inv, NEW t \in Threads, Give(t)
  PROVE  Ownership' /\ Descriptors'
<1> USE NoneAssumption
    DEF Inv, TypeOK, Locker!TypeOK, Ownership, Descriptors, At, Goto, Adding, Serving, Give,
        Locker!Reset, Locker!Yield, kernelVars, localVars
<1>1. /\ cur[t] \in Fds /\ lock_[cur[t]] = t /\ data_[cur[t]] = None /\ client[t] \in Conns
      /\ ~shutdown[t] => fd[client[t]] = cur[t]
  BY DEF ServingOwnsLocker, CurIsSet, LockedIsEmpty, Locker!LockedIsEmpty, ServedUnderCur
<1>2. OneOwner'
  BY <1>1 DEF OneOwner, Locker!OneOwner
<1>3. LockedIsEmpty'
  BY <1>1 DEF LockedIsEmpty, Locker!LockedIsEmpty
<1>4. HandFollowsPc' /\ CurIsSet'
  BY <1>1 DEF HandFollowsPc, CurIsSet
<1>5. ServingOwnsLocker'
  <2> SUFFICES ASSUME NEW u \in Threads, pc'[u] \in Serving
               PROVE  lock_'[cur'[u]] = u /\ client'[u] # None
    BY DEF ServingOwnsLocker
  <2>1. u # t /\ pc[u] \in Serving /\ cur'[u] = cur[u]
    OBVIOUS
  <2>2. cur[u] \in Fds /\ lock_[cur[u]] = u /\ client[u] # None
    BY <2>1 DEF CurIsSet, ServingOwnsLocker
  <2>3. cur[u] # cur[t]
    BY <1>1, <2>1, <2>2
  <2> QED BY <1>1, <2>1, <2>2, <2>3
<1>6. AddedIsOpen' /\ ServedUnderCur' /\ OneClientPerDescriptor'
  BY DEF AddedIsOpen, ServedUnderCur, OneClientPerDescriptor, Open
<1>7. BacklogIsUnknown'
  BY DEF BacklogIsUnknown, Open, Locker!Held
<1>8. NoDescriptorLeak'
  BY <1>1 DEF NoDescriptorLeak, Open, Locker!Held
<1>9. ClientUnderItsDescriptor'
  BY <1>1 DEF ClientUnderItsDescriptor
<1> QED BY <1>2, <1>3, <1>4, <1>5, <1>6, <1>7, <1>8, <1>9

LEMMA ThreadKeepsInv ==
  ASSUME Inv, NEW t \in Threads, Step(t)
  PROVE  Ownership' /\ Descriptors'
<1>1. CASE EpollWait(t)
  BY <1>1 DEF Inv, TypeOK, Ownership, Descriptors, EpollWait, lockerVars, OneOwner,
              Locker!OneOwner, LockedIsEmpty, Locker!LockedIsEmpty, HandFollowsPc, CurIsSet,
              ServingOwnsLocker, AddedIsOpen, ServedUnderCur, At, Open, OneClientPerDescriptor,
              BacklogIsUnknown, Locker!Held, NoDescriptorLeak, ClientUnderItsDescriptor
<1>2. CASE Exit(t)
  BY <1>2, ExitKeepsInv
<1>3. CASE AcceptFails(t) \/ EpollFails(t)
  BY <1>3, ExitKeepsInv DEF AcceptFails, EpollFails
<1>4. CASE Accept(t)
  BY <1>4, AcceptKeepsInv
<1>5. CASE \/ Register(t) \/ Attach(t) \/ Emplace(t) \/ LockAdd(t)
           \/ Connected(t) /\ ~Exit(t)
  <2>1. /\ pc[t] \in Adding /\ \E l \in Adding : pc' = [pc EXCEPT ![t] = l]
        /\ UNCHANGED <<backlog, fd, lockerVars, cur, shutdown>>
    BY <1>5 DEF Register, Attach, Emplace, LockAdd, Connected, At, Goto, Adding, kernelVars,
                localVars
  <2> QED BY <2>1, AddingGoesOn
<1>6. CASE Assign(t)
  BY <1>6, AssignKeepsInv
<1>7. CASE TakeEvent(t) /\ ~Exit(t)
  <2>1. PICK e \in ready[t] \ {ListenEvent} : cur' = [cur EXCEPT ![t] = e.fd]
    BY <1>7 DEF TakeEvent
  <2>2. e.fd \in Fds
    BY <2>1 DEF Inv, TypeOK, ClientEvent
  <2>3. /\ pc[t] = "loop" /\ pc' = [pc EXCEPT ![t] = "take"]
        /\ \A u \in Threads \ {t} : shutdown'[u] = shutdown[u]
        /\ UNCHANGED <<backlog, fd, lockerVars>>
    BY <1>7 DEF Inv, TypeOK, TakeEvent, At, Goto
  <2>4. /\ cur' \in [Threads -> Fds \cup {None}] /\ cur'[t] \in Fds
        /\ \A u \in Threads \ {t} : cur'[u] = cur[u]
    BY <2>1, <2>2 DEF Inv, TypeOK
  <2> QED BY <2>3, <2>4, EmptyHandedGoesOn
<1>8. CASE TryTake(t)
  BY <1>8, TryTakeKeepsInv
<1>9. CASE DataAvailable(t) /\ ~Exit(t)
  BY <1>9, DataAvailableKeepsInv
<1>10. CASE Finish(t) /\ ~Exit(t)
  BY <1>10, FinishKeepsInv
<1>11. CASE Give(t)
  BY <1>11, GiveKeepsInv
<1>12. CASE Dispose(t)
  BY <1>12, LosingClient DEF Dispose, Goto, localVars
<1>13. CASE Rearm(t) /\ ~Exit(t)
  BY <1>13, EmptyHandedGoesOn DEF Inv, TypeOK, Rearm, At, Goto, localVars
<1> QED
  BY <1>1, <1>2, <1>3, <1>4, <1>5, <1>6, <1>7, <1>8, <1>9, <1>10, <1>11, <1>12, <1>13 DEF Step

-----------------------------------------------------------------------------
(* The peers touch nothing of this, but for the backlog.                   *)

LEMMA PeerKeepsInv ==
  ASSUME Inv, NEW c \in Conns, Connect(c) \/ SendData(c) \/ HangUp(c)
  PROVE  Inv'
<1> USE DEF Inv, TypeOK, Locker!TypeOK, Connect, SendData, HangUp, lockerVars, mapVars, localVars
<1>1. TypeOK'
  BY BoundsAssumption
<1>2. Ownership'
  BY DEF Ownership, OneOwner, Locker!OneOwner, LockedIsEmpty, Locker!LockedIsEmpty,
         HandFollowsPc, CurIsSet, ServingOwnsLocker
<1>3. Descriptors'
  BY DEF Descriptors, AddedIsOpen, ServedUnderCur, At, Open, OneClientPerDescriptor,
         BacklogIsUnknown, Locker!Held, NoDescriptorLeak, ClientUnderItsDescriptor
<1> QED BY <1>1, <1>2, <1>3

-----------------------------------------------------------------------------

THEOREM InvHolds == Spec => []Inv
<1>1. Init => Inv
  <2> SUFFICES ASSUME Init PROVE Inv
    OBVIOUS
  <2> USE NoneAssumption DEF Init, Locker!Init
  <2>1. TypeOK
    <3>1. inbox \in [Conns -> 0..MaxData]
      BY BoundsAssumption
    <3>2. pc \in [Threads -> Labels] /\ ready \in [Threads -> SUBSET (ClientEvent \cup {ListenEvent})]
      BY DEF Labels
    <3>3. Locker!TypeOK
      BY DEF Locker!TypeOK
    <3> QED BY <3>1, <3>2, <3>3 DEF TypeOK
  <2>2. Ownership
    BY DEF Ownership, OneOwner, Locker!OneOwner, LockedIsEmpty, Locker!LockedIsEmpty,
           HandFollowsPc, Adding, Serving, CurIsSet, ServingOwnsLocker
  <2>3. Descriptors
    BY DEF Descriptors, AddedIsOpen, ServedUnderCur, At, Adding, Serving, Open,
           OneClientPerDescriptor, BacklogIsUnknown, NoDescriptorLeak,
           ClientUnderItsDescriptor
  <2> QED BY <2>1, <2>2, <2>3 DEF Inv
<1>2. Inv /\ [Next]_vars => Inv'
  <2> SUFFICES ASSUME Inv, [Next]_vars PROVE Inv'
    OBVIOUS
  <2>1. ASSUME NEW t \in Threads, Step(t) PROVE Inv'
    BY <2>1, ThreadTypeOK, ThreadKeepsInv DEF Inv
  <2>2. ASSUME NEW c \in Conns, Connect(c) \/ SendData(c) \/ HangUp(c) PROVE Inv'
    BY <2>2, PeerKeepsInv
  <2>3. CASE UNCHANGED vars
    BY <2>3 DEF vars, kernelVars, lockerVars, mapVars, localVars, Inv, TypeOK, Locker!TypeOK,
                Ownership, OneOwner, Locker!OneOwner, LockedIsEmpty, Locker!LockedIsEmpty,
                HandFollowsPc, CurIsSet, ServingOwnsLocker, Descriptors, AddedIsOpen,
                ServedUnderCur, At, Open, OneClientPerDescriptor, BacklogIsUnknown,
                Locker!Held, NoDescriptorLeak, ClientUnderItsDescriptor
  <2> QED BY <2>1, <2>2, <2>3 DEF Next
<1> QED BY <1>1, <1>2, PTL DEF Spec

(* The types of the variables.                                             *)
THEOREM TypeCorrect == Spec => []TypeOK
BY InvHolds, PTL DEF Inv

(* No socket ever has two owners, whatever the threads do.                 *)
THEOREM SocketsHaveOneOwner == Spec => []OneOwner
BY InvHolds, PTL DEF Inv, Ownership

(* No open descriptor is ever without an owner, exceptions included.       *)
THEOREM DescriptorsDoNotLeak == Spec => []NoDescriptorLeak
BY InvHolds, PTL DEF Inv, Descriptors

(* A socket in the map is open and under its own descriptor.               *)
THEOREM ClientsUnderTheirDescriptors == Spec => []ClientUnderItsDescriptor
BY InvHolds, PTL DEF Inv, Descriptors

(* processClient unlocks only lockers that its own thread has locked.      *)
THEOREM ProcessClientOwnsLocker == Spec => []ServingOwnsLocker
BY InvHolds, PTL DEF Inv, Ownership

-----------------------------------------------------------------------------
(* The server implements the life of its clients: every step of a thread   *)
(* or of a peer is a step of ClientLifespan, or changes nothing there.     *)

LEMMA HolderIsUnique ==
  ASSUME Inv, NEW c \in Conns
  PROVE  /\ \A t \in Threads : client[t] = c => Holder(c) = t
         /\ (\A t \in Threads : client[t] # c) => Holder(c) = None
         /\ Holder(c) # None => Holder(c) \in Threads /\ client[Holder(c)] = c
<1>1. \A t, u \in Threads : client[t] = c /\ client[u] = c => t = u
  BY NoneAssumption DEF Inv, Ownership, OneOwner, Locker!OneOwner
<1> QED BY <1>1 DEF Holder

(* The stage of a client that a thread has in its hands is that of the     *)
(* thread; of any other client it depends on where it is.                  *)
Lives ==
  \A c \in Conns :
    /\ \A t \in Threads : client[t] = c => Holder(c) = t /\ StageOf(c) = StageAt(t)
    /\ (\A t \in Threads : client[t] # c) =>
         /\ Holder(c) = None
         /\ StageOf(c) = IF c \in backlog THEN "waiting"
                         ELSE IF \E f \in Fds : data_[f] = c THEN "idle" ELSE "absent"

LEMMA LivesHolds == Inv => Lives
<1> SUFFICES ASSUME Inv, NEW c \in Conns
             PROVE  /\ \A t \in Threads : client[t] = c => Holder(c) = t /\ StageOf(c) = StageAt(t)
                    /\ (\A t \in Threads : client[t] # c) =>
                         /\ Holder(c) = None
                         /\ StageOf(c) = IF c \in backlog THEN "waiting"
                                         ELSE IF \E f \in Fds : data_[f] = c THEN "idle" ELSE "absent"
  BY DEF Lives
<1>1. ASSUME NEW t \in Threads, client[t] = c
      PROVE  Holder(c) = t /\ StageOf(c) = StageAt(t)
  <2>1. Holder(c) = t /\ t # None
    BY <1>1, HolderIsUnique, NoneAssumption
  <2>2. c \notin backlog
    BY <1>1 DEF Inv, Descriptors, BacklogIsUnknown, Locker!Held
  <2>3. \A f \in Fds : data_[f] # c
    BY <1>1, NoneAssumption DEF Inv, Ownership, OneOwner, Locker!OneOwner
  <2> QED BY <2>1, <2>2, <2>3 DEF StageOf
<1>2. ASSUME \A t \in Threads : client[t] # c
      PROVE  /\ Holder(c) = None
             /\ StageOf(c) = IF c \in backlog THEN "waiting"
                             ELSE IF \E f \in Fds : data_[f] = c THEN "idle" ELSE "absent"
  <2>1. Holder(c) = None
    BY <1>2, HolderIsUnique
  <2>2. c \in backlog => \A f \in Fds : data_[f] # c
    BY DEF Inv, Descriptors, BacklogIsUnknown, Locker!Held
  <2> QED BY <2>1, <2>2 DEF StageOf
<1> QED BY <1>1, <1>2

LEMMA LivesNext == Inv' => Lives'
BY LivesHolds, PTL

(* A step that moves nothing but the socket c leaves the others where they *)
(* are in their lives.                                                     *)
LEMMA OthersLiveOn ==
  ASSUME Inv, Inv', NEW t \in Threads, NEW c,
         \A u \in Threads \ {t} :
           pc'[u] = pc[u] /\ client'[u] = client[u] /\ shutdown'[u] = shutdown[u],
         client[t] \in {c, None}, client'[t] \in {c, None},
         \A d \in Conns \ {c} :
           /\ d \in backlog' <=> d \in backlog
           /\ (\E f \in Fds : data_'[f] = d) <=> (\E f \in Fds : data_[f] = d)
  PROVE  \A d \in Conns \ {c} : StageOf(d)' = StageOf(d) /\ Holder(d)' = Holder(d)
<1> SUFFICES ASSUME NEW d \in Conns \ {c}
             PROVE  StageOf(d)' = StageOf(d) /\ Holder(d)' = Holder(d)
  OBVIOUS
<1>1. client[t] # d /\ client'[t] # d
  BY NoneAssumption
<1>2. CASE \E u \in Threads : client[u] = d
  <2>1. PICK u \in Threads : client[u] = d
    BY <1>2
  <2>2. u # t /\ client'[u] = d
    BY <1>1, <2>1
  <2>3. Holder(d) = u /\ StageOf(d) = StageAt(u)
    BY <2>1, LivesHolds DEF Lives
  <2>4. Holder(d)' = u /\ StageOf(d)' = StageAt(u)'
    BY <2>2, LivesNext DEF Lives
  <2>5. StageAt(u)' = StageAt(u)
    BY <2>2 DEF StageAt, At, Adding
  <2> QED BY <2>3, <2>4, <2>5
<1>3. CASE \A u \in Threads : client[u] # d
  <2>1. \A u \in Threads : client'[u] # d
    BY <1>1, <1>3
  <2>2. /\ Holder(d) = None
        /\ StageOf(d) = IF d \in backlog THEN "waiting"
                        ELSE IF \E f \in Fds : data_[f] = d THEN "idle" ELSE "absent"
    BY <1>3, LivesHolds DEF Lives
  <2>3. /\ Holder(d)' = None
        /\ StageOf(d)' = IF d \in backlog' THEN "waiting"
                         ELSE IF \E f \in Fds : data_'[f] = d THEN "idle" ELSE "absent"
    BY <2>1, LivesNext DEF Lives
  <2> QED BY <2>2, <2>3
<1> QED BY <1>2, <1>3

(* A step after which every client is at the stage it was is a stutter.    *)
LEMMA NobodyMoves ==
  ASSUME \A d \in Conns : StageOf(d)' = StageOf(d) /\ Holder(d)' = Holder(d)
  PROVE  UNCHANGED Lifespan!vars
BY DEF Lifespan!vars

LEMMA OneMoves ==
  ASSUME NEW c \in Conns, NEW from, NEW to, NEW w,
         \A d \in Conns \ {c} : StageOf(d)' = StageOf(d) /\ Holder(d)' = Holder(d),
         StageOf(c) = from, StageOf(c)' = to, Holder(c)' = w
  PROVE  Lifespan!Moves(c, from, to, w)
BY DEF Lifespan!Moves

(* A step of a thread that keeps what it has in its hands, and puts        *)
(* nothing elsewhere, moves its client to the stage of the thread.         *)
LEMMA HandsStay ==
  ASSUME Inv, Inv', NEW t \in Threads,
         \A u \in Threads \ {t} :
           pc'[u] = pc[u] /\ client'[u] = client[u] /\ shutdown'[u] = shutdown[u],
         client'[t] = client[t], backlog' = backlog,
         \A f \in Fds : data_'[f] = data_[f]
  PROVE  /\ client[t] = None \/ StageAt(t)' = StageAt(t) => UNCHANGED Lifespan!vars
         /\ client[t] # None =>
              /\ client[t] \in Conns
              /\ \A to : to = StageAt(t)' =>
                   Lifespan!Moves(client[t], StageAt(t), to, Holder(client[t]))
<1>1. \A d \in Conns \ {client[t]} : StageOf(d)' = StageOf(d) /\ Holder(d)' = Holder(d)
  BY OthersLiveOn
<1>2. CASE client[t] = None
  BY <1>1, <1>2, NobodyMoves, NoneAssumption
<1>3. CASE client[t] # None
  <2>1. client[t] \in Conns
    BY <1>3 DEF Inv, TypeOK, Locker!TypeOK
  <2>2. /\ StageOf(client[t]) = StageAt(t) /\ StageOf(client[t])' = StageAt(t)'
        /\ Holder(client[t]) = t /\ Holder(client[t])' = t
    BY <2>1, LivesHolds, LivesNext DEF Lives
  <2>3. ASSUME NEW to, to = StageAt(t)'
        PROVE  Lifespan!Moves(client[t], StageAt(t), to, Holder(client[t]))
    BY <1>1, <2>1, <2>2, <2>3, OneMoves
  <2>4. StageAt(t)' = StageAt(t) => UNCHANGED Lifespan!vars
    BY <1>1, <2>1, <2>2, NobodyMoves
  <2> QED BY <1>3, <2>1, <2>3, <2>4
<1> QED BY <1>2, <1>3

(* The local unique_ptr destroys the socket it has, if any.                *)
LEMMA LosingLives ==
  ASSUME Inv, Inv', NEW t \in Threads, NEW l \in {"loop", "exited"}, DropClient(t),
         pc' = [pc EXCEPT ![t] = l], UNCHANGED shutdown
  PROVE  /\ client[t] = None => UNCHANGED Lifespan!vars
         /\ client[t] # None =>
              /\ client[t] \in Conns
              /\ Lifespan!Moves(client[t], StageAt(t), "absent", None)
<1>1. /\ backlog' = backlog /\ client' = [client EXCEPT ![t] = None] /\ UNCHANGED data_
      /\ \A u \in Threads \ {t} :
           pc'[u] = pc[u] /\ client'[u] = client[u] /\ shutdown'[u] = shutdown[u]
  BY DEF DropClient, Close, kernelVars, Locker!Drop, Inv, TypeOK, Locker!TypeOK
<1>2. CASE client[t] = None
  <2>1. \A u \in Threads : client'[u] = client[u]
    BY <1>1, <1>2 DEF Inv, TypeOK, Locker!TypeOK
  <2> QED BY <1>1, <1>2, <2>1, HandsStay
<1>3. CASE client[t] # None
  <2>1. PICK c \in Conns : c = client[t] /\ client'[t] = None
    BY <1>1, <1>3 DEF Inv, TypeOK, Locker!TypeOK
  <2>2. \A d \in Conns \ {c} : StageOf(d)' = StageOf(d) /\ Holder(d)' = Holder(d)
    BY <1>1, <2>1, OthersLiveOn
  <2>3. StageOf(c) = StageAt(t)
    BY <2>1, LivesHolds DEF Lives
  <2>4. c \notin backlog' /\ (\A f \in Fds : data_'[f] # c) /\ \A u \in Threads : client'[u] # c
    BY <1>1, <1>3, <2>1, NoneAssumption
    DEF Inv, Ownership, OneOwner, Locker!OneOwner, Descriptors, BacklogIsUnknown, Locker!Held
  <2>5. StageOf(c)' = "absent" /\ Holder(c)' = None
    BY <2>1, <2>4, LivesNext DEF Lives
  <2> QED BY <1>3, <2>1, <2>2, <2>3, <2>5, OneMoves
<1> QED BY <1>2, <1>3

(* accept() takes a waiting connection into the hands of the thread.       *)
LEMMA AcceptLives ==
  ASSUME Inv, Inv', NEW t \in Threads, Accept(t)
  PROVE  [Lifespan!Next]_Lifespan!vars
<1>1. /\ client[t] = None /\ UNCHANGED <<shutdown, data_>>
      /\ \A u \in Threads \ {t} :
           pc'[u] = pc[u] /\ client'[u] = client[u] /\ shutdown'[u] = shutdown[u]
  BY DEF Accept, At, Goto, lockerVars, Locker!Obtain, Inv, TypeOK, Locker!TypeOK, Ownership,
         HandFollowsPc, Adding, Serving
<1>2. CASE UNCHANGED <<backlog, fd, lockerVars, pc>>
  BY <1>1, <1>2, HandsStay DEF lockerVars
<1>3. ASSUME NEW c \in backlog, backlog' = backlog \ {c}, Locker!Obtain(t, c),
             pc' = [pc EXCEPT ![t] = "register"]
      PROVE  Lifespan!Next
  <2>1. c \in Conns /\ client'[t] = c /\ pc'[t] = "register"
    BY <1>3 DEF Inv, TypeOK, Locker!TypeOK, Locker!Obtain
  <2>2. \A d \in Conns \ {c} : StageOf(d)' = StageOf(d) /\ Holder(d)' = Holder(d)
    BY <1>1, <1>3, <2>1, OthersLiveOn
  <2>3. \A u \in Threads : client[u] # c
    BY DEF Inv, Descriptors, BacklogIsUnknown, Locker!Held
  <2>4. StageOf(c) = "waiting"
    BY <2>1, <2>3, LivesHolds DEF Lives
  <2>5. Holder(c)' = t /\ StageOf(c)' = StageAt(t)'
    BY <2>1, LivesNext DEF Lives
  <2>6. StageAt(t)' = "accepted"
    BY <2>1 DEF StageAt, At, Adding
  <2>7. \A d \in Conns : Holder(d) # t
    BY <1>1, HolderIsUnique, NoneAssumption
  <2>8. Lifespan!Idle(t)
    BY <2>7 DEF Lifespan!Idle
  <2>9. Lifespan!Accepted(c, t)
    BY <2>1, <2>2, <2>4, <2>5, <2>6, <2>8, OneMoves DEF Lifespan!Accepted
  <2> QED BY <2>1, <2>9 DEF Lifespan!Next
<1> QED BY <1>2, <1>3 DEF Accept, Goto

(* clients_[id] = move(client) leaves the client alone in the map.         *)
LEMMA AssignLives ==
  ASSUME Inv, Inv', NEW t \in Threads, Assign(t)
  PROVE  [Lifespan!Next]_Lifespan!vars
<1>1. PICK c \in Conns :
        c = client[t] /\ c # None /\ Id(t) \in Fds /\ c \in Open /\ pc[t] = "assign"
  BY IdType, NoneAssumption DEF Assign, At, Adding, Inv, Descriptors, AddedIsOpen
<1>2. data_[Id(t)] = None
  BY <1>1, NoneAssumption
  DEF Inv, TypeOK, Locker!TypeOK, Descriptors, ClientUnderItsDescriptor, OneClientPerDescriptor,
      Open, Id, Ownership, OneOwner, Locker!OneOwner
<1>3. /\ backlog' = backlog /\ client'[t] = None
      /\ \A f \in Fds : data_'[f] = IF f = Id(t) THEN c ELSE data_[f]
      /\ \A u \in Threads \ {t} :
           pc'[u] = pc[u] /\ client'[u] = client[u] /\ shutdown'[u] = shutdown[u]
  BY <1>1 DEF Assign, Goto, Locker!Assign, kernelVars, localVars, Inv, TypeOK, Locker!TypeOK
<1>4. \A d \in Conns \ {c} : StageOf(d)' = StageOf(d) /\ Holder(d)' = Holder(d)
  <2>1. \A d \in Conns \ {c} :
          (\E f \in Fds : data_'[f] = d) <=> (\E f \in Fds : data_[f] = d)
    BY <1>1, <1>2, <1>3, NoneAssumption
  <2> QED BY <1>1, <1>3, <2>1, OthersLiveOn
<1>5. StageOf(c) = "connected"
  <2>1. StageAt(t) = "connected"
    BY <1>1 DEF StageAt, At, Adding
  <2> QED BY <1>1, <2>1, LivesHolds DEF Lives
<1>6. StageOf(c)' = "idle" /\ Holder(c)' = None
  <2>1. c \notin backlog' /\ \A u \in Threads : client'[u] # c
    BY <1>1, <1>3, NoneAssumption
    DEF Inv, Ownership, OneOwner, Locker!OneOwner, Descriptors, BacklogIsUnknown, Locker!Held
  <2>2. \E f \in Fds : data_'[f] = c
    BY <1>1, <1>3
  <2> QED BY <1>1, <2>1, <2>2, LivesNext DEF Lives
<1>7. Lifespan!Parked(c)
  BY <1>1, <1>4, <1>5, <1>6, OneMoves DEF Lifespan!Parked
<1> QED BY <1>1, <1>7 DEF Lifespan!Next

(* try_take gives the idle client of the locker, or nothing.               *)
LEMMA TryTakeLives ==
  ASSUME Inv, Inv', NEW t \in Threads, TryTake(t)
  PROVE  [Lifespan!Next]_Lifespan!vars
<1>1. /\ cur[t] \in Fds /\ client[t] = None /\ backlog' = backlog
      /\ data_[cur[t]] \in Conns \cup {None}
  BY DEF TryTake, At, kernelVars, Inv, TypeOK, Locker!TypeOK, Ownership, CurIsSet,
         HandFollowsPc, Adding, Serving
<1>2. \A u \in Threads \ {t} :
        pc'[u] = pc[u] /\ client'[u] = client[u] /\ shutdown'[u] = shutdown[u]
  BY DEF TryTake, Goto, Locker!TryTake, Locker!Take, localVars, Inv, TypeOK, Locker!TypeOK
<1>3. CASE client'[t] = None
  <2>1. \A f \in Fds : data_'[f] = data_[f]
    BY <1>1, <1>3 DEF TryTake, Locker!TryTake, Locker!Take, Inv, TypeOK, Locker!TypeOK
  <2> QED BY <1>1, <1>2, <1>3, <2>1, HandsStay
<1>4. CASE client'[t] # None
  <2>1. PICK c \in Conns : /\ c = data_[cur[t]] /\ client'[t] = c /\ pc'[t] = "serve"
                           /\ \A f \in Fds \ {cur[t]} : data_'[f] = data_[f]
                           /\ data_'[cur[t]] = None
    BY <1>1, <1>4 DEF TryTake, Goto, Locker!TryTake, Locker!Take, Inv, TypeOK, Locker!TypeOK
  <2>2. \A d \in Conns \ {c} : StageOf(d)' = StageOf(d) /\ Holder(d)' = Holder(d)
    <3>1. \A d \in Conns \ {c} :
            (\E f \in Fds : data_'[f] = d) <=> (\E f \in Fds : data_[f] = d)
      BY <2>1, NoneAssumption
    <3> QED BY <1>1, <1>2, <2>1, <3>1, OthersLiveOn
  <2>3. StageOf(c) = "idle"
    <3>1. c \notin backlog /\ \A u \in Threads : client[u] # c
      BY <1>1, <2>1, NoneAssumption
      DEF Inv, Ownership, OneOwner, Locker!OneOwner, Descriptors, BacklogIsUnknown, Locker!Held
    <3>2. \E f \in Fds : data_[f] = c
      BY <1>1, <2>1
    <3> QED BY <3>1, <3>2, LivesHolds DEF Lives
  <2>4. StageOf(c)' = "taken" /\ Holder(c)' = t
    <3>1. StageAt(t)' = "taken"
      BY <2>1 DEF StageAt, At, Adding
    <3> QED BY <2>1, <3>1, LivesNext DEF Lives
  <2>5. Lifespan!Idle(t)
    <3>1. \A d \in Conns : Holder(d) # t
      BY <1>1, HolderIsUnique, NoneAssumption
    <3> QED BY <3>1 DEF Lifespan!Idle
  <2>6. Lifespan!Taken(c, t)
    BY <2>2, <2>3, <2>4, <2>5, OneMoves DEF Lifespan!Taken
  <2> QED BY <2>1, <2>6 DEF Lifespan!Next
<1> QED BY <1>3, <1>4

(* yield puts the client back where it is idle; after a reset it is still  *)
(* in the hands of the thread.                                             *)
LEMMA GiveLives ==
  ASSUME Inv, Inv', NEW t \in Threads, Give(t)
  PROVE  [Lifespan!Next]_Lifespan!vars
<1>1. PICK c \in Conns : c = client[t] /\ c # None
  BY NoneAssumption DEF Give, At, Inv, TypeOK, Locker!TypeOK, Ownership, ServingOwnsLocker,
                        Serving
<1>2. /\ pc[t] = "give" /\ cur[t] \in Fds /\ data_[cur[t]] = None /\ backlog' = backlog
      /\ UNCHANGED shutdown
  BY NoneAssumption DEF Give, At, kernelVars, localVars, Inv, Ownership, CurIsSet,
     ServingOwnsLocker, Serving, LockedIsEmpty, Locker!LockedIsEmpty
<1>3. \A u \in Threads \ {t} :
        pc'[u] = pc[u] /\ client'[u] = client[u] /\ shutdown'[u] = shutdown[u]
  BY <1>2 DEF Give, Goto, Locker!Yield, Locker!Reset, Inv, TypeOK, Locker!TypeOK
<1>4. CASE shutdown[t]
  <2>1. /\ client' = client /\ pc'[t] = "dispose"
        /\ \A f \in Fds : data_'[f] = data_[f]
    BY <1>2, <1>4 DEF Give, Goto, Locker!Reset, Inv, TypeOK, Locker!TypeOK
  <2>2. StageAt(t)' = StageAt(t)
    BY <1>2, <1>4, <2>1 DEF StageAt, At, Adding
  <2> QED BY <1>2, <1>3, <2>1, <2>2, HandsStay
<1>5. CASE ~shutdown[t]
  <2>1. /\ client'[t] = None
        /\ \A f \in Fds : data_'[f] = IF f = cur[t] THEN c ELSE data_[f]
    BY <1>1, <1>2, <1>5 DEF Give, Locker!Yield, Inv, TypeOK, Locker!TypeOK
  <2>2. \A d \in Conns \ {c} : StageOf(d)' = StageOf(d) /\ Holder(d)' = Holder(d)
    <3>1. \A d \in Conns \ {c} :
            (\E f \in Fds : data_'[f] = d) <=> (\E f \in Fds : data_[f] = d)
      BY <1>2, <2>1, NoneAssumption
    <3> QED BY <1>1, <1>2, <1>3, <2>1, <3>1, OthersLiveOn
  <2>3. StageOf(c) = "processed"
    <3>1. StageAt(t) = "processed"
      BY <1>2, <1>5 DEF StageAt, At, Adding
    <3> QED BY <1>1, <3>1, LivesHolds DEF Lives
  <2>4. StageOf(c)' = "idle" /\ Holder(c)' = None
    <3>1. c \notin backlog' /\ \A u \in Threads : client'[u] # c
      BY <1>1, <1>2, <1>3, <2>1, NoneAssumption
      DEF Inv, Ownership, OneOwner, Locker!OneOwner, Descriptors, BacklogIsUnknown, Locker!Held
    <3>2. \E f \in Fds : data_'[f] = c
      BY <1>2, <2>1
    <3> QED BY <3>1, <3>2, LivesNext DEF Lives
  <2>5. Lifespan!Returned(c)
    BY <2>2, <2>3, <2>4, OneMoves DEF Lifespan!Returned
  <2> QED BY <2>5 DEF Lifespan!Next
<1> QED BY <1>4, <1>5

(* An exception aborts the life of the client the thread has.              *)
LEMMA ExitLives ==
  ASSUME Inv, Inv', NEW t \in Threads, Exit(t),
         pc[t] \in {"loop", "register", "connected", "rearm", "serve", "finish"}
  PROVE  [Lifespan!Next]_Lifespan!vars
<1>1. CASE client[t] = None
  BY <1>1, LosingLives DEF Exit, Goto
<1>2. CASE client[t] # None
  <2>1. /\ client[t] \in Conns
        /\ Lifespan!Moves(client[t], StageAt(t), "absent", None)
    BY <1>2, LosingLives DEF Exit, Goto
  <2>2. pc[t] \in {"register", "connected", "serve", "finish"}
    BY <1>2 DEF Inv, Ownership, HandFollowsPc, Adding, Serving
  <2>3. StageAt(t) \in {"accepted", "taken", "processed"}
    BY <2>2 DEF StageAt, At, Adding
  <2>4. Lifespan!Aborted(client[t])
    BY <2>1, <2>3 DEF Lifespan!Aborted
  <2> QED BY <2>1, <2>4 DEF Lifespan!Next
<1> QED BY <1>1, <1>2

LEMMA ThreadLives ==
  ASSUME Inv, Inv', NEW t \in Threads, Step(t)
  PROVE  [Lifespan!Next]_Lifespan!vars
<1>1. CASE Accept(t) \/ Assign(t) \/ TryTake(t) \/ Give(t)
  BY <1>1, AcceptLives, AssignLives, TryTakeLives, GiveLives
<1>2. CASE Exit(t)
  <2>1. pc[t] \in {"loop", "register", "connected", "rearm", "serve", "finish"}
        \/ Dispose(t) \/ Accept(t) \/ Assign(t) \/ TryTake(t) \/ Give(t)
    <3>1. pc'[t] = "exited"
      BY <1>2 DEF Exit, Goto, Inv, TypeOK
    <3> QED
      BY <3>1 DEF Step, EpollWait, EpollFails, AcceptFails, Register, Attach, Emplace, Connected,
                  LockAdd, TakeEvent, DataAvailable, Finish, Rearm, At, Goto, Inv, TypeOK
  <2>2. ~Dispose(t)
    BY <1>2 DEF Exit, Dispose, Goto, Inv, TypeOK
  <2> QED BY <1>1, <1>2, <2>1, <2>2, ExitLives
<1>3. CASE Dispose(t)
  <2>1. client[t] # None /\ pc[t] = "dispose"
    BY <1>3 DEF Dispose, At, Inv, Ownership, HandFollowsPc
  <2>2. client[t] \in Conns /\ Lifespan!Moves(client[t], StageAt(t), "absent", None)
    BY <1>3, <2>1, LosingLives DEF Dispose, Goto, localVars
  <2>3. StageAt(t) = "shut down"
    BY <2>1 DEF StageAt, At, Adding
  <2> QED BY <2>2, <2>3 DEF Lifespan!Next, Lifespan!Destroyed
<1>4. CASE \/ Register(t) \/ Attach(t) \/ Emplace(t) \/ LockAdd(t)
           \/ (Connected(t) /\ ~Exit(t)) \/ (DataAvailable(t) /\ ~Exit(t))
           \/ (Finish(t) /\ ~Exit(t))
  <2>1. /\ UNCHANGED <<client, backlog, data_>>
        /\ \A u \in Threads \ {t} : pc'[u] = pc[u] /\ shutdown'[u] = shutdown[u]
        /\ client[t] # None
    <3>1. client[t] # None
      BY <1>4 DEF Register, Attach, Emplace, LockAdd, Connected, DataAvailable, Finish, At, Inv,
                  Ownership, HandFollowsPc, Adding, Serving
    <3>2. UNCHANGED <<client, backlog, data_>>
      BY <1>4 DEF Register, Attach, Emplace, LockAdd, Connected, DataAvailable, Finish, Close,
                  kernelVars, lockerVars
    <3>3. \A u \in Threads \ {t} : pc'[u] = pc[u] /\ shutdown'[u] = shutdown[u]
      BY <1>4 DEF Register, Attach, Emplace, LockAdd, Connected, DataAvailable, Finish, Goto,
                  localVars, Inv, TypeOK
    <3> QED BY <3>1, <3>2, <3>3
  <2> DEFINE c == client[t]
  <2>2. /\ StageAt(t)' = StageAt(t) => UNCHANGED Lifespan!vars
        /\ c \in Conns
        /\ \A to : to = StageAt(t)' => Lifespan!Moves(c, StageAt(t), to, Holder(c))
    BY <2>1, HandsStay
  <2>3. \/ StageAt(t)' = StageAt(t)
        \/ StageAt(t) = "accepted" /\ StageAt(t)' = "connected"
        \/ StageAt(t) = "taken" /\ StageAt(t)' = "processed"
        \/ StageAt(t) = "processed" /\ StageAt(t)' = "shut down"
    <3> USE DEF Inv, TypeOK, At, Goto, StageAt, Adding
    <3>1. CASE Register(t) \/ Attach(t) \/ Emplace(t) \/ LockAdd(t)
      BY <3>1 DEF Register, Attach, Emplace, LockAdd
    <3>2. CASE Connected(t) /\ ~Exit(t)
      BY <3>2 DEF Connected
    <3>3. CASE DataAvailable(t) /\ ~Exit(t)
      BY <3>3 DEF DataAvailable
    <3>4. CASE Finish(t) /\ ~Exit(t)
      BY <3>4 DEF Finish
    <3> QED BY <1>4, <3>1, <3>2, <3>3, <3>4
  <2>4. UNCHANGED Lifespan!vars \/ Lifespan!ConnectedEvent(c) \/ Lifespan!DataEvent(c)
        \/ Lifespan!ShutdownEvent(c)
    BY <2>2, <2>3 DEF Lifespan!ConnectedEvent, Lifespan!DataEvent, Lifespan!ShutdownEvent
  <2> QED BY <2>2, <2>4 DEF Lifespan!Next
<1>5. CASE EpollWait(t) \/ (TakeEvent(t) /\ ~Exit(t)) \/ (Rearm(t) /\ ~Exit(t))
  <2>1. /\ UNCHANGED <<client, backlog, data_>> /\ client[t] = None
        /\ \A u \in Threads \ {t} : pc'[u] = pc[u] /\ shutdown'[u] = shutdown[u]
    BY <1>5 DEF EpollWait, TakeEvent, Rearm, At, Goto, lockerVars, localVars, Inv, TypeOK,
                Ownership, HandFollowsPc, Adding, Serving
  <2> QED BY <2>1, HandsStay
<1> QED
  BY <1>1, <1>2, <1>3, <1>4, <1>5 DEF Step, AcceptFails, EpollFails

(* A connection opened anew begins a life; what else the peers do concerns *)
(* no thread.                                                              *)
LEMMA PeerLives ==
  ASSUME Inv, Inv', NEW c \in Conns, Connect(c) \/ SendData(c) \/ HangUp(c)
  PROVE  [Lifespan!Next]_Lifespan!vars
<1>1. UNCHANGED <<client, data_, pc, shutdown>>
  BY DEF Connect, SendData, HangUp, lockerVars, localVars
<1>2. ASSUME NEW d \in Conns, d \in backlog' <=> d \in backlog
      PROVE  StageOf(d)' = StageOf(d) /\ Holder(d)' = Holder(d)
  <2>1. CASE \E u \in Threads : client[u] = d
    <3>1. PICK u \in Threads : client[u] = d /\ client'[u] = d
      BY <1>1, <2>1
    <3>2. StageAt(u)' = StageAt(u)
      BY <1>1 DEF StageAt, At, Adding
    <3> QED BY <3>1, <3>2, LivesHolds, LivesNext DEF Lives
  <2>2. CASE \A u \in Threads : client[u] # d
    BY <1>1, <1>2, <2>2, LivesHolds, LivesNext DEF Lives
  <2> QED BY <2>1, <2>2
<1>3. CASE SendData(c) \/ HangUp(c)
  BY <1>2, <1>3, NobodyMoves DEF SendData, HangUp
<1>4. CASE Connect(c)
  <2>1. StageOf(c) = "absent"
    BY <1>4, LivesHolds DEF Connect, Lives, Locker!Held
  <2>2. StageOf(c)' = "waiting" /\ Holder(c)' = None
    <3>1. c \in backlog' /\ \A t \in Threads : client'[t] # c
      BY <1>1, <1>4 DEF Connect, Locker!Held
    <3> QED BY <3>1, LivesNext DEF Lives
  <2>3. \A d \in Conns \ {c} : StageOf(d)' = StageOf(d) /\ Holder(d)' = Holder(d)
    BY <1>2, <1>4 DEF Connect
  <2>4. Lifespan!Arrives(c)
    BY <2>1, <2>2, <2>3, OneMoves DEF Lifespan!Arrives
  <2> QED BY <2>4 DEF Lifespan!Next
<1> QED BY <1>3, <1>4

(* Whatever the threads do and whatever exceptions end them, each client   *)
(* lives the life its listener is promised.                                *)
THEOREM ClientsKeepTheirLifespan == Spec => KeepsLifespan
<1>1. Init => Lifespan!Init
  <2> SUFFICES ASSUME Init PROVE Lifespan!Init
    OBVIOUS
  <2>1. \A c \in Conns : Holder(c) = None
    BY NoneAssumption DEF Init, Locker!Init, Holder
  <2>2. \A c \in Conns : StageOf(c) = "absent"
    BY <2>1, NoneAssumption DEF Init, Locker!Init, StageOf
  <2> QED BY <2>1, <2>2 DEF Lifespan!Init
<1>2. Inv /\ Inv' /\ [Next]_vars => [Lifespan!Next]_Lifespan!vars
  <2> SUFFICES ASSUME Inv, Inv', [Next]_vars PROVE [Lifespan!Next]_Lifespan!vars
    OBVIOUS
  <2>1. CASE UNCHANGED vars
    <3>1. UNCHANGED <<backlog, client, data_, pc, shutdown>>
      BY <2>1 DEF vars, kernelVars, lockerVars, localVars
    <3>2. \A d \in Conns : StageOf(d)' = StageOf(d) /\ Holder(d)' = Holder(d)
      BY <3>1 DEF StageOf, Holder, StageAt, At, Adding
    <3> QED BY <3>2, NobodyMoves
  <2>2. CASE Next
    BY <2>2, ThreadLives, PeerLives DEF Next
  <2> QED BY <2>1, <2>2
<1> QED BY <1>1, <1>2, InvHolds, PTL DEF Spec, KeepsLifespan, Lifespan!Spec

-----------------------------------------------------------------------------
(* What EPOLLONESHOT gives any number of threads, for any exception        *)
(* outside addClient: no two threads are at work on the same descriptor,   *)
(* and none of those at work is armed.                                     *)

(* The descriptor thread t works on: the one of the event it has taken, of *)
(* the client it has in its hands but for the time between EPOLL_CTL_ADD   *)
(* and the end of addClient, or the one it is about to arm again.          *)
Current(t) ==
  CASE pc[t] \in {"take", "rearm"} -> {cur[t]}
    [] pc[t] \in Serving \cup {"register", "dispose"} -> {fd[client[t]]} \ {None}
    [] OTHER -> {}

(* With the descriptors of the events it has yet to look at.               *)
Events(t) == ready[t] \ {ListenEvent}
Busy(t) == {e.fd : e \in Events(t)} \cup Current(t)

(* A descriptor some thread is busy with is in use, is not armed, and no   *)
(* other thread is busy with it.                                           *)
BusyApart ==
  \A t \in Threads : \A f \in Busy(t) :
    /\ f \notin FreeFds /\ epoll[f] # "armed"
    /\ \A u \in Threads \ {t} : f \notin Busy(u)

(* Nor is it twice in the hands of the same one.                           *)
BusyOnce ==
  \A t \in Threads :
    /\ \A e, g \in Events(t) : e.fd = g.fd => e = g
    /\ \A e \in Events(t) : e.fd \notin Current(t)

(* A client about to be armed again is in the map.                         *)
RearmedIsThere == \A t \in Threads : At(t, "rearm") => data_[cur[t]] # None

FreeIsNotArmed == \A f \in FreeFds : epoll[f] # "armed"

Apart == BusyApart /\ BusyOnce /\ RearmedIsThere /\ FreeIsNotArmed
EventInv == ~addFailed => Apart

-----------------------------------------------------------------------------
(* What the other threads are busy with does not change, unless their      *)
(* sockets do.                                                             *)
LEMMA OthersStay ==
  ASSUME Inv, NEW t \in Threads, NEW u \in Threads \ {t},
         pc'[u] = pc[u], ready'[u] = ready[u], cur'[u] = cur[u], client'[u] = client[u],
         \A c \in Conns : fd'[c] = fd[c] \/ c = client[t] \/ c \in backlog
  PROVE  Busy(u)' = Busy(u) /\ Events(u)' = Events(u) /\ Current(u)' = Current(u)
<1>1. Events(u)' = Events(u)
  BY DEF Events, ListenEvent
<1>2. Current(u)' = Current(u)
  <2>1. CASE pc[u] \in Serving \cup {"register", "dispose"}
    <3>1. client[u] # None /\ client[u] \in Conns
      BY <2>1 DEF Inv, TypeOK, Locker!TypeOK, Ownership, HandFollowsPc, Adding
    <3>2. client[u] # client[t] /\ client[u] \notin backlog
      BY <3>1 DEF Inv, Ownership, OneOwner, Locker!OneOwner, Descriptors, BacklogIsUnknown,
                  Locker!Held
    <3>3. fd'[client[u]] = fd[client[u]]
      BY <3>1, <3>2
    <3> QED BY <2>1, <3>3 DEF Current, Serving
  <2>2. CASE pc[u] \notin Serving \cup {"register", "dispose"}
    BY <2>2 DEF Current
  <2> QED BY <2>1, <2>2
<1> QED BY <1>1, <1>2 DEF Busy

LEMMA BusyType ==
  ASSUME Inv, NEW t \in Threads
  PROVE  Busy(t) \subseteq Fds
<1>1. \A e \in Events(t) : e.fd \in Fds
  BY DEF Events, Inv, TypeOK, ClientEvent
<1>2. Current(t) \subseteq Fds
  <2>1. CASE pc[t] \in {"take", "rearm"}
    BY <2>1 DEF Current, Inv, Ownership, CurIsSet, Serving
  <2>2. CASE pc[t] \in Serving \cup {"register", "dispose"}
    <3>1. client[t] \in Conns
      BY <2>2 DEF Inv, TypeOK, Locker!TypeOK, Ownership, HandFollowsPc, Adding
    <3> QED BY <2>2, <3>1 DEF Current, Serving, Inv, TypeOK
  <2>3. CASE pc[t] \notin Serving \cup {"register", "dispose", "take", "rearm"}
    BY <2>3 DEF Current
  <2> QED BY <2>1, <2>2, <2>3
<1> QED BY <1>1, <1>2 DEF Busy

(* A step of thread t keeps the descriptors apart if those it turns to are *)
(* in use, not armed and nobody else's, and those it frees or arms are     *)
(* nobody's.                                                               *)
LEMMA StaysApart ==
  ASSUME Inv, Apart, NEW t \in Threads,
         \A u \in Threads \ {t} :
           /\ Busy(u)' = Busy(u) /\ Events(u)' = Events(u) /\ Current(u)' = Current(u)
           /\ At(u, "rearm")' => At(u, "rearm") /\ data_'[cur'[u]] # None,
         \A f \in Busy(t)' : f \in Busy(t) \/
           (f \notin FreeFds' /\ epoll'[f] # "armed" /\ \A u \in Threads \ {t} : f \notin Busy(u)),
         \A f \in FreeFds' : f \in FreeFds \/ \A u \in Threads : f \notin Busy(u)',
         \A f \in FreeFds' : epoll'[f] # "armed",
         \A f \in Fds :
           epoll'[f] = "armed" => epoll[f] = "armed" \/ \A u \in Threads : f \notin Busy(u)',
         \A e, g \in Events(t)' : e.fd = g.fd => e = g,
         \A e \in Events(t)' : e.fd \notin Current(t)',
         At(t, "rearm")' => data_'[cur'[t]] # None
  PROVE  Apart'
<1>1. BusyApart'
  <2> SUFFICES ASSUME NEW u \in Threads, NEW f \in Busy(u)'
               PROVE  /\ f \notin FreeFds' /\ epoll'[f] # "armed"
                      /\ \A v \in Threads \ {u} : f \notin Busy(v)'
    BY DEF BusyApart
  <2>1. CASE f \in Busy(u)
    BY <2>1, BusyType DEF Apart, BusyApart
  <2>2. CASE f \notin Busy(u)
    BY <2>2
  <2> QED BY <2>1, <2>2
<1>2. BusyOnce'
  BY DEF Apart, BusyOnce
<1>3. RearmedIsThere'
  BY DEF Apart, RearmedIsThere
<1>4. FreeIsNotArmed'
  BY DEF FreeIsNotArmed
<1> QED BY <1>1, <1>2, <1>3, <1>4 DEF Apart

(* A client about to be armed again by another thread stays in the map if  *)
(* only a descriptor that t is busy with is emptied.                       *)
LEMMA OthersAreThere ==
  ASSUME Inv, Apart, NEW t \in Threads, NEW u \in Threads \ {t}, At(u, "rearm"),
         cur'[u] = cur[u],
         \A f \in Fds : data_[f] # None => data_'[f] # None \/ f \in Busy(t)
  PROVE  data_'[cur'[u]] # None
<1>1. cur[u] \in Busy(u)
  BY DEF At, Busy, Current, Serving
<1>2. cur[u] \notin Busy(t)
  BY <1>1 DEF Apart, BusyApart
<1> QED BY <1>1, <1>2, BusyType DEF Apart, RearmedIsThere

(* A step that neither opens nor closes, neither arms nor disarms.         *)
LEMMA WorkGoesOn ==
  ASSUME Inv, Apart, NEW t \in Threads, NEW l, pc' = [pc EXCEPT ![t] = l],
         \A u \in Threads \ {t} : cur'[u] = cur[u] /\ client'[u] = client[u],
         UNCHANGED <<ready, fd, epoll>>, Current(t)' \subseteq Current(t),
         \A f \in Fds : data_[f] # None => data_'[f] # None \/ f \in Busy(t),
         l = "rearm" => data_'[cur'[t]] # None
  PROVE  Apart'
<1>1. \A u \in Threads : pc'[u] = IF u = t THEN l ELSE pc[u]
  BY DEF Inv, TypeOK
<1>2. \A u \in Threads \ {t} :
         /\ Busy(u)' = Busy(u) /\ Events(u)' = Events(u) /\ Current(u)' = Current(u)
         /\ At(u, "rearm")' => At(u, "rearm") /\ data_'[cur'[u]] # None
  BY <1>1, OthersStay, OthersAreThere DEF At
<1>3. Events(t)' = Events(t) /\ Busy(t)' \subseteq Busy(t)
  BY DEF Events, Busy, ListenEvent
<1>4. FreeFds' = FreeFds
  BY DEF FreeFds
<1>5. /\ \A e, g \in Events(t)' : e.fd = g.fd => e = g
      /\ \A e \in Events(t)' : e.fd \notin Current(t)'
  BY <1>3 DEF Apart, BusyOnce
<1>6. \A f \in FreeFds' : epoll'[f] # "armed"
  BY <1>4 DEF Apart, FreeIsNotArmed
<1>7. At(t, "rearm")' => data_'[cur'[t]] # None
  BY <1>1 DEF At
<1> QED BY <1>2, <1>3, <1>4, <1>5, <1>6, <1>7, StaysApart

(* A step that closes the client of t, which is the only thread busy with  *)
(* its descriptor.                                                         *)
LEMMA ClosingKeepsApart ==
  ASSUME Inv, Apart, NEW t \in Threads, NEW l \in {"loop", "exited", "finish"},
         pc' = [pc EXCEPT ![t] = l],
         IF client[t] = None THEN UNCHANGED kernelVars ELSE Close(client[t]),
         client[t] # None => pc[t] \in Serving \cup {"register", "dispose"},
         \A u \in Threads \ {t} :
           ready'[u] = ready[u] /\ cur'[u] = cur[u] /\ client'[u] = client[u],
         ready'[t] \subseteq ready[t],
         l = "finish" => client[t] # None /\ client'[t] = client[t],
         UNCHANGED data_
  PROVE  Apart'
<1>1. \A u \in Threads : pc'[u] = IF u = t THEN l ELSE pc[u]
  BY DEF Inv, TypeOK
<1>2. \A c \in Conns : fd'[c] = IF c = client[t] THEN None ELSE fd[c]
  BY NoneAssumption DEF Close, Open, kernelVars, Inv, TypeOK
<1>3. \A u \in Threads \ {t} :
         /\ Busy(u)' = Busy(u) /\ Events(u)' = Events(u) /\ Current(u)' = Current(u)
         /\ At(u, "rearm")' => At(u, "rearm") /\ data_'[cur'[u]] # None
  BY <1>1, <1>2, OthersStay, OthersAreThere DEF At
<1>4. Events(t)' \subseteq Events(t)
  BY DEF Events, ListenEvent
<1>5. Current(t)' = {}
  <2>1. CASE l = "finish"
    <3>1. client[t] \in Conns \cup {None} /\ client'[t] = client[t] /\ pc'[t] = "finish"
      BY <1>1, <2>1 DEF Inv, TypeOK, Locker!TypeOK
    <3>2. client[t] # None
      BY <2>1
    <3> QED BY <3>1, <3>2, <1>2 DEF Current, Serving
  <2>2. CASE l # "finish"
    BY <1>1, <2>2 DEF Current, Serving
  <2> QED BY <2>1, <2>2
<1>6. \A f \in FreeFds' :
        /\ epoll'[f] # "armed"
        /\ f \in FreeFds \/ \A u \in Threads : f \notin Busy(u)'
  <2> SUFFICES ASSUME NEW f \in FreeFds', f \notin FreeFds
               PROVE  epoll'[f] # "armed" /\ \A u \in Threads : f \notin Busy(u)'
    <3>1. ASSUME NEW f \in FreeFds PROVE epoll[f] # "armed" /\ f \in Fds
      BY DEF Apart, FreeIsNotArmed, FreeFds
    <3>2. ASSUME NEW f \in Fds, epoll[f] # "armed" PROVE epoll'[f] # "armed"
      BY <3>2 DEF Close, kernelVars, Inv, TypeOK
    <3> QED BY <3>1, <3>2
  <2>1. f \in Fds /\ client[t] \in Open /\ f = fd[client[t]]
    BY <1>2 DEF FreeFds, Open, Inv, TypeOK
  <2>2. client[t] # None /\ f # None
    BY <2>1, NoneAssumption DEF Open, Inv, TypeOK
  <2>3. f \in Current(t)
    BY <2>1, <2>2 DEF Current, Serving
  <2>4. \A u \in Threads \ {t} : f \notin Busy(u)'
    BY <1>3, <2>3 DEF Busy, Apart, BusyApart
  <2>5. f \notin Busy(t)'
    BY <1>4, <1>5, <2>3 DEF Busy, Apart, BusyOnce
  <2>6. epoll'[f] = "none"
    BY <2>1, <2>2 DEF Close, Inv, TypeOK
  <2> QED BY <2>4, <2>5, <2>6
<1>7. Busy(t)' \subseteq Busy(t)
  BY <1>4, <1>5 DEF Busy
<1>8. \A f \in Fds : epoll'[f] = "armed" => epoll[f] = "armed"
  <2>1. CASE client[t] \notin Open
    BY <2>1 DEF Close, kernelVars
  <2>2. CASE client[t] \in Open
    <3>1. epoll' = [epoll EXCEPT ![fd[client[t]]] = "none"]
      BY <2>2, NoneAssumption DEF Close, Open
    <3> QED BY <3>1 DEF Inv, TypeOK
  <2> QED BY <2>1, <2>2
<1>9. /\ \A e, g \in Events(t)' : e.fd = g.fd => e = g
      /\ \A e \in Events(t)' : e.fd \notin Current(t)'
  BY <1>4, <1>5 DEF Apart, BusyOnce
<1>10. ~At(t, "rearm")'
  BY <1>1 DEF At
<1> QED BY <1>3, <1>6, <1>7, <1>8, <1>9, <1>10, StaysApart

(* EPOLLONESHOT: epoll_wait gives events of armed clients only, which no   *)
(* thread is busy with, and disarms them.                                  *)
LEMMA EpollWaitKeepsApart ==
  ASSUME Inv, Apart, NEW t \in Threads, EpollWait(t)
  PROVE  Apart'
<1> USE DEF EpollWait, At, lockerVars
<1>1. PICK S \in SUBSET ReadyEvents :
        /\ ready' = [ready EXCEPT ![t] = S]
        /\ epoll' = [f \in Fds |-> IF \E e \in S : e.fd = f THEN "disarmed" ELSE epoll[f]]
  OBVIOUS
<1>2. ASSUME NEW e \in Events(t)'
      PROVE  \E c \in Open : e = EventOf(c) /\ epoll[fd[c]] = "armed"
  <2>1. e \in S /\ e # ListenEvent
    BY <1>1 DEF Events, ListenEvent, Inv, TypeOK
  <2> QED BY <2>1 DEF ReadyEvents
<1>3. ASSUME NEW e \in Events(t)'
      PROVE  /\ e.fd \in Fds /\ e.fd \notin FreeFds /\ epoll[e.fd] = "armed"
             /\ epoll'[e.fd] = "disarmed"
  <2>1. PICK c \in Open : e = EventOf(c) /\ epoll[fd[c]] = "armed"
    BY <1>2
  <2>2. e.fd = fd[c] /\ fd[c] \in Fds
    BY <2>1 DEF EventOf, Open, Inv, TypeOK
  <2>3. e \in S
    BY <1>1 DEF Events, ListenEvent, Inv, TypeOK
  <2> QED BY <1>1, <2>1, <2>2, <2>3 DEF FreeFds, Open
<1>4. Current(t)' = {} /\ FreeFds' = FreeFds
  BY DEF Current, FreeFds, Serving
<1>5. \A u \in Threads \ {t} :
         /\ Busy(u)' = Busy(u) /\ Events(u)' = Events(u) /\ Current(u)' = Current(u)
         /\ At(u, "rearm")' => At(u, "rearm") /\ data_'[cur'[u]] # None
  BY <1>1, OthersStay DEF Apart, RearmedIsThere, Inv, TypeOK
<1>6. \A f \in Busy(t)' :
        f \notin FreeFds' /\ epoll'[f] # "armed" /\ \A u \in Threads \ {t} : f \notin Busy(u)
  BY <1>3, <1>4 DEF Busy, Apart, BusyApart
<1>7. \A f \in Fds : epoll'[f] = "armed" => epoll[f] = "armed"
  BY <1>1
<1>8. \A f \in FreeFds' : epoll'[f] # "armed"
  BY <1>4, <1>7 DEF FreeFds, Apart, FreeIsNotArmed
<1>9. \A e, g \in Events(t)' : e.fd = g.fd => e = g
  <2> SUFFICES ASSUME NEW e \in Events(t)', NEW g \in Events(t)', e.fd = g.fd PROVE e = g
    OBVIOUS
  <2>1. PICK c \in Open : e = EventOf(c)
    BY <1>2
  <2>2. PICK d \in Open : g = EventOf(d)
    BY <1>2
  <2>3. c = d
    BY <2>1, <2>2 DEF EventOf, Inv, Descriptors, OneClientPerDescriptor
  <2> QED BY <2>1, <2>2, <2>3
<1> QED BY <1>4, <1>5, <1>6, <1>7, <1>8, <1>9, StaysApart

(* accept() gives a descriptor nobody is busy with.                        *)
LEMMA AcceptKeepsApart ==
  ASSUME Inv, Apart, NEW t \in Threads, Accept(t)
  PROVE  Apart'
<1> USE DEF Accept, At, Goto
<1>1. /\ epoll' = epoll /\ Events(t)' = Events(t) /\ UNCHANGED <<cur, data_>>
      /\ \A u \in Threads \ {t} :
           ready'[u] = ready[u] /\ client'[u] = client[u] /\ pc'[u] = pc[u]
      /\ FreeFds' \subseteq FreeFds
  <2>1. FreeFds' \subseteq FreeFds
    <3>1. \A d \in Conns : fd'[d] = fd[d] \/ fd[d] = None
      BY NoneAssumption DEF Inv, TypeOK, Descriptors, BacklogIsUnknown, Open
    <3> QED BY <3>1, NoneAssumption DEF FreeFds
  <2> QED
    BY <2>1 DEF Events, ListenEvent, Inv, TypeOK, Locker!TypeOK, Locker!Obtain, lockerVars
<1>2. \A u \in Threads \ {t} :
         /\ Busy(u)' = Busy(u) /\ Events(u)' = Events(u) /\ Current(u)' = Current(u)
         /\ At(u, "rearm")' => At(u, "rearm") /\ data_'[cur'[u]] # None
  <2>1. \A c \in Conns : fd'[c] = fd[c] \/ c \in backlog
    BY DEF Inv, TypeOK
  <2> QED BY <1>1, <2>1, OthersStay DEF Apart, RearmedIsThere
<1>3. \A f \in Current(t)' : f \in FreeFds /\ f \notin FreeFds'
  <2>1. CASE UNCHANGED pc
    BY <2>1 DEF Current, Serving
  <2>2. ASSUME NEW c \in backlog, NEW f \in FreeFds, fd' = [fd EXCEPT ![c] = f],
               Locker!Obtain(t, c), pc' = [pc EXCEPT ![t] = "register"]
        PROVE  Current(t)' = {f} /\ f \notin FreeFds'
    <3>1. pc'[t] = "register" /\ client'[t] = c /\ fd'[c] = f /\ c \in Conns
      BY <2>2 DEF Inv, TypeOK, Locker!TypeOK, Locker!Obtain
    <3>2. f # None
      BY NoneAssumption DEF FreeFds
    <3> QED BY <3>1, <3>2 DEF Current, FreeFds, Serving
  <2> QED BY <2>1, <2>2
<1>4. ASSUME NEW f \in FreeFds
      PROVE  epoll[f] # "armed" /\ \A u \in Threads : f \notin Busy(u)
  BY DEF Apart, FreeIsNotArmed, BusyApart
<1>5. \A f \in Busy(t)' : f \in Busy(t) \/
        (f \notin FreeFds' /\ epoll'[f] # "armed" /\ \A u \in Threads \ {t} : f \notin Busy(u))
  BY <1>1, <1>3, <1>4 DEF Busy
<1>6. \A e \in Events(t)' : e.fd \notin Current(t)'
  BY <1>1, <1>3, <1>4 DEF Busy
<1>7. \A e, g \in Events(t)' : e.fd = g.fd => e = g
  BY <1>1 DEF Apart, BusyOnce
<1>8. \A f \in FreeFds' : f \in FreeFds /\ epoll'[f] # "armed"
  BY <1>1, <1>4
<1>9. ~At(t, "rearm")'
  BY DEF Inv, TypeOK
<1> QED BY <1>1, <1>2, <1>5, <1>6, <1>7, <1>8, <1>9, StaysApart

(* EPOLL_CTL_ADD and EPOLL_CTL_MOD arm the descriptor that the thread then *)
(* has done with; EPOLL_CTL_DEL comes with an event that goes from the     *)
(* batch to the hands of the thread.                                       *)
LEMMA EpollCtlKeepsApart ==
  ASSUME Inv, Apart, NEW t \in Threads, NEW f \in Current(t),
         NEW l \in {"attach", "loop"}, pc' = [pc EXCEPT ![t] = l],
         epoll' = [epoll EXCEPT ![f] = "armed"],
         UNCHANGED <<fd, ready, cur, client, data_>>
  PROVE  Apart'
<1>1. f \in Busy(t) /\ f \in Fds /\ f \notin FreeFds
  BY BusyType DEF Busy, Apart, BusyApart
<1>2. Events(t)' = Events(t) /\ Current(t)' = {} /\ FreeFds' = FreeFds
  BY DEF Events, ListenEvent, Current, Serving, FreeFds, Inv, TypeOK
<1>3. \A u \in Threads \ {t} :
         /\ Busy(u)' = Busy(u) /\ Events(u)' = Events(u) /\ Current(u)' = Current(u)
         /\ At(u, "rearm")' => At(u, "rearm") /\ data_'[cur'[u]] # None
  BY OthersStay DEF Apart, RearmedIsThere, Inv, TypeOK, At
<1>4. Busy(t)' \subseteq Busy(t)
  BY <1>2 DEF Busy
<1>5. \A g \in FreeFds' : g \in FreeFds /\ epoll'[g] # "armed"
  BY <1>1, <1>2 DEF Apart, FreeIsNotArmed, FreeFds, Inv, TypeOK
<1>6. \A u \in Threads : f \notin Busy(u)'
  BY <1>1, <1>2, <1>3 DEF Busy, Apart, BusyApart, BusyOnce
<1>7. \A g \in Fds : epoll'[g] = "armed" => epoll[g] = "armed" \/ g = f
  BY DEF Inv, TypeOK
<1>8. /\ \A e, g \in Events(t)' : e.fd = g.fd => e = g
      /\ \A e \in Events(t)' : e.fd \notin Current(t)'
  BY <1>2 DEF Apart, BusyOnce
<1>9. ~At(t, "rearm")'
  BY DEF Inv, TypeOK, At
<1> QED BY <1>3, <1>4, <1>5, <1>6, <1>7, <1>8, <1>9, StaysApart

LEMMA TakeEventKeepsApart ==
  ASSUME Inv, Apart, NEW t \in Threads, TakeEvent(t), ~Exit(t)
  PROVE  Apart'
<1> USE DEF TakeEvent, At, Goto
<1>1. PICK e \in Events(t) :
        /\ ready' = [ready EXCEPT ![t] = @ \ {e}]
        /\ cur' = [cur EXCEPT ![t] = e.fd]
        /\ epoll' = [epoll EXCEPT ![e.fd] = IF e.rdhup THEN "none" ELSE @]
  BY DEF Events
<1>2. e.fd \in Busy(t) /\ e.fd \in Fds
  BY BusyType DEF Busy
<1>3. UNCHANGED <<fd, client, data_>> /\ pc' = [pc EXCEPT ![t] = "take"]
  BY DEF lockerVars
<1>4. Events(t)' = Events(t) \ {e} /\ Current(t)' = {e.fd}
  BY <1>1, <1>3 DEF Events, ListenEvent, Current, Serving, Inv, TypeOK
<1>5. \A u \in Threads \ {t} :
         /\ Busy(u)' = Busy(u) /\ Events(u)' = Events(u) /\ Current(u)' = Current(u)
         /\ At(u, "rearm")' => At(u, "rearm") /\ data_'[cur'[u]] # None
  BY <1>1, <1>3, OthersStay DEF Apart, RearmedIsThere, Inv, TypeOK
<1>6. Busy(t)' \subseteq Busy(t)
  BY <1>2, <1>4 DEF Busy
<1>7. \A f \in Fds : epoll'[f] = "armed" => epoll[f] = "armed"
  BY <1>1, <1>2 DEF Inv, TypeOK
<1>8. \A f \in FreeFds' : f \in FreeFds /\ epoll'[f] # "armed"
  BY <1>3, <1>7 DEF FreeFds, Apart, FreeIsNotArmed
<1>9. /\ \A d, g \in Events(t)' : d.fd = g.fd => d = g
      /\ \A d \in Events(t)' : d.fd \notin Current(t)'
  BY <1>4 DEF Apart, BusyOnce
<1>10. ~At(t, "rearm")'
  BY <1>3 DEF Inv, TypeOK
<1> QED BY <1>5, <1>6, <1>7, <1>8, <1>9, <1>10, StaysApart

(* An exception, unless it leaves Connected or hits a thread that works    *)
(* past EPOLL_CTL_ADD.                                                     *)
LEMMA ExitKeepsApart ==
  ASSUME Inv, Apart, NEW t \in Threads, Exit(t),
         pc[t] \in {"loop", "register", "rearm", "serve", "finish"}
  PROVE  Apart'
<1>1. client[t] # None => pc[t] \in Serving \cup {"register", "dispose"}
  BY DEF Inv, Ownership, HandFollowsPc, Adding, Serving
<1>2. /\ \A u \in Threads \ {t} :
           ready'[u] = ready[u] /\ cur'[u] = cur[u] /\ client'[u] = client[u]
      /\ ready'[t] \subseteq ready[t] /\ UNCHANGED data_
  BY DEF Exit, DropClient, Locker!Drop, Inv, TypeOK, Locker!TypeOK
<1> QED BY <1>1, <1>2, ClosingKeepsApart DEF Exit, DropClient, Goto

LEMMA ThreadKeepsApart ==
  ASSUME Inv, Apart, NEW t \in Threads, Step(t), ~addFailed'
  PROVE  Apart'
<1> USE DEF At, Goto
<1>1. CASE EpollWait(t)
  BY <1>1, EpollWaitKeepsApart
<1>2. CASE Exit(t) /\ ~Connected(t)
  <2>1. pc[t] \in {"loop", "register", "rearm", "serve", "finish"}
    <3>1. pc'[t] = "exited"
      BY <1>2 DEF Exit, Inv, TypeOK
    <3> QED
      BY <1>2, <3>1
      DEF Step, EpollWait, EpollFails, Accept, AcceptFails, Register, Attach, Emplace, LockAdd,
          Assign, TakeEvent, TryTake, DataAvailable, Finish, Give, Dispose, Rearm, Inv, TypeOK
  <2> QED BY <1>2, <2>1, ExitKeepsApart
<1>3. CASE Accept(t)
  BY <1>3, AcceptKeepsApart
<1>4. CASE Register(t)
  <2>1. Id(t) \in Current(t)
    BY <1>4, IdType, NoneAssumption DEF Register, Adding, Current, Serving, Id
  <2> QED BY <1>4, <2>1, EpollCtlKeepsApart DEF Register, lockerVars, localVars
<1>5. CASE \/ Attach(t) \/ Emplace(t) \/ LockAdd(t) \/ Assign(t) \/ (Connected(t) /\ ~Exit(t))
  <2>1. PICK l \in {"emplace", "connected", "lockAdd", "assign", "loop"} :
          pc' = [pc EXCEPT ![t] = l]
    BY <1>5 DEF Attach, Emplace, LockAdd, Assign, Connected
  <2>2. Current(t)' = {}
    BY <2>1 DEF Current, Serving, Inv, TypeOK
  <2>3. UNCHANGED <<fd, epoll, cur, ready>>
    BY <1>5 DEF Attach, Emplace, LockAdd, Assign, Connected, kernelVars, localVars
  <2>4. \A u \in Threads \ {t} : client'[u] = client[u]
    BY <1>5 DEF Attach, Emplace, LockAdd, Assign, Connected, lockerVars, Locker!Assign, Inv,
                TypeOK, Locker!TypeOK
  <2>5. \A f \in Fds : data_[f] # None => data_'[f] # None
    <3>1. CASE Assign(t)
      <4>1. client[t] # None
        BY <3>1, NoneAssumption, IdType DEF Assign, Adding
      <4> QED BY <3>1, <4>1 DEF Assign, Locker!Assign, Inv, TypeOK, Locker!TypeOK
    <3>2. CASE ~Assign(t)
      BY <1>5, <3>2 DEF Attach, Emplace, LockAdd, Connected, lockerVars
    <3> QED BY <3>1, <3>2
  <2> QED BY <2>1, <2>2, <2>3, <2>4, <2>5, WorkGoesOn
<1>6. CASE TakeEvent(t) /\ ~Exit(t)
  BY <1>6, TakeEventKeepsApart
<1>7. CASE TryTake(t)
  <2>1. cur[t] \in Fds /\ Current(t) = {cur[t]} /\ cur[t] \in Busy(t)
    BY <1>7 DEF TryTake, Current, Serving, Busy, Inv, Ownership, CurIsSet
  <2>2. PICK l \in {"loop", "serve"} :
          pc' = [pc EXCEPT ![t] = l] /\ (l = "serve" => client'[t] # None)
    BY <1>7 DEF TryTake
  <2>3. /\ UNCHANGED <<fd, epoll, cur, ready>>
        /\ \A u \in Threads \ {t} : client'[u] = client[u]
        /\ \A f \in Fds \ {cur[t]} : data_'[f] = data_[f]
        /\ client'[t] # None => client'[t] = data_[cur[t]]
    BY <1>7, <2>1 DEF TryTake, Locker!TryTake, Locker!Take, kernelVars, localVars, Inv, TypeOK,
                      Locker!TypeOK
  <2>4. Current(t)' \subseteq Current(t)
    <3>1. CASE l = "loop"
      BY <2>2, <3>1 DEF Current, Serving, Inv, TypeOK
    <3>2. CASE l = "serve"
      <4>1. fd'[client'[t]] = cur[t] /\ pc'[t] = "serve"
        BY <2>1, <2>2, <2>3, <3>2 DEF Inv, TypeOK, Locker!TypeOK, Descriptors,
                                      ClientUnderItsDescriptor
      <4> QED BY <2>1, <4>1 DEF Current, Serving
    <3> QED BY <3>1, <3>2
  <2> QED BY <2>1, <2>2, <2>3, <2>4, WorkGoesOn
<1>8. CASE DataAvailable(t) /\ ~Exit(t)
  <2>1. /\ pc[t] = "serve" /\ pc' = [pc EXCEPT ![t] = "finish"]
        /\ UNCHANGED <<lockerVars, localVars>>
        /\ UNCHANGED <<fd, epoll>> \/ Close(client[t])
    BY <1>8 DEF DataAvailable, Receives
  <2>2. client[t] # None
    BY <2>1 DEF Inv, Ownership, ServingOwnsLocker, Serving
  <2>3. CASE UNCHANGED <<fd, epoll>>
    <3>1. Current(t)' = Current(t)
      BY <2>1, <2>3 DEF Current, Serving, lockerVars, Inv, TypeOK
    <3> QED BY <2>1, <2>3, <3>1, WorkGoesOn DEF lockerVars, localVars
  <2>4. CASE Close(client[t])
    BY <2>1, <2>2, <2>4, ClosingKeepsApart DEF lockerVars, localVars, Serving
  <2> QED BY <2>1, <2>3, <2>4
<1>9. CASE Finish(t) /\ ~Exit(t)
  <2>1. /\ pc[t] = "finish" /\ pc' = [pc EXCEPT ![t] = "give"]
        /\ UNCHANGED <<fd, epoll, lockerVars, ready, cur>>
    BY <1>9 DEF Finish, kernelVars
  <2>2. Current(t)' = Current(t)
    BY <2>1 DEF Current, Serving, lockerVars, Inv, TypeOK
  <2> QED BY <2>1, <2>2, WorkGoesOn DEF lockerVars
<1>10. CASE Give(t)
  <2>1. /\ cur[t] \in Fds /\ client[t] # None /\ data_[cur[t]] = None
        /\ ~shutdown[t] => fd[client[t]] = cur[t]
    BY <1>10, NoneAssumption DEF Give, Inv, Ownership, CurIsSet, ServingOwnsLocker, LockedIsEmpty,
                 Locker!LockedIsEmpty, Serving, Descriptors, ServedUnderCur
  <2>2. UNCHANGED <<fd, epoll, cur, ready, shutdown>> /\ pc[t] = "give"
    BY <1>10 DEF Give, kernelVars, localVars
  <2>3. CASE shutdown[t]
    <3>1. /\ pc' = [pc EXCEPT ![t] = "dispose"] /\ client' = client
          /\ data_' = [data_ EXCEPT ![cur[t]] = None]
      BY <1>10, <2>3 DEF Give, Locker!Reset
    <3>2. Current(t)' = Current(t)
      BY <2>2, <3>1 DEF Current, Serving, Inv, TypeOK
    <3>3. \A f \in Fds : data_[f] # None => data_'[f] # None
      BY <2>1, <3>1 DEF Inv, TypeOK, Locker!TypeOK
    <3> QED BY <2>2, <3>1, <3>2, <3>3, WorkGoesOn
  <2>4. CASE ~shutdown[t]
    <3>1. /\ pc' = [pc EXCEPT ![t] = "rearm"]
          /\ data_' = [data_ EXCEPT ![cur[t]] = client[t]]
          /\ \A u \in Threads \ {t} : client'[u] = client[u]
      BY <1>10, <2>4 DEF Give, Locker!Yield, Inv, TypeOK, Locker!TypeOK
    <3>2. Current(t)' = {cur[t]} /\ Current(t) = {cur[t]}
      BY <2>1, <2>2, <2>4, <3>1, NoneAssumption DEF Current, Serving, Inv, TypeOK
    <3>3. /\ \A f \in Fds : data_[f] # None => data_'[f] # None
          /\ data_'[cur'[t]] # None
      BY <2>1, <2>2, <3>1 DEF Inv, TypeOK, Locker!TypeOK
    <3> QED BY <2>2, <3>1, <3>2, <3>3, WorkGoesOn
  <2> QED BY <2>3, <2>4
<1>11. CASE Dispose(t)
  <2>1. /\ \A u \in Threads \ {t} : client'[u] = client[u]
        /\ UNCHANGED <<ready, cur, data_>>
    BY <1>11 DEF Dispose, DropClient, Locker!Drop, localVars, Inv, TypeOK, Locker!TypeOK
  <2> QED BY <1>11, <2>1, ClosingKeepsApart DEF Dispose, DropClient
<1>12. CASE Rearm(t) /\ ~Exit(t)
  <2>1. cur[t] \in Current(t)
    BY <1>12 DEF Rearm, Current, Serving
  <2> QED BY <1>12, <2>1, EpollCtlKeepsApart DEF Rearm, lockerVars, localVars
<1>13. CASE Connected(t) /\ Exit(t)
  <2>1. addFailed'
    BY <1>13 DEF Connected, Exit, Inv, TypeOK
  <2> QED BY <2>1
<1> QED
  BY <1>1, <1>2, <1>3, <1>4, <1>5, <1>6, <1>7, <1>8, <1>9, <1>10, <1>11, <1>12, <1>13
  DEF Step, AcceptFails, EpollFails

(* The peers touch nothing of this.                                        *)
LEMMA PeerKeepsApart ==
  ASSUME Apart, UNCHANGED <<fd, epoll, data_, ready, cur, client, pc>>
  PROVE  Apart'
<1>1. ASSUME NEW t \in Threads
      PROVE  Busy(t)' = Busy(t) /\ Events(t)' = Events(t) /\ Current(t)' = Current(t)
  <2>1. Events(t)' = Events(t) /\ Current(t)' = Current(t)
    BY DEF Events, Current, ListenEvent, Serving
  <2> QED BY <2>1 DEF Busy
<1>2. FreeFds' = FreeFds
  BY DEF FreeFds
<1> QED
  BY <1>1, <1>2 DEF Apart, BusyApart, BusyOnce, RearmedIsThere, FreeIsNotArmed, At

(* For any number of threads: until an exception leaves addClient, an      *)
(* event that a thread has yet to look at, or looks at, is of a descriptor *)
(* in use, which is not armed and of which no other thread has an event.   *)
THEOREM EventsAreFresh == Spec => []FreshEvents
<1>1. Init => EventInv
  BY DEF Init, EventInv, Apart, BusyApart, BusyOnce, RearmedIsThere, FreeIsNotArmed, Busy,
         Events, Current, Serving, At, FreeFds
<1>2. Inv /\ Inv' /\ EventInv /\ [Next]_vars => EventInv'
  <2> SUFFICES ASSUME Inv, EventInv, [Next]_vars, ~addFailed' PROVE Apart'
    BY DEF EventInv
  <2>1. ~addFailed
    BY DEF Next, Step, EpollWait, EpollFails, Accept, AcceptFails, Register, Attach, Emplace,
           Connected, LockAdd, Assign, TakeEvent, TryTake, DataAvailable, Finish, Give, Dispose,
           Rearm, Connect, SendData, HangUp, mapVars, vars
  <2>2. Apart
    BY <2>1 DEF EventInv
  <2>3. CASE \/ UNCHANGED vars
             \/ \E c \in Conns : Connect(c) \/ SendData(c) \/ HangUp(c)
    BY <2>2, <2>3, PeerKeepsApart
    DEF vars, kernelVars, lockerVars, mapVars, localVars, Connect, SendData, HangUp
  <2>4. CASE \E t \in Threads : Step(t)
    BY <2>2, <2>4, ThreadKeepsApart
  <2> QED BY <2>3, <2>4 DEF Next
<1>3. Inv /\ EventInv => FreshEvents
  <2> SUFFICES ASSUME Inv, Apart PROVE FreshEvents
    BY DEF EventInv, FreshEvents
  <2>1. \A t \in Threads : Outstanding(t) \subseteq Busy(t)
    BY DEF Outstanding, Busy, Events, Current, Serving, At
  <2> QED BY <2>1 DEF FreshEvents, Apart, BusyApart
<1>4. Spec => []EventInv
  BY <1>1, <1>2, InvHolds, PTL DEF Spec
<1> QED BY <1>3, <1>4, InvHolds, PTL

-----------------------------------------------------------------------------
(* One thread, as main() runs the server, with listeners that let no       *)
(* exception through, a system that has no other reason to fail than a     *)
(* lack of descriptors, and a descriptor for each connection.              *)
Alone ==
  /\ \E t : Threads = {t}
  /\ SystemErrors = FALSE /\ "throw" \notin Outcomes
  /\ IsFiniteSet(Conns) /\ IsFiniteSet(Fds) /\ Cardinality(Conns) <= Cardinality(Fds)

(* The thread runs, and has a connection to accept when it is to accept.   *)
Alive ==
  /\ ~addFailed
  /\ \A t \in Threads : ~At(t, "exited") /\ (ListenEvent \in ready[t] => backlog # {})

(* The client of each event waits in its locker, which is not locked.      *)
Waiting ==
  /\ NoAbandonedLocker
  /\ \A t \in Threads :
       /\ At(t, "take") => data_[cur[t]] # None
       /\ \A e \in Events(t) : data_[e.fd] # None

(* A client has its listener from the call of connected on.                *)
Known ==
  /\ \A f \in Fds : data_[f] # None => f \in listeners /\ assoc[f] = data_[f]
  /\ \A t \in Threads :
       /\ pc[t] \in Serving => cur[t] \in listeners /\ assoc[cur[t]] = client[t]
       /\ pc[t] \in {"connected", "lockAdd", "assign"} => Id(t) \in listeners
       /\ pc[t] \in {"lockAdd", "assign"} => assoc[Id(t)] = client[t]

(* The descriptor of a client that is not done is in the interest list.    *)
Watched ==
  /\ IdleIsArmed
  /\ \A t \in Threads :
       /\ pc[t] \in Adding \ {"register"} => epoll[Id(t)] = "armed"
       /\ \A e \in Events(t) : epoll[e.fd] # "none"
       /\ pc[t] \in {"take", "serve", "give"} /\ ~shutdown[t] => epoll[cur[t]] # "none"
       /\ At(t, "finish") /\ ~shutdown[t] /\ client[t] \in Open => epoll[cur[t]] # "none"
       /\ At(t, "rearm") => epoll[cur[t]] # "none"

AloneInv == Alive /\ Waiting /\ Known /\ Watched

(* No other thread inserts a listener.                                     *)
LEMMA NobodyElse ==
  ASSUME Alone, NEW t \in Threads
  PROVE  Threads = {t} /\ ~MapBusy(t)
BY DEF Alone, MapBusy

(* There is a descriptor for a connection that has none.                   *)
LEMMA DescriptorIsLeft ==
  ASSUME Alone, Inv, backlog # {}
  PROVE  FreeFds # {}
<1> SUFFICES ASSUME FreeFds = {} PROVE FALSE
  OBVIOUS
<1>1. PICK c \in Conns : c \notin Open
  BY DEF Inv, TypeOK, Descriptors, BacklogIsUnknown
<1>2. /\ IsFiniteSet(Conns) /\ IsFiniteSet(Fds) /\ Cardinality(Conns) <= Cardinality(Fds)
      /\ Cardinality(Conns) \in Nat /\ Cardinality(Fds) \in Nat
  BY FS_CardinalityType DEF Alone
<1>3. Conns \ {c} \in SUBSET Conns /\ IsFiniteSet(Conns \ {c})
      /\ Cardinality(Conns \ {c}) = Cardinality(Conns) - 1
  BY <1>1, <1>2, FS_RemoveElement
<1> DEFINE used == {fd[d] : d \in Conns \ {c}}
<1>4. IsFiniteSet(used) /\ Cardinality(used) <= Cardinality(Conns \ {c})
  <2> DEFINE g == [d \in Conns \ {c} |-> fd[d]]
  <2>1. g \in Surjection(Conns \ {c}, used)
    BY DEF Surjection
  <2> QED BY <1>3, <2>1, FS_Surjection
<1>5. Fds \subseteq used
  <2> SUFFICES ASSUME NEW f \in Fds PROVE f \in used
    OBVIOUS
  <2>1. PICK d \in Conns : fd[d] = f
    BY DEF FreeFds
  <2> QED BY <1>1, <2>1, NoneAssumption DEF Open
<1>6. Cardinality(Fds) <= Cardinality(used)
  BY <1>4, <1>5, FS_Subset
<1> QED BY <1>2, <1>3, <1>4, <1>6, FS_CardinalityType

LEMMA EpollWaitKeepsAlone ==
  ASSUME Alone, Inv, AloneInv, NEW t \in Threads, EpollWait(t)
  PROVE  AloneInv'
<1> USE NobodyElse DEF EpollWait, At, lockerVars, mapVars, AloneInv
<1>1. PICK S \in SUBSET ReadyEvents :
        /\ ready' = [ready EXCEPT ![t] = S]
        /\ epoll' = [f \in Fds |-> IF \E e \in S : e.fd = f THEN "disarmed" ELSE epoll[f]]
  OBVIOUS
<1>2. ASSUME NEW e \in Events(t)'
      PROVE  e.fd \in Fds /\ data_[e.fd] # None /\ epoll'[e.fd] = "disarmed"
  <2>1. e \in S /\ e # ListenEvent
    BY <1>1 DEF Events, ListenEvent, Inv, TypeOK
  <2>2. PICK c \in Open : e = EventOf(c)
    BY <2>1 DEF ReadyEvents
  <2>3. e.fd = fd[c] /\ fd[c] \in Fds /\ c \in Conns /\ c # None
    BY <2>2, NoneAssumption DEF EventOf, Open, Inv, TypeOK
  <2>4. PICK f \in Fds : data_[f] = c
    BY <2>3, NobodyElse DEF Inv, Descriptors, NoDescriptorLeak, Locker!Held, Ownership,
                            HandFollowsPc, Adding, Serving
  <2>5. f = e.fd
    BY <2>3, <2>4 DEF Inv, Descriptors, ClientUnderItsDescriptor
  <2> QED BY <1>1, <2>1, <2>3, <2>4, <2>5
<1>3. Alive'
  <2>1. ListenEvent \in ready'[t] => backlog # {}
    <3> SUFFICES ASSUME ListenEvent \in S PROVE backlog # {}
      BY <1>1 DEF Inv, TypeOK
    <3>1. \A c \in Open : EventOf(c) # ListenEvent
      BY ListenFdAssumption DEF EventOf, ListenEvent, Open, Inv, TypeOK
    <3> QED BY <1>1, <3>1 DEF ReadyEvents
  <2> QED BY <2>1 DEF Alive, ListenEvent
<1>4. Waiting'
  BY <1>2 DEF Waiting, NoAbandonedLocker
<1>5. Known'
  BY DEF Known, Id, Serving
<1>6. Watched'
  <2>1. ASSUME NEW f \in Fds, data_[f] # None
        PROVE  epoll'[f] = "armed" \/ f \in Outstanding(t)'
    <3>1. epoll[f] = "armed"
      BY <2>1 DEF Watched, IdleIsArmed, Outstanding
    <3>2. CASE \E e \in S : e.fd = f
      <4>1. PICK e \in S : e.fd = f
        BY <3>2
      <4>2. e # ListenEvent
        BY <4>1, ListenFdAssumption DEF ListenEvent
      <4> QED BY <1>1, <4>1, <4>2 DEF Outstanding, ListenEvent, Inv, TypeOK
    <3> QED BY <1>1, <3>1, <3>2
  <2>2. IdleIsArmed'
    BY <2>1 DEF IdleIsArmed
  <2> QED BY <1>2, <2>2 DEF Watched, Adding
<1> QED BY <1>3, <1>4, <1>5, <1>6

(* accept() has a descriptor for the connection, and none of the clients   *)
(* the server knows changes.                                               *)
LEMMA AcceptKeepsAlone ==
  ASSUME Alone, Inv, AloneInv, NEW t \in Threads, Accept(t)
  PROVE  AloneInv'
<1> USE NobodyElse DEF Accept, At, Goto, mapVars, AloneInv
<1>1. PICK l \in {"loop", "register"} : pc' = [pc EXCEPT ![t] = l]
  BY DEF Inv, TypeOK
<1>2. /\ UNCHANGED <<lock_, data_, cur, epoll, listeners, assoc, addFailed>>
      /\ ready' = [ready EXCEPT ![t] = @ \ {ListenEvent}] /\ pc[t] = "loop"
  BY DEF lockerVars, Locker!Obtain
<1>3. Events(t)' = Events(t) /\ ListenEvent \notin ready'[t]
  BY <1>2 DEF Events, ListenEvent, Inv, TypeOK
<1>4. Outstanding(t)' = Outstanding(t)
  BY <1>1, <1>2 DEF Outstanding, ListenEvent, Inv, TypeOK
<1>5. Alive'
  BY <1>1, <1>2, <1>3 DEF Alive, Inv, TypeOK, ListenEvent
<1>6. Waiting'
  BY <1>1, <1>2, <1>3 DEF Waiting, NoAbandonedLocker, Inv, TypeOK, Serving
<1>7. Known'
  BY <1>1, <1>2 DEF Known, Inv, TypeOK, Serving
<1>8. Watched'
  BY <1>1, <1>2, <1>3, <1>4 DEF Watched, IdleIsArmed, Inv, TypeOK, Serving, Adding
<1> QED BY <1>5, <1>6, <1>7, <1>8

(* The steps of addClient, in their order.                                 *)
LEMMA AddingKeepsAlone ==
  ASSUME Alone, Inv, AloneInv, NEW t \in Threads,
         Register(t) \/ Attach(t) \/ Emplace(t) \/ LockAdd(t)
  PROVE  AloneInv'
<1> USE NobodyElse DEF AloneInv
<1>1. client[t] \in Conns /\ Id(t) \in Fds
  BY IdType DEF Register, Attach, Emplace, LockAdd, Adding, At
<1>2. PICK l \in {"attach", "emplace", "connected", "lockAdd", "assign"} :
        pc' = [pc EXCEPT ![t] = l] /\ (l # "attach" => epoll' = epoll /\ ~At(t, "register"))
        /\ (l = "attach" => epoll' = [epoll EXCEPT ![Id(t)] = "armed"])
        /\ (l = "lockAdd" => FALSE) /\ (l = "connected" => Id(t) \in listeners')
        /\ (l = "assign" => At(t, "lockAdd"))
  BY DEF Register, Attach, Emplace, LockAdd, At, Goto, kernelVars, mapVars, Inv, TypeOK
<1>3. /\ UNCHANGED <<lock_, data_, client, cur, ready, shutdown, fd, backlog, assoc, addFailed>>
      /\ listeners \subseteq listeners' /\ pc[t] \in Adding
  BY DEF Register, Attach, Emplace, LockAdd, At, Adding, kernelVars, mapVars, lockerVars,
         localVars
<1>4. Id(t)' = Id(t) /\ Events(t)' = Events(t) /\ Outstanding(t) \subseteq Outstanding(t)'
  BY <1>2, <1>3 DEF Id, Events, Outstanding, ListenEvent, At, Adding
<1>5. Alive'
  BY <1>2, <1>3 DEF Alive, ListenEvent, At, Inv, TypeOK
<1>6. Waiting'
  BY <1>2, <1>3, <1>4 DEF Waiting, NoAbandonedLocker, At, Adding, Serving, Inv, TypeOK
<1>7. Known'
  BY <1>2, <1>3, <1>4 DEF Known, At, Serving, Inv, TypeOK
<1>8. Watched'
  <2>1. \A f \in Fds : epoll'[f] = epoll[f] \/ epoll'[f] = "armed"
    BY <1>2 DEF Inv, TypeOK
  <2>2. IdleIsArmed'
    BY <1>2, <1>3, <1>4, <2>1 DEF Watched, IdleIsArmed, At, Adding
  <2>3. epoll'[Id(t)] = "armed"
    BY <1>1, <1>2, <1>3 DEF Watched, At, Inv, TypeOK
  <2>4. \A e \in Events(t) : e.fd \in Fds
    BY DEF Events, Inv, TypeOK, ClientEvent
  <2> QED
    BY <1>2, <1>3, <1>4, <2>1, <2>2, <2>3, <2>4 DEF Watched, At, Adding, Inv, TypeOK
<1> QED BY <1>5, <1>6, <1>7, <1>8

LEMMA ConnectedKeepsAlone ==
  ASSUME Alone, Inv, AloneInv, NEW t \in Threads, Connected(t)
  PROVE  AloneInv'
<1> USE NobodyElse DEF AloneInv, Connected, At, Goto
<1>1. client[t] \in Conns /\ Id(t) \in Fds /\ client[t] \in Open
  BY IdType DEF Adding, Inv, Descriptors, AddedIsOpen
<1>2. /\ assoc' = [assoc EXCEPT ![Id(t)] = client[t]] /\ pc' = [pc EXCEPT ![t] = "lockAdd"]
      /\ Id(t) \in listeners
      /\ UNCHANGED <<kernelVars, clientsLock, lockerVars, listeners, addFailed, localVars>>
  BY DEF Known, AtThrows, Alone, AtFinds
<1>3. data_[Id(t)] = None
  BY <1>1, NoneAssumption DEF Inv, TypeOK, Locker!TypeOK, Descriptors, ClientUnderItsDescriptor,
         OneClientPerDescriptor, Open, Id, Ownership, OneOwner, Locker!OneOwner
<1>4. Id(t)' = Id(t) /\ Events(t)' = Events(t) /\ Outstanding(t)' = Outstanding(t)
  BY <1>2 DEF Id, Events, Outstanding, ListenEvent, kernelVars, lockerVars, localVars, Inv, TypeOK
<1> USE <1>1, <1>2, <1>3, <1>4 DEF kernelVars, lockerVars, localVars, Inv, TypeOK
<1>5. Alive'
  BY DEF Alive, ListenEvent
<1>6. Waiting'
  BY DEF Waiting, NoAbandonedLocker, Serving
<1>7. Known'
  BY DEF Known, Serving
<1>8. Watched'
  BY DEF Watched, IdleIsArmed, Adding
<1> QED BY <1>5, <1>6, <1>7, <1>8

(* clients_[id] = move(client): an armed client, known to its listener.    *)
LEMMA AssignKeepsAlone ==
  ASSUME Alone, Inv, AloneInv, NEW t \in Threads, Assign(t)
  PROVE  AloneInv'
<1> USE NobodyElse DEF AloneInv, Assign, Locker!Assign, At, Goto
<1>1. client[t] \in Conns /\ Id(t) \in Fds
  BY IdType DEF Adding
<1>2. Events(t)' = Events(t) /\ Outstanding(t)' = Outstanding(t)
  BY DEF Events, Outstanding, ListenEvent, localVars, Inv, TypeOK
<1>3. /\ \A f \in Fds : data_'[f] = IF f = Id(t) THEN client[t] ELSE data_[f]
      /\ pc'[t] = "loop"
  BY DEF Inv, TypeOK, Locker!TypeOK
<1> USE <1>1, <1>2, <1>3 DEF kernelVars, mapVars, localVars
<1>4. Alive'
  BY DEF Alive, ListenEvent
<1>5. Waiting'
  <2>1. \A e \in Events(t) : e.fd \in Fds
    BY DEF Events, Inv, TypeOK, ClientEvent
  <2> QED BY <2>1, NoneAssumption DEF Waiting, NoAbandonedLocker, Serving, Inv, TypeOK
<1>6. Known'
  BY DEF Known, Serving
<1>7. Watched'
  BY DEF Watched, IdleIsArmed, Adding
<1> QED BY <1>4, <1>5, <1>6, <1>7

(* EPOLL_CTL_DEL finds the client in the interest list, and takes no other *)
(* client of the batch out of it.                                          *)
LEMMA TakeEventKeepsAlone ==
  ASSUME Alone, Inv, Apart, AloneInv, NEW t \in Threads, TakeEvent(t)
  PROVE  AloneInv'
<1> USE NobodyElse DEF AloneInv, At
<1>1. PICK e \in Events(t) :
        /\ ready' = [ready EXCEPT ![t] = @ \ {e}]
        /\ cur' = [cur EXCEPT ![t] = e.fd]
        /\ shutdown' = [shutdown EXCEPT ![t] = e.rdhup]
        /\ epoll' = [epoll EXCEPT ![e.fd] = IF e.rdhup THEN "none" ELSE @]
        /\ pc[t] = "loop" /\ pc' = [pc EXCEPT ![t] = "take"]
        /\ UNCHANGED <<backlog, fd, inbox, hup, clientsLock, lockerVars, mapVars>>
  BY DEF TakeEvent, Goto, Events, Watched, mapVars
<1>2. /\ \A g \in Events(t) : g.fd \in Fds /\ (g # e => g.fd # e.fd)
      /\ e \in ready[t] \ {ListenEvent}
  BY DEF Events, Inv, TypeOK, ClientEvent, Apart, BusyOnce
<1>3. Events(t)' = Events(t) \ {e} /\ Outstanding(t) \subseteq Outstanding(t)'
  <2>1. ready'[t] = ready[t] \ {e} /\ pc'[t] = "take" /\ cur'[t] = e.fd /\ pc[t] = "loop"
    BY <1>1 DEF Inv, TypeOK
  <2> QED BY <2>1 DEF Events, Outstanding, ListenEvent
<1>4. e.fd \in Outstanding(t)'
  BY <1>1 DEF Outstanding, Inv, TypeOK
<1>5. Alive'
  <2>1. pc'[t] # "exited" /\ ready'[t] \subseteq ready[t] /\ UNCHANGED <<backlog, addFailed>>
    BY <1>1 DEF mapVars, Inv, TypeOK
  <2> QED BY <2>1 DEF Alive, ListenEvent
<1> USE <1>1, <1>2, <1>3, <1>4 DEF lockerVars, mapVars, Inv, TypeOK
<1>6. Waiting'
  BY DEF Waiting, NoAbandonedLocker, Serving
<1>7. Known'
  BY DEF Known, Serving
<1>8. Watched'
  <2>1. \A f \in Fds : f # e.fd => epoll'[f] = epoll[f]
    OBVIOUS
  <2>2. IdleIsArmed'
    BY <2>1 DEF Watched, IdleIsArmed
  <2>3. ~shutdown'[t] => epoll'[cur'[t]] # "none"
    BY DEF Watched
  <2>4. \A g \in Events(t)' : epoll'[g.fd] # "none"
    BY <2>1 DEF Watched
  <2> QED BY <2>2, <2>3, <2>4 DEF Watched, Adding
<1> QED BY <1>5, <1>6, <1>7, <1>8

(* try_take finds the client.                                              *)
LEMMA TryTakeKeepsAlone ==
  ASSUME Alone, Inv, Apart, AloneInv, NEW t \in Threads, TryTake(t)
  PROVE  AloneInv'
<1> USE NobodyElse DEF AloneInv, TryTake, At, Goto
<1>1. cur[t] \in Fds /\ data_[cur[t]] # None /\ lock_[cur[t]] = None /\ client[t] = None
  BY DEF Waiting, NoAbandonedLocker, Serving, Adding, Inv, TypeOK, Locker!TypeOK, Ownership,
         CurIsSet, HandFollowsPc
<1>2. /\ Locker!Take(t, cur[t]) /\ client'[t] = data_[cur[t]]
      /\ pc' = [pc EXCEPT ![t] = "serve"]
      /\ UNCHANGED <<kernelVars, clientsLock, mapVars, localVars>>
  BY <1>1 DEF Locker!TryTake, Locker!Take, Inv, TypeOK, Locker!TypeOK
<1>3. /\ \A f \in Fds : data_'[f] = IF f = cur[t] THEN None ELSE data_[f]
      /\ \A f \in Fds : lock_'[f] = IF f = cur[t] THEN t ELSE lock_[f]
  BY <1>2 DEF Locker!Take, Inv, TypeOK, Locker!TypeOK
<1>4. /\ Events(t)' = Events(t) /\ Outstanding(t) \subseteq Outstanding(t)' \cup {cur[t]}
      /\ \A e \in Events(t) : e.fd \in Fds /\ e.fd # cur[t]
  BY <1>2 DEF Events, Outstanding, ListenEvent, Current, Serving, Apart, BusyOnce, localVars,
              Inv, TypeOK, ClientEvent
<1> USE <1>1, <1>2, <1>3, <1>4
<1>5. Alive'
  <2>1. pc'[t] # "exited" /\ UNCHANGED <<backlog, ready, addFailed>>
    BY DEF kernelVars, mapVars, localVars, Inv, TypeOK
  <2> QED BY <2>1 DEF Alive, ListenEvent
<1>6. Waiting'
  BY DEF Waiting, NoAbandonedLocker, Serving, localVars, Inv, TypeOK
<1>7. Known'
  BY DEF Known, Serving, mapVars, localVars, Inv, TypeOK
<1>8. Watched'
  BY DEF Watched, IdleIsArmed, Adding, kernelVars, localVars, Inv, TypeOK
<1> QED BY <1>5, <1>6, <1>7, <1>8

(* The listener is there and lets nothing through.  If it closes the       *)
(* socket, only the descriptor of the client leaves the interest list.     *)
LEMMA DataAvailableKeepsAlone ==
  ASSUME Alone, Inv, Apart, AloneInv, NEW t \in Threads, DataAvailable(t)
  PROVE  AloneInv'
<1> USE NobodyElse DEF AloneInv, At
<1>1. /\ pc[t] = "serve" /\ pc' = [pc EXCEPT ![t] = "finish"]
      /\ UNCHANGED <<clientsLock, lockerVars, listeners, assoc, localVars, addFailed>>
      /\ UNCHANGED <<backlog, fd, hup, epoll>> \/ Close(client[t])
  BY DEF DataAvailable, Goto, Known, AtThrows, AtFinds, Alone, Serving
<1>2. /\ cur[t] \in Fds /\ client[t] \in Conns /\ client[t] # None /\ lock_[cur[t]] = t
      /\ client[t] \in Open => fd[client[t]] = cur[t]
  BY <1>1 DEF Serving, Inv, TypeOK, Locker!TypeOK, Ownership, CurIsSet, ServingOwnsLocker,
              Descriptors, ServedUnderCur
<1>3. data_[cur[t]] = None
  BY <1>2, NoneAssumption DEF Inv, Ownership, LockedIsEmpty, Locker!LockedIsEmpty
<1>4. /\ backlog' = backlog
      /\ \A f \in Fds : f # cur[t] => epoll'[f] = epoll[f]
      /\ epoll'[cur[t]] = epoll[cur[t]] \/ client[t] \notin Open'
  <2>1. CASE Close(client[t]) /\ client[t] \in Open
    <3>1. /\ epoll' = [epoll EXCEPT ![cur[t]] = "none"] /\ fd' = [fd EXCEPT ![client[t]] = None]
          /\ backlog' = backlog
      BY <1>2, <2>1 DEF Close
    <3> QED BY <1>2, <3>1 DEF Open, Inv, TypeOK
  <2>2. CASE ~(Close(client[t]) /\ client[t] \in Open)
    BY <1>1, <2>2 DEF Close, kernelVars
  <2> QED BY <2>1, <2>2
<1>5. /\ Events(t)' = Events(t) /\ Outstanding(t)' = Outstanding(t)
      /\ \A e \in Events(t) : e.fd \in Fds
  BY <1>1 DEF Events, Outstanding, ListenEvent, localVars, Inv, TypeOK, ClientEvent
<1>6. \A e \in Events(t) : e.fd # cur[t]
  BY <1>3 DEF Waiting
<1>7. Alive'
  <2>1. pc'[t] # "exited" /\ UNCHANGED <<backlog, ready, addFailed>>
    BY <1>1, <1>4 DEF localVars, Inv, TypeOK
  <2> QED BY <2>1 DEF Alive, ListenEvent
<1> USE <1>1, <1>2, <1>3, <1>4, <1>5, <1>6 DEF lockerVars, localVars, Inv, TypeOK
<1>8. Waiting'
  BY DEF Waiting, NoAbandonedLocker, Serving
<1>9. Known'
  BY DEF Known, Serving
<1>10. Watched'
  BY DEF Watched, IdleIsArmed, Adding
<1> QED BY <1>7, <1>8, <1>9, <1>10

(* isInvalid() finds out about a socket the listener closed.               *)
LEMMA FinishKeepsAlone ==
  ASSUME Alone, Inv, AloneInv, NEW t \in Threads, Finish(t)
  PROVE  AloneInv'
<1> USE NobodyElse DEF AloneInv, At
<1> DEFINE ends == shutdown[t] \/ client[t] \notin Open
<1>1. /\ pc[t] = "finish" /\ pc' = [pc EXCEPT ![t] = "give"]
      /\ shutdown' = [shutdown EXCEPT ![t] = ends]
      /\ UNCHANGED <<kernelVars, clientsLock, lockerVars, mapVars, ready, cur>>
  BY DEF Finish, Goto, Known, AtThrows, AtFinds, Serving, mapVars
<1>2. Events(t)' = Events(t) /\ Outstanding(t)' = Outstanding(t)
  BY <1>1 DEF Events, Outstanding, ListenEvent, Inv, TypeOK
<1>3. pc'[t] = "give" /\ (~shutdown'[t] => ~shutdown[t] /\ client[t] \in Open)
  <2>1. ends \in BOOLEAN
    BY DEF Inv, TypeOK, Open
  <2> QED BY <1>1, <2>1 DEF Inv, TypeOK
<1> HIDE DEF ends
<1>4. Alive'
  <2>1. UNCHANGED <<backlog, ready, addFailed>>
    BY <1>1 DEF kernelVars, mapVars
  <2> QED BY <1>3, <2>1 DEF Alive, ListenEvent
<1>5. Waiting'
  BY <1>1, <1>2, <1>3 DEF Waiting, NoAbandonedLocker, Serving, lockerVars
<1>6. Known'
  BY <1>1, <1>3 DEF Known, Serving, lockerVars, mapVars
<1>7. Watched'
  BY <1>1, <1>2, <1>3 DEF Watched, IdleIsArmed, Adding, lockerVars, kernelVars
<1> QED BY <1>4, <1>5, <1>6, <1>7

(* The locker is unlocked: with the client, which is about to be armed, or *)
(* with nothing.                                                           *)
LEMMA GiveKeepsAlone ==
  ASSUME Alone, Inv, AloneInv, NEW t \in Threads, Give(t)
  PROVE  AloneInv'
<1> USE NobodyElse DEF AloneInv, At
<1>1. /\ pc[t] = "give" /\ UNCHANGED <<kernelVars, clientsLock, mapVars, localVars>>
      /\ IF shutdown[t]
           THEN Locker!Reset(t, cur[t]) /\ pc' = [pc EXCEPT ![t] = "dispose"]
           ELSE Locker!Yield(t, cur[t]) /\ pc' = [pc EXCEPT ![t] = "rearm"]
  BY DEF Give, Goto
<1>2. cur[t] \in Fds /\ cur[t] \in listeners /\ assoc[cur[t]] = client[t]
  BY <1>1 DEF Inv, Ownership, CurIsSet, Serving, Known
<1>3. /\ pc'[t] = IF shutdown[t] THEN "dispose" ELSE "rearm"
      /\ \A f \in Fds : lock_'[f] = IF f = cur[t] THEN None ELSE lock_[f]
      /\ \A f \in Fds : data_'[f] = IF f # cur[t] THEN data_[f]
                                    ELSE IF shutdown[t] THEN None ELSE client[t]
  BY <1>1, <1>2 DEF Locker!Reset, Locker!Yield, Inv, TypeOK, Locker!TypeOK
<1>4. /\ Events(t)' = Events(t) /\ Outstanding(t)' = Outstanding(t)
      /\ \A e \in Events(t) : e.fd \in Fds
  BY <1>1, <1>3 DEF Events, Outstanding, ListenEvent, localVars, Inv, TypeOK, ClientEvent
<1>5. lock_[cur[t]] = t /\ data_[cur[t]] = None
  BY <1>1, <1>2, NoneAssumption DEF Inv, Ownership, ServingOwnsLocker, Serving, LockedIsEmpty,
                                    Locker!LockedIsEmpty
<1>6. Alive'
  <2>1. UNCHANGED <<backlog, ready, addFailed>>
    BY <1>1 DEF kernelVars, mapVars, localVars
  <2> QED BY <1>3, <2>1 DEF Alive, ListenEvent
<1>7. Waiting'
  <2>1. \A f \in Fds : lock_'[f] = None
    BY <1>1, <1>3 DEF Waiting, NoAbandonedLocker, Inv, TypeOK, Locker!TypeOK
  <2>2. \A e \in Events(t) : e.fd # cur[t] /\ data_[e.fd] # None
    BY <1>5 DEF Waiting
  <2> QED BY <1>3, <1>4, <2>1, <2>2 DEF Waiting, NoAbandonedLocker
<1>8. Known'
  BY <1>1, <1>2, <1>3 DEF Known, Serving, mapVars
<1>9. Watched'
  <2>1. UNCHANGED <<epoll, cur>>
    BY <1>1 DEF kernelVars, localVars
  <2>2. IdleIsArmed'
    BY <1>1, <1>3, <1>4, <2>1 DEF Watched, IdleIsArmed
  <2> QED BY <1>1, <1>3, <1>4, <2>1, <2>2 DEF Watched, Adding
<1> QED BY <1>6, <1>7, <1>8, <1>9

(* No client in the map has the descriptor of one that is destroyed.       *)
LEMMA DisposeKeepsAlone ==
  ASSUME Alone, Inv, AloneInv, NEW t \in Threads, Dispose(t)
  PROVE  AloneInv'
<1> USE NobodyElse DEF AloneInv, At
<1>1. /\ pc[t] = "dispose" /\ pc' = [pc EXCEPT ![t] = "loop"]
      /\ UNCHANGED <<clientsLock, mapVars, localVars, lock_, data_>>
      /\ client[t] # None /\ client[t] \in Conns /\ Close(client[t])
  BY DEF Dispose, DropClient, Locker!Drop, Goto, Inv, TypeOK, Locker!TypeOK, Ownership,
         HandFollowsPc
<1>2. backlog' = backlog /\ \A f \in Fds : epoll'[f] = epoll[f] \/ data_[f] = None
  <2>1. CASE client[t] \notin Open
    BY <1>1, <2>1 DEF Close, kernelVars
  <2>2. CASE client[t] \in Open
    <3>1. data_[fd[client[t]]] = None
      <4>1. fd[client[t]] \in Fds
        BY <2>2 DEF Open, Inv, TypeOK
      <4>2. data_[fd[client[t]]] \in Conns \cup {None}
        BY <4>1 DEF Inv, TypeOK, Locker!TypeOK
      <4> QED
        BY <1>1, <2>2, <4>1, <4>2, NoneAssumption
        DEF Inv, Descriptors, ClientUnderItsDescriptor, OneClientPerDescriptor, Open,
            Ownership, OneOwner, Locker!OneOwner
    <3>2. epoll' = [epoll EXCEPT ![fd[client[t]]] = "none"] /\ backlog' = backlog
      BY <1>1, <2>2 DEF Close
    <3> QED BY <3>1, <3>2 DEF Inv, TypeOK
  <2> QED BY <2>1, <2>2
<1>3. /\ Events(t)' = Events(t) /\ Outstanding(t)' = Outstanding(t) /\ pc'[t] = "loop"
      /\ \A e \in Events(t) : e.fd \in Fds /\ data_[e.fd] # None
  BY <1>1 DEF Events, Outstanding, ListenEvent, localVars, Inv, TypeOK, ClientEvent, Waiting
<1>4. Alive'
  <2>1. UNCHANGED <<ready, addFailed>>
    BY <1>1 DEF mapVars, localVars
  <2> QED BY <1>2, <1>3, <2>1 DEF Alive, ListenEvent
<1>5. Waiting'
  <2>1. \A f \in Fds : lock_[f] = None
    BY <1>1 DEF Waiting, NoAbandonedLocker, Serving, Inv, TypeOK, Locker!TypeOK
  <2> QED BY <1>1, <1>3, <2>1 DEF Waiting, NoAbandonedLocker, lockerVars
<1>6. Known'
  BY <1>1, <1>3 DEF Known, Serving, mapVars
<1>7. Watched'
  BY <1>1, <1>2, <1>3 DEF Watched, IdleIsArmed, Adding
<1> QED BY <1>4, <1>5, <1>6, <1>7

(* EPOLL_CTL_MOD finds the client in the interest list.                    *)
LEMMA RearmKeepsAlone ==
  ASSUME Alone, Inv, AloneInv, NEW t \in Threads, Rearm(t)
  PROVE  AloneInv'
<1> USE NobodyElse DEF AloneInv, At
<1>1. /\ pc[t] = "rearm" /\ pc' = [pc EXCEPT ![t] = "loop"]
      /\ epoll' = [epoll EXCEPT ![cur[t]] = "armed"] /\ cur[t] \in Fds
      /\ UNCHANGED <<backlog, fd, inbox, hup, clientsLock, lockerVars, mapVars, localVars>>
  BY DEF Rearm, Goto, Watched, mapVars, Inv, Ownership, CurIsSet
<1>2. /\ Events(t)' = Events(t) /\ Outstanding(t)' = Outstanding(t) /\ pc'[t] = "loop"
      /\ \A e \in Events(t) : e.fd \in Fds
  BY <1>1 DEF Events, Outstanding, ListenEvent, localVars, Inv, TypeOK, ClientEvent
<1>3. \A f \in Fds : epoll'[f] = IF f = cur[t] THEN "armed" ELSE epoll[f]
  BY <1>1 DEF Inv, TypeOK
<1>4. Alive'
  <2>1. UNCHANGED <<backlog, ready, addFailed>>
    BY <1>1 DEF mapVars, localVars
  <2> QED BY <1>2, <2>1 DEF Alive, ListenEvent
<1>5. Waiting'
  <2>1. \A f \in Fds : lock_[f] = None
    BY <1>1 DEF Waiting, NoAbandonedLocker, Serving, Inv, TypeOK, Locker!TypeOK
  <2> QED BY <1>1, <1>2, <2>1 DEF Waiting, NoAbandonedLocker, lockerVars
<1>6. Known'
  BY <1>1, <1>2 DEF Known, Serving, lockerVars, mapVars
<1>7. Watched'
  BY <1>1, <1>2, <1>3 DEF Watched, IdleIsArmed, Adding, lockerVars
<1> QED BY <1>4, <1>5, <1>6, <1>7

(* A connection opened anew is of no listener yet, and in no locker.       *)
LEMMA PeerKeepsAlone ==
  ASSUME Alone, Inv, AloneInv, NEW c \in Conns, Connect(c) \/ SendData(c) \/ HangUp(c)
  PROVE  AloneInv'
<1>1. /\ UNCHANGED <<fd, epoll, lockerVars, listeners, addFailed, localVars, pc>>
      /\ backlog # {} => backlog' # {}
  BY DEF Connect, SendData, HangUp, mapVars
<1>2. \A f \in Fds : assoc'[f] = assoc[f] \/ (assoc[f] = c /\ c \notin Open \cup Locker!Held)
  BY DEF Connect, SendData, HangUp, mapVars
<1>3. Alive'
  <2>1. UNCHANGED <<ready, addFailed, pc>>
    BY <1>1 DEF localVars
  <2>2. ~addFailed /\ \A t \in Threads : pc[t] # "exited" /\ (ListenEvent \in ready[t] => backlog # {})
    BY DEF AloneInv, Alive, At
  <2>3. ASSUME NEW t \in Threads, (ListenEvent \in ready[t])' PROVE backlog' # {}
    BY <1>1, <2>1, <2>2, <2>3 DEF ListenEvent
  <2> QED BY <2>1, <2>2, <2>3 DEF Alive, At
<1>4. Waiting'
  BY <1>1 DEF AloneInv, Waiting, NoAbandonedLocker, Events, ListenEvent, At, Serving, lockerVars,
              localVars
<1>5. Known'
  <2>1. \A f \in Fds : data_[f] # None => assoc'[f] = data_[f]
    BY <1>2 DEF AloneInv, Known, Locker!Held
  <2>2. ASSUME NEW t \in Threads, pc[t] \in Serving PROVE assoc'[cur[t]] = client[t]
    BY <1>2, <2>2 DEF AloneInv, Known, Locker!Held, Inv, Ownership, CurIsSet
  <2>3. ASSUME NEW t \in Threads, pc[t] \in {"lockAdd", "assign"}
        PROVE  assoc'[Id(t)] = client[t]
    BY <1>2, <2>3, IdType DEF AloneInv, Known, Locker!Held, Adding
  <2> QED
    BY <1>1, <2>1, <2>2, <2>3 DEF AloneInv, Known, Id, Serving, lockerVars, localVars
<1>6. Watched'
  <2>1. UNCHANGED <<fd, epoll, data_, client, ready, cur, shutdown, pc>>
    BY <1>1 DEF lockerVars, localVars
  <2>2. \A t \in Threads : /\ Outstanding(t)' = Outstanding(t) /\ Events(t)' = Events(t)
                           /\ Id(t)' = Id(t)
    BY <2>1 DEF Outstanding, Events, ListenEvent, At, Id
  <2>3. Open' = Open
    BY <2>1 DEF Open
  <2> QED BY <2>1, <2>2, <2>3 DEF AloneInv, Watched, IdleIsArmed, At, Adding
<1> QED BY <1>3, <1>4, <1>5, <1>6 DEF AloneInv

LEMMA ThreadKeepsAlone ==
  ASSUME Alone, Inv, Apart, AloneInv, NEW t \in Threads, Step(t)
  PROVE  AloneInv'
<1>1. ~EpollFails(t)
  BY DEF EpollFails, Alone
<1>2. ~AcceptFails(t)
  BY DescriptorIsLeft DEF AcceptFails, Alone, AloneInv, Alive
<1> QED
  BY <1>1, <1>2, EpollWaitKeepsAlone, AcceptKeepsAlone, AddingKeepsAlone, ConnectedKeepsAlone,
     AssignKeepsAlone, TakeEventKeepsAlone, TryTakeKeepsAlone, DataAvailableKeepsAlone,
     FinishKeepsAlone, GiveKeepsAlone, DisposeKeepsAlone, RearmKeepsAlone DEF Step

(* With one thread, whatever the number of connections and descriptors,    *)
(* the invariants of that thread hold.                                     *)
THEOREM AloneInvHolds ==
  ASSUME Alone
  PROVE  Spec => [](Inv /\ Apart /\ AloneInv)
<1>1. Init => Apart /\ AloneInv
  <2> SUFFICES ASSUME Init PROVE Apart /\ AloneInv
    OBVIOUS
  <2>1. Apart
    BY DEF Init, Apart, BusyApart, BusyOnce, RearmedIsThere, FreeIsNotArmed, Busy, Events,
           Current, Serving, At, FreeFds
  <2>2. AloneInv
    BY DEF Init, Locker!Init, AloneInv, Alive, Waiting, NoAbandonedLocker, Known, Watched,
           IdleIsArmed, Events, Adding, Serving, At
  <2> QED BY <2>1, <2>2
<1>2. (Inv /\ Apart /\ AloneInv) /\ Inv' /\ [Next]_vars => Apart' /\ AloneInv'
  <2> SUFFICES ASSUME Inv, Apart, AloneInv, Inv', [Next]_vars PROVE Apart' /\ AloneInv'
    OBVIOUS
  <2>1. CASE \E t \in Threads : Step(t)
    <3>1. AloneInv'
      BY <2>1, ThreadKeepsAlone
    <3>2. ~addFailed'
      BY <3>1 DEF AloneInv, Alive
    <3> QED BY <2>1, <3>1, <3>2, ThreadKeepsApart
  <2>2. CASE \E c \in Conns : Connect(c) \/ SendData(c) \/ HangUp(c)
    <3>1. Apart'
      BY <2>2, PeerKeepsApart DEF Connect, SendData, HangUp, lockerVars, localVars
    <3> QED BY <2>2, <3>1, PeerKeepsAlone
  <2>3. CASE UNCHANGED vars
    <3>1. Apart'
      BY <2>3, PeerKeepsApart DEF vars, kernelVars, lockerVars, localVars
    <3> USE <2>3 DEF vars, kernelVars, lockerVars, mapVars, localVars, AloneInv, At
    <3>2. /\ Open' = Open
          /\ \A t \in Threads : /\ Outstanding(t)' = Outstanding(t) /\ Events(t)' = Events(t)
                                /\ Id(t)' = Id(t)
      BY DEF Open, Outstanding, Events, ListenEvent, Id
    <3>3. Alive'
      BY DEF Alive, ListenEvent
    <3>4. Waiting'
      BY <3>2 DEF Waiting, NoAbandonedLocker, Serving
    <3>5. Known'
      BY <3>2 DEF Known, Serving
    <3>6. Watched'
      BY <3>2 DEF Watched, IdleIsArmed, Adding
    <3> QED BY <3>1, <3>3, <3>4, <3>5, <3>6
  <2> QED BY <2>1, <2>2, <2>3 DEF Next
<1> QED BY <1>1, <1>2, InvHolds, PTL DEF Spec

(* From try_take to yield the listener of the descriptor is the one of the *)
(* client that was taken.                                                  *)
THEOREM ListenersServeTheirClients ==
  ASSUME Alone
  PROVE  Spec => []ListenerServesItsClient
<1>1. AloneInv => ListenerServesItsClient
  BY DEF AloneInv, Known, ListenerServesItsClient
<1> QED BY <1>1, AloneInvHolds, PTL

(* An event finds its client in the map, and nobody else at it.            *)
THEOREM EventsFindTheirClients ==
  ASSUME Alone
  PROVE  Spec => []EventFindsClient
<1>1. Inv /\ AloneInv => EventFindsClient
  <2> SUFFICES ASSUME Inv, AloneInv, NEW t \in Threads, At(t, "take")
               PROVE  lock_[cur[t]] = None /\ \E c \in Conns : data_[cur[t]] = c /\ fd[c] = cur[t]
    BY DEF EventFindsClient
  <2>1. cur[t] \in Fds /\ data_[cur[t]] \in Conns
    BY DEF At, Inv, TypeOK, Locker!TypeOK, Ownership, CurIsSet, AloneInv, Waiting
  <2>2. lock_[cur[t]] = None
    <3>1. pc[t] \notin Serving /\ lock_[cur[t]] \in {t, None}
      BY <2>1, NobodyElse DEF At, Serving, Inv, TypeOK, Locker!TypeOK
    <3> QED BY <2>1, <3>1 DEF AloneInv, Waiting, NoAbandonedLocker
  <2> QED BY <2>1, <2>2 DEF Inv, Descriptors, ClientUnderItsDescriptor
<1> QED BY <1>1, AloneInvHolds, PTL

(* A client that waits in the map with nobody about to process it is armed.*)
THEOREM IdleClientsAreArmed ==
  ASSUME Alone
  PROVE  Spec => []IdleIsArmed
<1>1. AloneInv => IdleIsArmed
  BY DEF AloneInv, Watched
<1> QED BY <1>1, AloneInvHolds, PTL

(* run() never ends by an exception.                                       *)
THEOREM RunGoesOn ==
  ASSUME Alone
  PROVE  Spec => []KeepsRunning
<1>1. AloneInv => KeepsRunning
  BY DEF AloneInv, Alive, KeepsRunning
<1> QED BY <1>1, AloneInvHolds, PTL

(* No locker is left locked.                                               *)
THEOREM NoLockerIsAbandoned ==
  ASSUME Alone
  PROVE  Spec => []NoAbandonedLocker
<1>1. AloneInv => NoAbandonedLocker
  BY DEF AloneInv, Waiting
<1> QED BY <1>1, AloneInvHolds, PTL

(* The thread keeps to the documented use of the lockers.                  *)
LEMMA StepKeepsContract ==
  ASSUME Alone, Inv, AloneInv, NEW t \in Threads, Step(t)
  PROVE  [Locker!Next]_lockerVars
<1>1. CASE Accept(t) \/ Dispose(t) \/ Exit(t) \/ AcceptFails(t) \/ EpollFails(t)
  <2>1. CASE \E c \in Conns : Locker!Obtain(t, c)
    BY <2>1 DEF Locker!Next
  <2>2. CASE Locker!Drop(t)
    BY <2>2 DEF Locker!Next
  <2> QED
    BY <1>1, <2>1, <2>2
    DEF Accept, Dispose, Exit, DropClient, AcceptFails, EpollFails, Inv, TypeOK
<1>2. CASE Assign(t)
  BY <1>2, IdType DEF Assign, At, Adding, Locker!Next
<1>3. CASE TryTake(t)
  <2>1. client[t] = None /\ cur[t] \in Fds /\ pc[t] \notin Serving
    BY <1>3 DEF TryTake, At, Inv, Ownership, HandFollowsPc, CurIsSet, Adding, Serving
  <2>2. lock_[cur[t]] # t
    BY <2>1, NoneAssumption DEF AloneInv, Waiting, NoAbandonedLocker
  <2> QED BY <1>3, <2>1, <2>2 DEF TryTake, Locker!Next
<1>4. CASE Give(t)
  <2>1. cur[t] \in Fds /\ lock_[cur[t]] = t
    BY <1>4 DEF Give, At, Inv, Ownership, CurIsSet, ServingOwnsLocker, Serving
  <2> QED BY <1>4, <2>1 DEF Give, Locker!Next
<1>5. CASE UNCHANGED lockerVars
  BY <1>5
<1> QED
  BY <1>1, <1>2, <1>3, <1>4, <1>5
  DEF Step, EpollWait, Register, Attach, Emplace, Connected, LockAdd, TakeEvent, DataAvailable,
      Finish, Rearm

THEOREM LockersAreUsedAsDocumented ==
  ASSUME Alone
  PROVE  Spec => LockerContract
<1>1. Init => Locker!Init
  BY DEF Init
<1>2. Inv /\ AloneInv /\ [Next]_vars => [Locker!Next]_Locker!vars
  <2> SUFFICES ASSUME Inv, AloneInv, [Next]_vars PROVE [Locker!Next]_lockerVars
    BY DEF Locker!vars, lockerVars
  <2>1. CASE \E t \in Threads : Step(t)
    BY <2>1, StepKeepsContract
  <2>2. CASE \E c \in Conns : Connect(c) \/ SendData(c) \/ HangUp(c)
    BY <2>2 DEF Connect, SendData, HangUp
  <2>3. CASE UNCHANGED vars
    BY <2>3 DEF vars
  <2> QED BY <2>1, <2>2, <2>3 DEF Next
<1> QED BY <1>1, <1>2, AloneInvHolds, PTL DEF Spec, LockerContract, Locker!Contract
=============================================================================
