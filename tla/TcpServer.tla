------------------------------ MODULE TcpServer ------------------------------
(***************************************************************************)
(* net::TCPServer (src/src/net/tcp.h, src/src/net/tcp_linux.cpp) after a   *)
(* successful initialize(): threads that call run() share one epoll        *)
(* instance, the map of clients with its mutex, and the map of client      *)
(* events listeners, which no mutex protects.                              *)
(*                                                                         *)
(* A client is a connection; the program knows it by its descriptor, which *)
(* the kernel gives to a later connection once it is closed.  The kernel   *)
(* (descriptor table, epoll, backlog) and the peers are modelled from how  *)
(* the server uses them.  A step of a thread is what it does between two   *)
(* operations on shared state.                                             *)
(***************************************************************************)
EXTENDS Naturals, FiniteSets

CONSTANTS
  Threads,     \* the threads that call run()
  Conns,       \* the connections; a peer opens one anew once it is gone
  Fds,         \* the descriptors free for accepted connections
  ListenFd,    \* the descriptor of the server socket
  None,        \* no thread, no connection, no descriptor
  MaxEvent,    \* TCPServer::MAX_EVENT, the capacity of the array of events
  MaxData,     \* bound on the unread chunks of data of a connection
  SystemErrors,\* whether accept(), getnameinfo() and the calls of epoll may fail
               \* for no reason that the model knows of
  Outcomes     \* how dataAvailable of the listener in use may end

(* The default listener leaves the socket open or lets the exception of    *)
(* recv through; the listener of the HTTP server closes the socket or      *)
(* leaves it open.                                                         *)
ASSUME OutcomesAssumption == Outcomes \subseteq {"keep", "close", "throw"}
ASSUME NoneAssumption == None \notin Threads \cup Conns \cup Fds
ASSUME ListenFdAssumption == ListenFd \notin Fds
ASSUME BoundsAssumption == 
  MaxEvent \in Nat \ {0} /\ MaxData \in Nat /\ SystemErrors \in BOOLEAN

VARIABLES
  \* the peers and the kernel
  backlog,     \* connections established and not yet accepted
  fd,          \* fd[c]: the open descriptor of connection c
  inbox,       \* inbox[c]: chunks of data to read from c
  hup,         \* connections whose peer will send no more data
  epoll,       \* epoll[f]: registration of f in the epoll interest list
  \* the members of the server
  clientsLock, \* clients_lock_: the thread that holds it
  lock_, data_,\* the UniqueLocker of each descriptor in clients_
  listeners,   \* the keys of client_events_listeners_
  assoc,       \* assoc[f]: the client that listener f was last given
  \* the local variables of run(), addClient() and processClient()
  pc,
  ready,       \* ready[t]: events epoll_wait returned, not yet looked at
  client,      \* client[t]: the socket the local unique_ptr owns
  cur,         \* cur[t]: the descriptor being processed
  shutdown,    \* shutdown[t]: "Client won't send anymore data."
  \* history
  misused,     \* a locker was called as its comments forbid (UniqueLocker)
  addFailed    \* an exception has left addClient

Locker == INSTANCE UniqueLocker
            WITH Owners <- Threads, Lockers <- Fds, Data <- Conns, hand <- client

lockerVars == <<lock_, data_, client, misused>>
kernelVars == <<backlog, fd, inbox, hup, epoll>>
mapVars    == <<listeners, assoc, addFailed>>
localVars  == <<ready, cur, shutdown>>
vars == <<kernelVars, clientsLock, lockerVars, mapVars, localVars, pc>>

ListenEvent == [fd |-> ListenFd, rdhup |-> FALSE]
ClientEvent == [fd : Fds, rdhup : BOOLEAN]

Labels == {"loop", "register", "attach", "emplace", "connected", "lockAdd", "assign",
           "take", "serve", "finish", "give", "dispose", "rearm", "exited"}

(* Where a thread works on a client: one that run() accepted and addClient *)
(* adds, or one it took in processClient.                                  *)
Adding == {"register", "attach", "emplace", "connected", "lockAdd", "assign"}
Serving == {"serve", "finish", "give"}

TypeOK ==
  /\ backlog \in SUBSET Conns /\ hup \in SUBSET Conns
  /\ fd \in [Conns -> Fds \cup {None}]
  /\ inbox \in [Conns -> 0..MaxData]
  /\ epoll \in [Fds -> {"none", "armed", "disarmed"}]
  /\ clientsLock \in Threads \cup {None}
  /\ Locker!TypeOK
  /\ listeners \in SUBSET Fds
  /\ assoc \in [Fds -> Conns \cup {None}]
  /\ pc \in [Threads -> Labels]
  /\ ready \in [Threads -> SUBSET (ClientEvent \cup {ListenEvent})]
  /\ cur \in [Threads -> Fds \cup {None}]
  /\ shutdown \in [Threads -> BOOLEAN]
  /\ addFailed \in BOOLEAN

Init ==
  /\ backlog = {} /\ hup = {}
  /\ fd = [c \in Conns |-> None]
  /\ inbox = [c \in Conns |-> 0]
  /\ epoll = [f \in Fds |-> "none"]
  /\ clientsLock = None
  /\ Locker!Init
  /\ listeners = {} /\ assoc = [f \in Fds |-> None]
  /\ pc = [t \in Threads |-> "loop"]
  /\ ready = [t \in Threads |-> {}]
  /\ cur = [t \in Threads |-> None]
  /\ shutdown = [t \in Threads |-> FALSE]
  /\ addFailed = FALSE

-----------------------------------------------------------------------------
(* Helpers.                                                                *)

At(t, label) == pc[t] = label
Goto(t, label) == pc' = [pc EXCEPT ![t] = label]

Open == {c \in Conns : fd[c] # None}
FreeFds == {f \in Fds : \A c \in Conns : fd[c] # f}

(* The client being added by thread t goes under its descriptor.           *)
Id(t) == fd[client[t]]

(* Socket::close: frees the descriptor, which leaves the epoll interest    *)
(* list; what was not read is lost.  Closing an invalid handle changes     *)
(* nothing.                                                                *)
Close(c) ==
  IF c \notin Open
    THEN UNCHANGED kernelVars
    ELSE /\ epoll' = [epoll EXCEPT ![fd[c]] = "none"]
         /\ fd' = [fd EXCEPT ![c] = None]
         /\ inbox' = [inbox EXCEPT ![c] = 0]
         /\ hup' = hup \ {c}
         /\ UNCHANGED backlog

(* The destructor of the local unique_ptr.                                 *)
DropClient(t) ==
  /\ IF client[t] = None THEN UNCHANGED kernelVars ELSE Close(client[t])
  /\ Locker!Drop(t)

(* An exception leaves run(): the events not yet looked at are lost, the   *)
(* local unique_ptr closes the socket it owns, and a locker taken stays    *)
(* locked.                                                                 *)
Exit(t) ==
  /\ Goto(t, "exited")
  /\ DropClient(t)
  /\ ready' = [ready EXCEPT ![t] = {}]
  /\ UNCHANGED <<clientsLock, listeners, assoc, cur, shutdown>>

(* client_events_listeners_ is a std::map with no mutex: another thread    *)
(* may be linking a node into it.                                          *)
MapBusy(t) == \E u \in Threads \ {t} : At(u, "emplace")

(* at(f) finds the listener, or throws: it is not there, or a concurrent   *)
(* insertion hides it.                                                     *)
AtFinds(f) == f \in listeners
AtThrows(t, f) == f \notin listeners \/ MapBusy(t)

-----------------------------------------------------------------------------
(* run(): waiting for events.                                              *)

EventOf(c) == [fd |-> fd[c], rdhup |-> c \in hup]

ReadyEvents ==
  {e \in {ListenEvent} : backlog # {}} \cup
  {EventOf(c) : c \in {d \in Open : epoll[fd[d]] = "armed" /\ (inbox[d] > 0 \/ d \in hup)}}

(* A wake-up that leaves the client armed, as without EPOLLONESHOT.        *)
EpollWaitWithoutOneshot(t) ==
  /\ At(t, "loop") /\ ready[t] = {}
  /\ \E S \in SUBSET ReadyEvents \ {{}} :
       /\ Cardinality(S) <= MaxEvent
       /\ ready' = [ready EXCEPT ![t] = S]
  /\ UNCHANGED <<kernelVars, clientsLock, lockerVars, mapVars, cur, shutdown, pc>>

(* epoll_wait returns some of the ready events, and EPOLLONESHOT disarms   *)
(* the clients among them.                                                 *)
EpollWait(t) ==
  /\ At(t, "loop") /\ ready[t] = {}
  /\ \E S \in SUBSET ReadyEvents \ {{}} :
       /\ Cardinality(S) <= MaxEvent
       /\ ready' = [ready EXCEPT ![t] = S]
       /\ epoll' = [f \in Fds |-> IF \E e \in S : e.fd = f THEN "disarmed" ELSE epoll[f]]
  /\ UNCHANGED <<backlog, fd, inbox, hup, clientsLock, lockerVars, mapVars, cur, shutdown, pc>>

(* epoll_wait, or EPOLL_CTL_ADD, _DEL or _MOD where it is due, fails.      *)
EpollFails(t) ==
  /\ SystemErrors
  /\ \/ At(t, "loop") /\ (ready[t] = {} \/ \E e \in ready[t] : e.rdhup)
     \/ At(t, "register") \/ At(t, "rearm")
  /\ Exit(t)
  /\ UNCHANGED addFailed

-----------------------------------------------------------------------------
(* run(): a new connection, then addClient().                              *)

Accept(t) ==
  /\ At(t, "loop") /\ ListenEvent \in ready[t] /\ FreeFds # {}
  /\ ready' = [ready EXCEPT ![t] = @ \ {ListenEvent}]
  /\ \/ /\ backlog = {}                      \* accept() gives an empty pointer
        /\ UNCHANGED <<backlog, fd, lockerVars, pc>>
     \/ \E c \in backlog, f \in FreeFds :
          /\ backlog' = backlog \ {c}
          /\ fd' = [fd EXCEPT ![c] = f]
          /\ Locker!Obtain(t, c)
          /\ Goto(t, "register")
  /\ UNCHANGED <<inbox, hup, epoll, clientsLock, mapVars, cur, shutdown>>

(* accept() throws when no descriptor is left, whether or not a connection *)
(* is waiting, and on any other error than EWOULDBLOCK.                    *)
AcceptFails(t) ==
  /\ At(t, "loop") /\ ListenEvent \in ready[t]
  /\ FreeFds = {} \/ SystemErrors
  /\ Exit(t)
  /\ UNCHANGED addFailed

(* EPOLL_CTL_ADD: from here on the client may wake any thread.             *)
Register(t) ==
  /\ At(t, "register")
  /\ epoll' = [epoll EXCEPT ![Id(t)] = "armed"]
  /\ Goto(t, "attach")
  /\ UNCHANGED <<backlog, fd, inbox, hup, clientsLock, lockerVars, mapVars, localVars>>

(* A listener that is already there is not told about its new client.      *)
AttachForgettingConnected(t) ==
  /\ At(t, "attach")
  /\ Goto(t, IF Id(t) \in listeners THEN "lockAdd" ELSE "emplace")
  /\ UNCHANGED <<kernelVars, clientsLock, lockerVars, mapVars, localVars>>

Attach(t) ==
  /\ At(t, "attach")
  /\ Goto(t, IF Id(t) \in listeners THEN "connected" ELSE "emplace")
  /\ UNCHANGED <<kernelVars, clientsLock, lockerVars, mapVars, localVars>>

(* An insertion that meets another one may be lost.                        *)
Emplace(t) ==
  /\ At(t, "emplace")
  /\ \/ listeners' = listeners \cup {Id(t)}
     \/ MapBusy(t) /\ UNCHANGED listeners
  /\ Goto(t, "connected")
  /\ UNCHANGED <<kernelVars, clientsLock, lockerVars, assoc, addFailed, localVars>>

(* at(id)->connected: the listener of the HTTP server asks for the name of *)
(* the client's address, which may fail and throw (server.h:163).          *)
Connected(t) ==
  /\ At(t, "connected")
  /\ \/ /\ AtFinds(Id(t))
        /\ assoc' = [assoc EXCEPT ![Id(t)] = client[t]]
        /\ Goto(t, "lockAdd")
        /\ UNCHANGED <<kernelVars, clientsLock, lockerVars, listeners, addFailed, localVars>>
     \/ (AtThrows(t, Id(t)) \/ SystemErrors) /\ Exit(t) /\ addFailed' = TRUE

LockAdd(t) ==
  /\ At(t, "lockAdd") /\ clientsLock = None
  /\ clientsLock' = t
  /\ Goto(t, "assign")
  /\ UNCHANGED <<kernelVars, lockerVars, mapVars, localVars>>

(* clients_lock_ is not unlocked after the assignment.                     *)
AssignForgettingUnlock(t) ==
  /\ At(t, "assign")
  /\ Locker!Assign(t, Id(t))
  /\ Goto(t, "loop")
  /\ UNCHANGED <<clientsLock, kernelVars, mapVars, localVars>>

(* clients_[id] = move(client), under clients_lock_: waits for the locker. *)
Assign(t) ==
  /\ At(t, "assign")
  /\ Locker!Assign(t, Id(t))
  /\ clientsLock' = None
  /\ Goto(t, "loop")
  /\ UNCHANGED <<kernelVars, mapVars, localVars>>

-----------------------------------------------------------------------------
(* run(): a client changed state, then processClient().                    *)

(* The rest of the batch is forgotten after one client.                    *)
TakeEventDroppingBatch(t) ==
  /\ At(t, "loop")
  /\ \E e \in ready[t] \ {ListenEvent} :
       /\ ready' = [ready EXCEPT ![t] = {}]
       /\ cur' = [cur EXCEPT ![t] = e.fd]
       /\ shutdown' = [shutdown EXCEPT ![t] = e.rdhup]
       /\ epoll' = [epoll EXCEPT ![e.fd] = IF e.rdhup THEN "none" ELSE @]
       /\ Goto(t, "take")
  /\ UNCHANGED <<backlog, fd, inbox, hup, clientsLock, lockerVars, mapVars>>

(* EPOLLRDHUP is not looked at.                                            *)
TakeEventIgnoringHangUp(t) ==
  /\ At(t, "loop")
  /\ \E e \in ready[t] \ {ListenEvent} :
       /\ ready' = [ready EXCEPT ![t] = @ \ {e}]
       /\ cur' = [cur EXCEPT ![t] = e.fd]
       /\ shutdown' = [shutdown EXCEPT ![t] = FALSE]
       /\ Goto(t, "take")
  /\ UNCHANGED <<kernelVars, clientsLock, lockerVars, mapVars>>

(* EPOLL_CTL_DEL when the peer will send no more; it throws if the         *)
(* descriptor is not in the interest list.                                 *)
TakeEvent(t) ==
  /\ At(t, "loop")
  /\ \E e \in ready[t] \ {ListenEvent} :
       IF e.rdhup /\ epoll[e.fd] = "none"
         THEN Exit(t)
         ELSE /\ ready' = [ready EXCEPT ![t] = @ \ {e}]
              /\ cur' = [cur EXCEPT ![t] = e.fd]
              /\ shutdown' = [shutdown EXCEPT ![t] = e.rdhup]
              /\ epoll' = [epoll EXCEPT ![e.fd] = IF e.rdhup THEN "none" ELSE @]
              /\ Goto(t, "take")
              /\ UNCHANGED <<backlog, fd, inbox, hup, clientsLock, lockerVars, listeners, assoc>>
  /\ UNCHANGED addFailed

(* dataAvailable is not called for a client that hung up.                  *)
TryTakeSkippingData(t) ==
  /\ At(t, "take") /\ clientsLock = None
  /\ Locker!TryTake(t, cur[t])
  /\ Goto(t, CASE client'[t] = None -> "loop" [] shutdown[t] -> "finish" [] OTHER -> "serve")
  /\ UNCHANGED <<kernelVars, clientsLock, mapVars, localVars>>

(* With an empty pointer the event is dropped and the client not re-armed. *)
TryTake(t) ==
  /\ At(t, "take") /\ clientsLock = None
  /\ Locker!TryTake(t, cur[t])
  /\ Goto(t, IF client'[t] = None THEN "loop" ELSE "serve")
  /\ UNCHANGED <<kernelVars, clientsLock, mapVars, localVars>>

(* A listener that reads may leave data behind, but reads some.            *)
Receives(c) == \E n \in 0..MaxData :
  /\ inbox[c] > 0 => n < inbox[c]
  /\ inbox[c] = 0 => n = 0
  /\ inbox' = [inbox EXCEPT ![c] = n]

(* at(id)->dataAvailable: the listener leaves the socket open, closes it,  *)
(* or lets the exception of recv() on a broken connection through.         *)
DataAvailable(t) ==
  /\ At(t, "serve")
  /\ \/ /\ AtFinds(cur[t])
        /\ \/ /\ "keep" \in Outcomes /\ Receives(client[t])
              /\ UNCHANGED <<backlog, fd, hup, epoll>>
           \/ "close" \in Outcomes /\ Close(client[t])
        /\ Goto(t, "finish")
        /\ UNCHANGED <<clientsLock, lockerVars, listeners, assoc, localVars>>
     \/ /\ AtFinds(cur[t]) /\ "throw" \in Outcomes /\ client[t] \in hup
        /\ Exit(t)
     \/ AtThrows(t, cur[t]) /\ Exit(t)
  /\ UNCHANGED addFailed

(* A client whose listener closed it is not noticed.                       *)
FinishIgnoringClose(t) ==
  /\ At(t, "finish")
  /\ Goto(t, "give")
  /\ UNCHANGED <<kernelVars, clientsLock, lockerVars, mapVars, localVars>>

(* A client whose listener closed it is shut down as well.                 *)
Finish(t) ==
  /\ At(t, "finish")
  /\ LET ends == shutdown[t] \/ client[t] \notin Open
     IN \/ /\ ends => AtFinds(cur[t])
           /\ shutdown' = [shutdown EXCEPT ![t] = ends]
           /\ Goto(t, "give")
           /\ UNCHANGED <<kernelVars, clientsLock, lockerVars, listeners, assoc, ready, cur>>
        \/ ends /\ AtThrows(t, cur[t]) /\ Exit(t)
  /\ UNCHANGED addFailed

(* A client that is done goes back into the map.                           *)
GiveYieldingAlways(t) ==
  /\ At(t, "give") /\ clientsLock = None
  /\ Locker!Yield(t, cur[t])
  /\ Goto(t, IF shutdown[t] THEN "dispose" ELSE "rearm")
  /\ UNCHANGED <<kernelVars, clientsLock, mapVars, localVars>>

(* The client goes back, and the mutex of the locker stays locked.         *)
GiveLeavingLocked(t) ==
  /\ At(t, "give") /\ clientsLock = None
  /\ IF shutdown[t]
       THEN Locker!Reset(t, cur[t]) /\ Goto(t, "dispose")
       ELSE /\ data_' = [data_ EXCEPT ![cur[t]] = client[t]]
            /\ client' = [client EXCEPT ![t] = None] /\ UNCHANGED <<lock_, misused>>
            /\ Goto(t, "rearm")
  /\ UNCHANGED <<kernelVars, clientsLock, mapVars, localVars>>

(* The locker of a client that is done is not reset.                       *)
GiveWithoutReset(t) ==
  /\ At(t, "give") /\ clientsLock = None
  /\ IF shutdown[t]
       THEN UNCHANGED lockerVars /\ Goto(t, "dispose")
       ELSE Locker!Yield(t, cur[t]) /\ Goto(t, "rearm")
  /\ UNCHANGED <<kernelVars, clientsLock, mapVars, localVars>>

Give(t) ==
  /\ At(t, "give") /\ clientsLock = None
  /\ IF shutdown[t]
       THEN Locker!Reset(t, cur[t]) /\ Goto(t, "dispose")
       ELSE Locker!Yield(t, cur[t]) /\ Goto(t, "rearm")
  /\ UNCHANGED <<kernelVars, clientsLock, mapVars, localVars>>

(* The socket is released rather than destroyed.                           *)
DisposeWithoutClose(t) ==
  /\ At(t, "dispose")
  /\ Locker!Drop(t)
  /\ Goto(t, "loop")
  /\ UNCHANGED <<kernelVars, clientsLock, mapVars, localVars>>

(* processClient returns: the socket of a client that is done is           *)
(* destroyed.                                                              *)
Dispose(t) ==
  /\ At(t, "dispose")
  /\ DropClient(t)
  /\ Goto(t, "loop")
  /\ UNCHANGED <<clientsLock, mapVars, localVars>>

(* The client is not armed again after EPOLLONESHOT.                       *)
RearmForgotten(t) ==
  /\ At(t, "rearm")
  /\ Goto(t, "loop")
  /\ UNCHANGED <<kernelVars, clientsLock, lockerVars, mapVars, localVars>>

(* EPOLL_CTL_MOD; it throws if the descriptor is not in the list.          *)
Rearm(t) ==
  /\ At(t, "rearm")
  /\ IF epoll[cur[t]] = "none"
       THEN Exit(t)
       ELSE /\ epoll' = [epoll EXCEPT ![cur[t]] = "armed"]
            /\ Goto(t, "loop")
            /\ UNCHANGED <<backlog, fd, inbox, hup, clientsLock, lockerVars, listeners, assoc,
                           localVars>>
  /\ UNCHANGED addFailed

-----------------------------------------------------------------------------
(* The peers.                                                              *)

(* A connection is opened anew when nothing of the one before is left.     *)
Connect(c) ==
  /\ c \notin backlog \cup Open \cup Locker!Held
  /\ backlog' = backlog \cup {c}
  /\ assoc' = [f \in Fds |-> IF assoc[f] = c THEN None ELSE assoc[f]]
  /\ UNCHANGED <<fd, inbox, hup, epoll, clientsLock, lockerVars, listeners, addFailed, localVars, pc>>

SendData(c) ==
  /\ c \in (backlog \cup Open) \ hup
  /\ inbox[c] < MaxData
  /\ inbox' = [inbox EXCEPT ![c] = @ + 1]
  /\ UNCHANGED <<backlog, fd, hup, epoll, clientsLock, lockerVars, mapVars, localVars, pc>>

HangUp(c) ==
  /\ c \in (backlog \cup Open) \ hup
  /\ hup' = hup \cup {c}
  /\ UNCHANGED <<backlog, fd, inbox, epoll, clientsLock, lockerVars, mapVars, localVars, pc>>

Step(t) ==
  \/ EpollWait(t) \/ EpollFails(t) \/ Accept(t) \/ AcceptFails(t)
  \/ Register(t) \/ Attach(t) \/ Emplace(t) \/ Connected(t) \/ LockAdd(t) \/ Assign(t)
  \/ TakeEvent(t) \/ TryTake(t) \/ DataAvailable(t) \/ Finish(t) \/ Give(t)
  \/ Dispose(t) \/ Rearm(t)

Next ==
  \/ \E t \in Threads : Step(t)
  \/ \E c \in Conns : Connect(c) \/ SendData(c) \/ HangUp(c)

(* Every thread is scheduled; epoll_wait goes round the ready descriptors, *)
(* and the backlog is a queue.                                             *)
Delivers(t, c) == EpollWait(t) /\ \E e \in ready'[t] : e.fd = fd[c]
DeliversListen(t) == EpollWait(t) /\ ListenEvent \in ready'[t]
Accepts(t, c) == Accept(t) /\ client'[t] = c

Fairness ==
  \A t \in Threads :
    /\ WF_vars(Step(t))
    /\ SF_vars(DeliversListen(t))
    /\ \A c \in Conns : SF_vars(Delivers(t, c)) /\ SF_vars(Accepts(t, c))

Spec == Init /\ [][Next]_vars
FairSpec == Spec /\ Fairness

-----------------------------------------------------------------------------
(* Safety.                                                                 *)

(* A socket is in one locker or in the hands of one thread, so that two    *)
(* threads never use it at the same time: what addClient and processClient *)
(* use UniqueLocker and move() for.                                        *)
OneOwner == Locker!OneOwner

(* An open descriptor always has an owner that will close it: no exception *)
(* and no early return of run(), addClient() or processClient() leaks one. *)
NoDescriptorLeak == Open \subseteq Locker!Held

(* A client in the map is open, under its own descriptor: an event for a   *)
(* descriptor never reaches the socket of an earlier connection that had   *)
(* the same one.                                                           *)
ClientUnderItsDescriptor ==
  \A f \in Fds, c \in Conns : data_[f] = c => fd[c] = f

(* The thread between try_take and yield or reset in processClient owns    *)
(* the locker of the descriptor: it may unlock its mutex.                  *)
ServingOwnsLocker ==
  \A t \in Threads : pc[t] \in Serving => lock_[cur[t]] = t /\ client[t] # None

(* What the invariants above rest on.  Where the client of a thread is     *)
(* follows from where the thread is; a client being added is open; the     *)
(* socket that goes back into the map is open and under the descriptor the *)
(* locker was found with; no descriptor has two clients; the backlog holds *)
(* connections the program knows nothing of; a locked locker is empty.     *)
HandFollowsPc ==
  \A t \in Threads : client[t] # None <=> pc[t] \in Adding \cup Serving \cup {"dispose"}
AddedIsOpen == \A t \in Threads : pc[t] \in Adding => client[t] \in Open
ServedUnderCur ==
  \A t \in Threads : pc[t] \in Serving =>
    /\ client[t] \in Open => fd[client[t]] = cur[t]
    /\ At(t, "give") /\ ~shutdown[t] => client[t] \in Open
CurIsSet ==
  \A t \in Threads : pc[t] \in Serving \cup {"take", "rearm"} => cur[t] \in Fds
OneClientPerDescriptor == \A c, d \in Open : fd[c] = fd[d] => c = d
BacklogIsUnknown == \A c \in backlog : c \notin Open \cup Locker!Held
LockedIsEmpty == Locker!LockedIsEmpty

Ownership == OneOwner /\ LockedIsEmpty /\ HandFollowsPc /\ CurIsSet /\ ServingOwnsLocker
Descriptors ==
  /\ AddedIsOpen /\ ServedUnderCur /\ OneClientPerDescriptor /\ BacklogIsUnknown
  /\ NoDescriptorLeak /\ ClientUnderItsDescriptor
Inv == TypeOK /\ Ownership /\ Descriptors

(* EPOLLONESHOT: while a thread has yet to look at an event of a client,   *)
(* or processes it, no other thread has one, the descriptor is not armed   *)
(* and it is still the one of an open connection.  An exception that       *)
(* leaves addClient breaks this: it closes a client that epoll may have    *)
(* reported to another thread.                                             *)
Outstanding(t) ==
  {e.fd : e \in ready[t] \ {ListenEvent}} \cup (IF At(t, "take") THEN {cur[t]} ELSE {})

FreshEvents == ~addFailed =>
  \A t \in Threads : \A f \in Outstanding(t) :
    /\ f \notin FreeFds /\ epoll[f] # "armed"
    /\ \A u \in Threads \ {t} : f \notin Outstanding(u)

(* "A class responsible of processing a specific client during its         *)
(* lifespan" (tcp.h:13): from try_take to yield the listener of the        *)
(* descriptor is still the listener of the client that was taken.          *)
ListenerServesItsClient ==
  \A t \in Threads : pc[t] \in Serving => assoc[cur[t]] = client[t]

(* "Client has been taken by another thread." (tcp.h:103): an event finds  *)
(* the locker of its client in the map and nobody else at it.              *)
EventFindsClient ==
  \A t \in Threads : At(t, "take") =>
    lock_[cur[t]] = None /\ \E c \in Conns : data_[cur[t]] = c /\ fd[c] = cur[t]

(* A client that is waiting in the map, with nobody about to process it,   *)
(* is armed: it cannot be forgotten.                                       *)
IdleIsArmed ==
  \A f \in Fds : data_[f] # None =>
    \/ epoll[f] = "armed"
    \/ \E t \in Threads : f \in Outstanding(t) \/ (At(t, "rearm") /\ cur[t] = f)

(* run() goes on: no call of epoll_ctl and no lookup of a listener throws. *)
KeepsRunning == \A t \in Threads : ~At(t, "exited")

(* No locker stays locked once processClient is done with it: the mutex of *)
(* a locker that a try_take left locked could never be locked again.       *)
NoAbandonedLocker ==
  \A f \in Fds : lock_[f] # None => pc[lock_[f]] \in Serving /\ cur[lock_[f]] = f

(* "thread-safe TCP server" (tcp_linux.cpp:56), "Can be invoked with a     *)
(* thread." (tcp.h:151): a thread that adds a client never has to wait for *)
(* the locker.  The thread that has it locked needs clients_lock_, which   *)
(* the first one holds, to unlock it: both wait for ever, and any other    *)
(* thread that processes or adds a client waits with them.                 *)
AddClientNeverBlocks ==
  \A t \in Threads : At(t, "assign") => lock_[Id(t)] = None

(* The server keeps to the documented use of its lockers (utils.h:137,     *)
(* 148, 160, 170): a thread never tries to take from a locker that it has  *)
(* locked, not even one that it found empty, and yields or resets none     *)
(* that it has not locked.                                                 *)
LockerContract == Locker!Contract

-----------------------------------------------------------------------------
(* The life of each client as its listener sees it.                        *)

Holder(c) == IF \E t \in Threads : client[t] = c
               THEN CHOOSE t \in Threads : client[t] = c ELSE None

StageAt(t) ==
  CASE pc[t] \in {"lockAdd", "assign"} -> "connected"
    [] pc[t] \in Adding \ {"lockAdd", "assign"} -> "accepted"
    [] At(t, "serve") -> "taken"
    [] At(t, "finish") \/ (At(t, "give") /\ ~shutdown[t]) -> "processed"
    [] OTHER -> "shut down"

StageOf(c) ==
  CASE c \in backlog -> "waiting"
    [] Holder(c) # None -> StageAt(Holder(c))
    [] \E f \in Fds : data_[f] = c -> "idle"
    [] OTHER -> "absent"

Lifespan == INSTANCE ClientLifespan
              WITH Clients <- Conns, Workers <- Threads,
                   stage <- [c \in Conns |-> StageOf(c)],
                   worker <- [c \in Conns |-> Holder(c)]

(* Whatever the threads do, each client gets connected, dataAvailable any  *)
(* number of times and shutdown, in this order, in the hands of one thread *)
(* at a time.                                                              *)
KeepsLifespan == Lifespan!Spec

-----------------------------------------------------------------------------
(* Liveness, for as long as no exception ends the thread.                  *)

(* A client's data is read, or the client is closed.                       *)
DataIsRead == \A c \in Conns :
  (c \in Open /\ inbox[c] = MaxData) ~> (c \notin Open \/ inbox[c] < MaxData)

(* The socket of a client that hangs up is closed and its descriptor freed.*)
HangUpIsReleased == \A c \in Conns : c \in hup ~> c \notin hup

(* A connection does not wait in the backlog for ever.                     *)
BacklogIsServed == \A c \in Conns : c \in backlog ~> c \notin backlog
=============================================================================
