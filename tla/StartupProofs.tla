----------------------------- MODULE StartupProofs -----------------------------
(***************************************************************************)
(* Proofs about Startup and about the SocketFactory that it extends, for   *)
(* any number of addresses, and any servers, descriptors and epoll         *)
(* instances.                                                              *)
(*                                                                         *)
(* Of the factory: Inv is an invariant, hence NoSocketLost, and it implies *)
(* FirstThatWorks.  Of the whole: StartupInv is an invariant, and what     *)
(* holds of the factory holds of it; both together give                    *)
(* EachSocketHasAnOwner.                                                   *)
(***************************************************************************)
EXTENDS Startup, TLAPS

-----------------------------------------------------------------------------
(* The factory.                                                            *)

USE NAssumption, HandlesAssumption

(* What a caller may want of a socket.                                     *)
LEMMA WishesFacts ==
  ASSUME NEW w \in Wishes
  PROVE  /\ w \subseteq {"reuse", "bound", "connected", "nonblocking"}
         /\ "bound" \in w <=> "connected" \notin w
         /\ "reuse" \in w => "bound" \in w
BY DEF Wishes

(* A call begins with no socket.                                           *)
LEMMA CallKeepsInv ==
  ASSUME Inv, NEW w \in Wishes, Call(w)
  PROVE  Inv'
<1>1. TypeOK'
  BY DEF Inv, TypeOK, Call, Places, Over, Exceptions, Fates
<1>2. sock = NoHandle
  BY DEF Inv, NoSocketLost, Call, Over
<1>3. NoSocketLost'
  BY <1>2 DEF Inv, TypeOK, NoSocketLost, Call, Exceptions
<1>4. InOrder'
  BY DEF Inv, TypeOK, InOrder, Call
<1>5. Progress'
  BY <1>2 DEF Inv, TypeOK, Call, Progress, Places
<1> QED
  BY <1>1, <1>3, <1>4, <1>5 DEF Inv

(* What is given out is kept.                                              *)
LEMMA KeepKeepsInv ==
  ASSUME Inv, Keep
  PROVE  Inv'
<1>1. TypeOK'
  BY DEF Inv, TypeOK, NoSocketLost, Keep, Places, Over
<1>2. NoSocketLost'
  BY DEF Inv, TypeOK, NoSocketLost, Keep, Exceptions
<1>3. InOrder' /\ Progress'
  BY DEF Inv, InOrder, Progress, Keep, Places
<1> QED
  BY <1>1, <1>2, <1>3 DEF Inv

(* A socket that is destroyed is none the call works with.                 *)
LEMMA DestroyKeepsInv ==
  ASSUME Inv, NEW h \in Handles, Destroy(h)
  PROVE  Inv'
<1>1. TypeOK'
  BY DEF Inv, TypeOK, Destroy
<1>2. NoSocketLost'
  BY DEF Inv, NoSocketLost, Destroy
<1>3. InOrder' /\ Progress'
  BY DEF Inv, InOrder, Progress, Destroy
<1> QED
  BY <1>1, <1>2, <1>3 DEF Inv

(* A new handle is of no socket that is open.                              *)
LEMMA MakeSocketKeepsInv ==
  ASSUME Inv, NEW h \in Handles, MakeSocket(h)
  PROVE  Inv'
<1>1. TypeOK'
  BY DEF Inv, TypeOK, MakeSocket, Places, Over
<1>2. NoSocketLost'
  BY DEF Inv, NoSocketLost, MakeSocket, Exceptions, Progress
<1>3. InOrder'
  BY DEF Inv, InOrder, MakeSocket
<1>4. Progress'
  <2>1. "reuse" \notin wanted => wanted \cap {"reuse"} = {}
    OBVIOUS
  <2> QED
    BY <2>1 DEF Inv, MakeSocket, Progress, Places
<1> QED
  BY <1>1, <1>2, <1>3, <1>4 DEF Inv

(* The exception of the constructor destroys what the call has.            *)
LEMMA MakeSocketFailsKeepsInv ==
  ASSUME Inv, MakeSocketFails
  PROVE  Inv'
<1>1. TypeOK'
  BY DEF Inv, TypeOK, MakeSocketFails, Places, Over, Exceptions, Fates
<1>2. NoSocketLost'
  BY DEF Inv, TypeOK, NoSocketLost, MakeSocketFails, Exceptions
<1>3. InOrder'
  BY DEF Inv, TypeOK, InOrder, MakeSocketFails
<1>4. Progress'
  BY DEF Inv, MakeSocketFails, Progress, Places
<1> QED
  BY <1>1, <1>2, <1>3, <1>4 DEF Inv

(* The handler closes the socket and goes to the next address.             *)
LEMMA CatchKeepsInv ==
  ASSUME Inv, Catch, pc \in Places \ {"free"}
  PROVE  Inv'
<1>1. addr \in 1..N
  BY DEF Inv, TypeOK
<1>2. TypeOK'
  BY <1>1 DEF Inv, TypeOK, Catch, Continue, Places, Over, Exceptions, Fates
<1>3. NoSocketLost'
  BY DEF Inv, TypeOK, NoSocketLost, Catch, Continue, Exceptions
<1>4. InOrder'
  BY <1>1 DEF Inv, TypeOK, InOrder, Catch, Continue
<1>5. Progress'
  <2>1. addr + 1 \in 1..N => fate'[addr + 1] = "untried"
    BY <1>1 DEF Inv, TypeOK, InOrder, Catch
  <2> QED
    BY <1>1, <2>1 DEF Inv, TypeOK, Catch, Continue, Progress, Places
<1> QED
  BY <1>2, <1>3, <1>4, <1>5 DEF Inv

(* A socket becomes what is wanted next, and is complete when the loop     *)
(* ends.                                                                   *)
LEMMA SucceedKeepsInv ==
  ASSUME Inv, NEW f \in {"reuse", "bound", "connected", "nonblocking"},
         NEW next \in {"attach", "nonblocking", "free"}, Succeed(f, next),
         pc \in {"reuse", "attach", "nonblocking"},
         next = "attach" => made \cup {f} = wanted \cap {"reuse"},
         next = "nonblocking" => made \cup {f} = wanted \ {"nonblocking"} /\ "nonblocking" \in wanted,
         next = "free" => made \cup {f} = wanted
  PROVE  Inv'
<1>1. addr \in 1..N /\ sock # NoHandle /\ fate[addr] = "untried"
  BY DEF Inv, TypeOK, Progress, Places
<1>2. TypeOK'
  BY <1>1 DEF Inv, TypeOK, Succeed, Places, Over, Exceptions, Fates
<1>3. NoSocketLost'
  BY DEF Inv, NoSocketLost, Succeed, Exceptions
<1>4. InOrder'
  BY <1>1 DEF Inv, TypeOK, InOrder, Succeed
<1>5. Progress'
  BY <1>1 DEF Inv, TypeOK, Succeed, Progress, Places
<1> QED
  BY <1>2, <1>3, <1>4, <1>5 DEF Inv

(* The list is freed when the loop has ended.                              *)
LEMMA FreeKeepsInv ==
  ASSUME Inv, Free
  PROVE  Inv'
<1>1. TypeOK'
  BY DEF Inv, TypeOK, Free, Places, Over, Exceptions
<1>2. NoSocketLost'
  BY DEF Inv, NoSocketLost, Free, Exceptions
<1>3. InOrder' /\ Progress'
  BY DEF Inv, InOrder, Progress, Free, Places
<1> QED
  BY <1>1, <1>2, <1>3 DEF Inv

(* A call that has not begun, and no socket.                               *)
LEMMA InitGivesInv ==
  ASSUME Init
  PROVE  Inv
<1>1. TypeOK
  BY DEF Init, TypeOK, Places, Over, Exceptions, Fates
<1>2. NoSocketLost /\ InOrder /\ Progress
  BY DEF Init, NoSocketLost, InOrder, Progress, Places, Exceptions
<1> QED
  BY <1>1, <1>2 DEF Inv

LEMMA NextKeepsInv ==
  ASSUME Inv, [Next]_vars
  PROVE  Inv'
<1>1. wanted \in Wishes
  BY DEF Inv, TypeOK
<1>2. /\ wanted \subseteq {"reuse", "bound", "connected", "nonblocking"}
      /\ "bound" \in wanted <=> "connected" \notin wanted
      /\ "reuse" \in wanted => "bound" \in wanted
  BY <1>1, WishesFacts
<1>3. CASE SetReuse
  <2>1. CASE Succeed("reuse", "attach")
    <3>1. pc = "reuse" /\ made = {} /\ "reuse" \in wanted
      BY <1>3 DEF Inv, SetReuse, Progress
    <3> QED
      BY <2>1, <3>1, SucceedKeepsInv
  <2> QED
    BY <1>3, <2>1, CatchKeepsInv DEF SetReuse, Places
<1>4. CASE Attach
  <2>1. ASSUME NEW f \in wanted \cap {"bound", "connected"},
               Succeed(f, IF "nonblocking" \in wanted THEN "nonblocking" ELSE "free")
        PROVE  Inv'
    <3>1. pc = "attach" /\ made = wanted \cap {"reuse"}
      BY <1>4 DEF Inv, Attach, Progress
    <3>2. made \cup {f} = wanted \ {"nonblocking"}
      BY <1>2, <3>1
    <3> QED
      BY <2>1, <3>1, <3>2, SucceedKeepsInv
  <2> QED
    BY <1>4, <2>1, CatchKeepsInv DEF Attach, Places
<1>5. CASE SetNonBlocking
  <2>1. CASE Succeed("nonblocking", "free")
    <3>1. pc = "nonblocking" /\ made \cup {"nonblocking"} = wanted
      BY <1>5 DEF Inv, SetNonBlocking, Progress
    <3> QED
      BY <2>1, <3>1, SucceedKeepsInv
  <2> QED
    BY <1>5, <2>1, CatchKeepsInv DEF SetNonBlocking, Places
<1>6. CASE UNCHANGED vars
  BY <1>6 DEF vars, Inv, TypeOK, NoSocketLost, InOrder, Progress
<1> QED
  BY <1>3, <1>4, <1>5, <1>6, CallKeepsInv, DestroyKeepsInv, MakeSocketKeepsInv,
     MakeSocketFailsKeepsInv, FreeKeepsInv, KeepKeepsInv DEF Next, Calls

(* The invariant of the loop over the addresses (sockets.h:536-554).       *)
THEOREM InvHolds == Spec => []Inv
<1>1. Init => Inv
  BY InitGivesInv
<1>2. Inv /\ [Next]_vars => Inv'
  BY NextKeepsInv
<1> QED
  BY <1>1, <1>2, PTL DEF Spec

(* Whatever fails, no socket is lost and none is left behind.              *)
THEOREM SocketsAreNotLost == Spec => []NoSocketLost
<1>1. Inv => NoSocketLost
  BY DEF Inv
<1> QED
  BY <1>1, InvHolds, PTL

(* The caller gets a socket of the first address that gives one, and is    *)
(* told that there is none only when all of them failed.                   *)
THEOREM FirstAddressWins == Spec => []FirstThatWorks
<1>1. Inv => FirstThatWorks
  <2> SUFFICES ASSUME Inv PROVE FirstThatWorks
    OBVIOUS
  <2>1. CASE pc = "returned"
    <3>1. /\ sock # NoHandle /\ addr \in 1..N
          /\ fate[addr] = "made" /\ made = wanted /\ info = "freed"
      BY <2>1 DEF Inv, NoSocketLost, Progress
    <3>2. \A b \in 1..N : (b < addr => fate[b] = "failed") /\ (b > addr => fate[b] = "untried")
      BY <3>1 DEF Inv, InOrder
    <3> QED
      BY <2>1, <3>1, <3>2 DEF FirstThatWorks
  <2>2. CASE pc = "RuntimeException"
    <3>1. sock = NoHandle
      BY <2>2 DEF Inv, NoSocketLost, Exceptions
    <3>2. addr = N + 1 /\ info = "freed" /\ error = N
      BY <2>2, <3>1 DEF Inv, Progress
    <3>3. \A a \in 1..N : fate[a] = "failed"
      BY <3>2 DEF Inv, InOrder
    <3> QED
      BY <2>2, <3>2, <3>3 DEF FirstThatWorks
  <2> QED
    BY <2>1, <2>2 DEF FirstThatWorks
<1> QED
  BY <1>1, InvHolds, PTL

-----------------------------------------------------------------------------
(* The servers.                                                            *)

USE NoEpollAssumption

(* The calls of the factory take nothing from the servers.                 *)
LEMMA MakeKeepsInv ==
  ASSUME StartupInv, Inv, Make
  PROVE  StartupInv'
<1>1. kept \subseteq kept' /\ kept' \subseteq kept \cup {sock}
  BY DEF Make, Calls, Call, MakeSocket, MakeSocketFails, SetReuse, Attach, SetNonBlocking,
         Succeed, Catch, Free, Keep
<1>2. spare' = spare \cup (kept' \ kept) /\ Served' = Served
  BY DEF Make, Served, serverVars
<1>3. GivenOut'
  BY <1>1, <1>2 DEF StartupInv, GivenOut
<1>4. kept' \subseteq Handles
  BY NextKeepsInv DEF Make, Next, Inv, TypeOK
<1>5. spare' \subseteq Handles
  BY <1>3, <1>4 DEF GivenOut
<1> QED
  BY <1>1, <1>3, <1>5
  DEF StartupInv, ServersTypeOK, EachHasItsOwn, InitializedServes, RunningHasSocket,
      HalfwayIsInitialized, OnlyServersListen, Served, Make, serverVars, kernelVars

(* What closing a socket, or none, does to the rest.                       *)
LEMMA CloseSocketFacts ==
  ASSUME StartupInv, NEW h \in Handles \cup {NoHandle}, CloseSocket(h)
  PROVE  /\ kept' \subseteq kept /\ kept \subseteq kept' \cup {h} /\ kept' = kept \ {h}
         /\ listening' = listening \ {h}
         /\ watched' \in [Epolls -> SUBSET Handles]
         /\ \A e \in Epolls : watched'[e] = watched[e] \ {h}
<1>1. CASE h = NoHandle
  <2>1. kept' = kept /\ listening' = listening /\ watched' = watched
    BY <1>1 DEF CloseSocket, vars
  <2>2. watched \in [Epolls -> SUBSET Handles] /\ listening \subseteq Handles
    BY DEF StartupInv, ServersTypeOK
  <2>4. kept \ {h} = kept
    BY <1>1 DEF StartupInv, ServersTypeOK, GivenOut, Served
  <2>3. listening \ {h} = listening /\ \A e \in Epolls : watched[e] \ {h} = watched[e]
    BY <1>1, <2>2
  <2> QED
    BY <2>1, <2>2, <2>3, <2>4
<1>2. CASE h # NoHandle
  BY <1>2 DEF StartupInv, ServersTypeOK, CloseSocket, Destroy
<1> QED
  BY <1>1, <1>2

LEMMA ConstructKeepsInv ==
  ASSUME StartupInv, NEW s \in Servers, NEW h \in Handles, Construct(s, h)
  PROVE  StartupInv'
<1>1. PICK e \in Epolls \ epolls :
         epolls' = epolls \cup {e} /\ epoll_fd_' = [epoll_fd_ EXCEPT ![s] = e]
  BY DEF Construct
<1>2. /\ s \notin live /\ h \in spare /\ h \in kept /\ h \notin Served /\ h # NoHandle
      /\ kept' = kept /\ spare' = spare \ {h}
      /\ live' = live \cup {s} /\ socket_' = [socket_ EXCEPT ![s] = h]
      /\ initialized_' = [initialized_ EXCEPT ![s] = FALSE]
      /\ halfway' = [halfway EXCEPT ![s] = FALSE]
      /\ UNCHANGED <<running, listening, watched>>
  BY DEF Construct, vars, StartupInv, GivenOut
<1>8. GivenOut'
  <2>1. Served' = Served \cup {h}
    BY <1>2 DEF StartupInv, ServersTypeOK, Served
  <2> QED
    BY <1>2, <2>1 DEF StartupInv, GivenOut
<1> USE <1>1, <1>2 DEF StartupInv, ServersTypeOK, Served
<1>3. ServersTypeOK'
  OBVIOUS
<1>4. EachHasItsOwn'
  BY DEF EachHasItsOwn
<1>5. InitializedServes'
  BY DEF InitializedServes, OnlyServersListen, EachHasItsOwn
<1>6. RunningHasSocket' /\ HalfwayIsInitialized'
  BY DEF RunningHasSocket, HalfwayIsInitialized
<1>7. OnlyServersListen'
  BY DEF OnlyServersListen
<1> QED
  BY <1>3, <1>4, <1>5, <1>6, <1>7, <1>8

LEMMA ConstructFailsKeepsInv ==
  ASSUME StartupInv, NEW h \in Handles, ConstructFails(h)
  PROVE  StartupInv'
<1>1. /\ h \notin Served /\ CloseSocket(h) /\ UNCHANGED <<serverVars, epolls>>
      /\ spare' = spare \ {h}
  BY DEF ConstructFails, StartupInv, GivenOut
<1>2. /\ kept' \subseteq kept /\ kept \subseteq kept' \cup {h} /\ kept' = kept \ {h}
      /\ listening' = listening \ {h}
      /\ watched' \in [Epolls -> SUBSET Handles]
      /\ \A e \in Epolls : watched'[e] = watched[e] \ {h}
  BY <1>1, CloseSocketFacts
<1>3. h \notin listening /\ \A e \in Epolls : h \notin watched[e]
  BY <1>1 DEF StartupInv, ServersTypeOK, OnlyServersListen, Served
<1>4. listening' = listening /\ watched' = watched
  <2>1. \A e \in Epolls : watched'[e] = watched[e]
    BY <1>2, <1>3
  <2>2. watched \in [Epolls -> SUBSET Handles]
    BY DEF StartupInv, ServersTypeOK
  <2> QED
    BY <1>2, <1>3, <2>1, <2>2
<1>5. \A s \in live : socket_[s] # h
  BY <1>1 DEF Served
<1>6. GivenOut'
  <2>1. Served' = Served
    BY <1>1 DEF Served, serverVars
  <2> QED
    BY <1>1, <1>2, <2>1 DEF StartupInv, GivenOut
<1> QED
  BY <1>1, <1>2, <1>4, <1>5, <1>6 DEF StartupInv, ServersTypeOK, EachHasItsOwn, InitializedServes, HalfwayIsInitialized,
                                 RunningHasSocket, OnlyServersListen, Served, serverVars

(* A server that takes over what another has, and has nothing itself.      *)
LEMMA MoveConstructKeepsInv ==
  ASSUME StartupInv, NEW s \in Servers, NEW d \in Servers, MoveConstruct(s, d)
  PROVE  StartupInv'
<1>1. /\ s \in live \ running /\ d \notin live /\ live' = live \cup {d} /\ kept' = kept
      /\ socket_' = [socket_ EXCEPT ![d] = socket_[s], ![s] = NoHandle]
      /\ epoll_fd_' = [epoll_fd_ EXCEPT ![d] = epoll_fd_[s], ![s] = NoEpoll]
      /\ initialized_' = [initialized_ EXCEPT ![d] = initialized_[s]]
      /\ halfway' = [halfway EXCEPT ![d] = halfway[s]]
      /\ UNCHANGED <<spare, running, listening, epolls, watched>>
  BY DEF MoveConstruct, Transfer, vars, kernelVars
<1> USE <1>1 DEF StartupInv, ServersTypeOK
<1>2. ServersTypeOK'
  OBVIOUS
<1>3. /\ socket_'[d] = socket_[s] /\ socket_'[s] = NoHandle
      /\ epoll_fd_'[d] = epoll_fd_[s] /\ epoll_fd_'[s] = NoEpoll
      /\ \A u \in live \ {s} : socket_'[u] = socket_[u] /\ epoll_fd_'[u] = epoll_fd_[u]
      /\ \A u \in live : initialized_'[u] = initialized_[u] /\ halfway'[u] = halfway[u]
      /\ initialized_'[d] = initialized_[s] /\ halfway'[d] = halfway[s]
  OBVIOUS
<1>4. EachHasItsOwn'
  BY <1>3 DEF EachHasItsOwn
<1>5. InitializedServes'
  BY <1>3 DEF InitializedServes, EachHasItsOwn
<1>6. RunningHasSocket' /\ HalfwayIsInitialized'
  BY <1>3 DEF RunningHasSocket, HalfwayIsInitialized
<1>7. OnlyServersListen'
  <2>1. listening' \subseteq Served'
    BY <1>3 DEF OnlyServersListen, Served
  <2>2. ASSUME NEW e \in epolls, NEW h \in watched[e]
        PROVE  \E u \in live' : socket_'[u] = h /\ epoll_fd_'[u] = e
    <3>1. PICK u \in live : socket_[u] = h /\ epoll_fd_[u] = e
      BY <2>2 DEF OnlyServersListen
    <3> QED
      BY <1>3, <3>1
  <2> QED
    BY <2>1, <2>2 DEF OnlyServersListen
<1>8. GivenOut'
  <2>1. Served' = Served
    BY <1>3 DEF Served
  <2> QED
    BY <2>1 DEF GivenOut
<1> QED
  BY <1>2, <1>4, <1>5, <1>6, <1>7, <1>8

(* The assignment closes the socket of the server assigned to, which is no *)
(* other's.                                                                *)
LEMMA MoveAssignKeepsInv ==
  ASSUME StartupInv, NEW s \in Servers, NEW d \in Servers, MoveAssign(s, d)
  PROVE  StartupInv'
<1> DEFINE h == socket_[d]
<1>1. /\ s \in live \ running /\ d \in live \ running /\ s # d /\ CloseSocket(h)
      /\ socket_' = [socket_ EXCEPT ![d] = socket_[s], ![s] = NoHandle]
      /\ epoll_fd_' = [epoll_fd_ EXCEPT ![d] = epoll_fd_[s], ![s] = NoEpoll]
      /\ initialized_' = [initialized_ EXCEPT ![d] = initialized_[s]]
      /\ halfway' = [halfway EXCEPT ![d] = halfway[s]]
      /\ UNCHANGED <<spare, live, running, epolls>>
  BY DEF MoveAssign, Transfer
<1>2. h \in Handles \cup {NoHandle}
  BY DEF StartupInv, ServersTypeOK
<1>3. /\ kept' \subseteq kept /\ kept \subseteq kept' \cup {h} /\ kept' = kept \ {h}
      /\ listening' = listening \ {h}
      /\ watched' \in [Epolls -> SUBSET Handles]
      /\ \A e \in Epolls : watched'[e] = watched[e] \ {h}
  BY <1>1, <1>2, CloseSocketFacts
<1>4. /\ socket_'[d] = socket_[s] /\ socket_'[s] = NoHandle
      /\ epoll_fd_'[d] = epoll_fd_[s] /\ epoll_fd_'[s] = NoEpoll
      /\ \A u \in live \ {s, d} : socket_'[u] = socket_[u] /\ epoll_fd_'[u] = epoll_fd_[u]
      /\ \A u \in live \ {d} : initialized_'[u] = initialized_[u] /\ halfway'[u] = halfway[u]
      /\ initialized_'[d] = initialized_[s] /\ halfway'[d] = halfway[s]
  BY <1>1 DEF StartupInv, ServersTypeOK
<1>5. \A u \in live \ {d} : socket_[u] # NoHandle => socket_[u] # h
  BY <1>1 DEF StartupInv, EachHasItsOwn
<1>6. ServersTypeOK'
  BY <1>1, <1>3 DEF StartupInv, ServersTypeOK
<1>7. EachHasItsOwn'
  <2>1. \A u \in live \ {d} : socket_[u] \in kept => (socket_[u] = NoHandle \/ socket_[u] \in kept')
    BY <1>3, <1>5
  <2>2. \A u \in live :
          /\ socket_'[u] # NoHandle => socket_'[u] \in kept'
          /\ epoll_fd_'[u] # NoEpoll => epoll_fd_'[u] \in epolls'
          /\ socket_'[u] # NoHandle <=> epoll_fd_'[u] # NoEpoll
    <3> SUFFICES ASSUME NEW u \in live
                 PROVE  /\ socket_'[u] # NoHandle => socket_'[u] \in kept'
                        /\ epoll_fd_'[u] # NoEpoll => epoll_fd_'[u] \in epolls'
                        /\ socket_'[u] # NoHandle <=> epoll_fd_'[u] # NoEpoll
      OBVIOUS
    <3>1. \A v \in live \ {d} :
            /\ socket_[v] # NoHandle => socket_[v] \in kept'
            /\ epoll_fd_[v] # NoEpoll => epoll_fd_[v] \in epolls'
            /\ socket_[v] # NoHandle <=> epoll_fd_[v] # NoEpoll
      BY <1>1, <2>1 DEF StartupInv, EachHasItsOwn
    <3>2. CASE u = s
      BY <1>4, <3>2
    <3>3. CASE u = d
      BY <1>1, <1>4, <3>1, <3>3
    <3>4. CASE u \notin {s, d}
      BY <1>4, <3>1, <3>4
    <3> QED
      BY <3>2, <3>3, <3>4
  <2>3. \A u, v \in live : u # v /\ socket_'[u] # NoHandle =>
          socket_'[u] # socket_'[v] /\ epoll_fd_'[u] # epoll_fd_'[v]
    <3> SUFFICES ASSUME NEW u \in live, NEW v \in live, u # v, socket_'[u] # NoHandle
                 PROVE  socket_'[u] # socket_'[v] /\ epoll_fd_'[u] # epoll_fd_'[v]
      OBVIOUS
    <3>1. u # s
      BY <1>4
    <3>2. CASE v = s
      BY <1>4, <2>2, <3>2
    <3>3. CASE v # s
      <4>1. \A x, y \in live : x # y /\ socket_[x] # NoHandle =>
              socket_[x] # socket_[y] /\ epoll_fd_[x] # epoll_fd_[y]
        BY DEF StartupInv, EachHasItsOwn
      <4>2. CASE u = d
        <5>1. socket_'[v] = socket_[v] /\ epoll_fd_'[v] = epoll_fd_[v]
          BY <1>4, <3>3, <4>2
        <5>2. socket_'[u] = socket_[s] /\ epoll_fd_'[u] = epoll_fd_[s]
          BY <1>4, <4>2
        <5> QED
          BY <1>1, <3>3, <4>1, <5>1, <5>2
      <4>3. CASE v = d
        <5>1. socket_'[u] = socket_[u] /\ epoll_fd_'[u] = epoll_fd_[u]
          BY <1>4, <3>1, <4>3
        <5>2. socket_'[v] = socket_[s] /\ epoll_fd_'[v] = epoll_fd_[s]
          BY <1>4, <4>3
        <5> QED
          BY <1>1, <3>1, <4>1, <5>1, <5>2
      <4>4. CASE u # d /\ v # d
        BY <1>4, <3>1, <3>3, <4>1, <4>4
      <4> QED
        BY <4>2, <4>3, <4>4
    <3> QED
      BY <3>2, <3>3
  <2> QED
    BY <1>1, <2>2, <2>3 DEF EachHasItsOwn
<1>8. \A u \in live \ {d} : socket_[u] # NoHandle =>
         epoll_fd_[u] \in Epolls /\ h \notin watched[epoll_fd_[u]]
  BY <1>5 DEF StartupInv, ServersTypeOK, EachHasItsOwn, InitializedServes
<1>9. InitializedServes'
  <2> SUFFICES ASSUME NEW u \in live', socket_'[u] # NoHandle
               PROVE  IF initialized_'[u] /\ ~halfway'[u]
                        THEN socket_'[u] \in listening' /\ watched'[epoll_fd_'[u]] = {socket_'[u]}
                        ELSE /\ watched'[epoll_fd_'[u]] = {}
                             /\ socket_'[u] \in listening' => halfway'[u]
    BY DEF InitializedServes
  <2>1. PICK v \in live \ {d} :
           /\ socket_'[u] = socket_[v] /\ epoll_fd_'[u] = epoll_fd_[v]
           /\ initialized_'[u] = initialized_[v] /\ halfway'[u] = halfway[v]
    BY <1>1, <1>4
  <2>2. watched'[epoll_fd_[v]] = watched[epoll_fd_[v]] /\ socket_[v] # h
    <3>1. epoll_fd_[v] \in Epolls /\ h \notin watched[epoll_fd_[v]]
      BY <1>8, <2>1
    <3>2. watched[epoll_fd_[v]] \ {h} = watched[epoll_fd_[v]]
      BY <3>1
    <3> QED
      BY <1>3, <1>5, <2>1, <3>1, <3>2
  <2> QED
    BY <1>3, <2>1, <2>2 DEF StartupInv, InitializedServes
<1>10. RunningHasSocket' /\ HalfwayIsInitialized'
  BY <1>1, <1>4 DEF StartupInv, ServersTypeOK, RunningHasSocket, HalfwayIsInitialized
<1>11. OnlyServersListen'
  <2>1. listening' \subseteq Served'
    <3>1. ASSUME NEW x \in listening' PROVE x \in Served'
      <4>1. x \in listening /\ x # h
        BY <1>3, <3>1
      <4>2. x # NoHandle /\ \E u \in live : socket_[u] = x
        BY <4>1 DEF StartupInv, OnlyServersListen, Served
      <4>3. PICK u \in live \ {d} : socket_[u] = x
        BY <4>1, <4>2
      <4>4. \E v \in live' : socket_'[v] = x
        BY <1>1, <1>4, <4>3
      <4> QED
        BY <4>2, <4>4 DEF Served
    <3> QED
      BY <3>1
  <2>2. ASSUME NEW e \in epolls', NEW x \in watched'[e]
        PROVE  \E u \in live' : socket_'[u] = x /\ epoll_fd_'[u] = e
    <3>1. e \in Epolls /\ x \in watched[e] /\ x # h
      BY <1>1, <1>3 DEF StartupInv, ServersTypeOK
    <3>2. PICK u \in live : socket_[u] = x /\ epoll_fd_[u] = e
      BY <1>1, <3>1 DEF StartupInv, OnlyServersListen
    <3> QED
      BY <1>1, <1>4, <3>1, <3>2
  <2>3. \A e \in Epolls \ epolls' : watched'[e] = {}
    BY <1>1, <1>3 DEF StartupInv, OnlyServersListen
  <2> QED
    BY <2>1, <2>2, <2>3 DEF OnlyServersListen
<1>12. GivenOut'
  <2>1. Served' = Served \ {h}
    <3>1. \A x : x \in Served' => x \in Served \ {h}
      <4> SUFFICES ASSUME NEW x \in Served' PROVE x \in Served \ {h}
        OBVIOUS
      <4>1. PICK u \in live' : socket_'[u] = x /\ x # NoHandle
        BY DEF Served
      <4>2. PICK v \in live \ {d} : socket_'[u] = socket_[v]
        BY <1>1, <1>4, <4>1
      <4>3. socket_[v] # h
        BY <1>5, <4>1, <4>2
      <4> QED
        BY <4>1, <4>2, <4>3 DEF Served
    <3>2. \A x : x \in Served \ {h} => x \in Served'
      <4> SUFFICES ASSUME NEW x \in Served \ {h} PROVE x \in Served'
        OBVIOUS
      <4>1. PICK u \in live \ {d} : socket_[u] = x
        BY DEF Served
      <4>2. \E v \in live' : socket_'[v] = x
        BY <1>1, <1>4, <4>1
      <4> QED
        BY <4>2 DEF Served
    <3> QED
      BY <3>1, <3>2
  <2>2. h \notin spare
    BY <1>1, <1>2 DEF StartupInv, ServersTypeOK, GivenOut, Served
  <2> QED
    BY <1>1, <1>3, <2>1, <2>2 DEF StartupInv, GivenOut
<1> QED
  BY <1>1, <1>6, <1>7, <1>9, <1>10, <1>11, <1>12 DEF StartupInv

(* initialize() changes the server's own socket and epoll instance only.   *)
LEMMA InitializeKeepsInv ==
  ASSUME StartupInv, NEW s \in Servers, Initialize(s)
  PROVE  StartupInv'
<1>1. /\ s \in live \ running /\ ~initialized_[s] /\ socket_[s] # NoHandle /\ kept' = kept
      /\ initialized_' = [initialized_ EXCEPT ![s] = TRUE]
      /\ UNCHANGED <<spare, live, socket_, epoll_fd_, running, epolls>>
      /\ listening \subseteq listening' /\ listening' \subseteq listening \cup {socket_[s]}
  BY DEF Initialize, vars
<1>2. socket_[s] \in Handles /\ epoll_fd_[s] \in Epolls
  BY <1>1 DEF StartupInv, ServersTypeOK, EachHasItsOwn
<1>3. \/ /\ listening' = listening \cup {socket_[s]} /\ halfway' = halfway
         /\ watched' = [watched EXCEPT ![epoll_fd_[s]] = @ \cup {socket_[s]}]
      \/ halfway' = [halfway EXCEPT ![s] = TRUE] /\ watched' = watched
  BY DEF Initialize
<1>4. \A u \in live \ {s} : socket_[u] # NoHandle =>
         /\ socket_[u] # socket_[s] /\ epoll_fd_[u] # epoll_fd_[s] /\ epoll_fd_[u] \in Epolls
         /\ initialized_'[u] = initialized_[u] /\ halfway'[u] = halfway[u]
         /\ watched'[epoll_fd_[u]] = watched[epoll_fd_[u]]
  BY <1>1, <1>2, <1>3 DEF StartupInv, ServersTypeOK, EachHasItsOwn
<1>5. ServersTypeOK'
  <2>1. listening' \subseteq Handles /\ initialized_' \in [Servers -> BOOLEAN]
    BY <1>1, <1>2 DEF StartupInv, ServersTypeOK
  <2>2. halfway' \in [Servers -> BOOLEAN]
    BY <1>3 DEF StartupInv, ServersTypeOK
  <2>3. watched' \in [Epolls -> SUBSET Handles]
    BY <1>2, <1>3 DEF StartupInv, ServersTypeOK
  <2> QED
    BY <1>1, <2>1, <2>2, <2>3 DEF StartupInv, ServersTypeOK
<1>6. EachHasItsOwn'
  BY <1>1 DEF StartupInv, EachHasItsOwn
<1>7. InitializedServes'
  <2>1. watched[epoll_fd_[s]] = {}
    BY <1>1 DEF StartupInv, InitializedServes
  <2>2. IF initialized_'[s] /\ ~halfway'[s]
          THEN socket_[s] \in listening' /\ watched'[epoll_fd_[s]] = {socket_[s]}
          ELSE watched'[epoll_fd_[s]] = {} /\ halfway'[s]
    <3>1. initialized_'[s] /\ (socket_[s] \in listening => halfway[s])
      BY <1>1 DEF StartupInv, ServersTypeOK, InitializedServes
    <3>2. CASE /\ listening' = listening \cup {socket_[s]} /\ halfway' = halfway
               /\ watched' = [watched EXCEPT ![epoll_fd_[s]] = @ \cup {socket_[s]}]
      <4>1. ~halfway[s]
        BY <1>1 DEF StartupInv, HalfwayIsInitialized
      <4> QED
        BY <1>2, <2>1, <3>1, <3>2, <4>1 DEF StartupInv, ServersTypeOK
    <3>3. CASE halfway' = [halfway EXCEPT ![s] = TRUE] /\ watched' = watched
      BY <2>1, <3>3 DEF StartupInv, ServersTypeOK
    <3> QED
      BY <1>3, <3>2, <3>3
  <2>3. ASSUME NEW u \in live \ {s}, socket_[u] # NoHandle
        PROVE  IF initialized_'[u] /\ ~halfway'[u]
                 THEN socket_[u] \in listening' /\ watched'[epoll_fd_[u]] = {socket_[u]}
                 ELSE /\ watched'[epoll_fd_[u]] = {}
                      /\ socket_[u] \in listening' => halfway'[u]
    BY <1>1, <1>4, <2>3 DEF StartupInv, InitializedServes
  <2> QED
    BY <1>1, <2>2, <2>3 DEF InitializedServes
<1>8. RunningHasSocket' /\ HalfwayIsInitialized'
  BY <1>1, <1>3 DEF StartupInv, ServersTypeOK, RunningHasSocket, HalfwayIsInitialized
<1>9. OnlyServersListen'
  BY <1>1, <1>2, <1>3 DEF StartupInv, ServersTypeOK, OnlyServersListen, EachHasItsOwn, Served
<1>10. GivenOut'
  BY <1>1 DEF StartupInv, GivenOut, Served
<1> QED
  BY <1>5, <1>6, <1>7, <1>8, <1>9, <1>10 DEF StartupInv

(* run() changes nothing of this, and the destructor takes a server away   *)
(* with its socket.                                                        *)
LEMMA RunKeepsInv ==
  ASSUME StartupInv, NEW s \in Servers, Run(s) \/ RunEnds(s)
  PROVE  StartupInv'
BY DEF StartupInv, ServersTypeOK, EachHasItsOwn, InitializedServes, HalfwayIsInitialized,
       RunningHasSocket, OnlyServersListen, GivenOut, Served, Run, RunEnds, vars, kernelVars

LEMMA DestroyServerKeepsInv ==
  ASSUME StartupInv, NEW s \in Servers, DestroyServer(s)
  PROVE  StartupInv'
<1> DEFINE h == socket_[s]
<1>1. /\ s \in live \ running /\ CloseSocket(h) /\ live' = live \ {s}
      /\ socket_' = [socket_ EXCEPT ![s] = NoHandle]
      /\ epoll_fd_' = [epoll_fd_ EXCEPT ![s] = NoEpoll]
      /\ UNCHANGED <<spare, initialized_, halfway, running, epolls>>
  BY DEF DestroyServer
<1>2. /\ kept' \subseteq kept /\ kept \subseteq kept' \cup {h} /\ kept' = kept \ {h}
      /\ listening' = listening \ {h}
      /\ watched' \in [Epolls -> SUBSET Handles]
      /\ \A e \in Epolls : watched'[e] = watched[e] \ {h}
  BY <1>1, CloseSocketFacts DEF StartupInv, ServersTypeOK
<1>3. \A u \in live' : /\ socket_'[u] = socket_[u] /\ epoll_fd_'[u] = epoll_fd_[u]
                        /\ socket_[u] # NoHandle => socket_[u] # h
  BY <1>1 DEF StartupInv, ServersTypeOK, EachHasItsOwn
<1>4. ServersTypeOK'
  BY <1>1, <1>2 DEF StartupInv, ServersTypeOK
<1>5. EachHasItsOwn'
  BY <1>1, <1>2, <1>3 DEF StartupInv, EachHasItsOwn
<1>6. InitializedServes'
  <2>1. ASSUME NEW u \in live', socket_'[u] # NoHandle
        PROVE  /\ u \in live /\ watched'[epoll_fd_'[u]] = watched[epoll_fd_[u]]
               /\ socket_[u] \in listening' <=> socket_[u] \in listening
    <3>1. /\ u \in live /\ epoll_fd_[u] \in Epolls
          /\ socket_[u] # NoHandle /\ socket_[u] # h
      BY <1>1, <1>3, <2>1 DEF StartupInv, ServersTypeOK, EachHasItsOwn
    <3>2. h \notin watched[epoll_fd_[u]]
      <4>1. watched[epoll_fd_[u]] \subseteq {socket_[u]}
        BY <3>1 DEF StartupInv, InitializedServes
      <4> QED
        BY <3>1, <4>1
    <3>3. watched[epoll_fd_[u]] \ {h} = watched[epoll_fd_[u]]
      BY <3>2
    <3>4. watched'[epoll_fd_'[u]] = watched[epoll_fd_[u]]
      <4>1. epoll_fd_'[u] = epoll_fd_[u]
        BY <1>1, <1>3, <2>1
      <4>2. watched'[epoll_fd_[u]] = watched[epoll_fd_[u]] \ {h}
        BY <1>2, <3>1
      <4> QED
        BY <3>3, <4>1, <4>2
    <3>5. socket_[u] \in listening' <=> socket_[u] \in listening
      BY <1>2, <3>1
    <3> QED
      BY <3>1, <3>4, <3>5
  <2> QED
    BY <1>1, <1>3, <2>1 DEF StartupInv, InitializedServes
<1>7. RunningHasSocket' /\ HalfwayIsInitialized'
  BY <1>1, <1>3 DEF StartupInv, ServersTypeOK, RunningHasSocket, HalfwayIsInitialized
<1>8. OnlyServersListen'
  <2>1. ASSUME NEW x \in listening'
        PROVE  x \in Served'
    <3>1. x \in listening /\ x # h
      BY <1>2, <2>1
    <3>2. x # NoHandle /\ \E u \in live : socket_[u] = x
      BY <3>1 DEF StartupInv, OnlyServersListen, Served
    <3>3. \E u \in live' : socket_'[u] = x
      BY <1>1, <1>3, <3>1, <3>2
    <3> QED
      BY <3>2, <3>3 DEF Served
  <2>2. ASSUME NEW e \in epolls', NEW x \in watched'[e]
        PROVE  \E u \in live' : socket_'[u] = x /\ epoll_fd_'[u] = e
    <3>1. e \in Epolls /\ x \in watched[e] /\ x # h
      BY <1>1, <1>2, <2>2 DEF StartupInv, ServersTypeOK
    <3>2. PICK u \in live : socket_[u] = x /\ epoll_fd_[u] = e
      BY <1>1, <2>2, <3>1 DEF StartupInv, OnlyServersListen
    <3> QED
      BY <1>1, <1>3, <3>1, <3>2
  <2>3. \A e \in Epolls \ epolls' : watched'[e] = {}
    BY <1>1, <1>2 DEF StartupInv, OnlyServersListen
  <2> QED
    BY <2>1, <2>2, <2>3 DEF OnlyServersListen
<1>9. GivenOut'
  <2>1. Served' = Served \ {h}
    BY <1>1, <1>3 DEF Served
  <2>2. h \notin spare
    BY <1>1 DEF StartupInv, ServersTypeOK, GivenOut, Served
  <2> QED
    BY <1>1, <1>2, <2>1, <2>2 DEF StartupInv, GivenOut
<1> QED
  BY <1>4, <1>5, <1>6, <1>7, <1>8, <1>9 DEF StartupInv

-----------------------------------------------------------------------------
(* Each step is one of the factory and its caller, or none.                *)
LEMMA StepIsACall ==
  ASSUME StartupInv, [StartupNext]_startupVars
  PROVE  [Next]_vars
<1>1. ASSUME NEW h \in Handles \cup {NoHandle}, CloseSocket(h) PROVE [Next]_vars
  BY <1>1 DEF CloseSocket, Next
<1>2. CASE Make \/ UNCHANGED startupVars
  BY <1>2 DEF Make, Next, startupVars
<1>3. ASSUME NEW h \in Handles, ConstructFails(h) \/ \E s \in Servers : Construct(s, h)
      PROVE  [Next]_vars
  BY <1>1, <1>3 DEF ConstructFails, Construct
<1>4. ASSUME NEW s \in Servers, Initialize(s) \/ Run(s) \/ RunEnds(s) \/ DestroyServer(s)
      PROVE  [Next]_vars
  <2>1. socket_[s] \in Handles \cup {NoHandle}
    BY DEF StartupInv, ServersTypeOK
  <2> QED
    BY <1>1, <1>4, <2>1 DEF Initialize, Run, RunEnds, DestroyServer
<1>5. ASSUME NEW s \in Servers, NEW d \in Servers, MoveConstruct(s, d) \/ MoveAssign(s, d)
      PROVE  [Next]_vars
  <2>1. socket_[d] \in Handles \cup {NoHandle}
    BY DEF StartupInv, ServersTypeOK
  <2> QED
    BY <1>1, <1>5, <2>1 DEF MoveConstruct, MoveAssign
<1> QED
  BY <1>2, <1>3, <1>4, <1>5 DEF StartupNext

(* The servers, for any sequence of moves, failures and destructions.      *)
THEOREM StartupInvHolds == StartupSpec => []StartupInv
<1>1. StartupInit => StartupInv /\ Inv
  BY InitGivesInv DEF StartupInit, Init, StartupInv, ServersTypeOK, EachHasItsOwn, InitializedServes,
         HalfwayIsInitialized, RunningHasSocket, OnlyServersListen, GivenOut, Served
<1>2. (StartupInv /\ Inv) /\ [StartupNext]_startupVars => (StartupInv /\ Inv)'
  <2> SUFFICES ASSUME StartupInv, Inv, [StartupNext]_startupVars PROVE StartupInv' /\ Inv'
    OBVIOUS
  <2>2. Inv'
    BY StepIsACall, NextKeepsInv
  <2>1. CASE UNCHANGED startupVars
    BY <2>1, <2>2 DEF startupVars, vars, serverVars, kernelVars, StartupInv, ServersTypeOK,
                EachHasItsOwn, InitializedServes, HalfwayIsInitialized, RunningHasSocket,
                OnlyServersListen, GivenOut, Served
  <2>3. CASE Make
    BY <2>2, <2>3, MakeKeepsInv
  <2>4. ASSUME NEW h \in Handles, ConstructFails(h) \/ \E s \in Servers : Construct(s, h)
        PROVE  StartupInv'
    BY <2>4, ConstructKeepsInv, ConstructFailsKeepsInv
  <2>5. ASSUME NEW s \in Servers, Initialize(s) \/ Run(s) \/ RunEnds(s) \/ DestroyServer(s)
        PROVE  StartupInv'
    BY <2>5, InitializeKeepsInv, RunKeepsInv, DestroyServerKeepsInv
  <2>6. ASSUME NEW s \in Servers, NEW d \in Servers, MoveConstruct(s, d) \/ MoveAssign(s, d)
        PROVE  StartupInv'
    BY <2>6, MoveConstructKeepsInv, MoveAssignKeepsInv
  <2> QED
    BY <2>1, <2>2, <2>3, <2>4, <2>5, <2>6 DEF StartupNext
<1> QED
  BY <1>1, <1>2, PTL DEF StartupSpec

(* No two servers share a socket or an epoll instance, whatever is moved.  *)
THEOREM ServersDoNotShare == StartupSpec => []EachHasItsOwn
<1>1. StartupInv => EachHasItsOwn
  BY DEF StartupInv
<1> QED
  BY <1>1, StartupInvHolds, PTL

(* A server that is initialized, and has not failed halfway, listens and   *)
(* is watched by its epoll instance, wherever it was moved from.           *)
THEOREM InitializedServersServe == StartupSpec => []InitializedServes
<1>1. StartupInv => InitializedServes
  BY DEF StartupInv
<1> QED
  BY <1>1, StartupInvHolds, PTL

(* Of the factory the servers do no more than any caller may: each step is *)
(* one of SocketFactory, or none, so that its invariants hold here too.    *)
THEOREM ServersAreCallers == StartupSpec => Spec
<1>1. StartupInit => Init
  BY DEF StartupInit
<1>2. StartupInv /\ [StartupNext]_startupVars => [Next]_vars
  BY StepIsACall
<1> QED
  BY <1>1, <1>2, StartupInvHolds, PTL DEF StartupSpec, Spec

(* Every open descriptor has one owner that will destroy its socket: the   *)
(* factory says that it is of the call or was given out (NoSocketLost), the*)
(* servers that what was given out is the program's or one server's        *)
(* (GivenOut).                                                             *)
THEOREM StartupLosesNoSocket == StartupSpec => []EachSocketHasAnOwner
<1>1. StartupInv /\ Inv => EachSocketHasAnOwner
  <2> SUFFICES ASSUME StartupInv, Inv PROVE EachSocketHasAnOwner
    OBVIOUS
  <2>1. open = kept \cup ({sock} \ {NoHandle})
    BY DEF Inv, NoSocketLost
  <2>2. kept = spare \cup Served /\ spare \cap Served = {} /\ sock \notin kept
    BY DEF StartupInv, GivenOut, Inv, NoSocketLost
  <2>3. pc \in Exceptions \cup {"idle"} => sock = NoHandle
    BY DEF Inv, NoSocketLost
  <2> QED
    BY <2>1, <2>2, <2>3 DEF EachSocketHasAnOwner
<1> QED
  BY <1>1, StartupInvHolds, ServersAreCallers, InvHolds, PTL
=============================================================================
