-------------------------------- MODULE Startup --------------------------------
(***************************************************************************)
(* The life of net::TCPServer around run() (src/src/net/tcp.h,             *)
(* src/src/net/tcp_linux.cpp): a program makes servers of the sockets that *)
(* SocketFactory gives it, moves, initializes, runs and destroys them.     *)
(* Each step may fail.  What run() does is TcpServer; here it is a server  *)
(* that nobody moves or destroys meanwhile.                                *)
(*                                                                         *)
(* The program keeps to what the operations can bear: no initialize() on a *)
(* server whose socket has moved away.                                     *)
(***************************************************************************)
EXTENDS SocketFactory

CONSTANTS
  Servers,   \* the objects that may be a server
  Epolls,    \* the descriptors of epoll instances
  NoEpoll    \* -1, what a server has that was moved from

ASSUME NoEpollAssumption == NoEpoll \notin Epolls

VARIABLES
  spare,          \* the sockets in the program's own hands
  live,           \* the servers that are constructed and not yet destroyed
  socket_, epoll_fd_, initialized_,
  running,        \* the servers in run()
  \* the kernel
  listening,      \* the sockets that listen
  epolls,         \* the epoll instances that are open
  watched,        \* watched[e]: the sockets in the interest list of e
  \* history
  halfway         \* an exception has left initialize() of this server

serverVars == <<live, socket_, epoll_fd_, initialized_, running, halfway>>
kernelVars == <<listening, epolls, watched>>
startupVars == <<vars, spare, serverVars, kernelVars>>

ServersTypeOK ==
  /\ spare \subseteq Handles
  /\ live \subseteq Servers /\ running \subseteq live
  /\ socket_ \in [Servers -> Handles \cup {NoHandle}]
  /\ epoll_fd_ \in [Servers -> Epolls \cup {NoEpoll}]
  /\ initialized_ \in [Servers -> BOOLEAN] /\ halfway \in [Servers -> BOOLEAN]
  /\ listening \subseteq Handles /\ epolls \subseteq Epolls
  /\ watched \in [Epolls -> SUBSET Handles]

StartupInit ==
  /\ Init /\ spare = {}
  /\ live = {} /\ running = {}
  /\ socket_ = [s \in Servers |-> NoHandle] /\ epoll_fd_ = [s \in Servers |-> NoEpoll]
  /\ initialized_ = [s \in Servers |-> FALSE] /\ halfway = [s \in Servers |-> FALSE]
  /\ listening = {} /\ epolls = {} /\ watched = [e \in Epolls |-> {}]

-----------------------------------------------------------------------------
(* The sockets of servers.                                                 *)
Served == {socket_[s] : s \in live} \ {NoHandle}

(* The destructor of a unique_ptr that owns h, if it owns one: a socket    *)
(* that is closed no longer listens and leaves all interest lists.         *)
CloseSocket(h) ==
  IF h = NoHandle
    THEN UNCHANGED <<vars, listening, watched>>
    ELSE /\ Destroy(h)
         /\ listening' = listening \ {h}
         /\ watched' = [e \in Epolls |-> watched[e] \ {h}]

(* TCPServer(unique_ptr<Socket> &&).                                       *)
Construct(s, h) ==
  /\ s \notin live /\ h \in spare
  /\ spare' = spare \ {h}
  /\ \E e \in Epolls \ epolls :
       /\ epolls' = epolls \cup {e}
       /\ epoll_fd_' = [epoll_fd_ EXCEPT ![s] = e]
  /\ live' = live \cup {s}
  /\ socket_' = [socket_ EXCEPT ![s] = h]
  /\ initialized_' = [initialized_ EXCEPT ![s] = FALSE]
  /\ halfway' = [halfway EXCEPT ![s] = FALSE]
  /\ UNCHANGED <<vars, running, listening, watched>>

(* When epoll_create1 fails, the member socket_ is destroyed; and a socket *)
(* that becomes no server is destroyed by the program.                     *)
ConstructFails(h) ==
  /\ h \in spare
  /\ spare' = spare \ {h}
  /\ CloseSocket(h)
  /\ UNCHANGED <<serverVars, epolls>>

(* What a move takes from server s to server d.  The server it is taken    *)
(* from keeps its initialized_.                                            *)
Transfer(s, d) ==
  /\ socket_' = [socket_ EXCEPT ![d] = socket_[s], ![s] = NoHandle]
  /\ epoll_fd_' = [epoll_fd_ EXCEPT ![d] = epoll_fd_[s], ![s] = NoEpoll]
  /\ initialized_' = [initialized_ EXCEPT ![d] = initialized_[s]]
  /\ halfway' = [halfway EXCEPT ![d] = halfway[s]]

(* The new server shares the epoll instance with the one it comes from.    *)
MoveConstructSharing(s, d) ==
  /\ s \in live \ running /\ d \in Servers \ live
  /\ socket_' = [socket_ EXCEPT ![d] = socket_[s], ![s] = NoHandle]
  /\ epoll_fd_' = [epoll_fd_ EXCEPT ![d] = epoll_fd_[s]]
  /\ initialized_' = [initialized_ EXCEPT ![d] = initialized_[s]]
  /\ halfway' = [halfway EXCEPT ![d] = halfway[s]]
  /\ live' = live \cup {d}
  /\ UNCHANGED <<vars, spare, running, kernelVars>>

(* TCPServer(TCPServer &&).                                                *)
MoveConstruct(s, d) ==
  /\ s \in live \ running /\ d \in Servers \ live
  /\ Transfer(s, d)
  /\ live' = live \cup {d}
  /\ UNCHANGED <<vars, spare, running, kernelVars>>

(* The server assigned to does not take initialized_ over.                 *)
MoveAssignKeepingInitialized(s, d) ==
  /\ {s, d} \subseteq live \ running /\ s # d
  /\ CloseSocket(socket_[d])
  /\ socket_' = [socket_ EXCEPT ![d] = socket_[s], ![s] = NoHandle]
  /\ epoll_fd_' = [epoll_fd_ EXCEPT ![d] = epoll_fd_[s], ![s] = NoEpoll]
  /\ halfway' = [halfway EXCEPT ![d] = halfway[s]]
  /\ UNCHANGED <<spare, initialized_, live, running, epolls>>

(* The pointer of d is overwritten and the socket it had is not destroyed. *)
MoveAssignReleasing(s, d) ==
  /\ {s, d} \subseteq live \ running /\ s # d
  /\ Transfer(s, d)
  /\ UNCHANGED <<vars, spare, live, running, kernelVars>>

(* operator=(TCPServer &&): the socket that d had is destroyed; its epoll  *)
(* instance stays open for ever.  Nothing happens when s is d.             *)
MoveAssign(s, d) ==
  /\ {s, d} \subseteq live \ running /\ s # d
  /\ CloseSocket(socket_[d])
  /\ Transfer(s, d)
  /\ UNCHANGED <<spare, live, running, epolls>>

(* initialize(): initialized_ is set first, then listen() or epoll_ctl()   *)
(* may throw.  A server that is initialized throws and changes nothing.    *)
Initialize(s) ==
  /\ s \in live \ running /\ ~initialized_[s] /\ socket_[s] # NoHandle
  /\ initialized_' = [initialized_ EXCEPT ![s] = TRUE]
  /\ \/ /\ listening' = listening \cup {socket_[s]}
        /\ watched' = [watched EXCEPT ![epoll_fd_[s]] = @ \cup {socket_[s]}]
        /\ UNCHANGED halfway
     \/ /\ listening' \in {listening, listening \cup {socket_[s]}}
        /\ halfway' = [halfway EXCEPT ![s] = TRUE]
        /\ UNCHANGED watched
  /\ UNCHANGED <<vars, spare, live, socket_, epoll_fd_, running, epolls>>

(* run() goes on if the server is initialized; epoll_wait throws at once   *)
(* on the descriptor of a server that was moved from.                      *)
Run(s) ==
  /\ s \in live \ running /\ initialized_[s] /\ epoll_fd_[s] # NoEpoll
  /\ running' = running \cup {s}
  /\ UNCHANGED <<vars, spare, live, socket_, epoll_fd_, initialized_, halfway, kernelVars>>

(* Nothing but an exception ends it (TcpServer, Exit).                     *)
RunEnds(s) ==
  /\ s \in running
  /\ running' = running \ {s}
  /\ UNCHANGED <<vars, spare, live, socket_, epoll_fd_, initialized_, halfway, kernelVars>>

(* The destructor is the default one: the socket is closed, the epoll      *)
(* instance is not.                                                        *)
DestroyServer(s) ==
  /\ s \in live \ running
  /\ CloseSocket(socket_[s])
  /\ live' = live \ {s}
  /\ socket_' = [socket_ EXCEPT ![s] = NoHandle]
  /\ epoll_fd_' = [epoll_fd_ EXCEPT ![s] = NoEpoll]
  /\ UNCHANGED <<spare, initialized_, halfway, running, epolls>>

(* What the factory gives out is the program's.                            *)
Make ==
  /\ Calls
  /\ spare' = spare \cup (kept' \ kept)
  /\ UNCHANGED <<serverVars, kernelVars>>

StartupNext ==
  \/ Make
  \/ \E h \in Handles : ConstructFails(h) \/ \E s \in Servers : Construct(s, h)
  \/ \E s \in Servers : Initialize(s) \/ Run(s) \/ RunEnds(s) \/ DestroyServer(s)
  \/ \E s, d \in Servers : MoveConstruct(s, d) \/ MoveAssign(s, d)

StartupSpec == StartupInit /\ [][StartupNext]_startupVars

-----------------------------------------------------------------------------
(* Every open descriptor is of a socket with one owner that will destroy   *)
(* it: the call that makes it, the program, or a server.  No failure, move,*)
(* assignment or destruction leaves one behind, or gives it to two.        *)
EachSocketHasAnOwner ==
  /\ open = spare \cup Served \cup ({sock} \ {NoHandle})
  /\ spare \cap Served = {} /\ sock \notin spare \cup Served
  /\ pc \in Exceptions \cup {"idle"} => sock = NoHandle

(* What was given out and is not destroyed is the program's or a server's. *)
GivenOut == kept = spare \cup Served /\ spare \cap Served = {}

(* However the servers move, no two have the same socket or epoll          *)
(* instance, each socket of a server is one that was given out and not     *)
(* destroyed, and its epoll instance is open.                              *)
EachHasItsOwn ==
  /\ \A s \in live :
       /\ socket_[s] # NoHandle => socket_[s] \in kept
       /\ epoll_fd_[s] # NoEpoll => epoll_fd_[s] \in epolls
       /\ socket_[s] # NoHandle <=> epoll_fd_[s] # NoEpoll
  /\ \A s, d \in live : s # d /\ socket_[s] # NoHandle =>
       socket_[s] # socket_[d] /\ epoll_fd_[s] # epoll_fd_[d]

(* A server that says it is initialized, and run() believes it             *)
(* ("Server not initialized", tcp_linux.cpp:61), has a socket that listens *)
(* and that is all its epoll instance watches, after any moves, failures   *)
(* and destructions of others: all but one that initialize() has thrown    *)
(* out of, which looks initialized for ever and waits for nothing; one     *)
(* that is not initialized does neither.                                   *)
InitializedServes ==
  \A s \in live : socket_[s] # NoHandle =>
    IF initialized_[s] /\ ~halfway[s]
      THEN socket_[s] \in listening /\ watched[epoll_fd_[s]] = {socket_[s]}
      ELSE /\ watched[epoll_fd_[s]] = {}
           /\ socket_[s] \in listening => halfway[s]

(* A server in run() is one that serves, or that initialize() has failed   *)
(* for.                                                                    *)
RunningHasSocket == \A s \in running : initialized_[s] /\ socket_[s] # NoHandle

(* Only initialize() fails halfway, and it has set initialized_ by then.   *)
HalfwayIsInitialized == \A s \in live : halfway[s] => initialized_[s]

(* The kernel listens and watches for servers only.                        *)
OnlyServersListen ==
  /\ listening \subseteq Served
  /\ \A e \in epolls : \A h \in watched[e] : \E s \in live : socket_[s] = h /\ epoll_fd_[s] = e
  /\ \A e \in Epolls \ epolls : watched[e] = {}

StartupInv ==
  /\ ServersTypeOK /\ EachHasItsOwn /\ InitializedServes /\ HalfwayIsInitialized
  /\ RunningHasSocket /\ OnlyServersListen /\ GivenOut
=============================================================================
