# Verification of the HTTP application library

TLA+ models, model-checking runs and machine-checked proofs for the library in `src/`: an
epoll-based TCP server (`src/src/net`), an HTTP/1 layer on top of it (`src/src/http`), the
utilities both use (`src/src/utils`) and a demo application (`src/src/main.cpp`). Paths below
leave out the leading `src/src/`; line numbers are those of the sources.

Reading order: `UniqueLocker`, `TcpServer` (with `ClientLifespan`), `HttpListener`,
`MiddlewareChain`, `DemoApp`, `SocketFactory`, `Startup`, `Responses` and `Uris` (both on
`Strings`); each `...Proofs` module after the module it proves about, and `MessagesProofs` after
`UriProofs`, which begins with the facts about strings that both need.


## 1. The system

| Component | State it keeps | Operations | Used by |
|---|---|---|---|
| `utils::UniqueLocker` (`utils/utils.h:65-176`) | a mutex and a `unique_ptr` | take, try_take, yield, reset, assignment | TCP server |
| `net::TCPServer` (`net/tcp.h`, `net/tcp_linux.cpp`) | socket, epoll instance, `initialized_`, map of lockers, mutex of that map, map of listeners | construction, moves, initialize, run, addClient, processClient, destruction | HTTP server, threads of the program |
| `net::Socket`, `SocketFactory`, `SocketAddress` (`net/sockets.h`, `sockets_linux.cpp`) | a descriptor, an address | accept, recv, send, close, bind, connect, options; a loop over the addresses of a name | both servers |
| `HTTPClientEventsListener` (`http/server.h:97-261`) | the request being parsed, the current line, the count of the body, whether the response is sent | connected, dataAvailable | TCP server (callbacks) |
| `HTTPServer::handle` and `MiddlewareStatus` (`http/server.h:14-28,78-94`) | per request: the next middleware, whether the chain was interrupted | handle, reset of the status | listener and middlewares (recursion through the application) |
| `HTTPServer::sendResponse` (`http/server.h:30-61`) | none; the content length of the response | writes a head and a content to a socket that does not block | listener |
| Messages (`http/messages.h`), `Uri`, strings (`utils/utils.cpp`) | headers, body, parts of a URI | accessors and pure functions | listener, application |
| Demo application (`main.cpp`) | the mutex of `Logger` | three middlewares | HTTP server |

How they meet. `main()` makes an `HTTPServer` of a socket of `SocketFactory`, adds its middlewares,
calls `initialize()` and then `run()`. `run()` waits in epoll; a new connection is accepted, registered with
`EPOLLONESHOT`, given to a listener (`connected`) and stored in a `UniqueLocker` under its
descriptor. An event of a client takes the socket out of its locker, calls `dataAvailable` of
the listener of that descriptor, and puts the socket back, or destroys it when the client is
done. `dataAvailable` of the HTTP listener parses what has come, asks the chain of middlewares
for a response at each part of the request, sends it and starts again.

What is hard, and therefore modelled:

* several threads in `run()`, two locks (`clients_lock_` and the mutex of each locker) and one
  map without any; locks are held across calls, and a locker is locked in one function and
  unlocked in another;
* descriptors that the kernel gives out again while events, listeners and lockers are still
  under the old number; `EPOLLONESHOT`, where a forgotten re-arm loses a client for ever;
* exceptions that leave `run()` in the middle of a batch;
* data that comes in pieces: a request, a line, even a CRLF is cut anywhere, requests are
  pipelined, a client leaves at any time;
* one listener and one middleware status reused for request after request;
* a chain of calls through code of the application that is interrupted and resumed;
* responses of any headers on a connection that may be full or broken;
* servers that are moved, and an `initialize()` that throws halfway;
* a mutex of the application that an exception leaves locked.

`PROJECT.json` lists every such hazard at its line, with the properties that cover it or the
reason why none does.


## 2. Modules

### UniqueLocker (with UniqueLockerProofs)
`lock_`, `data_` are the two members, `hand` the pointers callers keep. One action per
operation. `Contract` is the documented use: no try_take by the owner, no yield or reset by anybody
else ("Behavior is undefined if called in the thread already owning the data", "without ownership").
A try_take by the owner leaves locks and data as they were, so that a forbidden call would look like
no step at all: the history variable `misused` records it, and such a call is no step of `Contract`.
A `take()` or an assignment by the owner waits for itself for ever: it takes no step, and would show
as threads that no longer go on. Under the contract each datum has one owner (`OneOwner`) and a
locked locker is empty (`LockedIsEmpty`). `TcpServer` INSTANCEs the module for its map of clients,
`misused` included, so that its operations are the locker's and not a second copy.

### TcpServer (with ClientLifespan, MCTcpServer, TcpServerProofs)
The server after a successful `initialize()`. A thread's `pc` names the place between two
operations on shared state:

| Actions | Code |
|---|---|
| `EpollWait` | `tcp_linux.cpp:67-72`; some ready events at most `MaxEvent`, disarmed by `EPOLLONESHOT` |
| `EpollFails` | the exceptions after `epoll_wait` and `epoll_ctl`, `tcp_linux.cpp:69-102` |
| `Accept`, `AcceptFails` | `tcp_linux.cpp:74-79`, `sockets_linux.cpp:24-47` |
| `Register` | `tcp_linux.cpp:80-86`, before `addClient` |
| `Attach`, `Emplace`, `Connected`, `LockAdd`, `Assign` | `addClient`, `tcp.h:82-91` |
| `TakeEvent` | `tcp_linux.cpp:87-97` |
| `TryTake`, `DataAvailable`, `Finish`, `Give`, `Dispose` | `processClient`, `tcp.h:99-124` |
| `Rearm` | `tcp_linux.cpp:97-104` |
| `Connect`, `SendData`, `HangUp` | the peers |

A data race on the map of listeners (`std::map` without a mutex) is a choice: a lookup that
meets an insertion may miss the listener, an insertion that meets another may be lost. `connected`
may throw too: the HTTP listener asks for the name of the client's address (`server.h:163`), a
system call. `addFailed` is history: an exception has left `addClient`. `Exit` is an exception that leaves `run()`: the local `unique_ptr`
closes its socket, a locker that was taken stays locked. Listeners are abstracted to how
`dataAvailable` may end (`Outcomes`): it leaves the socket open after it read something, closes
it, or throws.

`ClientLifespan` is the promise of the server to a listener, from the comments of
`ClientEventsListener`: connected, then data any number of times, each by one thread, then
shutdown, then destruction. `TcpServer` implements it under the mapping `StageOf`/`Holder`
(`KeepsLifespan`), races and exceptions included.

### HttpListener (with MCHttpListener, HttpListenerProofs)
`HTTPClientEventsListener`, over a stream of tokens (CR, LF, texts, units of body) that arrives
in pieces. `pc` is the place in `dataAvailable`: `head` and `receive` are its loop over lines
and `receiveLine`, then `body`, `handle`, `complete`, or `refuse` for the `catch`. The client
may send, hang up or reset the connection between any two steps. `peer` is what the kernel knows of
it: of a connection that is broken one call reports the error, `recv()` (`RecvThrows`) or the
`send()` of a response, and a `send()` after that raises SIGPIPE, which ends the process (`killed`).
A connection that breaks after the client has hung up hides its error from `recv()`. A text stands for the content
of a line; only what the code looks at is told apart (a request line that parses or not, a
header with a blank name or value, `content-length`, `keep-alive`). Where a text is cut does not
matter: `line_` keeps it. `parts` is history: the requests whose data was received since the
last reset; a response is recorded with it, so that data of one request taken for another's
shows. The application is a choice: it answers whenever it is asked, or when the request is
complete at the latest (otherwise the listener answers 500). The model takes any streams of tokens;
`Framed` is the grammar of those that clients send (requests one after the other, lines that CRLF
ends, headers after the request line, one length, a body as long as it says, or something bad), which
the proofs need and `MCHttpListener` checks of its streams (`MCStreamsAssumption`).

### MiddlewareChain (with MiddlewareChainProofs)
`handle()` and the status of one request, with the application as the environment. `stack` holds
the calls of `process()` in progress and what the last `handle()` gave each. A middleware may
call `handle()` (again), return a response or nullptr, throw and catch. `behaved`, chosen at the
start and never changed, restricts them to what the demo and the comments of `Middleware` suggest:
delegate at most once, and give no response only if there was none. `passed` and `waiting` are
history.

`HttpListener` abstracts this module to its outcome (a response, none, an exception) and to
whether the status has left the start of the list (`chain`).

### SocketFactory (with StartupProofs)
`boundSocket` and `connectedSocket`, one loop: `pc` is the step of one address (`socket`, `reuse`,
`attach` for `bind` or `connect`, `nonblocking`), then `free`, then how the call has ended. Every
step may fail. `Catch` is the handler of `SystemException`, `MakeSocketFails` the exception of the
constructor of `Socket`, which it does not catch. The caller calls again and again, and destroys
the sockets it was given. `made` is what the current socket has become, `fate` history. `connect`
on a socket that still blocks does not return `EINPROGRESS`, so that "returned" means connected.

### Startup (with MCStartup, StartupProofs)
A program that makes servers of the sockets of `SocketFactory`, whose actions it extends: the
constructor and its failure, both moves, `initialize()` with `listen()` or `epoll_ctl()` throwing,
`run()` as a whole (its inside is `TcpServer`), the destructor. `listening`, `epolls` and `watched`
are the kernel's. The sockets that the factory has given out go to `spare`, the program's own hands,
and from there to a server or to their destruction. `EachSocketHasAnOwner` compares these owners with
the open descriptors: a move that dropped the pointer of a server without destroying its socket would
leave one with no owner. A server closing its socket is `Destroy` of `SocketFactory`. `halfway` is history: an exception has left `initialize()`. The model
calls `initialize()` only on a server that has its socket (the code dereferences it without a
check), and moves or destroys no server that runs.

### DemoApp (with DemoAppProofs)
`main.cpp` with any number of threads in `run()`. `pc[t]` is the place in `ErrorHandler`, `Logger`
or `Hello`; `lock_` the mutex of `Logger`, `line` the pieces on the unfinished line of `cout`. A URI
that is not valid (`Uris`, `IsValid`) throws at `main.cpp:32` with the mutex locked. The threads of
the demo are instances of `MiddlewareChain` (`Chain(t)`), with the stack, the status and the history
of that module computed from `pc`: `FollowsChain` says that each step of the demo is a step of it.
A `std::mutex` that its own thread locks again is undefined behaviour; with the library used here
the thread blocks, and that is what the model does.

### Responses (with Strings, MCMessages, MessagesProofs)
The header map of `Message` (names folded to lower case, values added, set and unset), and
`sendResponse`: the true content length is set last, the head and the content are written with two
`send()`, each of which takes the part there is room for; what it returns is not looked at. The
stream is a string of tokens: words, delimiters, and the CR and LF that end each line. The status
line is one token, for nothing of it comes from the application but the status. A header line is
shorter than `npos` (`Short`). The names of headers have neither colon nor white space in them: that
is the application's duty, for no code looks at it. Values and contents are any strings and are
written as they are. So a value that holds CR LF ends its line, and two in a row end the head, in the
model as in the code.

No code of the repository reads responses. The client is imagined: it looks for CR LF from where it
stands (`LineEnds`), reads header lines with the library's own `parseHeaderLine`, `trim` and
`getContentLength`, which are the ones for requests, and then counts off the content. `arrived` is how
far it has read, `reader` its place in a response, `got` the headers so far, `received` the responses
it has read, none where it cannot go on. `sent` and `cut` are history: the responses given to
`sendResponse`, and the first one that did not fit.

`BodiesStayApart` and `HeadersAreRead` are about the responses before the first one that is cut or has
a CR LF in a header's values (`Plain`). From there on neither holds: without either half of `Plain`
TLC finds a content that is read as another response's, or a header that nobody set. No text of the
repository says that values are checked, or that a full socket is noticed, so that these are hazards
without a property (section 5), and no findings.

### Uris (with Strings, MCMessages, UriProofs)
`Strings` has the operations of `std::string` the code uses, with `npos` and the wrap of `size_t`,
and `utils::split` and `utils::trim`. `Uris` has the setters of `Uri`, the conversion to a string
(`Render`) and `fromString`, search by search. A string is a sequence of tokens: each delimiter is
one, and so is a word, or the number of a port. Parts are any strings, delimiters in them included,
for `encode` changes nothing; of ports it is assumed that different ones are written differently, and
without a delimiter. `Readable` says which URIs survive writing and reading, one conjunct for each way
in which a delimiter misleads a search. It is exact: `ReadsWhatItWrites` is an equivalence, checked and
proved, for every valid URI whose string is shorter than `npos`. Many URIs do not survive:

* a URI with a scheme and no port (`http://host/`): the colon of the scheme is taken for the port's,
  `stoul` throws, and the listener answers 400;
* `/a:b`: when the path starts at 0, `start - 1` wraps to `npos` (`uri.h:62`), and the last colon of
  the whole string is taken for the port's;
* `@` or `://` in the path or the query of a URI without user or scheme;
* an empty segment of a path, which `split` leaves out.

No text of the repository says which targets are to be accepted, so that these are no findings.


## 3. Runs

| Run | Question | Bounds |
|---|---|---|
| `locker` | Do callers that keep to the contract share a datum? | 3 threads, 2 lockers, 3 data |
| `tcp_single` | One thread, as in `main()`: is any event lost, any client forgotten or starved? | 2 connections, 2 descriptors, 2 chunks of data, 2 events per batch |
| `tcp_multi` | Two threads, any listener and exception: who owns a socket, does a descriptor leak, is an event stale, does each client live the promised life? | 2 threads, 2 connections, 2 descriptors, 1 chunk |
| `tcp_add_blocks` | finding 1 below | as `tcp_multi` |
| `http_listener` | Pipelined requests, cut anywhere but inside a CRLF: one response each, in order? | 13 streams of 2 or 3 requests of each kind, good and bad, bodies of 2 units |
| `http_split_crlf` | finding 2 below | 2 pipelined requests |
| `http_broken_client` | finding 3 below | 2 pipelined requests |
| `chain` | Any middlewares: does the chain go forward, can it be resumed? Well-behaved ones: is it resumed where it stopped, is every complete request answered? | 4 middlewares |
| `startup` | Does the factory return the first address that works and lose no descriptor; do servers that move and fail keep what is theirs? | 3 addresses, 3 sockets, 2 servers, 3 epoll instances |
| `addresses_untried` | finding 4 below | 3 addresses |
| `messages` | Does a client find the headers and contents of the responses? Which URIs does `fromString` read back? | 2 responses, 2 calls that set headers, a value with CR LF CR LF in it, contents of up to 2 CR, sends cut to 0, 1 or 4 tokens; 27648 URIs |
| `demo` | Do the lines of the log stay whole, does the demo follow the chain, when do answers end? | 3 threads, 4 kinds of request |

Why the bounds are enough to be of use. Two connections and two descriptors let every descriptor
be reused while the other client is anywhere in its life, and two connections in the backlog
while none is free; a batch of two holds an event of a client beside one of the listening
socket, and a third ready one is left out. Two threads suffice for the deadlock, the race and
all the interleavings of one client's hand-over; the proofs cover any number. Two chunks tell
"reads some" from "reads all". The streams contain each kind of request first and after another
one, and one stream of three, where what is left of the first shows in the third. Four
middlewares give two between the first and the last. Three addresses have one between two others,
and three descriptors let a call run out of them. Two servers are assigned to each other in both
directions while a third socket is the program's; three epoll instances are as many as two servers
and a lost one need. Two responses meet on one connection, the second cut, whole or behind
a cut one, and a cut falls before, in and after the end of a line; a content of CR meets the LF or
the CR of a line's end; two calls set a header twice, under two spellings, or set and unset it. One of three
threads abandons the mutex while another waits and a third comes. The parts of a URI hold each
delimiter that is searched for, alone and with others. Except in `messages`, everything is unbounded
in time: a connection is opened anew, and a listener used again, as often as one likes.

Deadlock is checked in every run but those of two threads of `TcpServer`, where all the threads
may be blocked (finding 1) or gone; `demo`, where they all block once the mutex is abandoned; and
`messages`, whose program stops after its last response.

The properties that say most:

* `FreshEvents`, `EventFindsClient`, `IdleIsArmed`: an event a thread has yet to process is of an
  open client that no other thread will be woken for; with one thread the client is found in the
  map, and a client in the map is never left without being armed.
* `ClientUnderItsDescriptor`, `ListenerServesItsClient`: reuse of descriptors never mixes
  clients.
* `KeepsRunning`: with one thread and the HTTP listener no exception ends `run()`, as long as
  no system call fails and descriptors are left (`tcp_single` has as many descriptors as
  connections, and `SystemErrors` is FALSE). When a call fails, `run()` ends: `tcp_multi` has that.
* `FreshEvents` holds until an exception leaves `addClient`: that one closes a client which epoll
  may have reported to another thread already.
* `OneResponseEach`, `NothingLeftUnanswered`, `ClosesOnRequest`: framing of pipelined requests.
* `EachSocketHasAnOwner`, `FirstThatWorks`: each failure in the loop over the addresses, and every
  move, assignment and destruction of the servers that the sockets go to.
* `EachHasItsOwn`, `InitializedServes`: a move takes socket, epoll instance and `initialized_`
  together; a server that `run()` accepts does serve. The one exception is the server that
  `initialize()` threw out of: it counts as initialized for ever, and `run()` on it waits for nothing.
* `BodiesStayApart`, `HeadersAreRead`: framing of responses, whatever content length the application
  sets and whatever is in the content, up to the first response that a full socket has cut or that has
  CR LF in a header's values.
* `LockerContract`: with one thread, the server never tries to take from a locker it owns, nor yields
  or resets one that it does not own.
* `LogEndsWhenAbandoned`, `KeepsAnswering`: after one URI that cannot be written no request gets past
  `Logger`; without one, answers never stop.
* `ReadsWhatItWrites`: an equivalence, so that it fails if the code reads more URIs back or fewer.
* `ForwardOnly`, `ResumesInTheList`, `ResumesWhereInterrupted`: the arithmetic of
  `process_interrupted` and `--current` over nested calls.

### Fairness
`tcp_single`: the thread is scheduled (weak fairness of its steps); epoll reports a descriptor
that is ready again and again, for the kernel goes round its ready list, and the backlog is a
queue (strong fairness of those deliveries). Peers owe nothing. `http_listener`: the steps of the
server are weakly fair: `TCPServer` calls `dataAvailable` while there is data, which is
`DataIsRead` of `TcpServer`; clients owe nothing. `chain`: a middleware returns in the
end, and the listener goes on. `demo`: each thread that can go on does (weak fairness per thread);
the mutex is not assumed fair, so that a thread may be passed over for ever, and `KeepsAnswering` is
about the threads together.

### Findings
1. `tcp_add_blocks`: `run()` arms a client in epoll (`tcp_linux.cpp:83`) before `addClient` stores
   it (`tcp.h:89`). Another thread that gets its first event takes the empty locker: `try_take`
   locks its mutex, `processClient` returns early for want of a client, and nobody unlocks it. The
   assignment of the first thread waits for ever with `clients_lock_` held. The comments call the
   server thread-safe (`tcp_linux.cpp:56`, `tcp.h:151`).
2. `http_split_crlf`: `receiveLine` looks for a CR at the end of `line_` (`server.h:115`), where it
   never puts one. When data ends between CR and LF the line never ends, and a well-formed
   request is refused.
3. `http_broken_client`: after an exception while parsing, the connection is to be closed so that the
   client can "start over" (`server.h:227-229`). If the exception is that of `recv()` on a connection
   the client has reset, the 400 is sent on a connection known to be broken: SIGPIPE, for which nothing
   in `src/` has a handler (`sockets.h:447` passes no `MSG_NOSIGNAL`), ends the process.
4. `addresses_untried`: when `::socket` fails for an address, `std::invalid_argument`
   (`sockets.h:213`) leaves the loop, which catches `SystemException` only: the addresses after it are
   not tried, although `sockets.h:536` says so, and the list is not freed.

Finding 1 takes two threads, finding 2 a CRLF cut in two, finding 3 a client that resets its
connection. What `tcp_single` and `http_listener` check is the server without the first two; the third
is in `http_listener` as an end of everything.


## 4. Proofs

Every theorem is for any values of the constants that meet the named assumptions.

* `UniqueLockerProofs!LockerCorrect`: `Contract => [](TypeOK /\ OneOwner /\ LockedIsEmpty)`: the three
  together are inductive. A datum in a locker is in no hand, and a locker its owner may yield to
  is empty. `LockedLockersAreEmpty` is its last part. That the server keeps to the contract is
  `LockersAreUsedAsDocumented` of `TcpServerProofs`: its try_take finds the locker unlocked (`Waiting`),
  and its yield and reset are calls of the owner (`ServingOwnsLocker`), so that `misused` never changes.
* `TcpServerProofs`: `Inv` of `TcpServer` is inductive. `OneOwner` is not by itself: that a client
  is put into a locker whose content it does not overwrite needs `LockedIsEmpty`, hence that the
  thread at `give` owns the locker (`ServingOwnsLocker`); that a new descriptor hits no client
  needs `NoDescriptorLeak` and `OneClientPerDescriptor`; and both need to know what a thread
  holds at each place of the code (`HandFollowsPc`, `ServedUnderCur`). The proof has a lemma per
  action for `Ownership` and one for `Descriptors`. From it: `TypeCorrect`, `SocketsHaveOneOwner`,
  `DescriptorsDoNotLeak`, `ClientsUnderTheirDescriptors`, `ProcessClientOwnsLocker`, for any number
  of threads, races and exceptions included. `ClientsKeepTheirLifespan` is the refinement: every step
  of the server maps to a step of `ClientLifespan` or to a stutter. Each action moves at most the one
  client in its thread's hands; that `Holder` is well defined, and that a client never has two
  stages, is `OneOwner`.
  `EventInv` strengthens `FreshEvents`: the descriptors a thread is busy with, in
  its batch or in its hands, are in use, not armed, and no other thread's (`BusyApart`), and none is
  twice with the same one (`BusyOnce`). A thread that arms or closes a descriptor is the one busy with
  it, hence nobody else is. From it `EventsAreFresh`, for any number of threads. The second part
  assumes `Alone`: one thread, listeners that let no exception through, no failing system call, and
  descriptors enough for the connections. `AloneInv` says that the client of each event waits in its
  unlocked locker (`Waiting`), that its listener was told of it (`Known`) and that its descriptor is
  in the interest list (`Watched`); together with `EventInv` and `Inv` it is inductive. From it
  `ListenersServeTheirClients`, `EventsFindTheirClients`, `IdleClientsAreArmed`, `RunGoesOn`,
  `NoLockerIsAbandoned`, `LockersAreUsedAsDocumented`. They are about one thread: with two, an
  event may find no client in its locker (finding 1).
* `HttpListenerProofs`: `Inv` adds to the types where the listener can be in which state of the
  request (`WhereItIs`), which `FreshRequest` and `BodyWithinLength` need to be inductive. From it:
  `RequestsStartFresh`, `ResponsesFollowHeads` (so that "No need to parse if the response is already
  sent", `server.h:196`, never applies), `BodiesKeepTheirLength`, for all streams, cut anywhere,
  inside a CRLF too. The second part assumes `FramedStreams`: no cut between CR and LF (finding 2),
  and streams of the grammar at the end of `HttpListener` (`Framed`). `Framing` says where in the
  grammar `pos` is: after a request (`BetweenRequests`), at a place of a line of a head (`InHead`,
  with what is known of the lines before, `HeadSoFar`), or in a body as long as the head said
  (`InBody`); what has been answered (`Answers`); and why a request is refused (`Refusing`) or the
  connection closed (`ClosedByServer`). There is one lemma per action; the grammar fixes what the
  next token may be at each place, so that the listener and the client agree where each request ends.
  From it `ResponsesFollowRequests`, `WellFormedRequestsAreAccepted`, `ConnectionsEndOnRequest`, and
  `EverythingIsAnswered` for streams of whole requests (`Whole`): any number of requests, headers and
  units of body.
* `MiddlewareChainProofs`: `Inv` joins the order of the nested calls (`NoReentrance`), the
  middlewares passed (`PastThose`), and where an interrupted chain stands (`AtRest`, `StaysThere`).
  The key is that the middleware last called is never one that handed the request on, so that
  setting the chain back by one, and by one only, stays past those. From it: `ChainGoesForward`,
  `ChainResumesInTheList`, `ChainResumesWhereInterrupted`, for any number of middlewares.
* `StartupProofs`: for the factory, `Inv` says what every address met (`InOrder`) and what the socket
  has become at each place (`Progress`); without both, `FirstThatWorks` is not preserved by the step
  that frees the list. From it: `SocketsAreNotLost`, `FirstAddressWins`, for any number of addresses.
  For servers, `StartupInv` joins `EachHasItsOwn` and `InitializedServes` with what the kernel does
  for servers only (`OnlyServersListen`): without that a new epoll instance could watch something
  already. `ServersAreCallers` shows that the whole is a behaviour of `SocketFactory!Spec`, so that its
  theorems hold with servers. `StartupLosesNoSocket` is `EachSocketHasAnOwner`: what the factory has given
  out is the program's or a server's (`GivenOut`), and no two servers have the same, so that the socket
  an assignment or a destructor closes is the one that leaves the owners. For any numbers of addresses, sockets, servers
  and instances.
* `DemoAppProofs`: `IInv` says what the owner of the mutex has written (`LineOfOwner`) and that only the
  owner writes. From it `LogLinesAreWhole`, `LogEnds`; and `DemoFollowsChain`, the refinement of
  `MiddlewareChain` by each thread, for any number of threads.
* `MessagesProofs`: `Inv` says that up to the first cut the stream is made of the heads and contents of
  the responses, one after the other (`StreamFollows`), and where the client is in the response it
  reads, with what it has read of it (`ClientFollows`): at the beginning of a line, or of the content.
  The client looks for CR LF in tokens that may hold any CR or LF, so the proof is about places: where
  each line of a head begins (`Places`), that a line without CR LF in its values has none where its
  pieces meet either (`HasNoEnd`), hence that the first CR LF from the
  beginning of a line is the one written for it (`FirstEnd`, `LineIsOfFrame`). That a header line is
  read as it was written is a matter of strings: its first colon is the one written after the name,
  `trim` takes away from the value what it would take away from the value set, and no two headers
  share a name in lower case. From it `BodiesApart` and `HeadersAsSet`, for any names, values, contents
  and number of responses, and a socket of any capacity, up to the first response that is not `Plain`.

* `UriProofs`: `ReadsExactlyTheReadable` is `ReadsWhatItWrites` for parts that are any strings and
  any ports. It is not a matter of an invariant beyond the types (`UriTypeCorrect`) but of what
  `Render` and `fromString` compute. The string is cut into the parts and the delimiters between
  them (`RenderCuts`), so that each stretch of it holds the delimiters that the part holds, and the
  one that was written there (`HeldIs`). Each search of `fromString` finds the delimiter that was
  written for it exactly under some of the conjuncts of `Readable` (`AuthorityFound` to `PortFound`,
  together `ReadableIs`). Then every part is read back (`ReadsBack`); that the path is, needs that
  `split` gives back the segments that were joined (`SplitJoins`). Conversely, if every part is read
  back, each search found what was written (`MarksReadBack`): the lengths of the parts add up to no
  other cut. In both directions the wrap of `size_t` matters, for a path at the beginning of the string.
  The recursions of `split` and of the joining of segments are unfolded by induction over a set of
  numbers, which their well-foundedness gives (`Induction`), as the library's induction theorems,
  which take an operator, cannot be used.

Every safety invariant and every action property that a run checks is stated by one of these
theorems. Only model-checked: liveness under fairness, which is out of the prover's reach
(`DataIsRead`, `HangUpIsReleased`, `BacklogIsServed`, `RequestIsAnswered`, `CompleteIsAnswered`,
`KeepsAnswering`).


## 5. Not modelled, and what is abstracted

* The Windows sources: the TCP server is not implemented there.
* Exceptions, and the tables of methods, statuses and versions: no behaviour of their own.
* `SocketAddress`: copies of system structures. It keeps a `sockaddr`, shorter than the address of an
  IPv6 socket; `bind` or `connect` then reads past it. In `SocketFactory` they may fail for any address.
* Operations without a caller: `Message::getHeaderLine` (its `ostringstream(l_name)` writes over the
  name it starts with), the move-assignment of `Socket` (it loses the handle it had), `getsockopt`,
  `shutdown`, the attributes of a request but for the middleware status.
* Moves of a server that has clients: its maps are not moved, the clients stay with the old server and
  are closed with it. `Startup` knows servers, not their clients.
* `send()` takes a part in `Responses` and fails in `HttpListener`, but not both in one model: what the
  listener does next depends on neither.
* Hazards without a property, because the code does what it does and no text promises otherwise: what
  follows a response that was cut, or whose header values hold CR LF; a server that `initialize()` threw
  out of; `connected` of a new client that comes to a listener before the `shutdown` of the earlier
  client, between threads (`KeepsLifespan` is about each client, `ListenerServesItsClient` about one
  thread); and those that `PROJECT.json` lists with a note.
* A signal that ends the process ends all: `TcpServer` has no such step, for nothing goes on after it.
* Middlewares are added before `run()`, as in `main()`.
* A middleware that is resumed is called by the listener itself: the ones before it neither see
  its response nor catch its exceptions. `MiddlewareChain` has this behaviour; no property speaks
  of it, for no text says what should happen.
* A client that pipelines requests and shuts down its writing half gets one answer per event, and
  the event is the last: `NothingLeftUnanswered` speaks of clients that stay.
* `main()` has one thread; the models of `TcpServer` and `DemoApp` have any number, as `tcp.h:151` and
  the mutex of `Logger` intend.


## 6. What could follow

1. The listener composed with the chain in one module, with `HttpListener` as its abstraction.
