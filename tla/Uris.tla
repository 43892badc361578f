---------------------------------- MODULE Uris ---------------------------------
(***************************************************************************)
(* http::Uri (src/src/http/uri.h): the parts of a URI, its conversion to a *)
(* string and Uri::fromString, which reads the target of a request.        *)
(* encode() and decode() change nothing in the code either, so that a part *)
(* may hold the delimiters.                                                *)
(***************************************************************************)
EXTENDS Strings, TLC

CONSTANTS Schemes, UserInfos, Hosts, Ports, Paths, Queries, Fragments

Delimiters == {":", "/", "@", "?", "#"}

ASSUME PartsAssumption ==
  /\ Schemes \cup UserInfos \cup Hosts \cup Queries \cup Fragments \subseteq Seq(STRING)
  /\ Paths \subseteq Seq(Seq(STRING))

(* Ports are written in digits, different ones differently.                *)
ASSUME PortsAssumption ==
  /\ Ports \subseteq Nat
  /\ \A p \in Ports :
       /\ ToString(p) \in STRING \ Delimiters
       /\ \A n \in Ports : ToString(n) = ToString(p) => n = p

VARIABLE uri

Empty ==
  [scheme |-> <<>>, user_info |-> <<>>, host |-> <<>>, port |-> 0,
   path |-> <<>>, query |-> <<>>, fragment |-> <<>>]

IsValid(u) ==
  /\ u.user_info # <<>> => u.host # <<>>
  /\ u.port # 0 => u.host # <<>>

-----------------------------------------------------------------------------
Opt(part, before, after) == IF part = <<>> THEN <<>> ELSE before \o part \o after
Number(p) == <<ToString(p)>>

PathText(path) ==
  IF path = <<>> THEN <<"/">> ELSE FlattenSeq([i \in DOMAIN path |-> <<"/">> \o path[i]])

(* The conversion to a string, of a URI that is valid; it throws for       *)
(* others.                                                                 *)
Render(u) ==
  Opt(u.scheme, <<>>, <<":", "/", "/">>)
    \o Opt(u.user_info, <<>>, <<"@">>)
    \o u.host
    \o (IF u.port = 0 THEN <<>> ELSE <<":">> \o Number(u.port))
    \o PathText(u.path)
    \o Opt(u.query, <<"?">>, <<>>)
    \o Opt(u.fragment, <<"#">>, <<>>)

(* The part between the delimiter at start and previous, empty when there  *)
(* is no delimiter, and the last position before it.                       *)
PartAfter(s, start, previous) ==
  IF start = npos THEN <<>> ELSE Substr(s, start + 1, Minus(previous, start))
(* The last position, the delimiter included.                              *)
BeforeAndDelimiter(start, previous) == IF start = npos THEN previous ELSE start

Before(start, previous) == IF start = npos THEN previous ELSE Minus(start, 1)

(* stoul reads a number at the start and throws when there is none.        *)
PortIn(s) == {p \in Ports : s # <<>> /\ s[1] = ToString(p)}

(* The URI that fromString gives, or none when stoul throws.  previous is  *)
(* the last position not read yet; it wraps when nothing is left.          *)
FromString(s) ==
  LET schemeEnd == Find(s, <<":", "/", "/">>, 0)
      authority == IF schemeEnd = npos THEN 0 ELSE schemeEnd + 3
      userEnd == Find(s, <<"@">>, authority)
      host_start == IF userEnd = npos THEN authority ELSE userEnd + 1
      end == Minus(Len(s), 1)
      fragment == RFind(s, <<"#">>, npos)
      queryEnd == Before(fragment, end)
      query == RFind(s, <<"?">>, queryEnd)
      pathEnd == Before(query, queryEnd)
      path == Find(s, <<"/">>, host_start)
      portEnd == Before(path, pathEnd)
      port == RFind(s, <<":">>, portEnd)
      hostEnd == Before(port, portEnd)
  IN  {[scheme |-> IF schemeEnd = npos THEN <<>> ELSE Substr(s, 0, schemeEnd),
        user_info |-> IF userEnd = npos THEN <<>> ELSE Substr(s, authority, userEnd - authority),
        host |-> Substr(s, host_start, Plus(Minus(hostEnd, host_start), 1)),
        port |-> n,
        path |-> Split(PartAfter(s, path, pathEnd), "/"),
        query |-> PartAfter(s, query, queryEnd),
        fragment |-> PartAfter(s, fragment, end)] :
          n \in IF port = npos THEN {0} ELSE PortIn(PartAfter(s, port, portEnd))}

-----------------------------------------------------------------------------
UriInit == uri = Empty

SetScheme(scheme) == uri' = [uri EXCEPT !.scheme = scheme]
SetUserInfo(user_info) == uri' = [uri EXCEPT !.user_info = user_info]
SetHost(host) == uri' = [uri EXCEPT !.host = host]
SetPort(port) == uri' = [uri EXCEPT !.port = port]
SetPath(path) == uri' = [uri EXCEPT !.path = path]
SetQuery(query) == uri' = [uri EXCEPT !.query = query]
SetFragment(fragment) == uri' = [uri EXCEPT !.fragment = fragment]
Clear == uri' = Empty

UriNext ==
  \/ \E scheme \in Schemes : SetScheme(scheme)
  \/ \E user_info \in UserInfos : SetUserInfo(user_info)
  \/ \E host \in Hosts : SetHost(host)
  \/ \E port \in Ports : SetPort(port)
  \/ \E path \in Paths : SetPath(path)
  \/ \E query \in Queries : SetQuery(query)
  \/ \E fragment \in Fragments : SetFragment(fragment)
  \/ Clear

UriSpec == UriInit /\ [][UriNext]_uri

-----------------------------------------------------------------------------
Has(part, c) == c \in ToSet(part)
AuthorityHas(u, c) == Has(u.scheme, c) \/ Has(u.user_info, c) \/ Has(u.host, c)
PathHas(u, c) == \E i \in DOMAIN u.path : Has(u.path[i], c)
AfterHostHas(u, c) == PathHas(u, c) \/ Has(u.query, c) \/ Has(u.fragment, c)

(* The URIs whose delimiters mislead none of the searches of fromString.   *)
Readable(u) ==
  \* the first "://", the first "@", the first "/"
  /\ Find(Render(u), <<":", "/", "/">>, 0) = IF u.scheme = <<>> THEN npos ELSE Len(u.scheme)
  /\ ~Has(u.user_info, "@")
  /\ u.user_info = <<>> => ~Has(u.host, "@") /\ ~AfterHostHas(u, "@")
  /\ ~Has(u.host, "/")
  \* the last ":" before the path, or, when there is nothing before it, in all
  /\ u.port = 0 => u.scheme = <<>> /\ ~Has(u.user_info, ":") /\ ~Has(u.host, ":")
  /\ u.scheme = <<>> /\ u.host = <<>> => ~AfterHostHas(u, ":")
  \* the last "#", and the last "?" before it
  /\ ~Has(u.fragment, "#")
  /\ u.fragment = <<>> => ~AuthorityHas(u, "#") /\ ~PathHas(u, "#") /\ ~Has(u.query, "#")
  /\ ~Has(u.query, "?")
  /\ u.query = <<>> => ~AuthorityHas(u, "?") /\ ~PathHas(u, "?")
  /\ \A i \in DOMAIN u.path : u.path[i] # <<>> /\ ~Has(u.path[i], "/")

(* fromString gives back the URI that was converted to a string exactly    *)
(* when it is one of those: in particular never one that has a scheme and  *)
(* no port.                                                                *)
ReadsWhatItWrites ==
  IsValid(uri) /\ Len(Render(uri)) < npos => (FromString(Render(uri)) = {uri} <=> Readable(uri))
=============================================================================
