------------------------------- MODULE MCMessages -------------------------------
(***************************************************************************)
(* Instances of Responses and of Uris for TLC, in one run: either the      *)
(* parts of a URI change or the headers of responses, which know nothing   *)
(* of each other.                                                          *)
(***************************************************************************)
EXTENDS Responses, Uris

MCNames == {"content-length", "Content-Length", "x", "X"}
MCFold == [n \in MCNames |-> CASE n = "Content-Length" -> "content-length" [] n = "X" -> "x" [] OTHER -> n]
(* A value with blanks around it, one of nothing else, one that looks like *)
(* a length, and one that ends its line and the head.                       *)
MCValues == {<<" ", "b", " ">>, <<" ">>, <<"1">>, <<"b", CR, LF, CR, LF, "c">>}
(* A content of what would end lines.                                      *)
MCPieces == {CR}

(* Parts of a URI: absent, a plain word, and words with each of the        *)
(* delimiters that the code searches for.                                  *)
MCSchemes == {<<>>, <<"s">>, <<"@", "#">>}
MCUserInfos == {<<>>, <<"u">>, <<"u", ":", "p">>, <<"/">>}
MCHosts == {<<>>, <<"h">>, <<"@">>, <<":", "/">>}
MCPorts == {0, 80}
MCPaths ==
  {<<>>, << <<"a">> >>, << <<"a">>, <<"b">> >>, << <<"a">>, <<>> >>, << <<"a", "/">> >>,
   << <<"a", ":", "80">> >>, << <<"@", "b">> >>, << <<"a", "?">>, <<"#">> >>}
MCQueries == {<<>>, <<"q">>, <<"@">>, <<"q", ":", "/", "/">>, <<"?", "/">>, <<"#">>}
MCFragments == {<<>>, <<"f">>, <<"f", "@">>, <<"/", ":">>, <<"?">>, <<"#", "f">>}

MCInit == Init /\ UriInit
MCNext ==
  \/ uri = Empty /\ Next /\ UNCHANGED uri
  \/ Init /\ UriNext /\ UNCHANGED vars

MCSpec == MCInit /\ [][MCNext]_<<vars, uri>>
=============================================================================
