--------------------------- MODULE MCHttpRequest ---------------------------
(***************************************************************************)
(* Texts for HttpRequest, put together from the command they mean: the     *)
(* requests of server.py, those of the form dkvstore.h gives, commands     *)
(* with a part missing, and one with as many headers as there is room for. *)
(***************************************************************************)
EXTENDS HttpRequest

CONSTANTS t1, t2

EndOfLine == <<"CR", "LF">>

RequestLine(method) == <<method, "SP", "/">> \o EndOfLine
Host(name) == <<"Host", ":", name>> \o EndOfLine

Field(name, value) == <<name, "=", value>>

Post(host, body) == RequestLine("POST") \o Host(host) \o EndOfLine \o body

Plain(host, op, rest, means) ==
  [text |-> Post(host, Field("cmd", op) \o <<"&">> \o rest), means |-> means, form |-> "plain"]

AddText == Field("ip", "a") \o <<"&">> \o Field("port", "p") \o <<"&">> \o Field("weight", "w")
DelText == Field("ip", "a") \o <<"&">> \o Field("port", "p")

SetPlain == Plain("x", "SET", Field("k", "v"), Means("SET", <<"k">>, <<"v">>, << >>))
GetPlain == Plain("y", "GET", Field("key", "k"), Means("GET", <<"k">>, << >>, << >>))
RemPlain == Plain("y", "REM", Field("key", "k"), Means("REM", <<"k">>, << >>, << >>))
AddPlain == Plain("x", "ADD", AddText, Means("ADD", <<"a">>, <<"p">>, <<"w">>))
DelPlain == Plain("y", "DEL", DelText, Means("DEL", <<"a">>, <<"p">>, << >>))

\* The page a browser asks for.
Page == [text |-> RequestLine("GET") \o Host("x") \o EndOfLine, means |-> NULL, form |-> "plain"]

Incomplete ==
  { [text |-> Post("x", body), means |-> NULL, form |-> "incomplete"] :
      body \in { << >>, Field("cmd", "SYNC"), Field("cmd", "SET"), Field("cmd", "DEL") \o <<"&">>,
                 Field("cmd", "DEL") \o <<"&">> \o Field("ip", "a"),
                 Field("cmd", "SYNC") \o <<"&">> \o Field("key", "k"),
                 Field("cmd", "ADD") \o <<"&">> \o DelText } }
  \cup { [text |-> text, means |-> NULL, form |-> "incomplete"] :
           text \in { << >>, EndOfLine } }

Put == [text |-> RequestLine("PUT") \o Host("x") \o EndOfLine, means |-> NULL, form |-> "other"]

Full == [text  |-> RequestLine("POST") \o Host("x") \o Host("y") \o EndOfLine
                     \o Field("cmd", "GET") \o <<"&">> \o Field("key", "k"),
         means |-> Means("GET", <<"k">>, << >>, << >>), form |-> "full"]

Over == [text |-> RequestLine("GET") \o Host("x") \o Host("y") \o Host("z"),
         means |-> NULL, form |-> "over"]

Documented == [text  |-> RequestLine("POST") \o Host("x") \o Field("cmd", "SET") \o <<"&">> \o Field("k", "v"),
               means |-> Means("SET", <<"k">>, <<"v">>, << >>), form |-> "documented"]

ToStore == {SetPlain, GetPlain, RemPlain, Page}
ToCoordinator == {SetPlain, AddPlain, DelPlain}

All == ToStore \cup ToCoordinator \cup {Put, Over} \cup Incomplete
PutOnly == {Put}
FullOnly == {Full}
DocumentedOnly == {Documented}
=============================================================================
