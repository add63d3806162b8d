---------------------------- MODULE HttpRequest ----------------------------
(***************************************************************************)
(* How dkvstore.c takes a request apart: requestParse in the connection's  *)
(* thread and requestHandle in the worker cut the text in place with       *)
(* strtok, whose position is one static variable for all threads.          *)
(*                                                                         *)
(* Text is a sequence of symbols of size 1: words, "CR", "LF", "NUL" and   *)
(* the separators.  A pointer is a buffer and a position in it.  A call of *)
(* strtok is one step, and so is what a thread does up to its next call.   *)
(***************************************************************************)
EXTENDS Naturals, Sequences, FiniteSets

CONSTANTS
  Threads,      \* connection threads, a request each
  Requests,     \* what may be read from a connection: its text, the command
                \* it means and whether its form is the one the parser is for
  ServerTypes,  \* what the server may be started as
  MaxHeaders,   \* MAX_HEADERS
  FollowMixed,  \* bound: whether the threads go on once their scans have mixed
  NULL

Worker == "worker"

-----------------------------------------------------------------------------
(* The form of a request that the parser is for.                           *)

\* The lines in front of the empty line, which begins at e, end with CR and
\* LF, and there is room for them.
HeadersEnd(s, e) ==
  /\ e + 3 <= Len(s)
  /\ s[e] = "CR" /\ s[e + 1] = "LF" /\ s[e + 2] = "CR" /\ s[e + 3] = "LF"
  /\ s[1] \notin {"CR", "LF"}
  /\ \A i \in 1..(e - 1) :
       /\ s[i] # "NUL"
       /\ s[i] = "LF" => i > 1 /\ s[i - 1] = "CR"
       /\ s[i] = "CR" => s[i + 1] = "LF" /\ s[i + 2] \notin {"CR", "LF"}
  /\ Cardinality({i \in 1..e : s[i] = "CR"}) < MaxHeaders

WellFormed(s) == \E e \in 1..Len(s) : HeadersEnd(s, e)

End(s) == CHOOSE e \in 1..Len(s) : HeadersEnd(s, e)

Body(s) == SubSeq(s, End(s) + 4, Len(s))

Method(s, method) == s[1] = method /\ s[2] = "SP"

Means(op, key, value, weight) == [op |-> op, key |-> key, value |-> value, weight |-> weight]

NoCommand == Means("none", << >>, << >>, << >>)

\* Fields "name=value" with an "&" between them.
Fields(b) ==
  \A i \in 1..Len(b) :
    /\ i % 2 = 1 => b[i] \notin {"=", "&", "NUL"}
    /\ i % 4 = 2 => b[i] = "="
    /\ i % 4 = 0 => b[i] = "&"

\* The body is a command as server.py sends it.
Commands(b, means) ==
  /\ Fields(b)
  /\ \/ /\ Len(b) = 7 /\ b[3] = "SET"
        /\ means = Means("SET", <<b[5]>>, <<b[7]>>, << >>)
     \/ /\ Len(b) = 7 /\ b[3] \in {"GET", "REM"}
        /\ means = Means(b[3], <<b[7]>>, << >>, << >>)
     \/ /\ Len(b) = 11 /\ b[3] = "DEL"
        /\ means = Means("DEL", <<b[7]>>, <<b[11]>>, << >>)
     \/ /\ Len(b) = 15 /\ b[3] = "ADD"
        /\ means = Means("ADD", <<b[7]>>, <<b[11]>>, <<b[15]>>)

ASSUME HttpAssumption ==
  /\ MaxHeaders \in Nat \ {0} /\ FollowMixed \in BOOLEAN
  /\ ServerTypes \subseteq {"store", "coordinator"}
  /\ \A r \in Requests : r.text \in Seq(STRING)
  /\ Worker \notin Threads /\ NULL \notin Threads \cup {Worker}
  /\ NULL \notin Requests /\ NULL \notin {"POST", "GET"}
  /\ NULL \notin [buf : {"buffer", "line", "first", "copy", "name"} \X (Threads \cup {Worker}),
                  pos : Nat]

\* A plain request is a page or a command; an incomplete one has a method or
\* is blank.
ASSUME FormAssumption ==
  \A r \in Requests :
    /\ r.form = "plain" =>
         /\ WellFormed(r.text)
         /\ Method(r.text, "GET") \/ (Method(r.text, "POST") /\ Commands(Body(r.text), r.means))
    /\ r.form = "incomplete" =>
         \/ \A i \in 1..Len(r.text) : r.text[i] \in {"CR", "LF"}
         \/ /\ WellFormed(r.text)
            /\ Method(r.text, "GET") \/ Method(r.text, "POST")

VARIABLES
  serverType, \* "store" or "coordinator"
  input,      \* the request each thread has read
  mem,        \* the buffers
  saved,      \* strtok's position, and who called it last
  pc, token,  \* of threads and worker: where it is, strtok's last result
  headers,    \* the lines found, and their size
  headersize,
  line,       \* the header that is being split
  type, data, \* of the packet
  queue,      \* packets, the oldest first
  job,        \* the packet the worker handles
  reg,        \* the worker's pointers into its copy of the data
  todo,       \* its scans still to come
  replies,    \* to each request
  executed,   \* what the worker took each request for
  status,     \* "ok" or "crashed"
  mixed,      \* history: a scan went on where another thread's had stopped
  ranOn       \* history: strdup ran over the end of the data

packet == <<headers, headersize, line, type, data>>
worker == <<job, reg, todo, executed>>
vars == <<serverType, input, mem, saved, pc, token, packet, queue, worker, replies, status, mixed, ranOn>>

Ok == status = "ok"
Coordinator == serverType = "coordinator"
Goes(a, from, to) ==
  /\ Ok
  /\ mixed => FollowMixed
  /\ pc[a] = from /\ pc' = [pc EXCEPT ![a] = to]

-----------------------------------------------------------------------------
(* C strings and strtok.                                                   *)

Ptr(b, p) == [buf |-> b, pos |-> p]

\* The first place from p on whose symbol is in (or not in) a set; every
\* string ends with NUL, and behind its buffer there is nothing.
FirstIn(s, p, set) ==
  LET all == {i \in p..Len(s) : s[i] \in set}
  IN  IF all = {} THEN Len(s) ELSE CHOOSE i \in all : \A j \in all : i <= j
FirstNotIn(s, p, set) ==
  LET all == {i \in p..Len(s) : s[i] \notin set}
  IN  IF all = {} THEN Len(s) ELSE CHOOSE i \in all : \A j \in all : i <= j

StringAt(p) ==
  IF p = NULL THEN << >>
  ELSE SubSeq(mem[p.buf], p.pos, FirstIn(mem[p.buf], p.pos, {"NUL"}) - 1)

\* The string up to the first NUL, with its NUL.
CString(s) == SubSeq(s, 1, FirstIn(Append(s, "NUL"), 1, {"NUL"}) - 1) \o <<"NUL">>

\* strtok(from, delims) called by a in memory m; from = NULL goes on where the
\* last call stopped, whoever made it.
Strtok(a, m, from, delims) ==
  LET at    == IF from = NULL THEN saved ELSE from
      s     == m[at.buf]
      start == FirstNotIn(s, at.pos, delims)
      end   == FirstIn(s, start, delims \cup {"NUL"})
  IN  IF at.pos > Len(s) \/ s[start] = "NUL"
      THEN [token |-> NULL, mem |-> m, saved |-> [buf |-> at.buf, pos |-> start, by |-> a]]
      ELSE [token |-> Ptr(at.buf, start),
            mem   |-> [m EXCEPT ![at.buf][end] = "NUL"],
            saved |-> [buf |-> at.buf, by |-> a,
                       pos |-> IF s[end] = "NUL" THEN end ELSE end + 1]]

Scans(a, m, from, delims) ==
  LET r == Strtok(a, m, from, delims)
  IN  /\ mem' = r.mem /\ saved' = r.saved
      /\ token' = [token EXCEPT ![a] = r.token]
      /\ mixed' = (mixed \/ (from = NULL /\ saved.by # a))

NoScan == UNCHANGED <<mem, saved, token, mixed>>

Crashes(a, at) ==
  /\ Ok
  /\ mixed => FollowMixed
  /\ pc[a] = at
  /\ status' = "crashed"
  /\ UNCHANGED <<input, mem, saved, pc, token, packet, queue, worker, replies, mixed, ranOn>>

-----------------------------------------------------------------------------
(* serverHandleRequest and requestParse.                                   *)

Buffer(t) == <<"buffer", t>>    \* what was read
Line(t)   == <<"line", t>>      \* requestHeadersParseTable's copy of a header
First(t)  == <<"first", t>>     \* the first header
Copy      == <<"copy", Worker>> \* requestHandle's copy of the data
Name      == <<"name", Worker>> \* a store's name on the ring

\* The bytes are read, and the first line is looked for.
Read(t) ==
  /\ Goes(t, "read", "header")
  /\ \E r \in Requests :
       /\ input' = [input EXCEPT ![t] = r]
       /\ Scans(t, [mem EXCEPT ![Buffer(t)] = Append(r.text, "NUL")], Ptr(Buffer(t), 1),
                {"CR", "LF"})
  /\ UNCHANGED <<packet, queue, worker, replies, status, ranOn>>

\* Behind the string at p, whose CR strtok has overwritten, comes an empty line.
EndsHeaders(p) ==
  LET s == mem[p.buf]
      n == p.pos + Len(StringAt(p))
  IN  n + 3 <= Len(s) /\ SubSeq(s, n, n + 3) = <<"NUL", "LF", "CR", "LF">>

\* Faulty variant: an empty line is counted for each.
SizeOver(h, last) == Len(h) + 2

\* With its line end, and the empty line behind the last.
SizeOf(h, last) == Len(h) + IF last THEN 2 ELSE 0

\* Faulty variant: one header more than there is room for.
NoRoomLate(t) == Len(headers[t]) = MaxHeaders

\* The header to come is the last there is room for.
NoRoom(t) == Len(headers[t]) + 1 = MaxHeaders

\* One round of requestParseHeaders: the line is kept and the next looked for.
Header(t) ==
  LET h    == StringAt(token[t]) \o <<"CR", "LF">>
      full == NoRoom(t)
      last == EndsHeaders(token[t])
  IN  /\ pc[t] = "header" /\ token[t] # NULL
      /\ headers' = [headers EXCEPT ![t] = Append(@, h)]
      /\ headersize' = IF full THEN headersize
                       ELSE [headersize EXCEPT ![t] = @ + SizeOf(h, last)]
      /\ IF full \/ last
         THEN Goes(t, "header", "split") /\ NoScan
         ELSE Goes(t, "header", "header") /\ Scans(t, mem, NULL, {"CR", "LF"})
      /\ UNCHANGED <<input, line, type, data, queue, worker, replies, status, ranOn>>

NoHeader(t) ==
  /\ token[t] = NULL
  /\ Goes(t, "header", "split") /\ NoScan
  /\ UNCHANGED <<input, packet, queue, worker, replies, status, ranOn>>

\* requestHeadersParseTable: the key of a header, then its value.
SplitKey(t) ==
  /\ line[t] <= Len(headers[t])
  /\ Goes(t, "split", "value")
  /\ Scans(t, [mem EXCEPT ![Line(t)] = CString(headers[t][line[t]])], Ptr(Line(t), 1), {":"})
  /\ UNCHANGED <<input, packet, queue, worker, replies, status, ranOn>>

SplitValue(t) ==
  /\ Goes(t, "value", "split")
  /\ Scans(t, mem, NULL, {":"})
  /\ line' = [line EXCEPT ![t] = @ + 1]
  /\ UNCHANGED <<input, headers, headersize, type, data, queue, worker, replies, status, ranOn>>

SplitMethod(t) ==
  /\ line[t] > Len(headers[t]) /\ headers[t] # << >>
  /\ Goes(t, "split", "method")
  /\ Scans(t, [mem EXCEPT ![First(t)] = CString(Head(headers[t]))], Ptr(First(t), 1), {"SP"})
  /\ UNCHANGED <<input, packet, queue, worker, replies, status, ranOn>>

\* The data is what is left of the buffer, as it is by now; the packet is queued.
Finish(t) ==
  LET method == StringAt(token[t])
      size   == Len(input[t].text)
  IN  /\ pc[t] = "method" /\ token[t] # NULL
      /\ method = <<"POST">> => headersize[t] <= size
      /\ Goes(t, "method", "done") /\ NoScan
      /\ type' = [type EXCEPT ![t] = IF method \in {<<"POST">>, <<"GET">>} THEN Head(method) ELSE @]
      /\ data' = IF method = <<"POST">>
                 THEN [data EXCEPT ![t] = SubSeq(mem[Buffer(t)], headersize[t] + 1, size)]
                 ELSE data
      /\ queue' = Append(queue, t)
      /\ UNCHANGED <<input, headers, headersize, line, worker, replies, status, ranOn>>

\* No first header; no method; or headers larger than what was read, whose
\* difference wraps round to the length of a memcpy.
ParseCrashes(t) ==
  \/ line[t] > Len(headers[t]) /\ headers[t] = << >> /\ Crashes(t, "split")
  \/ /\ \/ token[t] = NULL
        \/ StringAt(token[t]) = <<"POST">> /\ headersize[t] > Len(input[t].text)
     /\ Crashes(t, "method")

-----------------------------------------------------------------------------
(* requestWorker and requestHandle.                                        *)

\* One call of strtok: where its result goes, from where it starts ("next":
\* where the last stopped), and which pointers are tested after it.
Scan(to, from, delim, tested) ==
  [to |-> to, from |-> from, delim |-> delim, tested |-> tested]

CommandScans ==
  << Scan("op", "copy", "&", {}),
     Scan("opdata", "next", "&", {"op", "opdata"}),
     Scan("op_field", "op", "=", {}),
     Scan("op_value", "next", "=", {"op_field", "op_value"}),
     Scan("op_datafield", "opdata", "=", {}),
     Scan("op_datavalue", "next", "=", {"op_datafield", "op_datavalue"}) >>

PortScans   == << Scan("port_field", "port", "=", {}), Scan("port_value", "next", "=", {}) >>
WeightScans == << Scan("weight_field", "weight", "=", {}), Scan("weight_value", "next", "=", {}) >>

DelScans == << Scan("port", "rest", "&", {}) >> \o PortScans
AddScans == << Scan("port", "rest", "&", {}), Scan("weight", "next", "&", {}) >>
              \o PortScans \o WeightScans

\* coordinator_requestForward cuts the store's name where it stands.
ForwardScans == << Scan("ip", "name", "-", {}) >>

Registers ==
  {"copy", "rest", "name", "op", "opdata", "op_field", "op_value", "op_datafield",
   "op_datavalue", "port", "weight", "port_field", "port_value", "weight_field",
   "weight_value", "ip"}

Replies(codes) == replies' = [replies EXCEPT ![job] = @ \o codes]

\* The data has no NUL of its own: strdup may run on over what lies behind it.
Take ==
  LET t == Head(queue)
  IN  /\ queue # << >>
      /\ job' = t /\ queue' = Tail(queue)
      /\ IF type[t] = "POST"
         THEN /\ Goes(Worker, "take", "command")
              /\ \E behind \in {<< >>, <<"junk">>} :
                   /\ mem' = [mem EXCEPT ![Copy] = CString(data[t] \o behind),
                                         ![Name] = <<"store", "NUL">>]
                   /\ ranOn' = (ranOn \/ (behind # << >> /\ CString(data[t]) = Append(data[t], "NUL")))
              /\ reg' = [r \in Registers |-> CASE r = "copy" -> Ptr(Copy, 1)
                                                [] r = "name" -> Ptr(Name, 1)
                                                [] OTHER -> NULL]
              /\ todo' = CommandScans
              /\ UNCHANGED replies
         ELSE /\ Goes(Worker, "take", "close")
              /\ replies' = IF type[t] = "GET" THEN [replies EXCEPT ![t] = Append(@, 200)]
                            ELSE replies
              /\ UNCHANGED <<mem, ranOn, reg, todo>>
      /\ UNCHANGED <<input, saved, token, packet, executed, status, mixed>>

\* The next call of strtok; a pointer that is missing is told to the client,
\* and the worker goes on.
WorkerScan ==
  LET s == Head(todo)
  IN  /\ todo # << >>
      /\ Goes(Worker, pc[Worker], pc[Worker])
      /\ Scans(Worker, mem, IF s.from = "next" THEN NULL ELSE reg[s.from], {s.delim})
      /\ reg' = [reg EXCEPT ![s.to] = token'[Worker]]
      /\ todo' = Tail(todo)
      /\ Replies(IF \E r \in s.tested : reg'[r] = NULL THEN <<400>> ELSE << >>)
      /\ UNCHANGED <<input, packet, queue, job, executed, status, ranOn>>

\* The value a register points to; scans of the ring's addresses come later.
Value(r) == StringAt(reg[r])

Executes(command) == executed' = [executed EXCEPT ![job] = command]

Op == Value("op_value")

\* The pointers without which the command reads through NULL.
Needed ==
  {"op_value"} \cup
    CASE Op \in {<<"ADD">>, <<"DEL">>} /\ Coordinator -> {"op_datavalue"}
      [] Op = <<"GET">> -> {"op_datavalue"}
      [] Op = <<"REM">> /\ ~Coordinator -> {"op_datavalue"}
      [] Op = <<"SET">> -> {"op_datafield"} \cup IF Coordinator THEN {} ELSE {"op_datavalue"}
      [] OTHER -> {}

CommandReady == pc[Worker] = "command" /\ todo = << >>

CommandCrashes ==
  /\ CommandReady /\ \E r \in Needed : reg[r] = NULL
  /\ Crashes(Worker, "command")

\* Faulty variant: a command is given the field, not its value.
CommandOfField ==
  Means(Head(Op), Value("op_datafield"), IF Op = <<"SET">> THEN Value("op_datavalue") ELSE << >>, << >>)

\* What the handler passes to the table or the ring.
Command ==
  IF Op = <<"SET">>
  THEN Means("SET", Value("op_datafield"), Value("op_datavalue"), << >>)
  ELSE Means(Head(Op), Value("op_datavalue"), << >>, << >>)

\* Faulty variant: the handler falls through to what is behind the commands.
AnswersThrough == <<IF Coordinator THEN 501 ELSE 200, 400>>

\* 200 stands for what the table, the ring or the store says: 400 and 404 too.
Answers == <<IF Coordinator THEN 501 ELSE 200>>

\* A coordinator passes GET and SET on to a store.
PassedOn == Coordinator /\ Op # <<"REM">>

\* What is answered without a store: a coordinator tells of a key that is not,
\* or cannot be put, on its ring, and nothing of a store it does not find there.
OwnAnswers == IF PassedOn THEN {<<404>>, << >>} ELSE {Answers}

\* GET, SET and REM: carried out here, or to be forwarded.
Data ==
  /\ CommandReady /\ \A r \in Needed : reg[r] # NULL
  /\ Op \in {<<"GET">>, <<"SET">>, <<"REM">>}
  /\ Executes(Command)
  /\ \/ /\ PassedOn
        /\ Goes(Worker, "command", "forward")
        /\ todo' = ForwardScans
        /\ UNCHANGED replies
     \/ /\ Goes(Worker, "command", "close")
        /\ \E codes \in OwnAnswers : Replies(codes)
        /\ UNCHANGED todo
  /\ NoScan /\ UNCHANGED <<input, packet, queue, job, reg, status, ranOn>>

\* ADD and DEL go on behind the end of the ip.
Ring ==
  /\ CommandReady /\ \A r \in Needed : reg[r] # NULL
  /\ Coordinator /\ Op \in {<<"ADD">>, <<"DEL">>}
  /\ Goes(Worker, "command", Head(Op))
  /\ reg' = [reg EXCEPT !["rest"] = [reg["op_datavalue"] EXCEPT
                                        !.pos = @ + Len(Value("op_datavalue")) + 1]]
  /\ todo' = IF Op = <<"ADD">> THEN AddScans ELSE DelScans
  /\ NoScan /\ UNCHANGED <<input, packet, queue, job, executed, replies, status, ranOn>>

\* Anything else gets 400, ADD and DEL at a store too.
Unknown ==
  /\ CommandReady /\ \A r \in Needed : reg[r] # NULL
  /\ Op \notin {<<"GET">>, <<"SET">>, <<"REM">>}
  /\ Op \in {<<"ADD">>, <<"DEL">>} => ~Coordinator
  /\ Goes(Worker, "command", "close")
  /\ Replies(<<400>>)
  /\ NoScan /\ UNCHANGED <<input, packet, queue, job, reg, todo, executed, status, ranOn>>

\* atoi of a port or weight that is missing.
RingCrashes ==
  /\ todo = << >>
  /\ \/ pc[Worker] = "ADD" /\ (reg["port_value"] = NULL \/ reg["weight_value"] = NULL)
     \/ pc[Worker] = "DEL" /\ reg["port_value"] = NULL
  /\ Crashes(Worker, pc[Worker])

RingChanged ==
  /\ todo = << >>
  /\ \/ pc[Worker] = "ADD" /\ reg["port_value"] # NULL /\ reg["weight_value"] # NULL
     \/ pc[Worker] = "DEL" /\ reg["port_value"] # NULL
  /\ Goes(Worker, pc[Worker], "close")
  /\ Executes(Means(pc[Worker], Value("op_datavalue"), Value("port_value"), Value("weight_value")))
  /\ Replies(<<200>>)
  /\ NoScan /\ UNCHANGED <<input, packet, queue, job, reg, todo, status, ranOn>>

\* The store's answer is passed on; there is none, and the client hears
\* nothing, if the store's name or port is no address, it cannot be connected
\* to, or it closes.
Forward ==
  /\ todo = << >>
  /\ Goes(Worker, "forward", "close")
  /\ \E codes \in {<<200>>, << >>} : Replies(codes)
  /\ NoScan /\ UNCHANGED <<input, packet, queue, worker, status, ranOn>>

Close ==
  /\ Goes(Worker, "close", "take")
  /\ job' = NULL
  /\ NoScan /\ UNCHANGED <<input, packet, queue, reg, todo, executed, replies, status, ranOn>>

-----------------------------------------------------------------------------
Actors == Threads \cup {Worker}

Buffers == {Buffer(t) : t \in Threads} \cup {Line(t) : t \in Threads}
             \cup {First(t) : t \in Threads} \cup {Copy, Name}

Init ==
  /\ serverType \in ServerTypes
  /\ input = [t \in Threads |-> NULL]
  /\ mem = [b \in Buffers |-> <<"NUL">>]
  /\ saved = [buf |-> Name, pos |-> 1, by |-> NULL]
  /\ pc = [a \in Actors |-> IF a = Worker THEN "take" ELSE "read"]
  /\ token = [a \in Actors |-> NULL]
  /\ headers = [t \in Threads |-> << >>]
  /\ headersize = [t \in Threads |-> 0]
  /\ line = [t \in Threads |-> 2]
  /\ type = [t \in Threads |-> NULL] /\ data = [t \in Threads |-> << >>]
  /\ queue = << >> /\ job = NULL
  /\ reg = [r \in Registers |-> NULL] /\ todo = << >>
  /\ replies = [t \in Threads |-> << >>]
  /\ executed = [t \in Threads |-> NoCommand]
  /\ status = "ok" /\ mixed = FALSE /\ ranOn = FALSE

Parse(t) ==
  \/ Read(t) \/ Header(t) \/ NoHeader(t) \/ SplitKey(t) \/ SplitValue(t)
  \/ SplitMethod(t) \/ Finish(t) \/ ParseCrashes(t)

Handle ==
  \/ Take \/ WorkerScan \/ CommandCrashes \/ Data \/ Ring \/ Unknown
  \/ RingCrashes \/ RingChanged \/ Forward \/ Close

Next ==
  /\ (\E t \in Threads : Parse(t)) \/ Handle
  /\ UNCHANGED serverType

Spec == Init /\ [][Next]_vars
-----------------------------------------------------------------------------
(* Properties.                                                             *)

Handled(t) == pc[t] = "done" /\ job # t /\ \A i \in DOMAIN queue : queue[i] # t

Is(t, form) == input[t] # NULL /\ input[t].form = form

\* No thread went on in another's text and nothing was read behind the data.
Undisturbed == ~mixed /\ ~ranOn

(* Pointers point into buffers, sizes and counts are numbers, and no line  *)
(* is kept beyond the room for headers.                                    *)
TypeOK ==
  /\ serverType \in ServerTypes
  /\ \A t \in Threads : input[t] # NULL => input[t] \in Requests
  /\ saved.buf \in Buffers /\ saved.pos \in Nat \ {0}
  /\ \A a \in Actors : token[a] # NULL => token[a] \in [buf : Buffers, pos : Nat \ {0}]
  /\ \A t \in Threads : /\ Len(headers[t]) <= MaxHeaders
                         /\ line[t] \in 2..(MaxHeaders + 1)
                         /\ headersize[t] \in Nat
                         /\ type[t] \in {"POST", "GET", NULL}
  /\ queue \in Seq(Threads) /\ job \in Threads \cup {NULL}
  /\ DOMAIN reg = Registers
  /\ status \in {"ok", "crashed"} /\ mixed \in BOOLEAN /\ ranOn \in BOOLEAN

(* What the worker does is what the client's text says, for every command, *)
(* although the text is cut up in place over a dozen calls that share one  *)
(* position, until two threads' scans mix or data is read past its end.    *)
ExecutesRequest ==
  \A t \in Threads :
    Undisturbed /\ Is(t, "plain") /\ executed[t] # NoCommand => executed[t] = input[t].means

\* The worker took the request for one that a coordinator passes on.
Forwarded(t) == Coordinator /\ executed[t].op \in {"GET", "SET"}

(* A plain request is answered once, or never if it was to be forwarded;   *)
(* one whose command is incomplete, and which the server survives, is      *)
(* answered at least once.                                                 *)
Answered ==
  \A t \in Threads :
    Undisturbed /\ Handled(t) =>
      /\ Is(t, "plain") =>
           Len(replies[t]) = 1 \/ (Forwarded(t) /\ replies[t] = << >>)
      /\ Is(t, "incomplete") => replies[t] # << >> \/ Forwarded(t)

(* Parsing and handling never bring the server down over a plain request,  *)
(* not even one for another kind of server, unless scans were disturbed.   *)
CrashesOnlyWhen ==
  ~Ok => ~Undisturbed \/ \E t \in Threads : input[t] # NULL /\ ~Is(t, "plain")

-----------------------------------------------------------------------------
(* What comments say of the code and the code does not do.                 *)

(* dkvstore.c:141 "Parses a buffer containing a HTTP Request into a HTTP   *)
(* Structure by reading headers, HTTP data.": the headers are its own.     *)
HeadersAreOwn ==
  \A t \in Threads : \A i \in DOMAIN headers[t] :
    LET text == input[t].text
        h    == headers[t][i]
    IN  \E p \in 1..Len(text) :
          p + Len(h) - 1 <= Len(text) /\ SubSeq(text, p, p + Len(h) - 1) = h

(* dkvstore.h:61 "A request follows the format of:" and no empty line      *)
(* before the command: a server reads it and lives.                        *)
DocumentedFormat == (\A t \in Threads : input[t] # NULL => Is(t, "documented")) => Ok

(* dkvstore.h:95 "Maximum support of MAX_NUMBER_HEADERS headers": a        *)
(* request with as many is understood.                                     *)
FullHeaders ==
  \A t \in Threads :
    Undisturbed /\ Is(t, "full") => Ok /\ (Handled(t) => executed[t] = input[t].means)

(* dkvstore.c:479 answers the type HTTP_UNKNOWN with 501, and line 260      *)
(* gives it to a request whose method is neither POST nor GET.             *)
OtherMethodIs501 ==
  \A t \in Threads : Is(t, "other") /\ Handled(t) => replies[t] = <<501>>

(* dkvstore.h:101 "Total size of request data": no more than the data of a *)
(* request is taken for its command.                                       *)
DataEnds ==
  \A t \in Threads :
    ~mixed /\ Is(t, "plain") /\ executed[t] # NoCommand => executed[t] = input[t].means
=============================================================================
