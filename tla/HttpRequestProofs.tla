------------------------- MODULE HttpRequestProofs -------------------------
(***************************************************************************)
(* Proofs about HttpRequest: for any texts, what the parser and the worker *)
(* keep has its type; for well-formed ones, whatever their headers, each   *)
(* call of strtok finds what it is meant to find, so that a request is     *)
(* understood, answered and survived.                                      *)
(***************************************************************************)
EXTENDS HttpRequest, TLAPS, SequenceTheorems, FiniteSetTheorems, WellFoundedInduction

Symbols == STRING \cup {"CR", "LF", "NUL", "junk", "store"}

Pointers == [buf : Buffers, pos : Nat \ {0}]

-----------------------------------------------------------------------------
(* Strings.                                                                *)

LEMMA ConstantFacts ==
  /\ MaxHeaders \in Nat /\ MaxHeaders >= 1
  /\ \A r \in Requests : r # NULL /\ r.text \in Seq(Symbols)
  /\ Worker \notin Threads /\ NULL \notin Threads
  /\ NULL # "POST" /\ NULL # "GET"
  /\ \A p \in Pointers : p # NULL
<1>1. Buffers \subseteq {"buffer", "line", "first", "copy", "name"} \X (Threads \cup {Worker})
  BY DEF Buffers, Buffer, Line, First, Copy, Name
<1>2. Pointers \subseteq [buf : {"buffer", "line", "first", "copy", "name"} \X (Threads \cup {Worker}),
                           pos : Nat]
  BY <1>1 DEF Pointers
<1>3. \A s \in Seq(STRING) : s \in Seq(Symbols)
  BY DEF Symbols
<1> QED
  BY <1>2, <1>3, HttpAssumption

LEMMA BufferFacts ==
  /\ Copy \in Buffers /\ Name \in Buffers /\ Copy # Name
  /\ \A t \in Threads :
       /\ Buffer(t) \in Buffers /\ Line(t) \in Buffers /\ First(t) \in Buffers
       /\ Buffer(t) # Copy /\ Line(t) # Copy /\ First(t) # Copy
       /\ Buffer(t) # Name /\ Line(t) # Name /\ First(t) # Name
  /\ \A t, u \in Threads :
       /\ Buffer(t) # Line(u) /\ Buffer(t) # First(u) /\ Line(t) # First(u)
       /\ t # u => Buffer(t) # Buffer(u) /\ First(t) # First(u)
BY DEF Buffers, Buffer, Line, First, Copy, Name

LEMMA StringFacts ==
  ASSUME NEW s \in Seq(Symbols), NEW x \in Symbols
  PROVE  /\ Len(s) \in Nat /\ \A i \in 1..Len(s) : s[i] \in Symbols
         /\ Append(s, x) \in Seq(Symbols) /\ Len(Append(s, x)) = Len(s) + 1
         /\ Append(s, x)[Len(s) + 1] = x /\ \A i \in 1..Len(s) : Append(s, x)[i] = s[i]
BY AppendProperties

LEMMA SymbolFacts ==
  /\ {"CR", "LF", "NUL", "junk", "store"} \subseteq Symbols
  /\ << >> \in Seq(Symbols)
  /\ \A x \in Symbols : <<x>> \in Seq(Symbols) /\ Len(<<x>>) = 1 /\ <<x>>[1] = x
BY DEF Symbols

LEMMA SubSeqFacts ==
  ASSUME NEW s \in Seq(Symbols), NEW m \in Nat \ {0}, NEW n \in Nat, n <= Len(s)
  PROVE  /\ SubSeq(s, m, n) \in Seq(Symbols)
         /\ Len(SubSeq(s, m, n)) = IF m <= n THEN n - m + 1 ELSE 0
         /\ \A i \in 1..Len(SubSeq(s, m, n)) : SubSeq(s, m, n)[i] = s[m + i - 1]
OBVIOUS

LEMMA ConcatFacts ==
  ASSUME NEW s \in Seq(Symbols), NEW t \in Seq(Symbols)
  PROVE  /\ s \o t \in Seq(Symbols) /\ Len(s \o t) = Len(s) + Len(t)
         /\ \A i \in 1..Len(s) : (s \o t)[i] = s[i]
         /\ \A i \in 1..Len(t) : (s \o t)[Len(s) + i] = t[i]
OBVIOUS

(* Sets of natural numbers have a least element.                           *)
LEMMA LeastExists ==
  ASSUME NEW set \in SUBSET Nat, set # {}
  PROVE  \E least \in set : \A x \in set : least <= x
<1>1. PICK least \in set : \A x \in set :
                              ~(<<x, least>> \in {pair \in Nat \X Nat : pair[1] < pair[2]})
  BY NatLessThanWellFounded, WFMin, Zenon DEF OpToRel
<1>2. \A x \in set : ~(x < least)
  BY <1>1
<1> QED
  BY <1>2

(* The first place is the least, or the end when there is none.            *)
LEMMA FirstInFacts ==
  ASSUME NEW s \in Seq(Symbols), NEW p \in Nat \ {0}, NEW set
  PROVE  LET f == FirstIn(s, p, set)
         IN  \/ /\ f \in p..Len(s) /\ s[f] \in set
                /\ \A j \in p..(f - 1) : s[j] \notin set
             \/ f = Len(s) /\ \A j \in p..Len(s) : s[j] \notin set
<1> DEFINE all == {i \in p..Len(s) : s[i] \in set}
<1>1. all \in SUBSET Nat /\ Len(s) \in Nat
  OBVIOUS
<1>2. CASE all = {}
  BY <1>2 DEF FirstIn
<1>3. CASE all # {}
  <2>1. \E i \in all : \A j \in all : i <= j
    <3> HIDE DEF all
    <3> QED
      BY <1>1, <1>3, LeastExists
  <2> DEFINE f == CHOOSE i \in all : \A j \in all : i <= j
  <2>2. f \in all /\ \A j \in all : f <= j
    BY <2>1
  <2>3. FirstIn(s, p, set) = f
    BY <1>3 DEF FirstIn
  <2> HIDE DEF f
  <2>4. ASSUME NEW j \in p..(f - 1) PROVE s[j] \notin set
    <3>1. j \in p..Len(s) /\ ~(f <= j)
      BY <1>1, <2>2
    <3> QED
      BY <2>2, <3>1
  <2> QED
    BY <2>2, <2>3, <2>4
<1> QED
  BY <1>2, <1>3

LEMMA FirstNotInFacts ==
  ASSUME NEW s \in Seq(Symbols), NEW p \in Nat \ {0}, NEW set
  PROVE  LET f == FirstNotIn(s, p, set)
         IN  \/ /\ f \in p..Len(s) /\ s[f] \notin set
                /\ \A j \in p..(f - 1) : s[j] \in set
             \/ f = Len(s) /\ \A j \in p..Len(s) : s[j] \in set
<1> DEFINE rest == Symbols \ set
<1>1. \A i \in p..Len(s) : s[i] \in rest <=> s[i] \notin set
  OBVIOUS
<1>2. FirstNotIn(s, p, set) = FirstIn(s, p, rest)
  <2> DEFINE A == {i \in p..Len(s) : s[i] \notin set}
             B == {i \in p..Len(s) : s[i] \in rest}
  <2>1. FirstNotIn(s, p, set) = IF A = {} THEN Len(s) ELSE CHOOSE i \in A : \A j \in A : i <= j
    BY DEF FirstNotIn
  <2>2. FirstIn(s, p, rest) = IF B = {} THEN Len(s) ELSE CHOOSE i \in B : \A j \in B : i <= j
    BY DEF FirstIn
  <2>3. A = B
    BY <1>1
  <2> HIDE DEF A, B
  <2> QED
    BY <2>1, <2>2, <2>3
<1> HIDE DEF rest
<1>3. LET f == FirstIn(s, p, rest)
      IN  \/ /\ f \in p..Len(s) /\ s[f] \in rest
             /\ \A j \in p..(f - 1) : s[j] \notin rest
          \/ f = Len(s) /\ \A j \in p..Len(s) : s[j] \notin rest
  BY FirstInFacts
<1>4. Len(s) \in Nat
  OBVIOUS
<1> QED
  BY <1>1, <1>2, <1>3, <1>4

(* Where strtok is to find a token, it finds it there.                     *)
LEMMA FirstInIs ==
  ASSUME NEW s \in Seq(Symbols), NEW p \in Nat \ {0}, NEW set, NEW f \in p..Len(s),
         s[f] \in set, \A j \in p..(f - 1) : s[j] \notin set
  PROVE  FirstIn(s, p, set) = f
<1> DEFINE g == FirstIn(s, p, set)
<1>1. g \in p..Len(s) /\ s[g] \in set /\ \A j \in p..(g - 1) : s[j] \notin set
  BY FirstInFacts
<1> HIDE DEF g
<1>2. ~(f < g) /\ ~(g < f)
  BY <1>1
<1>3. f \in Int /\ g \in Int
  BY <1>1
<1> QED
  BY <1>2, <1>3 DEF g

LEMMA FirstNotInIs ==
  ASSUME NEW s \in Seq(Symbols), NEW p \in Nat \ {0}, NEW set, NEW f \in p..Len(s),
         s[f] \notin set, \A j \in p..(f - 1) : s[j] \in set
  PROVE  FirstNotIn(s, p, set) = f
<1> DEFINE g == FirstNotIn(s, p, set)
<1>1. g \in p..Len(s) /\ s[g] \notin set /\ \A j \in p..(g - 1) : s[j] \in set
  BY FirstNotInFacts
<1> HIDE DEF g
<1>2. ~(f < g) /\ ~(g < f)
  BY <1>1
<1>3. f \in Int /\ g \in Int
  BY <1>1
<1> QED
  BY <1>2, <1>3 DEF g

LEMMA StringType ==
  ASSUME NEW s \in Seq(Symbols), NEW p \in Nat \ {0}
  PROVE  SubSeq(s, p, FirstIn(s, p, {"NUL"}) - 1) \in Seq(Symbols)
<1> DEFINE f == FirstIn(s, p, {"NUL"})
<1>1. f = Len(s) \/ f \in p..Len(s)
  BY FirstInFacts
<1>2. Len(s) \in Nat
  OBVIOUS
<1> HIDE DEF f
<1>3. CASE f \in Nat \ {0}
  <2>1. f - 1 \in Nat /\ f - 1 <= Len(s)
    BY <1>1, <1>2, <1>3
  <2>2. SubSeq(s, p, f - 1) \in Seq(Symbols)
    BY <2>1, SubSeqFacts
  <2> QED
    BY <2>2 DEF f
<1>4. CASE f = 0
  <2>1. SubSeq(s, p, f - 1) = << >>
    BY <1>4
  <2> QED
    BY <2>1, SymbolFacts DEF f
<1> QED
  BY <1>1, <1>2, <1>3, <1>4

LEMMA CStringType ==
  ASSUME NEW s \in Seq(Symbols)
  PROVE  CString(s) \in Seq(Symbols) /\ Len(CString(s)) >= 1
<1> DEFINE a == Append(s, "NUL")
           c == SubSeq(s, 1, FirstIn(a, 1, {"NUL"}) - 1)
<1>1. FirstIn(a, 1, {"NUL"}) \in 1..(Len(s) + 1)
  <2>1. a \in Seq(Symbols) /\ Len(a) = Len(s) + 1
    BY StringFacts, SymbolFacts
  <2>2. Len(s) \in Nat
    OBVIOUS
  <2> HIDE DEF a
  <2> QED
    BY <2>1, <2>2, FirstInFacts
<1>2. FirstIn(a, 1, {"NUL"}) - 1 \in Nat /\ FirstIn(a, 1, {"NUL"}) - 1 <= Len(s)
  <2>1. Len(s) \in Nat
    OBVIOUS
  <2> QED
    BY <1>1, <2>1
<1> HIDE DEF a
<1>3. c \in Seq(Symbols)
  BY <1>2, SubSeqFacts
<1>4. CString(s) = c \o <<"NUL">>
  BY DEF CString, a
<1> HIDE DEF c
<1> QED
  BY <1>3, <1>4, SymbolFacts, ConcatFacts

-----------------------------------------------------------------------------
(* strtok.                                                                 *)

Memories == {m \in [Buffers -> Seq(Symbols)] : \A b \in Buffers : Len(m[b]) >= 1}

LEMMA MemoryWritten ==
  ASSUME NEW m \in Memories, NEW b \in Buffers, NEW s \in Seq(Symbols), Len(s) >= 1
  PROVE  LET n == [m EXCEPT ![b] = s]
         IN  n \in Memories /\ n[b] = s /\ \A c \in Buffers : c # b => n[c] = m[c]
<1> DEFINE n == [m EXCEPT ![b] = s]
<1>1. n \in [Buffers -> Seq(Symbols)] /\ n[b] = s /\ \A c \in Buffers : c # b => n[c] = m[c]
  BY DEF Memories
<1> HIDE DEF n
<1>2. \A c \in Buffers : Len(n[c]) >= 1
  BY <1>1 DEF Memories
<1> QED
  BY <1>1, <1>2 DEF n, Memories

Places == [buf : Buffers, pos : Nat \ {0}, by : Actors \cup {NULL}]

StringsOK ==
  /\ mem \in Memories /\ saved \in Places
  /\ token \in [Actors -> Pointers \cup {NULL}]
  /\ mixed \in BOOLEAN

(* Whatever strtok finds, it stays in the buffer.                          *)
LEMMA StrtokType ==
  ASSUME saved \in Places, NEW a \in Actors, NEW m \in Memories,
         NEW from \in Pointers \cup {NULL}, NEW delims
  PROVE  LET r == Strtok(a, m, from, delims)
         IN  /\ r.token \in Pointers \cup {NULL} /\ r.mem \in Memories /\ r.saved \in Places
             /\ \A b \in Buffers : Len(r.mem[b]) = Len(m[b])
<1> DEFINE at    == IF from = NULL THEN saved ELSE from
           s     == m[at.buf]
           start == FirstNotIn(s, at.pos, delims)
           end   == FirstIn(s, start, delims \cup {"NUL"})
           r     == Strtok(a, m, from, delims)
           none  == at.pos > Len(s) \/ s[start] = "NUL"
           cut   == [m EXCEPT ![at.buf][end] = "NUL"]
<1>1. r = IF none
          THEN [token |-> NULL, mem |-> m, saved |-> [buf |-> at.buf, pos |-> start, by |-> a]]
          ELSE [token |-> Ptr(at.buf, start), mem |-> cut,
                saved |-> [buf |-> at.buf, by |-> a,
                           pos |-> IF s[end] = "NUL" THEN end ELSE end + 1]]
  BY DEF Strtok
<1>2. at.buf \in Buffers /\ at.pos \in Nat \ {0}
  BY DEF Places, Pointers
<1>3. s \in Seq(Symbols) /\ Len(s) \in Nat /\ Len(s) >= 1
  BY <1>2 DEF Memories
<1> HIDE DEF s, at
<1>4. start \in 1..Len(s)
  BY <1>2, <1>3, FirstNotInFacts
<1> HIDE DEF start
<1>5. end \in 1..Len(s)
  BY <1>3, <1>4, FirstInFacts
<1> HIDE DEF end
<1>6. cut \in Memories /\ \A b \in Buffers : Len(cut[b]) = Len(m[b])
  <2> DEFINE c == [s EXCEPT ![end] = "NUL"]
  <2>1. c \in Seq(Symbols) /\ Len(c) = Len(s)
    BY <1>3, <1>5, ExceptSeq, SymbolFacts
  <2>2. cut = [m EXCEPT ![at.buf] = c]
    BY DEF s
  <2> HIDE DEF c, cut
  <2>3. \A b \in Buffers : cut[b] = IF b = at.buf THEN c ELSE m[b]
    BY <2>2 DEF Memories
  <2>4. cut \in [Buffers -> Seq(Symbols)]
    BY <2>1, <2>2, <1>2 DEF Memories
  <2> QED
    BY <2>1, <2>3, <2>4 DEF s, Memories
<1> HIDE DEF cut, none, r
<1>7. Ptr(at.buf, start) \in Pointers
  BY <1>2, <1>4 DEF Ptr, Pointers
<1>8. r.token \in Pointers \cup {NULL} /\ r.mem \in Memories /\ r.saved \in Places
      /\ \A b \in Buffers : Len(r.mem[b]) = Len(m[b])
  <2>1. CASE none
    <3>1. r = [token |-> NULL, mem |-> m, saved |-> [buf |-> at.buf, pos |-> start, by |-> a]]
      BY <1>1, <2>1
    <3> QED
      BY <3>1, <1>2, <1>4 DEF Places
  <2>2. CASE ~none
    <3> DEFINE pos == IF s[end] = "NUL" THEN end ELSE end + 1
    <3>1. r = [token |-> Ptr(at.buf, start), mem |-> cut,
               saved |-> [buf |-> at.buf, by |-> a, pos |-> pos]]
      BY <1>1, <2>2
    <3>2. pos \in Nat \ {0}
      BY <1>5
    <3> HIDE DEF pos
    <3> QED
      BY <3>1, <3>2, <1>2, <1>6, <1>7 DEF Places
  <2> QED
    BY <2>1, <2>2
<1> QED
  BY <1>8 DEF r

LEMMA ScansType ==
  ASSUME StringsOK, NEW a \in Actors, NEW m \in Memories,
         NEW from \in Pointers \cup {NULL}, NEW delims, Scans(a, m, from, delims)
  PROVE  StringsOK' /\ \A b \in Buffers : Len(mem'[b]) = Len(m[b])
<1> DEFINE r == Strtok(a, m, from, delims)
<1>1. /\ r.token \in Pointers \cup {NULL} /\ r.mem \in Memories /\ r.saved \in Places
      /\ \A b \in Buffers : Len(r.mem[b]) = Len(m[b])
  BY StrtokType DEF StringsOK
<1>2. /\ mem' = r.mem /\ saved' = r.saved
      /\ token' = [token EXCEPT ![a] = r.token]
      /\ mixed' \in BOOLEAN
  BY DEF Scans, StringsOK
<1> HIDE DEF r
<1>3. token' \in [Actors -> Pointers \cup {NULL}]
  BY <1>1, <1>2 DEF StringsOK
<1> QED
  BY <1>1, <1>2, <1>3 DEF StringsOK

LEMMA NoScanType ==
  ASSUME StringsOK, NoScan
  PROVE  StringsOK' /\ \A b \in Buffers : Len(mem'[b]) = Len(mem[b])
BY DEF StringsOK, NoScan

LEMMA StringAtType ==
  ASSUME StringsOK, NEW p \in Pointers \cup {NULL}
  PROVE  StringAt(p) \in Seq(Symbols)
<1>1. CASE p = NULL
  BY <1>1, SymbolFacts DEF StringAt
<1>2. CASE p # NULL
  <2>1. mem[p.buf] \in Seq(Symbols) /\ p.pos \in Nat \ {0}
    BY <1>2 DEF StringsOK, Memories, Pointers
  <2> QED
    BY <1>2, <2>1, StringType DEF StringAt
<1> QED
  BY <1>1, <1>2

-----------------------------------------------------------------------------
(* Types.                                                                  *)

ThreadPCs == {"read", "header", "split", "value", "method", "done"}
WorkerPCs == {"take", "command", "ADD", "DEL", "forward", "close"}

ScanSet == [to : Registers, from : Registers \cup {"next"}, delim : {"&", "=", "-"},
            tested : SUBSET Registers]

(* What a thread has in hand at each place of the parser.                  *)
Progress(t) ==
  /\ pc[t] \in ThreadPCs
  /\ Len(headers[t]) <= MaxHeaders /\ line[t] \in 2..(MaxHeaders + 1)
  /\ pc[t] = "read" => headers[t] = << >>
  /\ pc[t] = "header" => Len(headers[t]) < MaxHeaders
  /\ pc[t] = "value" => line[t] <= Len(headers[t])
  /\ pc[t] # "read" => input[t] \in Requests /\ Len(mem[Buffer(t)]) = Len(input[t].text) + 1

ThreadsOK ==
  /\ pc \in [Actors -> ThreadPCs \cup WorkerPCs]
  /\ input \in [Threads -> Requests \cup {NULL}]
  /\ headers \in [Threads -> Seq(Seq(Symbols))]
  /\ headersize \in [Threads -> Nat] /\ line \in [Threads -> Nat]
  /\ type \in [Threads -> {"POST", "GET", NULL}] /\ data \in [Threads -> Seq(Symbols)]
  /\ \A t \in Threads : Progress(t)

WorkerOK ==
  /\ pc[Worker] \in WorkerPCs
  /\ queue \in Seq(Threads) /\ job \in Threads \cup {NULL}
  /\ reg \in [Registers -> Pointers \cup {NULL}] /\ todo \in Seq(ScanSet)
  /\ pc[Worker] = "take" <=> job = NULL
  /\ pc[Worker] \in {"take", "close"} => todo = << >>

RestOK ==
  /\ serverType \in ServerTypes
  /\ status \in {"ok", "crashed"} /\ ranOn \in BOOLEAN
  /\ replies \in [Threads -> Seq(Nat)]
  /\ executed = [t \in Threads |-> executed[t]]

TInv == StringsOK /\ ThreadsOK /\ WorkerOK /\ RestOK

LEMMA SoundTypes ==
  ASSUME TInv
  PROVE  TypeOK
<1>1. \A t \in Threads : input[t] # NULL => input[t] \in Requests
  BY DEF TInv, ThreadsOK
<1>2. saved.buf \in Buffers /\ saved.pos \in Nat \ {0}
  BY DEF TInv, StringsOK, Places
<1>3. \A a \in Actors : token[a] # NULL => token[a] \in [buf : Buffers, pos : Nat \ {0}]
  BY DEF TInv, StringsOK, Pointers
<1>4. \A t \in Threads : /\ Len(headers[t]) <= MaxHeaders
                          /\ line[t] \in 2..(MaxHeaders + 1)
                          /\ headersize[t] \in Nat
                          /\ type[t] \in {"POST", "GET", NULL}
  BY DEF TInv, ThreadsOK, Progress
<1>5. queue \in Seq(Threads) /\ job \in Threads \cup {NULL} /\ DOMAIN reg = Registers
  BY DEF TInv, WorkerOK
<1> QED
  BY <1>1, <1>2, <1>3, <1>4, <1>5 DEF TypeOK, TInv, RestOK, StringsOK

LEMMA OthersProgress ==
  ASSUME ThreadsOK, NEW u \in Threads, pc'[u] = pc[u], input'[u] = input[u],
         headers'[u] = headers[u], line'[u] = line[u],
         Len(mem'[Buffer(u)]) = Len(mem[Buffer(u)])
  PROVE  Progress(u)'
<1>1. Buffer(u)' = Buffer(u)
  BY DEF Buffer
<1> QED
  BY <1>1 DEF ThreadsOK, Progress

(* A thread's step leaves the worker alone.                                *)
LEMMA WorkerRests ==
  ASSUME TInv, NEW t \in Threads, NEW to, pc' = [pc EXCEPT ![t] = to],
         queue' \in Seq(Threads), UNCHANGED <<worker, replies, ranOn, serverType>>,
         status' \in {"ok", "crashed"}
  PROVE  WorkerOK' /\ RestOK'
<1>1. t # Worker /\ Worker \in Actors
  BY ConstantFacts DEF Actors
<1>2. pc'[Worker] = pc[Worker]
  BY <1>1 DEF TInv, ThreadsOK
<1> QED
  BY <1>2 DEF TInv, WorkerOK, RestOK, worker

LEMMA Threaded ==
  ASSUME NEW t \in Threads
  PROVE  t \in Actors /\ t # Worker /\ Worker \in Actors
BY ConstantFacts DEF Actors

(* A thread's step keeps the types when what it writes has its type.       *)
LEMMA ParseTypes ==
  ASSUME TInv, NEW t \in Threads, NEW from, NEW to \in ThreadPCs, Goes(t, from, to),
         StringsOK',
         \A u \in Threads : u # t =>
           Len(mem'[Buffer(u)]) = Len(mem[Buffer(u)]) /\ input'[u] = input[u]
             /\ headers'[u] = headers[u] /\ line'[u] = line[u],
         input' \in [Threads -> Requests \cup {NULL}],
         headers' \in [Threads -> Seq(Seq(Symbols))],
         headersize' \in [Threads -> Nat], line' \in [Threads -> Nat],
         type' \in [Threads -> {"POST", "GET", NULL}], data' \in [Threads -> Seq(Symbols)],
         Len(headers'[t]) <= MaxHeaders, line'[t] \in 2..(MaxHeaders + 1),
         to # "read", to = "header" => Len(headers'[t]) < MaxHeaders,
         to = "value" => line'[t] <= Len(headers'[t]),
         input'[t] \in Requests, Len(mem'[Buffer(t)]) = Len(input'[t].text) + 1,
         queue' \in Seq(Threads), UNCHANGED <<worker, replies, status, ranOn, serverType>>
  PROVE  TInv'
<1>1. pc' = [pc EXCEPT ![t] = to]
  BY DEF Goes
<1>2. WorkerOK' /\ RestOK'
  BY <1>1, WorkerRests DEF TInv, RestOK
<1>3. \A u \in Threads : u # t => pc'[u] = pc[u]
  BY <1>1, Threaded DEF TInv, ThreadsOK
<1>4. pc'[t] = to
  BY <1>1, Threaded DEF TInv, ThreadsOK
<1>5. \A u \in Threads : u # t => Progress(u)'
  BY <1>3, OthersProgress DEF TInv
<1>6. Progress(t)'
  <2>1. Buffer(t)' = Buffer(t)
    BY DEF Buffer
  <2> QED
    BY <1>4, <2>1 DEF Progress
<1>7. pc' \in [Actors -> ThreadPCs \cup WorkerPCs]
  BY <1>1 DEF TInv, ThreadsOK
<1>8. ThreadsOK'
  BY <1>5, <1>6, <1>7 DEF ThreadsOK
<1> QED
  BY <1>2, <1>8 DEF TInv

LEMMA ReadTypes ==
  ASSUME TInv, NEW t \in Threads, Read(t), UNCHANGED serverType
  PROVE  TInv'
<1>1. PICK r \in Requests :
        /\ input' = [input EXCEPT ![t] = r]
        /\ Scans(t, [mem EXCEPT ![Buffer(t)] = Append(r.text, "NUL")], Ptr(Buffer(t), 1),
                 {"CR", "LF"})
  BY DEF Read
<1>2. /\ Goes(t, "read", "header")
      /\ UNCHANGED <<packet, queue, worker, replies, status, ranOn>>
  BY DEF Read
<1> DEFINE s == Append(r.text, "NUL")
           m == [mem EXCEPT ![Buffer(t)] = s]
<1>3. s \in Seq(Symbols) /\ Len(s) = Len(r.text) + 1 /\ Len(r.text) \in Nat
  BY ConstantFacts, StringFacts, SymbolFacts
<1> HIDE DEF s
<1>4. m \in Memories /\ m[Buffer(t)] = s
      /\ \A b \in Buffers : b # Buffer(t) => m[b] = mem[b]
  BY <1>3, BufferFacts, MemoryWritten DEF TInv, StringsOK
<1>5. Ptr(Buffer(t), 1) \in Pointers /\ t \in Actors
  BY BufferFacts, Threaded DEF Ptr, Pointers
<1>6. Scans(t, m, Ptr(Buffer(t), 1), {"CR", "LF"})
  BY <1>1 DEF s
<1> HIDE DEF m
<1>7. StringsOK' /\ \A b \in Buffers : Len(mem'[b]) = Len(m[b])
  BY <1>4, <1>5, <1>6, ScansType DEF TInv
<1>8. \A u \in Threads : u # t => Len(mem'[Buffer(u)]) = Len(mem[Buffer(u)])
  BY <1>4, <1>7, BufferFacts
<1>9. Len(mem'[Buffer(t)]) = Len(r.text) + 1
  BY <1>3, <1>4, <1>7, BufferFacts
<1>10. /\ input' \in [Threads -> Requests \cup {NULL}] /\ input'[t] = r
       /\ \A u \in Threads : u # t => input'[u] = input[u]
  BY <1>1 DEF TInv, ThreadsOK
<1>11. pc[t] = "read"
  BY <1>2 DEF Goes
<1>12. /\ headers[t] = << >> /\ Len(headers[t]) = 0 /\ line[t] \in 2..(MaxHeaders + 1)
  BY <1>11 DEF TInv, ThreadsOK, Progress
<1>13. UNCHANGED <<headers, headersize, line, type, data, queue>>
  BY <1>2 DEF packet
<1>14. /\ headers \in [Threads -> Seq(Seq(Symbols))]
       /\ headersize \in [Threads -> Nat] /\ line \in [Threads -> Nat]
       /\ type \in [Threads -> {"POST", "GET", NULL}] /\ data \in [Threads -> Seq(Symbols)]
       /\ queue \in Seq(Threads)
  BY DEF TInv, ThreadsOK, WorkerOK
<1>15. "header" \in ThreadPCs /\ "header" # "read" /\ "header" # "value"
       /\ Len(headers[t]) < MaxHeaders
  BY <1>12, ConstantFacts DEF ThreadPCs
<1>16. UNCHANGED <<worker, replies, status, ranOn, serverType>>
  BY <1>2
<1>17. \A u \in Threads : u # t =>
         Len(mem'[Buffer(u)]) = Len(mem[Buffer(u)]) /\ input'[u] = input[u]
           /\ headers'[u] = headers[u] /\ line'[u] = line[u]
  BY <1>8, <1>10, <1>13
<1>18. /\ input' \in [Threads -> Requests \cup {NULL}]
       /\ headers' \in [Threads -> Seq(Seq(Symbols))]
       /\ headersize' \in [Threads -> Nat] /\ line' \in [Threads -> Nat]
       /\ type' \in [Threads -> {"POST", "GET", NULL}] /\ data' \in [Threads -> Seq(Symbols)]
       /\ queue' \in Seq(Threads)
  BY <1>10, <1>13, <1>14
<1>19. /\ Len(headers'[t]) < MaxHeaders /\ Len(headers'[t]) <= MaxHeaders
       /\ line'[t] \in 2..(MaxHeaders + 1) /\ "header" \in ThreadPCs
       /\ input'[t] \in Requests /\ Len(mem'[Buffer(t)]) = Len(input'[t].text) + 1
  BY <1>9, <1>10, <1>12, <1>13, <1>15, ConstantFacts
<1> QED
  BY <1>2, <1>7, <1>16, <1>17, <1>18, <1>19, ParseTypes

(* Steps behind the headers: the scan is in the thread's own copies.       *)
LEMMA BehindTypes ==
  ASSUME TInv, NEW t \in Threads, NEW from \in ThreadPCs \ {"read"}, NEW to \in ThreadPCs \ {"read", "header"},
         Goes(t, from, to), StringsOK', \A u \in Threads : Len(mem'[Buffer(u)]) = Len(mem[Buffer(u)]),
         UNCHANGED <<input, headers, headersize, worker, replies, status, ranOn, serverType>>,
         queue' \in Seq(Threads),
         type' \in [Threads -> {"POST", "GET", NULL}], data' \in [Threads -> Seq(Symbols)],
         line' = line \/ line' = [line EXCEPT ![t] = @ + 1],
         line' # line => line[t] <= Len(headers[t]) /\ to # "value",
         to = "value" => line[t] <= Len(headers[t])
  PROVE  TInv'
<1>1. pc[t] = from
  BY DEF Goes
<1>2. /\ input[t] \in Requests /\ Len(mem[Buffer(t)]) = Len(input[t].text) + 1
      /\ Len(headers[t]) <= MaxHeaders /\ line[t] \in 2..(MaxHeaders + 1)
  BY <1>1 DEF TInv, ThreadsOK, Progress
<1>3. Len(headers[t]) \in Nat /\ MaxHeaders \in Nat
  BY ConstantFacts DEF TInv, ThreadsOK
<1>4. /\ line' \in [Threads -> Nat] /\ line'[t] \in 2..(MaxHeaders + 1)
      /\ \A u \in Threads : u # t => line'[u] = line[u]
      /\ to = "value" => line'[t] <= Len(headers[t])
  <2>1. line \in [Threads -> Nat]
    BY DEF TInv, ThreadsOK
  <2>2. CASE line' = line
    BY <1>2, <2>1, <2>2
  <2>3. CASE line' # line
    <3>1. line' = [line EXCEPT ![t] = @ + 1] /\ line[t] <= Len(headers[t]) /\ to # "value"
      BY <2>3
    <3>2. line'[t] = line[t] + 1
      BY <2>1, <3>1
    <3>3. line'[t] \in 2..(MaxHeaders + 1)
      BY <1>2, <1>3, <3>1, <3>2
    <3> QED
      BY <2>1, <3>1, <3>3
  <2> QED
    BY <2>2, <2>3
<1>5. /\ input \in [Threads -> Requests \cup {NULL}]
      /\ headers \in [Threads -> Seq(Seq(Symbols))] /\ headersize \in [Threads -> Nat]
  BY DEF TInv, ThreadsOK
<1>6. to \in ThreadPCs /\ to # "read" /\ to # "header"
  OBVIOUS
<1>7. UNCHANGED <<worker, replies, status, ranOn, serverType>>
  OBVIOUS
<1> QED
  BY <1>2, <1>4, <1>5, <1>6, <1>7, ParseTypes

LEMMA HeaderTypes ==
  ASSUME TInv, NEW t \in Threads, Header(t), UNCHANGED serverType
  PROVE  TInv'
<1> DEFINE h == StringAt(token[t]) \o <<"CR", "LF">>
           full == NoRoom(t)
           last == EndsHeaders(token[t])
<1>1. /\ pc[t] = "header"
      /\ headers' = [headers EXCEPT ![t] = Append(@, h)]
      /\ headersize' = IF full THEN headersize
                       ELSE [headersize EXCEPT ![t] = @ + SizeOf(h, last)]
      /\ IF full \/ last
         THEN Goes(t, "header", "split") /\ NoScan
         ELSE Goes(t, "header", "header") /\ Scans(t, mem, NULL, {"CR", "LF"})
      /\ UNCHANGED <<input, line, type, data, queue, worker, replies, status, ranOn>>
  BY DEF Header
<1>2. h \in Seq(Symbols)
  <2>1. StringAt(token[t]) \in Seq(Symbols)
    BY StringAtType, Threaded DEF TInv, StringsOK
  <2>2. <<"CR", "LF">> \in Seq(Symbols)
    BY SymbolFacts
  <2> QED
    BY <2>1, <2>2, ConcatFacts
<1>3. SizeOf(h, last) \in Nat
  BY <1>2 DEF SizeOf
<1>4. /\ input[t] \in Requests /\ Len(mem[Buffer(t)]) = Len(input[t].text) + 1
      /\ Len(headers[t]) < MaxHeaders /\ line[t] \in 2..(MaxHeaders + 1)
      /\ headers[t] \in Seq(Seq(Symbols)) /\ Len(headers[t]) \in Nat
  BY <1>1 DEF TInv, ThreadsOK, Progress
<1> HIDE DEF h, last
<1>5. /\ headers' \in [Threads -> Seq(Seq(Symbols))] /\ Len(headers'[t]) = Len(headers[t]) + 1
      /\ \A u \in Threads : u # t => headers'[u] = headers[u]
  <2>1. headers \in [Threads -> Seq(Seq(Symbols))]
    BY DEF TInv, ThreadsOK
  <2>2. Append(headers[t], h) \in Seq(Seq(Symbols)) /\ Len(Append(headers[t], h)) = Len(headers[t]) + 1
    BY <1>2, <1>4, AppendProperties
  <2> QED
    BY <1>1, <2>1, <2>2
<1>6. headersize' \in [Threads -> Nat]
  BY <1>1, <1>3 DEF TInv, ThreadsOK
<1>7. Len(headers'[t]) <= MaxHeaders /\ (~full => Len(headers'[t]) < MaxHeaders)
  BY <1>4, <1>5, ConstantFacts DEF NoRoom
<1> HIDE DEF full
<1>8. /\ input \in [Threads -> Requests \cup {NULL}] /\ line \in [Threads -> Nat]
      /\ type \in [Threads -> {"POST", "GET", NULL}] /\ data \in [Threads -> Seq(Symbols)]
      /\ queue \in Seq(Threads) /\ StringsOK /\ mem \in Memories /\ NULL \in Pointers \cup {NULL}
  BY DEF TInv, ThreadsOK, WorkerOK, StringsOK
<1>9. PICK to \in {"split", "header"} :
        /\ Goes(t, "header", to) /\ StringsOK' /\ \A b \in Buffers : Len(mem'[b]) = Len(mem[b])
        /\ to = "header" => ~full
  <2>1. CASE full \/ last
    BY <1>1, <1>8, <2>1, NoScanType
  <2>2. CASE ~(full \/ last)
    BY <1>1, <1>8, <2>2, Threaded, ScansType
  <2> QED
    BY <2>1, <2>2
<1>10. \A u \in Threads : Len(mem'[Buffer(u)]) = Len(mem[Buffer(u)])
  BY <1>9, BufferFacts
<1>11. to \in ThreadPCs /\ to # "read" /\ to # "value"
  BY DEF ThreadPCs
<1> QED
  BY <1>1, <1>4, <1>5, <1>6, <1>7, <1>8, <1>9, <1>10, <1>11, ParseTypes

LEMMA SplitTypes ==
  ASSUME TInv, NEW t \in Threads, NoHeader(t) \/ SplitKey(t) \/ SplitValue(t) \/ SplitMethod(t),
         UNCHANGED serverType
  PROVE  TInv'
<1>1. /\ t \in Actors /\ mem \in Memories /\ StringsOK /\ NULL \in Pointers \cup {NULL}
      /\ headers \in [Threads -> Seq(Seq(Symbols))] /\ queue \in Seq(Threads)
      /\ type \in [Threads -> {"POST", "GET", NULL}] /\ data \in [Threads -> Seq(Symbols)]
  BY Threaded DEF TInv, StringsOK, ThreadsOK, WorkerOK
<1>2. /\ "header" \in ThreadPCs \ {"read"} /\ "split" \in ThreadPCs \ {"read", "header"}
      /\ "value" \in ThreadPCs \ {"read", "header"} /\ "method" \in ThreadPCs \ {"read", "header"}
  BY DEF ThreadPCs
<1>3. CASE NoHeader(t)
  <2>1. /\ Goes(t, "header", "split") /\ NoScan
        /\ UNCHANGED <<input, headers, headersize, line, type, data, queue, worker, replies, status, ranOn>>
    BY <1>3 DEF NoHeader, packet
  <2>2. StringsOK' /\ \A u \in Threads : Len(mem'[Buffer(u)]) = Len(mem[Buffer(u)])
    BY <1>1, <2>1, NoScanType, BufferFacts
  <2> QED
    BY <1>1, <1>2, <2>1, <2>2, BehindTypes
<1>4. CASE SplitKey(t)
  <2> DEFINE h == headers[t][line[t]]
             c == CString(h)
             m == [mem EXCEPT ![Line(t)] = c]
  <2>1. /\ line[t] <= Len(headers[t]) /\ Goes(t, "split", "value")
        /\ Scans(t, m, Ptr(Line(t), 1), {":"})
        /\ UNCHANGED <<input, headers, headersize, line, type, data, queue, worker, replies, status, ranOn>>
    BY <1>4 DEF SplitKey, packet
  <2>2. h \in Seq(Symbols)
    <3>1. line[t] \in 1..Len(headers[t])
      BY <2>1 DEF TInv, ThreadsOK, Progress
    <3>2. headers[t] \in Seq(Seq(Symbols))
      BY <1>1
    <3> QED
      BY <3>1, <3>2
  <2> HIDE DEF h
  <2>3. m \in Memories /\ \A u \in Threads : m[Buffer(u)] = mem[Buffer(u)]
    <3>0. Line(t) \in Buffers
      BY BufferFacts
    <3>1. c \in Seq(Symbols) /\ Len(c) >= 1
      BY <2>2, CStringType
    <3> HIDE DEF c
    <3>2. m \in Memories /\ \A d \in Buffers : d # Line(t) => m[d] = mem[d]
      BY <1>1, <3>0, <3>1, MemoryWritten
    <3> HIDE DEF m
    <3> QED
      BY <3>2, BufferFacts
  <2>4. Ptr(Line(t), 1) \in Pointers
    BY BufferFacts DEF Ptr, Pointers
  <2> HIDE DEF m, c
  <2>5. StringsOK' /\ \A u \in Threads : Len(mem'[Buffer(u)]) = Len(mem[Buffer(u)])
    BY <1>1, <2>1, <2>3, <2>4, ScansType, BufferFacts
  <2> QED
    BY <1>1, <1>2, <2>1, <2>5, BehindTypes
<1>5. CASE SplitValue(t)
  <2>1. /\ Goes(t, "value", "split") /\ Scans(t, mem, NULL, {":"})
        /\ line' = [line EXCEPT ![t] = @ + 1]
        /\ UNCHANGED <<input, headers, headersize, type, data, queue, worker, replies, status, ranOn>>
    BY <1>5 DEF SplitValue
  <2>2. StringsOK' /\ \A u \in Threads : Len(mem'[Buffer(u)]) = Len(mem[Buffer(u)])
    BY <1>1, <2>1, ScansType, BufferFacts
  <2>3. line[t] <= Len(headers[t]) /\ "split" # "value"
    BY <2>1 DEF Goes, TInv, ThreadsOK, Progress
  <2> QED
    BY <1>1, <1>2, <2>1, <2>2, <2>3, BehindTypes
<1>6. CASE SplitMethod(t)
  <2> DEFINE h == Head(headers[t])
             c == CString(h)
             m == [mem EXCEPT ![First(t)] = c]
  <2>1. /\ headers[t] # << >> /\ Goes(t, "split", "method")
        /\ Scans(t, m, Ptr(First(t), 1), {"SP"})
        /\ UNCHANGED <<input, headers, headersize, line, type, data, queue, worker, replies, status, ranOn>>
    BY <1>6 DEF SplitMethod, packet
  <2>2. h \in Seq(Symbols)
    BY <1>1, <2>1
  <2> HIDE DEF h
  <2>3. m \in Memories /\ \A u \in Threads : m[Buffer(u)] = mem[Buffer(u)]
    <3>0. First(t) \in Buffers
      BY BufferFacts
    <3>1. c \in Seq(Symbols) /\ Len(c) >= 1
      BY <2>2, CStringType
    <3> HIDE DEF c
    <3>2. m \in Memories /\ \A d \in Buffers : d # First(t) => m[d] = mem[d]
      BY <1>1, <3>0, <3>1, MemoryWritten
    <3> HIDE DEF m
    <3> QED
      BY <3>2, BufferFacts
  <2>4. Ptr(First(t), 1) \in Pointers
    BY BufferFacts DEF Ptr, Pointers
  <2> HIDE DEF m, c
  <2>5. StringsOK' /\ \A u \in Threads : Len(mem'[Buffer(u)]) = Len(mem[Buffer(u)])
    BY <1>1, <2>1, <2>3, <2>4, ScansType, BufferFacts
  <2> QED
    BY <1>1, <1>2, <2>1, <2>5, BehindTypes
<1> QED
  BY <1>3, <1>4, <1>5, <1>6

LEMMA FinishTypes ==
  ASSUME TInv, NEW t \in Threads, Finish(t), UNCHANGED serverType
  PROVE  TInv'
<1> DEFINE method == StringAt(token[t])
           size   == Len(input[t].text)
           n      == headersize[t]
<1>1. /\ Goes(t, "method", "done") /\ NoScan
      /\ type' = [type EXCEPT ![t] = IF method \in {<<"POST">>, <<"GET">>} THEN Head(method) ELSE @]
      /\ data' = IF method = <<"POST">>
                 THEN [data EXCEPT ![t] = SubSeq(mem[Buffer(t)], n + 1, size)]
                 ELSE data
      /\ queue' = Append(queue, t)
      /\ UNCHANGED <<input, headers, headersize, line, worker, replies, status, ranOn>>
  BY DEF Finish
<1>2. pc[t] = "method"
  BY <1>1 DEF Goes
<1>3. /\ input[t] \in Requests /\ Len(mem[Buffer(t)]) = size + 1 /\ n \in Nat
      /\ mem[Buffer(t)] \in Seq(Symbols)
  BY <1>2, BufferFacts DEF TInv, ThreadsOK, Progress, StringsOK, Memories
<1>4. size \in Nat
  BY <1>3, ConstantFacts
<1>5. SubSeq(mem[Buffer(t)], n + 1, size) \in Seq(Symbols)
  <2> HIDE DEF n, size
  <2> QED
    BY <1>3, <1>4, SubSeqFacts
<1>6. type' \in [Threads -> {"POST", "GET", NULL}]
  <2>1. method \in {<<"POST">>, <<"GET">>} => Head(method) \in {"POST", "GET"}
    OBVIOUS
  <2> QED
    BY <1>1, <2>1 DEF TInv, ThreadsOK
<1>7. data' \in [Threads -> Seq(Symbols)]
  BY <1>1, <1>5 DEF TInv, ThreadsOK
<1>8. queue' \in Seq(Threads)
  BY <1>1 DEF TInv, WorkerOK
<1>9. /\ "method" \in ThreadPCs \ {"read"} /\ "done" \in ThreadPCs \ {"read", "header"}
      /\ "done" # "value"
  BY DEF ThreadPCs
<1>10. StringsOK' /\ \A u \in Threads : Len(mem'[Buffer(u)]) = Len(mem[Buffer(u)])
  BY <1>1, NoScanType, BufferFacts DEF TInv
<1> QED
  BY <1>1, <1>6, <1>7, <1>8, <1>9, <1>10, BehindTypes

LEMMA CrashTypes ==
  ASSUME TInv, NEW a \in Actors, NEW at, Crashes(a, at), UNCHANGED serverType
  PROVE  TInv'
<1>1. UNCHANGED <<input, mem, saved, pc, token, packet, queue, worker, replies, mixed, ranOn>>
      /\ status' = "crashed"
  BY DEF Crashes
<1>2. StringsOK'
  BY <1>1 DEF TInv, StringsOK
<1>3. ThreadsOK'
  BY <1>1 DEF TInv, ThreadsOK, Progress, packet, Buffer
<1>4. WorkerOK' /\ RestOK'
  BY <1>1 DEF TInv, WorkerOK, RestOK, worker
<1> QED
  BY <1>2, <1>3, <1>4 DEF TInv
(* The worker's steps leave the threads and their buffers alone.           *)
LEMMA WorkerTypes ==
  ASSUME TInv, NEW from, NEW to \in WorkerPCs, Goes(Worker, from, to), StringsOK',
         \A u \in Threads : Len(mem'[Buffer(u)]) = Len(mem[Buffer(u)]),
         UNCHANGED <<input, packet, status, serverType>>,
         queue' \in Seq(Threads), job' \in Threads \cup {NULL},
         reg' \in [Registers -> Pointers \cup {NULL}], todo' \in Seq(ScanSet),
         to = "take" <=> job' = NULL, to \in {"take", "close"} => todo' = << >>,
         replies' \in [Threads -> Seq(Nat)], executed' = [t \in Threads |-> executed'[t]],
         ranOn' \in BOOLEAN
  PROVE  TInv'
<1>1. pc' = [pc EXCEPT ![Worker] = to]
  BY DEF Goes
<1>2. pc'[Worker] = to /\ pc' \in [Actors -> ThreadPCs \cup WorkerPCs]
      /\ \A u \in Threads : pc'[u] = pc[u]
  BY <1>1, Threaded, ConstantFacts DEF TInv, ThreadsOK, Actors
<1>3. \A u \in Threads : Progress(u)'
  BY <1>2, OthersProgress DEF TInv, packet
<1>4. ThreadsOK'
  BY <1>2, <1>3 DEF TInv, ThreadsOK, packet
<1>5. WorkerOK' /\ RestOK'
  BY <1>2 DEF TInv, WorkerOK, RestOK
<1> QED
  BY <1>4, <1>5 DEF TInv

LEMMA RepliesType ==
  ASSUME RestOK, NEW t \in Threads, NEW codes \in Seq(Nat),
         replies' = [replies EXCEPT ![t] = @ \o codes]
  PROVE  replies' \in [Threads -> Seq(Nat)]
<1>1. replies[t] \o codes \in Seq(Nat)
  BY DEF RestOK
<1> QED
  BY <1>1 DEF RestOK

(* What the worker does once its scans are done.                           *)
LEMMA SteadyTypes ==
  ASSUME TInv, NEW from \in WorkerPCs \ {"take"}, NEW to \in WorkerPCs \ {"take"},
         Goes(Worker, from, to), NoScan,
         replies' = replies \/ \E codes \in Seq(Nat) : Replies(codes),
         executed' = executed \/ \E c : Executes(c),
         reg' \in [Registers -> Pointers \cup {NULL}], todo' \in Seq(ScanSet),
         to = "close" => todo' = << >>,
         UNCHANGED <<input, packet, queue, job, status, ranOn, serverType>>
  PROVE  TInv'
<1>1. pc[Worker] # "take" /\ StringsOK
  BY DEF Goes, TInv
<1>2. job \in Threads /\ job # NULL
  BY <1>1 DEF TInv, WorkerOK
<1>3. replies' \in [Threads -> Seq(Nat)]
  <2>1. CASE replies' = replies
    BY <2>1 DEF TInv, RestOK
  <2>2. ASSUME NEW codes \in Seq(Nat), Replies(codes) PROVE replies' \in [Threads -> Seq(Nat)]
    BY <1>2, <2>2, RepliesType DEF Replies, TInv
  <2> QED
    BY <2>1, <2>2
<1>4. executed' = [t \in Threads |-> executed'[t]]
  <2>1. executed = [t \in Threads |-> executed[t]]
    BY DEF TInv, RestOK
  <2>2. CASE executed' = executed
    BY <2>1, <2>2
  <2>3. CASE \E c : Executes(c)
    BY <2>1, <2>3 DEF Executes
  <2> QED
    BY <2>2, <2>3
<1>5. StringsOK' /\ \A u \in Threads : Len(mem'[Buffer(u)]) = Len(mem[Buffer(u)])
  BY <1>1, NoScanType, BufferFacts
<1>6. queue' \in Seq(Threads) /\ job' \in Threads \cup {NULL} /\ ranOn' \in BOOLEAN
  BY DEF TInv, WorkerOK, RestOK
<1>7. to = "take" <=> job' = NULL
  BY <1>2
<1>8. to \in {"take", "close"} => todo' = << >>
  OBVIOUS
<1>9. UNCHANGED <<input, packet, status, serverType>>
  OBVIOUS
<1> QED
  BY <1>3, <1>4, <1>5, <1>6, <1>7, <1>8, <1>9, WorkerTypes
LEMMA ScanFacts ==
  CommandScans \in Seq(ScanSet) /\ DelScans \in Seq(ScanSet)
    /\ AddScans \in Seq(ScanSet) /\ ForwardScans \in Seq(ScanSet)
<1> DEFINE S(to, from, delim, tested) == Scan(to, from, delim, tested)
<1>1. ASSUME NEW to \in Registers, NEW from \in Registers \cup {"next"},
             NEW delim \in {"&", "=", "-"}, NEW tested \in SUBSET Registers
      PROVE  S(to, from, delim, tested) \in ScanSet
  BY DEF Scan, ScanSet
<1> HIDE DEF S
<1>2. /\ S("op", "copy", "&", {}) \in ScanSet /\ S("opdata", "next", "&", {"op", "opdata"}) \in ScanSet
      /\ S("op_field", "op", "=", {}) \in ScanSet
      /\ S("op_value", "next", "=", {"op_field", "op_value"}) \in ScanSet
      /\ S("op_datafield", "opdata", "=", {}) \in ScanSet
      /\ S("op_datavalue", "next", "=", {"op_datafield", "op_datavalue"}) \in ScanSet
  BY <1>1 DEF Registers
<1>3. /\ S("port_field", "port", "=", {}) \in ScanSet /\ S("port_value", "next", "=", {}) \in ScanSet
      /\ S("weight_field", "weight", "=", {}) \in ScanSet /\ S("weight_value", "next", "=", {}) \in ScanSet
      /\ S("port", "rest", "&", {}) \in ScanSet /\ S("weight", "next", "&", {}) \in ScanSet
      /\ S("ip", "name", "-", {}) \in ScanSet
  BY <1>1 DEF Registers
<1>4. CommandScans =
        << S("op", "copy", "&", {}), S("opdata", "next", "&", {"op", "opdata"}),
           S("op_field", "op", "=", {}), S("op_value", "next", "=", {"op_field", "op_value"}),
           S("op_datafield", "opdata", "=", {}),
           S("op_datavalue", "next", "=", {"op_datafield", "op_datavalue"}) >>
  BY DEF CommandScans, S
<1>5. /\ PortScans = << S("port_field", "port", "=", {}), S("port_value", "next", "=", {}) >>
      /\ WeightScans = << S("weight_field", "weight", "=", {}), S("weight_value", "next", "=", {}) >>
      /\ DelScans = << S("port", "rest", "&", {}) >> \o PortScans
      /\ AddScans = << S("port", "rest", "&", {}), S("weight", "next", "&", {}) >> \o PortScans \o WeightScans
      /\ ForwardScans = << S("ip", "name", "-", {}) >>
  BY DEF PortScans, WeightScans, DelScans, AddScans, ForwardScans, S
<1>6. CommandScans \in Seq(ScanSet) /\ ForwardScans \in Seq(ScanSet)
  BY <1>2, <1>3, <1>4, <1>5
<1>7. PortScans \in Seq(ScanSet) /\ WeightScans \in Seq(ScanSet)
  BY <1>3, <1>5
<1>8. << S("port", "rest", "&", {}) >> \in Seq(ScanSet)
      /\ << S("port", "rest", "&", {}), S("weight", "next", "&", {}) >> \in Seq(ScanSet)
  BY <1>3
<1>9. DelScans \in Seq(ScanSet) /\ AddScans \in Seq(ScanSet)
  <2>1. \A a, b \in Seq(ScanSet) : a \o b \in Seq(ScanSet)
    OBVIOUS
  <2> QED
    BY <1>5, <1>7, <1>8, <2>1
<1> QED
  BY <1>6, <1>9

LEMMA TakeTypes ==
  ASSUME TInv, Take, UNCHANGED serverType
  PROVE  TInv'
<1> DEFINE t == Head(queue)
<1>1. /\ queue # << >> /\ job' = t /\ queue' = Tail(queue)
      /\ UNCHANGED <<input, saved, token, packet, executed, status, mixed>>
  BY DEF Take
<1>2. t \in Threads /\ queue' \in Seq(Threads)
  BY <1>1 DEF TInv, WorkerOK
<1>3. job' \in Threads /\ job' # NULL
  BY <1>1, <1>2, ConstantFacts
<1>4. executed' = [u \in Threads |-> executed'[u]]
  BY <1>1 DEF TInv, RestOK
<1>5. /\ StringsOK /\ mem \in Memories /\ reg \in [Registers -> Pointers \cup {NULL}]
      /\ ranOn \in BOOLEAN /\ replies \in [Threads -> Seq(Nat)]
  BY DEF TInv, StringsOK, WorkerOK, RestOK
<1>6. CASE type[t] = "POST"
  <2>1. /\ Goes(Worker, "take", "command")
        /\ reg' = [r \in Registers |-> CASE r = "copy" -> Ptr(Copy, 1)
                                          [] r = "name" -> Ptr(Name, 1)
                                          [] OTHER -> NULL]
        /\ todo' = CommandScans /\ replies' = replies
    BY <1>6 DEF Take
  <2>2. PICK behind \in {<< >>, <<"junk">>} :
          /\ mem' = [mem EXCEPT ![Copy] = CString(data[t] \o behind), ![Name] = <<"store", "NUL">>]
          /\ ranOn' = (ranOn \/ (behind # << >> /\ CString(data[t]) = Append(data[t], "NUL")))
    BY <1>6 DEF Take
  <2>3. data[t] \o behind \in Seq(Symbols)
    <3>1. data[t] \in Seq(Symbols) /\ behind \in Seq(Symbols)
      BY <1>2, SymbolFacts DEF TInv, ThreadsOK
    <3> QED
      BY <3>1, ConcatFacts
  <2> DEFINE c == CString(data[t] \o behind)
             n == [mem EXCEPT ![Copy] = c]
  <2>4. c \in Seq(Symbols) /\ Len(c) >= 1
    BY <2>3, CStringType
  <2>5. mem' = [n EXCEPT ![Name] = <<"store", "NUL">>]
    BY <2>2
  <2> HIDE DEF c
  <2>6. n \in Memories /\ \A b \in Buffers : b # Copy => n[b] = mem[b]
    BY <1>5, <2>4, BufferFacts, MemoryWritten
  <2> HIDE DEF n
  <2>7. <<"store", "NUL">> \in Seq(Symbols) /\ Len(<<"store", "NUL">>) >= 1
    BY SymbolFacts
  <2>8. mem' \in Memories /\ \A b \in Buffers : b # Name => mem'[b] = n[b]
    <3> DEFINE w == <<"store", "NUL">>
               k == [n EXCEPT ![Name] = w]
    <3>1. w \in Seq(Symbols) /\ Len(w) >= 1 /\ Name \in Buffers
      BY <2>7, BufferFacts
    <3>2. mem' = k
      BY <2>5
    <3> HIDE DEF w
    <3>3. k \in Memories /\ \A b \in Buffers : b # Name => k[b] = n[b]
      BY <2>6, <3>1, MemoryWritten
    <3> QED
      BY <3>2, <3>3
  <2>9. \A u \in Threads : Len(mem'[Buffer(u)]) = Len(mem[Buffer(u)])
    BY <2>6, <2>8, BufferFacts
  <2>10. StringsOK'
    BY <1>1, <1>5, <2>8 DEF StringsOK
  <2>11. reg' \in [Registers -> Pointers \cup {NULL}]
    <3>1. Ptr(Copy, 1) \in Pointers /\ Ptr(Name, 1) \in Pointers
      BY BufferFacts DEF Ptr, Pointers
    <3> QED
      BY <2>1, <3>1
  <2>12. ranOn' \in BOOLEAN /\ "command" \in WorkerPCs /\ "command" \notin {"take", "close"}
    BY <2>2 DEF WorkerPCs
  <2> QED
    BY <1>1, <1>2, <1>3, <1>4, <1>5, <2>1, <2>9, <2>10, <2>11, <2>12, ScanFacts, WorkerTypes
<1>7. CASE type[t] # "POST"
  <2>1. /\ Goes(Worker, "take", "close") /\ UNCHANGED <<mem, ranOn, reg, todo>>
        /\ replies' = replies \/ replies' = [replies EXCEPT ![t] = Append(@, 200)]
    BY <1>7 DEF Take
  <2>2. replies' \in [Threads -> Seq(Nat)]
    <3>1. replies[t] \in Seq(Nat) /\ Append(replies[t], 200) \in Seq(Nat)
      BY <1>2, <1>5
    <3> QED
      BY <1>2, <1>5, <2>1, <3>1
  <2>3. todo = << >>
    BY <2>1 DEF Goes, TInv, WorkerOK
  <2>4. todo' = << >> /\ todo' \in Seq(ScanSet) /\ reg' \in [Registers -> Pointers \cup {NULL}]
    BY <1>5, <2>1, <2>3
  <2>5. StringsOK' /\ \A u \in Threads : Len(mem'[Buffer(u)]) = Len(mem[Buffer(u)])
    BY <1>1, <1>5, <2>1 DEF StringsOK, Buffer
  <2>6. "close" \in WorkerPCs /\ "close" # "take" /\ ranOn' \in BOOLEAN
    BY <1>5, <2>1 DEF WorkerPCs
  <2> QED
    BY <1>1, <1>2, <1>3, <1>4, <2>1, <2>2, <2>4, <2>5, <2>6, WorkerTypes
<1> QED
  BY <1>6, <1>7
LEMMA WorkerScanTypes ==
  ASSUME TInv, WorkerScan, UNCHANGED serverType
  PROVE  TInv'
<1> DEFINE s == Head(todo)
           from == IF s.from = "next" THEN NULL ELSE reg[s.from]
           codes == IF \E r \in s.tested : reg'[r] = NULL THEN <<400>> ELSE << >>
<1>1. /\ todo # << >> /\ Goes(Worker, pc[Worker], pc[Worker])
      /\ Scans(Worker, mem, from, {s.delim})
      /\ reg' = [reg EXCEPT ![s.to] = token'[Worker]] /\ todo' = Tail(todo)
      /\ Replies(codes)
      /\ UNCHANGED <<input, packet, queue, job, executed, status, ranOn>>
  BY DEF WorkerScan
<1>2. s \in ScanSet /\ todo' \in Seq(ScanSet)
  BY <1>1 DEF TInv, WorkerOK
<1>3. /\ StringsOK /\ mem \in Memories /\ reg \in [Registers -> Pointers \cup {NULL}]
      /\ queue \in Seq(Threads) /\ ranOn \in BOOLEAN /\ pc[Worker] \in WorkerPCs
      /\ executed = [u \in Threads |-> executed[u]]
  BY DEF TInv, StringsOK, WorkerOK, RestOK
<1>4. from \in Pointers \cup {NULL}
  BY <1>2, <1>3 DEF ScanSet
<1>5. StringsOK' /\ \A b \in Buffers : Len(mem'[b]) = Len(mem[b])
  <2> HIDE DEF from, s
  <2> QED
    BY <1>1, <1>3, <1>4, Threaded, ScansType, ConstantFacts DEF Actors
<1>6. reg' \in [Registers -> Pointers \cup {NULL}]
  <2>1. token'[Worker] \in Pointers \cup {NULL}
    BY <1>5 DEF StringsOK, Actors
  <2> QED
    BY <1>1, <1>2, <1>3, <2>1 DEF ScanSet
<1>7. pc[Worker] \notin {"take", "close"}
  BY <1>1 DEF TInv, WorkerOK
<1>8. job \in Threads /\ job # NULL
  BY <1>7 DEF TInv, WorkerOK
<1>9. replies' \in [Threads -> Seq(Nat)]
  <2>1. codes \in Seq(Nat)
    OBVIOUS
  <2> HIDE DEF codes
  <2> QED
    BY <1>1, <1>8, <2>1, RepliesType DEF Replies, TInv
<1>10. \A u \in Threads : Len(mem'[Buffer(u)]) = Len(mem[Buffer(u)])
  BY <1>5, BufferFacts
<1>11. /\ UNCHANGED <<input, packet, status, serverType>> /\ ranOn' \in BOOLEAN
       /\ queue' \in Seq(Threads) /\ job' \in Threads \cup {NULL} /\ job' # NULL
       /\ executed' = [u \in Threads |-> executed'[u]]
  BY <1>1, <1>3, <1>8
<1>12. pc[Worker] = "take" <=> job' = NULL
  BY <1>7, <1>11
<1> QED
  BY <1>1, <1>2, <1>3, <1>5, <1>6, <1>7, <1>9, <1>10, <1>11, <1>12, WorkerTypes

LEMMA CommandTypes ==
  ASSUME TInv, Data \/ Ring \/ Unknown \/ RingChanged \/ Forward, UNCHANGED serverType
  PROVE  TInv'
<1>1. /\ reg \in [Registers -> Pointers \cup {NULL}] /\ todo \in Seq(ScanSet)
      /\ << >> \in Seq(ScanSet)
  BY DEF TInv, WorkerOK
<1>2. /\ {"command", "ADD", "DEL", "forward", "close"} \subseteq WorkerPCs \ {"take"}
      /\ <<200>> \in Seq(Nat) /\ <<400>> \in Seq(Nat) /\ << >> \in Seq(Nat)
      /\ OwnAnswers \subseteq Seq(Nat)
  <2>1. <<200>> \in Seq(Nat) /\ <<404>> \in Seq(Nat) /\ <<501>> \in Seq(Nat) /\ << >> \in Seq(Nat)
    OBVIOUS
  <2>2. OwnAnswers = IF PassedOn THEN {<<404>>, << >>} ELSE {<<IF Coordinator THEN 501 ELSE 200>>}
    BY DEF OwnAnswers, Answers
  <2>3. ASSUME NEW codes \in OwnAnswers
        PROVE  codes \in Seq(Nat)
    <3>1. codes = <<404>> \/ codes = << >> \/ codes = <<501>> \/ codes = <<200>>
      BY <2>2
    <3>2. CASE codes = <<404>>
      BY <2>1, <3>2
    <3>3. CASE codes = << >>
      BY <2>1, <3>3
    <3>4. CASE codes = <<501>>
      BY <2>1, <3>4
    <3>5. CASE codes = <<200>>
      BY <2>1, <3>5
    <3> QED
      BY <3>1, <3>2, <3>3, <3>4, <3>5
  <2>4. {"command", "ADD", "DEL", "forward", "close"} \subseteq WorkerPCs \ {"take"}
    BY DEF WorkerPCs
  <2> QED
    BY <2>1, <2>3, <2>4
<1>3. CASE Data
  <2>1. /\ NoScan /\ UNCHANGED <<input, packet, queue, job, reg, status, ranOn>>
        /\ \E c : Executes(c) /\ todo = << >>
    BY <1>3 DEF Data, CommandReady
  <2>2. \/ Goes(Worker, "command", "forward") /\ todo' = ForwardScans /\ UNCHANGED replies
        \/ /\ Goes(Worker, "command", "close") /\ UNCHANGED todo
           /\ \E codes \in Seq(Nat) : Replies(codes)
    BY <1>2, <1>3 DEF Data
  <2>3. CASE Goes(Worker, "command", "forward") /\ todo' = ForwardScans /\ UNCHANGED replies
    <3>1. reg' \in [Registers -> Pointers \cup {NULL}] /\ todo' \in Seq(ScanSet) /\ replies' = replies
      BY <1>1, <2>1, <2>3, ScanFacts
    <3> QED
      BY <1>2, <2>1, <2>3, <3>1, SteadyTypes
  <2>4. CASE /\ Goes(Worker, "command", "close") /\ UNCHANGED todo
             /\ \E codes \in Seq(Nat) : Replies(codes)
    BY <1>1, <1>2, <2>1, <2>4, SteadyTypes
  <2> QED
    BY <2>2, <2>3, <2>4
<1>4. CASE Ring
  <2> DEFINE p == reg["op_datavalue"]
             n == Len(Value("op_datavalue"))
             q == [p EXCEPT !.pos = @ + n + 1]
  <2>1. /\ NoScan /\ UNCHANGED <<input, packet, queue, job, executed, replies, status, ranOn>>
        /\ \A r \in Needed : reg[r] # NULL
        /\ Coordinator /\ Op \in {<<"ADD">>, <<"DEL">>}
        /\ Goes(Worker, "command", Head(Op))
        /\ reg' = [reg EXCEPT !["rest"] = q]
        /\ todo' = IF Op = <<"ADD">> THEN AddScans ELSE DelScans
    BY <1>4 DEF Ring
  <2>2. p \in Pointers
    <3>1. "op_datavalue" \in Needed
      BY <2>1 DEF Needed
    <3> QED
      BY <1>1, <2>1, <3>1 DEF Registers
  <2>3. n \in Nat
    <3>1. Value("op_datavalue") \in Seq(Symbols)
      BY <2>2, StringAtType DEF Value, TInv
    <3> QED
      BY <3>1
  <2> HIDE DEF n, p
  <2>4. q \in Pointers
    BY <2>2, <2>3 DEF Pointers
  <2> HIDE DEF q
  <2>5. reg' \in [Registers -> Pointers \cup {NULL}] /\ todo' \in Seq(ScanSet)
    BY <1>1, <2>1, <2>4, ScanFacts
  <2>6. Head(Op) \in {"ADD", "DEL"}
    BY <2>1
  <2>7. Head(Op) \in WorkerPCs \ {"take"} /\ Head(Op) # "close"
    BY <1>2, <2>6
  <2>8. /\ "command" \in WorkerPCs \ {"take"}
        /\ UNCHANGED <<input, packet, queue, job, status, ranOn, serverType>>
        /\ executed' = executed /\ replies' = replies
    BY <1>2, <2>1
  <2> QED
    BY <1>2, <2>1, <2>5, <2>7, <2>8, SteadyTypes
<1>5. CASE Unknown
  <2>1. /\ NoScan /\ UNCHANGED <<input, packet, queue, job, reg, todo, executed, status, ranOn>>
        /\ todo = << >> /\ Goes(Worker, "command", "close") /\ Replies(<<400>>)
    BY <1>5 DEF Unknown, CommandReady
  <2>2. /\ reg' \in [Registers -> Pointers \cup {NULL}] /\ todo' \in Seq(ScanSet) /\ todo' = << >>
        /\ executed' = executed
    BY <1>1, <2>1
  <2> QED
    <3>1. /\ "command" \in WorkerPCs \ {"take"} /\ "close" \in WorkerPCs \ {"take"} /\ <<400>> \in Seq(Nat)
          /\ Goes(Worker, "command", "close") /\ NoScan
          /\ UNCHANGED <<input, packet, queue, job, status, ranOn, serverType>>
      BY <1>2, <2>1, <2>2
    <3>2. (replies' = replies \/ \E codes \in Seq(Nat) : Replies(codes)) /\ (executed' = executed \/ \E c : Executes(c))
      <4>1. Replies(<<400>>) /\ <<400>> \in Seq(Nat)
        BY <1>2, <2>1
      <4> QED
        BY <2>2, <4>1, Zenon
    <3>3. /\ reg' \in [Registers -> Pointers \cup {NULL}] /\ todo' \in Seq(ScanSet)
          /\ "close" = "close" => todo' = << >>
      BY <2>2
    <3> QED
      BY <3>1, <3>2, <3>3, SteadyTypes
<1>6. CASE RingChanged
  <2>1. /\ NoScan /\ UNCHANGED <<input, packet, queue, job, reg, todo, status, ranOn>>
        /\ todo = << >> /\ pc[Worker] \in {"ADD", "DEL"}
        /\ Goes(Worker, pc[Worker], "close") /\ Replies(<<200>>)
        /\ \E c : Executes(c)
    BY <1>6 DEF RingChanged
  <2>2. /\ reg' \in [Registers -> Pointers \cup {NULL}] /\ todo' \in Seq(ScanSet) /\ todo' = << >>
        /\ pc[Worker] \in WorkerPCs \ {"take"}
    BY <1>1, <1>2, <2>1
  <2> QED
    <3>1. /\ pc[Worker] \in WorkerPCs \ {"take"} /\ "close" \in WorkerPCs \ {"take"} /\ <<200>> \in Seq(Nat)
          /\ Goes(Worker, pc[Worker], "close") /\ NoScan
          /\ UNCHANGED <<input, packet, queue, job, status, ranOn, serverType>>
      BY <1>2, <2>1, <2>2
    <3>2. (replies' = replies \/ \E codes \in Seq(Nat) : Replies(codes)) /\ (executed' = executed \/ \E c : Executes(c))
      BY <1>2, <2>1, <2>2
    <3>3. /\ reg' \in [Registers -> Pointers \cup {NULL}] /\ todo' \in Seq(ScanSet)
          /\ "close" = "close" => todo' = << >>
      BY <2>2
    <3> QED
      BY <3>1, <3>2, <3>3, SteadyTypes
<1>7. CASE Forward
  <2>1. /\ NoScan /\ UNCHANGED <<input, packet, queue, worker, status, ranOn>>
        /\ todo = << >> /\ Goes(Worker, "forward", "close")
        /\ \E codes \in Seq(Nat) : Replies(codes)
    BY <1>2, <1>7 DEF Forward
  <2>2. UNCHANGED <<job, reg, todo, executed>>
    BY <2>1 DEF worker
  <2>3. /\ reg' \in [Registers -> Pointers \cup {NULL}] /\ todo' \in Seq(ScanSet) /\ todo' = << >>
        /\ UNCHANGED <<input, packet, queue, job, status, ranOn, serverType>> /\ executed' = executed
    BY <1>1, <2>1, <2>2
  <2> QED
    <3>1. /\ "forward" \in WorkerPCs \ {"take"} /\ "close" \in WorkerPCs \ {"take"}
          /\ Goes(Worker, "forward", "close") /\ NoScan
          /\ UNCHANGED <<input, packet, queue, job, status, ranOn, serverType>>
      BY <1>2, <2>1, <2>3
    <3>2. (replies' = replies \/ \E codes \in Seq(Nat) : Replies(codes)) /\ (executed' = executed \/ \E c : Executes(c))
      BY <1>2, <2>1, <2>3
    <3>3. /\ reg' \in [Registers -> Pointers \cup {NULL}] /\ todo' \in Seq(ScanSet)
          /\ "close" = "close" => todo' = << >>
      BY <2>3
    <3> QED
      BY <3>1, <3>2, <3>3, SteadyTypes
<1> QED
  BY <1>3, <1>4, <1>5, <1>6, <1>7

LEMMA CloseTypes ==
  ASSUME TInv, Close, UNCHANGED serverType
  PROVE  TInv'
<1>1. /\ Goes(Worker, "close", "take") /\ job' = NULL
      /\ NoScan /\ UNCHANGED <<input, packet, queue, reg, todo, executed, replies, status, ranOn>>
  BY DEF Close
<1>2. StringsOK' /\ \A u \in Threads : Len(mem'[Buffer(u)]) = Len(mem[Buffer(u)])
  BY <1>1, NoScanType, BufferFacts DEF TInv
<1>3. todo' = << >> /\ "take" \in WorkerPCs
  BY <1>1 DEF Goes, TInv, WorkerOK, WorkerPCs
<1>4. /\ queue' \in Seq(Threads) /\ job' \in Threads \cup {NULL} /\ todo' \in Seq(ScanSet)
      /\ reg' \in [Registers -> Pointers \cup {NULL}] /\ replies' \in [Threads -> Seq(Nat)]
      /\ executed' = [t \in Threads |-> executed'[t]] /\ ranOn' \in BOOLEAN
  BY <1>1 DEF TInv, WorkerOK, RestOK
<1> QED
  BY <1>1, <1>2, <1>3, <1>4, WorkerTypes

LEMMA InitTypes ==
  ASSUME Init
  PROVE  TInv
<1>1. << >> \in Seq(Symbols) /\ <<"NUL">> \in Seq(Symbols) /\ Len(<<"NUL">>) = 1
  BY SymbolFacts
<1>2. mem \in Memories
  <2>1. mem = [b \in Buffers |-> <<"NUL">>]
    BY DEF Init
  <2>2. mem \in [Buffers -> Seq(Symbols)] /\ \A b \in Buffers : Len(mem[b]) = 1
    BY <1>1, <2>1
  <2>3. \A b \in Buffers : Len(mem[b]) >= 1
    <3>1. 1 >= 1
      OBVIOUS
    <3> QED
      BY <2>2, <3>1, Zenon
  <2> QED
    BY <2>2, <2>3 DEF Memories
<1>3. saved \in Places
  BY BufferFacts DEF Init, Places
<1>4. StringsOK
  BY <1>2, <1>3 DEF StringsOK, Init
<1>5. \A t \in Threads : pc[t] = "read" /\ headers[t] = << >> /\ line[t] = 2
  BY Threaded DEF Init
<1>6. \A t \in Threads : Progress(t)
  BY <1>5, ConstantFacts DEF Progress, ThreadPCs
<1>7. ThreadsOK
  BY <1>1, <1>6 DEF ThreadsOK, Init, ThreadPCs, WorkerPCs
<1>8. WorkerOK
  BY Threaded DEF WorkerOK, Init, WorkerPCs, Actors
<1>9. RestOK
  <2>1. executed \in [Threads -> {NoCommand}]
    BY DEF Init
  <2>2. executed = [t \in Threads |-> executed[t]]
    BY <2>1
  <2>3. replies \in [Threads -> Seq(Nat)]
    BY DEF Init
  <2>4. serverType \in ServerTypes /\ status = "ok" /\ ranOn = FALSE
    BY DEF Init
  <2> QED
    BY <2>2, <2>3, <2>4 DEF RestOK
<1> QED
  BY <1>4, <1>7, <1>8, <1>9 DEF TInv

LEMMA NextTypes ==
  ASSUME TInv, [Next]_vars
  PROVE  TInv'
<1>1. CASE UNCHANGED vars
  <2>1. UNCHANGED <<serverType, input, mem, saved, pc, token, headers, headersize, line, type, data,
                    queue, job, reg, todo, executed, replies, status, mixed, ranOn>>
    BY <1>1 DEF vars, packet, worker
  <2> QED
    BY <2>1 DEF TInv, StringsOK, ThreadsOK, Progress, Buffer, WorkerOK, RestOK
<1>2. ASSUME NEW t \in Threads, Parse(t), UNCHANGED serverType
      PROVE  TInv'
  <2>1. CASE ParseCrashes(t)
    <3>1. Crashes(t, "split") \/ Crashes(t, "method")
      BY <2>1 DEF ParseCrashes
    <3> QED
      BY <1>2, <3>1, Threaded, CrashTypes
  <2> QED
    BY <1>2, <2>1, ReadTypes, HeaderTypes, SplitTypes, FinishTypes DEF Parse
<1>3. ASSUME Handle, UNCHANGED serverType
      PROVE  TInv'
  <2>1. CASE CommandCrashes \/ RingCrashes
    <3>1. Crashes(Worker, "command") \/ Crashes(Worker, pc[Worker])
      BY <2>1 DEF CommandCrashes, RingCrashes
    <3>2. Worker \in Actors
      BY DEF Actors
    <3> QED
      BY <1>3, <3>1, <3>2, CrashTypes
  <2> QED
    BY <1>3, <2>1, TakeTypes, WorkerScanTypes, CommandTypes, CloseTypes DEF Handle
<1> QED
  BY <1>1, <1>2, <1>3 DEF Next

(* Whatever is read from the connections, and however the scans of threads *)
(* and worker mix, pointers stay in buffers, no line is kept beyond the    *)
(* room for headers, and a packet is queued with its thread.               *)
THEOREM TypeCorrect == Spec => []TypeOK
<1>1. Init => TInv
  BY InitTypes
<1>2. TInv /\ [Next]_vars => TInv'
  BY NextTypes
<1>3. TInv => TypeOK
  BY SoundTypes
<1> QED
  BY <1>1, <1>2, <1>3, PTL DEF Spec
-----------------------------------------------------------------------------
(* What each call of strtok has found, for texts the parser is for.        *)

Text(t) == input[t].text

Parsed(t) ==
  /\ input[t] # NULL /\ input[t].form \in {"plain", "incomplete"}
  /\ WellFormed(Text(t)) /\ (Method(Text(t), "GET") \/ Method(Text(t), "POST"))

(* Each goes on only where its own scan stopped, and in buffers of its own.*)
Own(a) == IF a = Worker THEN {Copy, Name} ELSE {Buffer(a), Line(a), First(a)}

ScansApart ==
  /\ saved.by # NULL => saved.buf \in Own(saved.by)
  /\ \A t \in Threads : pc[t] = "value" /\ saved.by = t => saved.buf = Line(t)
  /\ \A r \in Registers : reg[r] # NULL => reg[r].buf \in {Copy, Name}

(* The method's line is kept.                                              *)
FirstLine(t) ==
  /\ headers[t] # << >> /\ Len(Head(headers[t])) >= 2
  /\ Head(headers[t])[1] = Text(t)[1] /\ Head(headers[t])[2] = Text(t)[2]

Lines(s, n) == {i \in 1..n : s[i] = "CR"}

(* A line of s goes from q up to the end of line at c.                     *)
IsLine(s, q, c) ==
  /\ q < c /\ s[c] = "CR"
  /\ \A j \in q..(c - 1) : s[j] \notin {"CR", "LF", "NUL"}

(* The line from q is found, those before it are kept.                     *)
AtLine(t, q, c) ==
  /\ IsLine(Text(t), q, c)
  /\ token[t] = Ptr(Buffer(t), q) /\ mem[Buffer(t)][c] = "NUL"
  /\ \A j \in q..Len(Text(t)) : j # c => mem[Buffer(t)][j] = Text(t)[j]
  /\ headersize[t] + 1 = q /\ Len(headers[t]) = Cardinality(Lines(Text(t), q - 1))
  /\ q = 1 \/ FirstLine(t)
  /\ saved.by = t => saved.buf = Buffer(t) /\ saved.pos = c + 1

(* All lines are kept, and the data is as it was read.                     *)
BehindLines(t) ==
  /\ FirstLine(t) /\ headersize[t] = End(Text(t)) + 3
  /\ \A j \in (End(Text(t)) + 4)..Len(Text(t)) : mem[Buffer(t)][j] = Text(t)[j]

MethodFound(t) ==
  /\ token[t] = Ptr(First(t), 1) /\ Len(mem[First(t)]) >= 2
  /\ mem[First(t)][1] = Text(t)[1] /\ mem[First(t)][2] = "NUL"

Packed(t) ==
  /\ type[t] = Text(t)[1]
  /\ type[t] = "POST" => data[t] = Body(Text(t))

ParsedWell(t) ==
  /\ pc[t] = "header" => \E q, c \in 1..End(Text(t)) : AtLine(t, q, c)
  /\ pc[t] \in {"split", "value", "method"} => BehindLines(t)
  /\ pc[t] = "method" => MethodFound(t)
  /\ pc[t] = "done" => Packed(t)

(* A blank request has no header.                                          *)
Blank(t) ==
  /\ input[t] # NULL /\ input[t].form = "incomplete"
  /\ \A i \in 1..Len(Text(t)) : Text(t)[i] \in {"CR", "LF"}

BlankStops(t) ==
  /\ pc[t] \in {"read", "header", "split"} /\ headers[t] = << >>
  /\ pc[t] = "header" => token[t] = NULL

(* The copy of the data b, but for what is cut.                            *)
CutAt(b, cuts) ==
  /\ Len(mem[Copy]) = Len(b) + 1 /\ mem[Copy][Len(b) + 1] = "NUL"
  /\ \A i \in 1..Len(b) : mem[Copy][i] = IF i \in cuts THEN "NUL" ELSE b[i]

At(r, p) == reg[r] = Ptr(Copy, p)

GoesOnAt(p) == saved.by = Worker => saved.buf = Copy /\ saved.pos = p

(* Where the scans S of the data b find their tokens, and where those end, *)
(* when the first starts where "from" points and "cuts" are cut already.   *)
Cuts(cuts, ends, k) == cuts \cup {ends[i] : i \in 1..k}

Fits(b, S, starts, ends, cuts, from, k) ==
  /\ S[k].to # from /\ \A i \in 1..(k - 1) : S[i].to # S[k].to
  /\ starts[k] \in 1..Len(b) /\ ends[k] \in (starts[k] + 1)..(Len(b) + 1)
  /\ \A j \in starts[k]..(ends[k] - 1) :
       j \notin Cuts(cuts, ends, k - 1) /\ b[j] \notin {S[k].delim, "NUL"}
  /\ ends[k] <= Len(b) => ends[k] \in Cuts(cuts, ends, k - 1) \/ b[ends[k]] = S[k].delim
  /\ S[k].from = "next" =>
       k > 1 /\ starts[k] = ends[k - 1] + 1 /\ ends[k - 1] \notin Cuts(cuts, ends, k - 2)
  /\ S[k].from # "next" =>
       \/ S[k].from = from /\ starts[k] = starts[1]
       \/ \E i \in 1..(k - 1) : S[i].to = S[k].from /\ starts[i] = starts[k]
  /\ \A r \in S[k].tested : \E i \in 1..k : S[i].to = r

(* After k of them.                                                        *)
ScansDone(b, S, starts, ends, cuts, from, k) ==
  /\ todo = SubSeq(S, k + 1, Len(S)) /\ CutAt(b, Cuts(cuts, ends, k))
  /\ At(from, starts[1])
  /\ \A i \in 1..k : At(S[i].to, starts[i])
  /\ k \in 1..(Len(S) - 1) /\ S[k + 1].from = "next" => GoesOnAt(starts[k + 1])

CommandStarts == <<1, 5, 1, 3, 5, 7>>
CommandEnds   == <<4, 8, 2, 4, 6, 8>>

CommandFound(b, k) ==
  /\ ScansDone(b, CommandScans, CommandStarts, CommandEnds, {}, "copy", k)
  /\ reg["weight_value"] = NULL

AddStarts == <<9, 13, 9, 11, 13, 15>>
AddEnds   == <<12, 16, 10, 12, 14, 16>>

AddFound(b, k) ==
  /\ ScansDone(b, AddScans, AddStarts, AddEnds, {2, 4, 6, 8}, "rest", k)
  /\ At("op_datavalue", 7)

DelStarts == <<9, 9, 11>>
DelEnds   == <<12, 10, 12>>

DelFound(b, k) ==
  /\ ScansDone(b, DelScans, DelStarts, DelEnds, {2, 4, 6, 8}, "rest", k)
  /\ At("op_datavalue", 7) /\ reg["weight_value"] = NULL

ScansFound ==
  LET b == Body(Text(job))
  IN  /\ pc[Worker] = "command" => \E k \in 0..6 : CommandFound(b, k)
      /\ pc[Worker] = "ADD" => b[3] = "ADD" /\ \E k \in 0..6 : AddFound(b, k)
      /\ pc[Worker] = "DEL" => b[3] = "DEL" /\ \E k \in 0..3 : DelFound(b, k)
      /\ pc[Worker] = "forward" => todo \in {ForwardScans, << >>}

PlainRun(t) == Undisturbed /\ Is(t, "plain")

Waits(t) == \E i \in DOMAIN queue : queue[i] = t

QueuedOnce ==
  /\ \A i, j \in DOMAIN queue : queue[i] = queue[j] => i = j
  /\ \A t \in Threads : Waits(t) \/ job = t => pc[t] = "done"
  /\ \A t \in Threads : Waits(t) => job # t
  /\ \A t \in Threads : pc[t] # "done" \/ Waits(t) => replies[t] = << >> /\ executed[t] = NoCommand

(* Told, or given up on the way to a store.                                *)
Told(t) == replies[t] # << >> \/ Forwarded(t)

ToldOnce(t) == Len(replies[t]) = 1 \/ (replies[t] = << >> /\ Forwarded(t))

(* The request in the worker's hands.                                      *)
Working ==
  job # NULL =>
    /\ pc[Worker] # "close" => type[job] = "POST"
    /\ pc[Worker] = "forward" => Forwarded(job)
    /\ pc[Worker] = "close" /\ type[job] # NULL => Told(job)
    /\ PlainRun(job) => /\ IF pc[Worker] = "close" THEN ToldOnce(job) ELSE Len(replies[job]) = 0
                        /\ ScansFound

(* Those that have left them.                                              *)
Served ==
  \A t \in Threads :
    /\ Handled(t) /\ type[t] # NULL => Told(t)
    /\ Handled(t) /\ PlainRun(t) => ToldOnce(t)

Fresh == \A t \in Threads : pc[t] = "read" => headersize[t] = 0

Survived == Undisturbed /\ ~Ok => \E t \in Threads : input[t] # NULL /\ ~Is(t, "plain")

Understood ==
  /\ Undisturbed => /\ ScansApart
                    /\ \A t \in Threads : Parsed(t) => ParsedWell(t)
                    /\ \A t \in Threads : Blank(t) => BlankStops(t)
  /\ Fresh /\ QueuedOnce /\ Working /\ Served /\ ExecutesRequest /\ Survived

-----------------------------------------------------------------------------
(* Texts.                                                                  *)

LEMMA TextFacts ==
  ASSUME TInv, NEW t \in Threads, input[t] # NULL
  PROVE  Text(t) \in Seq(Symbols) /\ input[t] \in Requests /\ Len(Text(t)) \in Nat
<1>1. input[t] \in Requests
  BY DEF TInv, ThreadsOK
<1> QED
  BY <1>1, ConstantFacts DEF Text

(* The empty line is in one place.                                         *)
LEMMA EndIs ==
  ASSUME NEW s \in Seq(Symbols), WellFormed(s)
  PROVE  End(s) \in 1..Len(s) /\ HeadersEnd(s, End(s))
BY DEF WellFormed, End

LEMMA LineEnds ==
  ASSUME NEW s \in Seq(Symbols), NEW e \in 1..Len(s), HeadersEnd(s, e),
         NEW q \in 1..e, s[q] \notin {"CR", "LF"}
  PROVE  \E c \in (q + 1)..e : IsLine(s, q, c)
<1> DEFINE ends == {i \in q..e : s[i] = "CR"}
<1>1. ends \in SUBSET Nat /\ e \in ends
  BY DEF HeadersEnd
<1>2. PICK c \in ends : \A i \in ends : c <= i
  <2> HIDE DEF ends
  <2> QED
    BY <1>1, LeastExists
<1>3. c \in q..e /\ s[c] = "CR" /\ c # q
  BY <1>2
<1>4. \A j \in q..(c - 1) : s[j] # "CR"
  <2> TAKE j \in q..(c - 1)
  <2>1. j \in q..e /\ ~(c <= j)
    BY <1>3
  <2> QED
    BY <1>2, <2>1
<1>5. ASSUME NEW j \in q..(c - 1) PROVE s[j] # "NUL" /\ s[j] # "LF"
  <2>1. j \in 1..(e - 1)
    BY <1>3
  <2>2. s[j] # "NUL" /\ (s[j] = "LF" => j > 1 /\ s[j - 1] = "CR")
    BY <2>1 DEF HeadersEnd
  <2>3. j # q => j - 1 \in q..(c - 1)
    BY <1>3
  <2>4. j # q => s[j - 1] # "CR"
    BY <1>4, <2>3
  <2> QED
    BY <2>2, <2>4
<1>6. c \in (q + 1)..e
  BY <1>3
<1>7. IsLine(s, q, c)
  BY <1>3, <1>4, <1>5, <1>6 DEF IsLine
<1> QED
  BY <1>6, <1>7

(* Behind a line comes the next, or the empty line.                        *)
LEMMA LineNext ==
  ASSUME NEW s \in Seq(Symbols), NEW e \in 1..Len(s), HeadersEnd(s, e),
         NEW c \in 1..e, s[c] = "CR", c # e
  PROVE  c + 2 \in 1..e /\ s[c + 1] = "LF" /\ s[c + 2] \notin {"CR", "LF"}
<1>1. c \in 1..(e - 1)
  OBVIOUS
<1>2. s[c + 1] = "LF" /\ s[c + 2] \notin {"CR", "LF"}
  BY <1>1 DEF HeadersEnd
<1>3. c + 1 # e
  BY <1>2 DEF HeadersEnd
<1> QED
  BY <1>1, <1>2, <1>3

LEMMA LinesCount ==
  ASSUME NEW s \in Seq(Symbols), NEW e \in 1..Len(s), HeadersEnd(s, e),
         NEW q \in 1..e, NEW c \in 1..e, IsLine(s, q, c)
  PROVE  /\ Cardinality(Lines(s, q - 1)) \in Nat
         /\ Cardinality(Lines(s, c + 1)) = Cardinality(Lines(s, q - 1)) + 1
         /\ Cardinality(Lines(s, q - 1)) + 1 < MaxHeaders
<1>1. IsFiniteSet(Lines(s, q - 1)) /\ IsFiniteSet(Lines(s, e))
  <2>1. ASSUME NEW n \in Int PROVE IsFiniteSet(Lines(s, n))
    <3>1. IsFiniteSet(1..n)
      BY FS_Interval
    <3>2. Lines(s, n) \subseteq 1..n
      BY DEF Lines
    <3> QED
      BY <3>1, <3>2, FS_Subset
  <2> QED
    BY <2>1
<1>2. c \notin Lines(s, q - 1)
  BY DEF Lines, IsLine
<1>3. s[c + 1] # "CR"
  BY LineNext DEF IsLine, HeadersEnd
<1>4. Lines(s, c + 1) = Lines(s, q - 1) \cup {c}
  <2>1. ASSUME NEW i \in 1..(c + 1), s[i] = "CR" PROVE i \in 1..(q - 1) \/ i = c
    <3>1. i \notin q..(c - 1) /\ i # c + 1
      BY <1>3, <2>1 DEF IsLine
    <3> QED
      BY <3>1
  <2>2. \A i \in 1..(q - 1) : i \in 1..(c + 1)
    BY DEF IsLine
  <2>3. c \in 1..(c + 1) /\ s[c] = "CR"
    BY DEF IsLine
  <2> QED
    BY <2>1, <2>2, <2>3 DEF Lines
<1>5. Cardinality(Lines(s, c + 1)) = Cardinality(Lines(s, q - 1)) + 1
  BY <1>1, <1>2, <1>4, FS_AddElement
<1>6. Lines(s, q - 1) \cup {c} \subseteq Lines(s, e)
  BY DEF Lines, IsLine
<1>7. Cardinality(Lines(s, c + 1)) <= Cardinality(Lines(s, e))
  BY <1>1, <1>4, <1>6, FS_Subset
<1>8. Cardinality(Lines(s, e)) < MaxHeaders
  BY DEF HeadersEnd, Lines
<1>9. Cardinality(Lines(s, q - 1)) \in Nat /\ Cardinality(Lines(s, e)) \in Nat
  BY <1>1, FS_CardinalityType
<1> QED
  BY <1>5, <1>7, <1>8, <1>9, ConstantFacts

-----------------------------------------------------------------------------
(* What a call of strtok changes.                                          *)

LEMMA ScansEffect ==
  ASSUME StringsOK, NEW a \in Actors, NEW m \in Memories,
         NEW from \in Pointers \cup {NULL}, NEW delims, Scans(a, m, from, delims)
  PROVE  LET at == IF from = NULL THEN saved ELSE from
         IN  /\ at.buf \in Buffers /\ saved'.buf = at.buf /\ saved'.by = a
             /\ \A b \in Buffers : b # at.buf => mem'[b] = m[b]
             /\ \A u \in Actors : u # a => token'[u] = token[u]
             /\ mixed' = (mixed \/ (from = NULL /\ saved.by # a))
<1> DEFINE at    == IF from = NULL THEN saved ELSE from
           s     == m[at.buf]
           start == FirstNotIn(s, at.pos, delims)
           end   == FirstIn(s, start, delims \cup {"NUL"})
           r     == Strtok(a, m, from, delims)
           none  == at.pos > Len(s) \/ s[start] = "NUL"
           cut   == [m EXCEPT ![at.buf][end] = "NUL"]
<1>1. r = IF none
          THEN [token |-> NULL, mem |-> m, saved |-> [buf |-> at.buf, pos |-> start, by |-> a]]
          ELSE [token |-> Ptr(at.buf, start), mem |-> cut,
                saved |-> [buf |-> at.buf, by |-> a,
                           pos |-> IF s[end] = "NUL" THEN end ELSE end + 1]]
  BY DEF Strtok
<1>2. /\ mem' = r.mem /\ saved' = r.saved /\ token' = [token EXCEPT ![a] = r.token]
      /\ mixed' = (mixed \/ (from = NULL /\ saved.by # a))
  BY DEF Scans
<1>3. at.buf \in Buffers
  BY DEF StringsOK, Places, Pointers
<1>4. \A b \in Buffers : b # at.buf => cut[b] = m[b]
  <2> HIDE DEF end, at
  <2> QED
    BY DEF Memories
<1> HIDE DEF cut, none, r, end, start, s, at
<1>5. r.saved.buf = at.buf /\ r.saved.by = a /\ \A b \in Buffers : b # at.buf => r.mem[b] = m[b]
  <2>1. CASE none
    <3>1. r = [token |-> NULL, mem |-> m, saved |-> [buf |-> at.buf, pos |-> start, by |-> a]]
      BY <1>1, <2>1
    <3> QED
      BY <3>1
  <2>2. CASE ~none
    <3> DEFINE pos == IF s[end] = "NUL" THEN end ELSE end + 1
    <3>1. r = [token |-> Ptr(at.buf, start), mem |-> cut,
               saved |-> [buf |-> at.buf, by |-> a, pos |-> pos]]
      BY <1>1, <2>2
    <3> HIDE DEF pos
    <3> QED
      BY <3>1, <1>4
  <2> QED
    BY <2>1, <2>2
<1>6. \A u \in Actors : u # a => token'[u] = token[u]
  BY <1>2 DEF StringsOK
<1>7. /\ at.buf \in Buffers /\ saved'.buf = at.buf /\ saved'.by = a
      /\ \A b \in Buffers : b # at.buf => mem'[b] = m[b]
  BY <1>2, <1>3, <1>5
<1> QED
  BY <1>2, <1>6, <1>7 DEF at

(* A token at start of s, its delimiter at end.                            *)
Token(s, p, start, end, delims) ==
  /\ start \in p..Len(s) /\ end \in start..Len(s)
  /\ \A j \in p..(start - 1) : s[j] \in delims
  /\ \A j \in start..(end - 1) : s[j] \notin delims \cup {"NUL"}
  /\ s[start] \notin delims \cup {"NUL"} /\ s[end] \in delims \cup {"NUL"}

(* The token is returned, its end cut, and behind it goes the next on.     *)
Taken(a, b, s, start, end) ==
  /\ token'[a] = Ptr(b, start)
  /\ Len(mem'[b]) = Len(s) /\ mem'[b][end] = "NUL"
  /\ \A j \in 1..Len(s) : j # end => mem'[b][j] = s[j]
  /\ saved'.buf = b /\ saved'.pos = IF s[end] = "NUL" THEN end ELSE end + 1

(* Where a token begins and ends, strtok finds it.                         *)
LEMMA ScansFind ==
  ASSUME StringsOK, NEW a \in Actors, NEW m \in Memories, NEW b \in Buffers, NEW p \in Nat \ {0},
         NEW from, from = NULL => saved.buf = b /\ saved.pos = p, from # NULL => from = Ptr(b, p),
         NEW delims, Scans(a, m, from, delims),
         NEW start, NEW end, Token(m[b], p, start, end, delims)
  PROVE  Taken(a, b, m[b], start, end)
<1> DEFINE at    == IF from = NULL THEN saved ELSE from
           s     == m[b]
           first == FirstNotIn(s, p, delims)
           last  == FirstIn(s, first, delims \cup {"NUL"})
           r     == Strtok(a, m, from, delims)
           pos   == IF s[end] = "NUL" THEN end ELSE end + 1
           cut   == [m EXCEPT ![b][last] = "NUL"]
<1>1. at.buf = b /\ at.pos = p
  BY DEF Ptr
<1>2. s \in Seq(Symbols) /\ Len(s) \in Nat
  BY DEF Memories
<1>3. r = IF p > Len(s) \/ s[first] = "NUL"
          THEN [token |-> NULL, mem |-> m, saved |-> [buf |-> b, pos |-> first, by |-> a]]
          ELSE [token |-> Ptr(b, first), mem |-> cut,
                saved |-> [buf |-> b, by |-> a, pos |-> IF s[last] = "NUL" THEN last ELSE last + 1]]
  BY <1>1 DEF Strtok
<1>4. mem' = r.mem /\ saved' = r.saved /\ token' = [token EXCEPT ![a] = r.token]
  BY DEF Scans
<1> HIDE DEF s, at, r
<1>5. /\ start \in p..Len(s) /\ end \in start..Len(s)
      /\ \A j \in p..(start - 1) : s[j] \in delims
      /\ \A j \in start..(end - 1) : s[j] \notin delims \cup {"NUL"}
      /\ s[start] \notin delims \cup {"NUL"} /\ s[end] \in delims \cup {"NUL"}
  BY DEF Token, s
<1>6. first = start
  BY <1>2, <1>5, FirstNotInIs
<1>7. last = end
  <2> HIDE DEF first
  <2>1. start \in Nat \ {0}
    BY <1>2, <1>5
  <2> QED
    BY <1>2, <1>5, <1>6, <2>1, FirstInIs
<1>8. ~(p > Len(s)) /\ s[start] # "NUL" /\ end \in 1..Len(s)
  BY <1>2, <1>5
<1>9. r = [token |-> Ptr(b, start), mem |-> cut, saved |-> [buf |-> b, by |-> a, pos |-> pos]]
  <2> HIDE DEF first, last, cut
  <2> QED
    BY <1>3, <1>6, <1>7, <1>8 DEF pos
<1>10. cut \in [Buffers -> Seq(Symbols)] /\ cut[b] = [s EXCEPT ![end] = "NUL"]
  <2>1. "NUL" \in Symbols
    BY SymbolFacts
  <2> HIDE DEF last
  <2>2. cut[b] = [s EXCEPT ![last] = "NUL"] /\ cut = [m EXCEPT ![b] = [s EXCEPT ![last] = "NUL"]]
    BY DEF Memories, s
  <2>3. [s EXCEPT ![last] = "NUL"] \in Seq(Symbols)
    BY <1>2, <1>7, <1>8, <2>1
  <2> HIDE DEF cut
  <2> QED
    BY <1>7, <2>2, <2>3 DEF Memories
<1> HIDE DEF first, last, cut, pos
<1>11. /\ token'[a] = Ptr(b, start) /\ mem'[b] = [s EXCEPT ![end] = "NUL"]
       /\ saved'.buf = b /\ saved'.pos = pos
  BY <1>4, <1>9, <1>10 DEF StringsOK
<1> QED
  BY <1>2, <1>8, <1>11 DEF Taken, pos, s

LEMMA OwnApart ==
  /\ \A a \in Actors : Own(a) \subseteq Buffers
  /\ \A a, b \in Actors : a # b => Own(a) \cap Own(b) = {}
  /\ \A t \in Threads : Buffer(t) \in Own(t) /\ Line(t) \in Own(t) /\ First(t) \in Own(t)
  /\ Copy \in Own(Worker) /\ Name \in Own(Worker)
<1>1. \A t \in Threads : Own(t) = {Buffer(t), Line(t), First(t)} /\ t \in Actors
  BY Threaded DEF Own
<1>2. Own(Worker) = {Copy, Name}
  BY DEF Own
<1>3. \A a \in Actors : a = Worker \/ a \in Threads
  BY DEF Actors
<1>4. \A t, u \in Threads : t # u => Own(t) \cap Own(u) = {}
  <2>1. \A t, u \in Threads : t # u =>
          /\ Buffer(t) # Buffer(u) /\ Buffer(t) # Line(u) /\ Buffer(t) # First(u)
          /\ Line(t) # Buffer(u) /\ Line(t) # Line(u) /\ Line(t) # First(u)
          /\ First(t) # Buffer(u) /\ First(t) # Line(u) /\ First(t) # First(u)
    BY DEF Buffer, Line, First
  <2> QED
    BY <1>1, <2>1
<1>5. \A t \in Threads : Own(t) \cap Own(Worker) = {}
  BY <1>1, <1>2, BufferFacts
<1>6. \A a \in Actors : Own(a) \subseteq Buffers
  BY <1>1, <1>2, <1>3, BufferFacts
<1>7. \A a, b \in Actors : a # b => Own(a) \cap Own(b) = {}
  BY <1>3, <1>4, <1>5
<1> QED
  BY <1>1, <1>2, <1>6, <1>7

(* Undisturbed, a scan changes only its caller's buffers.                  *)
LEMMA OwnScan ==
  ASSUME StringsOK, ScansApart, NEW a \in Actors, NEW m \in Memories,
         NEW from \in Pointers \cup {NULL}, from # NULL => from.buf \in Own(a), NEW delims,
         Scans(a, m, from, delims), ~mixed',
         \A b \in Buffers \ Own(a) : m[b] = mem[b]
  PROVE  /\ \A b \in Buffers \ Own(a) : mem'[b] = mem[b]
         /\ \A u \in Actors : u # a => token'[u] = token[u]
         /\ saved'.by = a /\ saved'.buf = IF from = NULL THEN saved.buf ELSE from.buf
         /\ saved'.buf \in Own(a)
         /\ from = NULL => saved.by = a
<1> DEFINE at == IF from = NULL THEN saved ELSE from
<1>1. /\ at.buf \in Buffers /\ saved'.buf = at.buf /\ saved'.by = a
      /\ \A b \in Buffers : b # at.buf => mem'[b] = m[b]
      /\ \A u \in Actors : u # a => token'[u] = token[u]
      /\ mixed' = (mixed \/ (from = NULL /\ saved.by # a))
  BY ScansEffect
<1>2. from = NULL => saved.by = a /\ a # NULL
  BY <1>1, ConstantFacts, HttpAssumption DEF Actors
<1>3. at.buf \in Own(a)
  BY <1>2 DEF ScansApart
<1> QED
  BY <1>1, <1>2, <1>3

(* What a step leaves alone of a thread.                                   *)
Untouched(u) ==
  /\ input'[u] = input[u] /\ pc'[u] = pc[u] /\ token'[u] = token[u]
  /\ headers'[u] = headers[u] /\ headersize'[u] = headersize[u]
  /\ type'[u] = type[u] /\ data'[u] = data[u]
  /\ \A b \in Own(u) : mem'[b] = mem[b]
  /\ saved'.by = u => saved' = saved

LEMMA UntouchedStays ==
  ASSUME NEW u \in Threads, Untouched(u)
  PROVE  /\ (Parsed(u) => ParsedWell(u)) => (Parsed(u)' => ParsedWell(u)')
         /\ (Blank(u) => BlankStops(u)) => (Blank(u)' => BlankStops(u)')
<1>1. mem'[Buffer(u)] = mem[Buffer(u)] /\ mem'[First(u)] = mem[First(u)]
  BY OwnApart DEF Untouched
<1>2. Text(u)' = Text(u)
  BY DEF Untouched, Text
<1>3. Parsed(u)' <=> Parsed(u)
  BY <1>2 DEF Parsed, Untouched
<1>4. ParsedWell(u) => ParsedWell(u)'
  <2>1. \A q, c : AtLine(u, q, c) => AtLine(u, q, c)'
    BY <1>1, <1>2 DEF AtLine, Untouched, FirstLine, Ptr, Buffer
  <2>2. BehindLines(u) => BehindLines(u)'
    BY <1>1, <1>2 DEF BehindLines, Untouched, FirstLine, Buffer
  <2>3. MethodFound(u) => MethodFound(u)'
    BY <1>1, <1>2 DEF MethodFound, Untouched, Ptr, First
  <2>4. Packed(u) => Packed(u)'
    BY <1>2 DEF Packed, Untouched
  <2>5. pc'[u] = pc[u]
    BY DEF Untouched
  <2> QED
    BY <1>2, <2>1, <2>2, <2>3, <2>4, <2>5 DEF ParsedWell
<1>5. (Blank(u)' <=> Blank(u)) /\ (BlankStops(u) => BlankStops(u)')
  BY <1>2 DEF Blank, BlankStops, Untouched
<1> QED
  BY <1>3, <1>4, <1>5

(* Disturbed once, a run stays so.                                         *)
LEMMA DisturbedStays ==
  ASSUME TInv, [Next]_vars
  PROVE  Undisturbed' => Undisturbed
<1>1. (mixed => mixed') /\ (ranOn => ranOn')
  <2>1. CASE UNCHANGED vars
    BY <2>1 DEF vars
  <2>2. \A a, m, from, delims : Scans(a, m, from, delims) => (mixed => mixed')
    BY DEF Scans
  <2>3. NoScan => (mixed => mixed')
    BY DEF NoScan
  <2>4. \A a, at : Crashes(a, at) => mixed' = mixed /\ ranOn' = ranOn
    BY DEF Crashes
  <2>5. ASSUME NEW t \in Threads, Parse(t) PROVE (mixed => mixed') /\ ranOn' = ranOn
    <3>1. CASE Read(t)
      BY <3>1, <2>2 DEF Read
    <3>2. CASE Header(t)
      BY <3>2, <2>2, <2>3 DEF Header
    <3>3. CASE NoHeader(t) \/ Finish(t)
      BY <3>3, <2>3 DEF NoHeader, Finish
    <3>4. CASE SplitKey(t)
      BY <3>4, <2>2 DEF SplitKey
    <3>5. CASE SplitValue(t)
      BY <3>5, <2>2 DEF SplitValue
    <3>6. CASE SplitMethod(t)
      BY <3>6, <2>2 DEF SplitMethod
    <3>7. CASE ParseCrashes(t)
      BY <3>7, <2>4 DEF ParseCrashes
    <3> QED
      BY <2>5, <3>1, <3>2, <3>3, <3>4, <3>5, <3>6, <3>7 DEF Parse
  <2>6. ASSUME Handle PROVE (mixed => mixed') /\ (ranOn => ranOn')
    <3>1. CASE Take
      <4>1. mixed' = mixed
        BY <3>1 DEF Take
      <4>2. ranOn => ranOn'
        BY <3>1 DEF Take
      <4> QED
        BY <4>1, <4>2
    <3>2. CASE WorkerScan
      BY <3>2, <2>2 DEF WorkerScan
    <3>3. CASE CommandCrashes \/ RingCrashes
      BY <3>3, <2>4 DEF CommandCrashes, RingCrashes
    <3>4. CASE Data \/ Ring \/ Unknown
      BY <3>4, <2>3 DEF Data, Ring, Unknown
    <3>5. CASE RingChanged \/ Forward \/ Close
      BY <3>5, <2>3 DEF RingChanged, Forward, Close
    <3> QED
      BY <2>6, <3>1, <3>2, <3>3, <3>4, <3>5 DEF Handle
  <2> QED
    BY <2>1, <2>5, <2>6 DEF Next
<1> QED
  BY <1>1 DEF Undisturbed

(* What is told of a request stays while the worker is at another.         *)
LEMMA ToldStays ==
  ASSUME NEW t \in Threads, replies'[t] = replies[t], executed'[t] = executed[t],
         UNCHANGED serverType
  PROVE  (Told(t)' <=> Told(t)) /\ (ToldOnce(t)' <=> ToldOnce(t))
BY DEF Told, ToldOnce, Forwarded, Coordinator

(* What the worker has found stays while others take their steps.          *)
LEMMA WorkingStays ==
  ASSUME Working, pc'[Worker] = pc[Worker], UNCHANGED <<job, reg, todo>>,
         UNCHANGED <<executed, serverType>>,
         job # NULL => replies'[job] = replies[job] /\ type'[job] = type[job]
                       /\ input'[job] = input[job],
         Undisturbed' => Undisturbed,
         Undisturbed' => mem'[Copy] = mem[Copy] /\ (saved'.by = Worker => saved' = saved)
  PROVE  Working'
<1> SUFFICES ASSUME job' # NULL
             PROVE  /\ pc'[Worker] # "close" => type'[job] = "POST"
                    /\ pc'[Worker] = "forward" => Forwarded(job)'
                    /\ pc'[Worker] = "close" /\ type'[job] # NULL => Told(job)'
                    /\ PlainRun(job)' =>
                         /\ IF pc'[Worker] = "close" THEN ToldOnce(job)' ELSE Len(replies'[job]) = 0
                         /\ ScansFound'
  BY DEF Working
<1>1. /\ pc[Worker] # "close" => type[job] = "POST"
      /\ pc[Worker] = "forward" => Forwarded(job)
      /\ pc[Worker] = "close" /\ type[job] # NULL => Told(job)
      /\ PlainRun(job) => /\ IF pc[Worker] = "close" THEN ToldOnce(job) ELSE Len(replies[job]) = 0
                          /\ ScansFound
  BY DEF Working
<1>2. ASSUME PlainRun(job)' PROVE PlainRun(job) /\ ScansFound'
  <2>1. Undisturbed' /\ Is(job, "plain")'
    BY <1>2 DEF PlainRun, Is
  <2>2. PlainRun(job) /\ Text(job)' = Text(job)
    BY <2>1 DEF PlainRun, Is, Text
  <2>3. ScansFound /\ mem'[Copy] = mem[Copy] /\ (saved'.by = Worker => saved' = saved)
    BY <1>1, <2>1, <2>2
  <2>4. \A n : GoesOnAt(n) => GoesOnAt(n)'
    BY <2>3 DEF GoesOnAt, Copy
  <2>5. \A b, cuts : CutAt(b, cuts) => CutAt(b, cuts)'
    BY <2>3 DEF CutAt, Copy
  <2>6. \A r, n : At(r, n) => At(r, n)'
    BY DEF At, Ptr, Copy
  <2>7. \A b, S, starts, ends, cuts, from, k :
          ScansDone(b, S, starts, ends, cuts, from, k) => ScansDone(b, S, starts, ends, cuts, from, k)'
    BY <2>4, <2>5, <2>6 DEF ScansDone
  <2>8. \A b, k : /\ CommandFound(b, k) => CommandFound(b, k)'
                  /\ AddFound(b, k) => AddFound(b, k)'
                  /\ DelFound(b, k) => DelFound(b, k)'
    BY <2>6, <2>7 DEF CommandFound, AddFound, DelFound
  <2> QED
    BY <2>2, <2>3, <2>8 DEF ScansFound
<1>3. /\ Forwarded(job) => Forwarded(job)'
      /\ Told(job) => Told(job)'
      /\ ToldOnce(job) => ToldOnce(job)'
  <2>1. job # NULL /\ job' = job /\ replies'[job] = replies[job]
    OBVIOUS
  <2> QED
    BY <2>1 DEF Told, ToldOnce, Forwarded, Coordinator
<1> QED
  BY <1>1, <1>2, <1>3

(* While a thread parses, the other threads' texts and everything the      *)
(* worker has are left alone.                                              *)
LEMMA ParsingLeavesOthers ==
  ASSUME TInv, TInv', Understood, NEW t \in Threads, NEW from, NEW to, Goes(t, from, to),
         from # "done", to \notin {"read", "done"}, Undisturbed' => Undisturbed, UNCHANGED serverType,
         UNCHANGED <<type, data, queue, worker, replies, status>>,
         \A u \in Threads : u # t =>
           input'[u] = input[u] /\ headers'[u] = headers[u] /\ headersize'[u] = headersize[u],
         input'[t] = input[t] \/ from = "read",
         Undisturbed' =>
           /\ \A b \in Buffers \ Own(t) : mem'[b] = mem[b]
           /\ \A a \in Actors : a # t => token'[a] = token[a]
           /\ saved' = saved \/ (saved'.by = t /\ saved'.buf \in Own(t))
           /\ to = "value" /\ saved'.by = t => saved'.buf = Line(t)
           /\ Parsed(t)' => ParsedWell(t)'
           /\ Blank(t)' => BlankStops(t)'
  PROVE  Understood'
<1>1. /\ pc[t] = from /\ pc'[t] = to /\ pc'[Worker] = pc[Worker]
      /\ \A u \in Threads : u # t => pc'[u] = pc[u]
  BY Threaded DEF Goes, TInv, ThreadsOK
<1>2. UNCHANGED <<queue, job, reg, todo, executed, replies, status, type, data>>
  BY DEF worker
<1>3. /\ Fresh /\ QueuedOnce /\ Working /\ Served /\ ExecutesRequest
      /\ Undisturbed => /\ ScansApart
                        /\ \A u \in Threads : Parsed(u) => ParsedWell(u)
                        /\ \A u \in Threads : Blank(u) => BlankStops(u)
  BY DEF Understood
<1>4. ASSUME Undisturbed' PROVE ScansApart'
  <2>1. ScansApart /\ t # NULL /\ t # Worker
    BY <1>3, <1>4, Threaded, ConstantFacts
  <2>2. \A u \in Threads : pc'[u] = "value" /\ saved'.by = u => saved'.buf = Line(u)
    <3> SUFFICES ASSUME NEW u \in Threads, pc'[u] = "value", saved'.by = u
                 PROVE  saved'.buf = Line(u)
      OBVIOUS
    <3>1. CASE u = t
      BY <1>1, <1>4, <3>1
    <3>2. CASE u # t
      <4>1. saved' = saved /\ pc[u] = "value"
        BY <1>1, <1>4, <3>2
      <4> QED
        BY <2>1, <4>1 DEF ScansApart
    <3> QED
      BY <3>1, <3>2
  <2>3. saved'.by # NULL => saved'.buf \in Own(saved'.by)
    <3>1. CASE saved' = saved
      BY <2>1, <3>1 DEF ScansApart
    <3>2. CASE saved'.by = t /\ saved'.buf \in Own(t)
      BY <3>2
    <3> QED
      BY <1>4, <3>1, <3>2
  <2>4. \A r \in Registers : reg'[r] # NULL => reg'[r].buf \in {Copy, Name}
    BY <1>2, <2>1 DEF ScansApart
  <2>5. /\ \A u \in Threads : Line(u)' = Line(u)
        /\ Own(saved.by)' = Own(saved'.by) /\ {Copy, Name}' = {Copy, Name}
    BY DEF Line, Own, Copy, Name, Buffer, First
  <2> QED
    BY <2>2, <2>3, <2>4, <2>5 DEF ScansApart
<1>5. ASSUME Undisturbed', NEW u \in Threads, u # t
      PROVE  (Parsed(u)' => ParsedWell(u)') /\ (Blank(u)' => BlankStops(u)')
  <2>1. \A b \in Own(u) : mem'[b] = mem[b]
    <3>1. \A b \in Own(u) : b \in Buffers \ Own(t)
      BY <1>5, OwnApart, Threaded
    <3> QED
      BY <1>5, <3>1
  <2>2. Untouched(u)
    BY <1>1, <1>2, <1>5, <2>1, Threaded DEF Untouched
  <2> QED
    BY <1>3, <1>5, <2>2, UntouchedStays
<1>6. \A u \in Threads : Waits(u)' <=> Waits(u)
  BY <1>2 DEF Waits
<1>7. QueuedOnce'
  <2>1. ~Waits(t) /\ job # t /\ replies[t] = << >> /\ executed[t] = NoCommand
    BY <1>1, <1>3 DEF QueuedOnce
  <2>2. \A u \in Threads : pc'[u] # "done" \/ Waits(u)' => replies'[u] = << >> /\ executed'[u] = NoCommand
    BY <1>1, <1>2, <1>3, <1>6, <2>1 DEF QueuedOnce
  <2>3. \A u \in Threads : Waits(u)' \/ job' = u => pc'[u] = "done"
    BY <1>1, <1>2, <1>3, <1>6, <2>1 DEF QueuedOnce
  <2>4. /\ \A i, j \in DOMAIN queue' : queue'[i] = queue'[j] => i = j
        /\ \A u \in Threads : Waits(u)' => job' # u
    BY <1>2, <1>3, <1>6 DEF QueuedOnce
  <2> QED
    BY <2>2, <2>3, <2>4 DEF QueuedOnce
<1>8. ASSUME NEW u \in Threads, u # t
      PROVE  (Is(u, "plain")' <=> Is(u, "plain")) /\ (Handled(u)' <=> Handled(u)) /\ Text(u)' = Text(u)
  BY <1>1, <1>2, <1>8 DEF Is, Handled, Text
<1>9. Working'
  <2>1. ASSUME job # NULL PROVE job \in Threads /\ job # t
    <3>1. job \in Threads
      BY <2>1 DEF TInv, WorkerOK
    <3>2. pc[job] = "done"
      BY <1>3, <3>1 DEF QueuedOnce
    <3> QED
      BY <1>1, <3>1, <3>2
  <2>2. Copy \in Buffers \ Own(t)
    BY OwnApart, Threaded
  <2>3. Undisturbed' => mem'[Copy] = mem[Copy] /\ (saved'.by = Worker => saved' = saved)
    BY <2>2, Threaded
  <2> QED
    BY <1>1, <1>2, <1>3, <2>1, <2>3, WorkingStays
<1>10. Served' /\ ExecutesRequest'
  <2>1. ~Handled(t)'
    BY <1>1 DEF Handled
  <2>2. executed'[t] = NoCommand
    BY <1>1, <1>2, <1>3 DEF QueuedOnce
  <2>3. Served'
    BY <1>2, <1>3, <1>8, <2>1, ToldStays DEF Served, PlainRun
  <2>4. \A u \in Threads : u # t => input'[u] = input[u]
    OBVIOUS
  <2>5. ExecutesRequest'
    BY <1>2, <1>3, <1>8, <2>2, <2>4 DEF ExecutesRequest
  <2> QED
    BY <2>3, <2>5
<1>11. Survived' /\ Fresh'
  BY <1>1, <1>3 DEF Survived, Ok, Goes, Fresh
<1>12. Undisturbed' => /\ ScansApart'
                       /\ \A u \in Threads : Parsed(u)' => ParsedWell(u)'
                       /\ \A u \in Threads : Blank(u)' => BlankStops(u)'
  BY <1>4, <1>5
<1> QED
  BY <1>7, <1>9, <1>10, <1>11, <1>12 DEF Understood

(* With nothing but separators left, strtok finds none.                    *)
LEMMA ScansNone ==
  ASSUME StringsOK, NEW a \in Actors, NEW m \in Memories,
         NEW at \in Pointers, NEW delims, Scans(a, m, at, delims),
         NEW start \in at.pos..Len(m[at.buf]),
         \A j \in at.pos..(start - 1) : m[at.buf][j] \in delims,
         m[at.buf][start] = "NUL", "NUL" \notin delims
  PROVE  token'[a] = NULL
<1> DEFINE s     == m[at.buf]
           first == FirstNotIn(s, at.pos, delims)
           r     == Strtok(a, m, at, delims)
<1>1. at # NULL /\ at.buf \in Buffers /\ at.pos \in Nat \ {0}
  BY ConstantFacts DEF Pointers
<1>2. s \in Seq(Symbols)
  BY <1>1 DEF Memories
<1>3. first = start
  <2> HIDE DEF s
  <2>1. start \in at.pos..Len(s) /\ s[start] \notin delims /\ \A j \in at.pos..(start - 1) : s[j] \in delims
    BY DEF s
  <2> QED
    BY <1>1, <1>2, <2>1, FirstNotInIs
<1>4. s[first] = "NUL"
  BY <1>3
<1>5. r.token = NULL
  <2> HIDE DEF s
  <2>1. r = [token |-> NULL, mem |-> m, saved |-> [buf |-> at.buf, pos |-> first, by |-> a]]
    BY <1>1, <1>4 DEF Strtok, s
  <2> QED
    BY <2>1
<1>6. token' = [token EXCEPT ![a] = r.token]
  BY DEF Scans
<1> HIDE DEF r
<1> QED
  BY <1>5, <1>6 DEF StringsOK

LEMMA ReadUnderstood ==
  ASSUME TInv, TInv', Understood, NEW t \in Threads, Read(t), Undisturbed' => Undisturbed, UNCHANGED serverType
  PROVE  Understood'
<1>1. PICK r \in Requests :
        /\ input' = [input EXCEPT ![t] = r]
        /\ Scans(t, [mem EXCEPT ![Buffer(t)] = Append(r.text, "NUL")], Ptr(Buffer(t), 1),
                 {"CR", "LF"})
  BY DEF Read
<1>2. /\ Goes(t, "read", "header")
      /\ UNCHANGED <<headers, headersize, line, type, data, queue, worker, replies, status>>
  BY DEF Read, packet
<1> DEFINE s == r.text
           b == Append(s, "NUL")
           m == [mem EXCEPT ![Buffer(t)] = b]
           at == Ptr(Buffer(t), 1)
<1>3. s \in Seq(Symbols) /\ b \in Seq(Symbols) /\ Len(b) = Len(s) + 1 /\ Len(s) \in Nat
      /\ b[Len(s) + 1] = "NUL" /\ \A i \in 1..Len(s) : b[i] = s[i]
  BY ConstantFacts, StringFacts, SymbolFacts
<1> HIDE DEF b
<1>4. m \in Memories /\ m[Buffer(t)] = b
      /\ \A c \in Buffers : c # Buffer(t) => m[c] = mem[c]
  BY <1>3, BufferFacts, MemoryWritten DEF TInv, StringsOK
<1>5. at \in Pointers /\ t \in Actors /\ at.buf = Buffer(t) /\ at.pos = 1 /\ at # NULL
  <2>1. at \in Pointers /\ at.buf = Buffer(t) /\ at.pos = 1
    BY BufferFacts DEF Ptr, Pointers
  <2> QED
    BY <2>1, Threaded, ConstantFacts
<1>6. Scans(t, m, at, {"CR", "LF"}) /\ StringsOK
  BY <1>1 DEF b, TInv
<1>7. /\ input'[t] = r /\ Text(t)' = s
      /\ \A u \in Threads : u # t => input'[u] = input[u]
  BY <1>1 DEF TInv, ThreadsOK, Text
<1>8. headers[t] = << >> /\ pc[t] = "read" /\ pc'[t] = "header"
  BY <1>2, Threaded DEF Goes, TInv, ThreadsOK, Progress
<1> HIDE DEF m, at, s
<1>9. ASSUME Undisturbed'
      PROVE  /\ \A c \in Buffers \ Own(t) : mem'[c] = mem[c]
             /\ \A a \in Actors : a # t => token'[a] = token[a]
             /\ saved'.by = t /\ saved'.buf = Buffer(t) /\ saved'.buf \in Own(t)
  <2>1. ~mixed' /\ ScansApart
    BY <1>9 DEF Undisturbed, Understood
  <2>2. at.buf \in Own(t) /\ \A c \in Buffers \ Own(t) : m[c] = mem[c]
    BY <1>4, <1>5, OwnApart
  <2> QED
    BY <1>4, <1>5, <1>6, <2>1, <2>2, OwnScan
<1>10. ASSUME Undisturbed', Parsed(t)' PROVE ParsedWell(t)'
  <2>1. WellFormed(s) /\ End(s) \in 1..Len(s) /\ HeadersEnd(s, End(s))
    BY <1>3, <1>7, <1>10, EndIs DEF Parsed
  <2>2. s[1] \notin {"CR", "LF"} /\ 1 \in 1..End(s)
    BY <1>3, <2>1 DEF HeadersEnd
  <2>3. PICK c \in 2..End(s) : IsLine(s, 1, c)
    BY <1>3, <2>1, <2>2, LineEnds
  <2>4. /\ b[1] \notin {"CR", "LF"} \cup {"NUL"} /\ b[c] = "CR" /\ b[c] \in {"CR", "LF"} \cup {"NUL"}
        /\ \A j \in 1..(c - 1) : b[j] \notin {"CR", "LF"} \cup {"NUL"}
    BY <1>3, <2>1, <2>3 DEF IsLine
  <2>5. Token(m[Buffer(t)], 1, 1, c, {"CR", "LF"})
    BY <1>3, <1>4, <2>1, <2>4 DEF Token
  <2>6. Taken(t, Buffer(t), b, 1, c)
    BY <1>4, <1>5, <1>6, <2>5, BufferFacts, ScansFind DEF at
  <2>7. /\ token'[t] = Ptr(Buffer(t), 1)
        /\ mem'[Buffer(t)][c] = "NUL" /\ \A j \in 1..Len(s) : j # c => mem'[Buffer(t)][j] = s[j]
        /\ saved'.buf = Buffer(t) /\ saved'.pos = c + 1
    BY <1>3, <2>1, <2>4, <2>6 DEF Taken
  <2>8. /\ headersize'[t] = 0 /\ Len(headers'[t]) = 0
    BY <1>2, <1>8 DEF Understood, Fresh
  <2>9. Cardinality(Lines(s, 0)) = 0
    <3>1. Lines(s, 0) = {}
      BY DEF Lines
    <3> QED
      BY <3>1, FS_EmptySet
  <2>10. AtLine(t, 1, c)'
    BY <1>7, <2>3, <2>7, <2>8, <2>9 DEF AtLine, Ptr, Buffer
  <2> QED
    BY <1>7, <1>8, <2>1, <2>10 DEF ParsedWell
<1>11. ASSUME Undisturbed', Blank(t)' PROVE BlankStops(t)'
  <2>1. \A i \in 1..Len(s) : s[i] \in {"CR", "LF"}
    BY <1>7, <1>11 DEF Blank
  <2>2. /\ Len(s) + 1 \in at.pos..Len(m[at.buf]) /\ m[at.buf][Len(s) + 1] = "NUL"
        /\ \A j \in at.pos..(Len(s) + 1 - 1) : m[at.buf][j] \in {"CR", "LF"}
    BY <1>3, <1>4, <1>5, <2>1
  <2>3. token'[t] = NULL
    <3> DEFINE start == Len(s) + 1
    <3>1. /\ start \in at.pos..Len(m[at.buf]) /\ m[at.buf][start] = "NUL" /\ "NUL" \notin {"CR", "LF"}
          /\ \A j \in at.pos..(start - 1) : m[at.buf][j] \in {"CR", "LF"}
      BY <2>2
    <3> HIDE DEF start
    <3> QED
      BY <1>4, <1>5, <1>6, <3>1, ScansNone
  <2> QED
    BY <1>2, <1>8, <2>3 DEF BlankStops
<1> QED
  BY <1>2, <1>7, <1>9, <1>10, <1>11, ParsingLeavesOthers

(* What requestParseHeaders reads at a line of s up to c.                  *)
LEMMA LineRead ==
  ASSUME TInv, NEW t \in Threads, pc[t] = "header", Parsed(t),
         NEW q \in 1..End(Text(t)), NEW c \in 1..End(Text(t)), AtLine(t, q, c)
  PROVE  LET h == StringAt(token[t]) \o <<"CR", "LF">>
         IN  /\ h \in Seq(Symbols) /\ Len(h) = c - q + 2
             /\ q = 1 => Len(h) > 2 /\ h[1] = Text(t)[1] /\ h[2] = Text(t)[2]
             /\ ~NoRoom(t)
             /\ EndsHeaders(token[t]) <=> c = End(Text(t))
<1> DEFINE s == Text(t)
           e == End(s)
           B == mem[Buffer(t)]
           w == StringAt(token[t])
           h == w \o <<"CR", "LF">>
<1>1. /\ input[t] # NULL /\ WellFormed(s) /\ s \in Seq(Symbols) /\ Len(s) \in Nat
      /\ Method(s, "GET") \/ Method(s, "POST")
  BY TextFacts DEF Parsed
<1>2. e \in 1..Len(s) /\ HeadersEnd(s, e)
  BY <1>1, EndIs
<1>3. B \in Seq(Symbols) /\ Len(B) = Len(s) + 1
  BY BufferFacts DEF TInv, StringsOK, Memories, ThreadsOK, Progress, Text
<1>4. /\ IsLine(s, q, c) /\ token[t] = Ptr(Buffer(t), q) /\ B[c] = "NUL"
      /\ \A j \in q..Len(s) : j # c => B[j] = s[j]
      /\ Len(headers[t]) = Cardinality(Lines(s, q - 1))
  BY DEF AtLine
<1>5. q \in 1..e /\ c \in 1..e /\ q < c /\ q \in Nat \ {0}
  BY <1>2, <1>4 DEF IsLine
<1> HIDE DEF s, e, B
<1>6. FirstIn(B, q, {"NUL"}) = c
  <2>1. c \in q..Len(B)
    BY <1>2, <1>3, <1>5
  <2>2. \A j \in q..(c - 1) : B[j] \notin {"NUL"}
    BY <1>1, <1>2, <1>4, <1>5 DEF IsLine
  <2> QED
    BY <1>3, <1>4, <1>5, <2>1, <2>2, FirstInIs
<1>7. w = SubSeq(B, q, c - 1)
  <2>1. token[t].buf = Buffer(t) /\ token[t].pos = q /\ token[t] # NULL
    <3>1. Ptr(Buffer(t), q) \in Pointers
      BY <1>5, BufferFacts DEF Ptr, Pointers
    <3> QED
      BY <1>4, <3>1, ConstantFacts DEF Ptr
  <2> QED
    BY <1>6, <2>1 DEF StringAt, B
<1>8. /\ w \in Seq(Symbols) /\ Len(w) = c - q
      /\ \A i \in 1..Len(w) : w[i] = B[q + i - 1]
  <2>1. c - 1 \in Nat /\ c - 1 <= Len(B) /\ q <= c - 1
    BY <1>2, <1>3, <1>5
  <2> HIDE DEF w
  <2> QED
    BY <1>3, <1>5, <1>7, <2>1, SubSeqFacts
<1> HIDE DEF w
<1>9. /\ h \in Seq(Symbols) /\ Len(h) = c - q + 2
      /\ \A i \in 1..Len(w) : h[i] = w[i]
  <2> DEFINE crlf == <<"CR", "LF">>
  <2>1. crlf \in Seq(Symbols) /\ Len(crlf) = 2
    BY SymbolFacts
  <2>2. h = w \o crlf
    OBVIOUS
  <2> HIDE DEF crlf, h
  <2>3. Len(w) + 2 = c - q + 2 /\ w \in Seq(Symbols)
    BY <1>5, <1>8
  <2>4. /\ h \in Seq(Symbols) /\ Len(h) = Len(w) + Len(crlf)
        /\ \A i \in 1..Len(w) : h[i] = w[i]
    BY <2>1, <2>2, <2>3, ConcatFacts
  <2> QED
    BY <2>1, <2>3, <2>4
<1>10. q = 1 => Len(h) > 2 /\ h[1] = s[1] /\ h[2] = s[2]
  <2> SUFFICES ASSUME q = 1 PROVE Len(h) > 2 /\ h[1] = s[1] /\ h[2] = s[2]
    OBVIOUS
  <2>1. s[2] = "SP"
    BY <1>1 DEF Method
  <2>2. c # 2
    BY <1>4, <2>1 DEF IsLine
  <2>3. 1 \in 1..Len(w) /\ 2 \in 1..Len(w)
    BY <1>5, <1>8, <2>2
  <2>4. w[1] = B[1] /\ w[2] = B[2]
    BY <1>8, <2>3
  <2>5. B[1] = s[1] /\ B[2] = s[2]
    BY <1>2, <1>4, <1>5, <2>2
  <2> HIDE DEF h
  <2> QED
    BY <1>5, <1>9, <2>3, <2>4, <2>5
<1>11. ~NoRoom(t)
  <2>1. Cardinality(Lines(s, q - 1)) + 1 < MaxHeaders /\ Cardinality(Lines(s, q - 1)) \in Nat
    BY <1>1, <1>2, <1>4, <1>5, LinesCount
  <2> QED
    BY <1>4, <2>1, ConstantFacts DEF NoRoom
<1>12. EndsHeaders(token[t]) <=> c + 3 <= Len(B) /\ SubSeq(B, c, c + 3) = <<"NUL", "LF", "CR", "LF">>
  <2>1. token[t].buf = Buffer(t) /\ token[t].pos + Len(w) = c
    BY <1>4, <1>5, <1>8 DEF Ptr
  <2> QED
    BY <2>1 DEF EndsHeaders, w, B
<1>13. ASSUME c = e
       PROVE  c + 3 <= Len(B) /\ SubSeq(B, c, c + 3) = <<"NUL", "LF", "CR", "LF">>
  <2>1. e + 3 <= Len(s) /\ s[e + 1] = "LF" /\ s[e + 2] = "CR" /\ s[e + 3] = "LF"
    BY <1>2 DEF HeadersEnd
  <2>2. B[c + 1] = "LF" /\ B[c + 2] = "CR" /\ B[c + 3] = "LF"
    BY <1>4, <1>5, <1>13, <2>1
  <2>3. c + 3 <= Len(B) /\ c \in Nat \ {0}
    BY <1>1, <1>3, <1>5, <1>13, <2>1
  <2> DEFINE x == SubSeq(B, c, c + 3)
  <2>4. /\ x \in Seq(Symbols) /\ Len(x) = 4
        /\ \A i \in 1..4 : x[i] = B[c + i - 1]
    <3>1. Len(x) = IF c <= c + 3 THEN c + 3 - c + 1 ELSE 0
      BY <1>3, <2>3, SubSeqFacts
    <3>2. Len(x) = 4
      BY <2>3, <3>1
    <3> QED
      BY <1>3, <2>3, <3>2, SubSeqFacts
  <2> HIDE DEF x
  <2>5. x[1] = B[c] /\ x[2] = B[c + 1] /\ x[3] = B[c + 2] /\ x[4] = B[c + 3]
    BY <2>3, <2>4
  <2>6. x = <<x[1], x[2], x[3], x[4]>>
    BY <2>4
  <2> QED
    BY <1>4, <2>2, <2>3, <2>5, <2>6 DEF x
<1>14. ASSUME c # e, c + 3 <= Len(B), SubSeq(B, c, c + 3) = <<"NUL", "LF", "CR", "LF">>
       PROVE  FALSE
  <2>1. c + 2 \in 1..e /\ s[c + 2] \notin {"CR", "LF"}
    BY <1>1, <1>2, <1>4, <1>5, <1>14, LineNext DEF IsLine
  <2>2. c + 2 \in q..Len(s) /\ c + 2 # c
    BY <1>1, <1>2, <1>5, <2>1
  <2>3. B[c + 2] = s[c + 2]
    BY <1>4, <2>2
  <2> DEFINE x == SubSeq(B, c, c + 3)
  <2>4. x[3] = "CR"
    <3>1. \A y : y = <<"NUL", "LF", "CR", "LF">> => y[3] = "CR"
      OBVIOUS
    <3> QED
      BY <1>14, <3>1, Zenon
  <2>5. /\ c \in Nat \ {0} /\ c + 3 \in Nat /\ c <= c + 3 /\ c + 3 - c + 1 = 4
        /\ 3 \in 1..4 /\ c + 3 - 1 = c + 2
    BY <1>2, <1>5
  <2>6. Len(x) = 4
    BY <1>3, <1>14, <2>5, SubSeqFacts
  <2>7. x[3] = B[c + 3 - 1]
    BY <1>3, <1>14, <2>5, <2>6, SubSeqFacts
  <2> HIDE DEF x
  <2> QED
    BY <2>1, <2>3, <2>4, <2>5, <2>7
<1>15. EndsHeaders(token[t]) <=> c = e
  BY <1>12, <1>13, <1>14
<1> QED
  BY <1>9, <1>10, <1>11, <1>15 DEF s, e, w

(* The first line stays when more are kept.                                *)
LEMMA FirstLineKept ==
  ASSUME TInv, NEW t \in Threads, NEW h \in Seq(Symbols),
         headers'[t] = Append(headers[t], h), Text(t)' = Text(t),
         \/ FirstLine(t)
         \/ headers[t] = << >> /\ Len(h) > 2 /\ h[1] = Text(t)[1] /\ h[2] = Text(t)[2]
  PROVE  FirstLine(t)'
<1>1. headers[t] \in Seq(Seq(Symbols))
  BY DEF TInv, ThreadsOK
<1>2. headers'[t] # << >>
  <2> DEFINE hs == headers'[t]
  <2>1. Len(hs) = Len(headers[t]) + 1 /\ Len(headers[t]) \in Nat
    BY <1>1
  <2>2. Len(hs) # 0
    BY <2>1
  <2>3. Len(<< >>) = 0
    OBVIOUS
  <2> HIDE DEF hs
  <2>4. hs # << >>
    BY <2>2, <2>3
  <2> QED
    BY <2>4 DEF hs
<1>3. CASE FirstLine(t)
  <2>1. Head(headers'[t]) = Head(headers[t])
    BY <1>1, <1>3 DEF FirstLine
  <2> QED
    BY <1>2, <1>3, <2>1 DEF FirstLine
<1>4. CASE headers[t] = << >> /\ Len(h) > 2 /\ h[1] = Text(t)[1] /\ h[2] = Text(t)[2]
  <2>1. Head(headers'[t]) = h
    BY <1>1, <1>4
  <2>2. Len(h) >= 2
    BY <1>4
  <2> QED
    BY <1>2, <1>4, <2>1, <2>2 DEF FirstLine
<1> QED
  BY <1>3, <1>4

LEMMA HeaderUnderstood ==
  ASSUME TInv, TInv', Understood, NEW t \in Threads, Header(t), Undisturbed' => Undisturbed, UNCHANGED serverType
  PROVE  Understood'
<1> DEFINE s    == Text(t)
           e    == End(s)
           h    == StringAt(token[t]) \o <<"CR", "LF">>
           full == NoRoom(t)
           last == EndsHeaders(token[t])
           size == SizeOf(h, last)
<1>1. /\ pc[t] = "header" /\ token[t] # NULL
      /\ headers' = [headers EXCEPT ![t] = Append(@, h)]
      /\ headersize' = IF full THEN headersize ELSE [headersize EXCEPT ![t] = @ + size]
      /\ IF full \/ last
         THEN Goes(t, "header", "split") /\ NoScan
         ELSE Goes(t, "header", "header") /\ Scans(t, mem, NULL, {"CR", "LF"})
      /\ UNCHANGED <<input, line, type, data, queue, worker, replies, status, ranOn>>
  BY DEF Header
<1>2. size = Len(h) + IF last THEN 2 ELSE 0
  BY DEF SizeOf
<1> HIDE DEF size, h, full, last
<1>3. /\ headers'[t] = Append(headers[t], h)
      /\ ~full => headersize'[t] = headersize[t] + size
      /\ \A u \in Threads : u # t => headers'[u] = headers[u] /\ headersize'[u] = headersize[u]
  BY <1>1 DEF TInv, ThreadsOK
<1>4. /\ input' = input /\ Text(t)' = s /\ t \in Actors
      /\ UNCHANGED <<type, data, queue, worker, replies, status>>
  BY <1>1, Threaded DEF Text
<1>5. ASSUME Undisturbed' PROVE ~Blank(t)
  BY <1>1, <1>5 DEF Understood, BlankStops
<1>6. ASSUME Undisturbed', Parsed(t)'
      PROVE  \E q, c \in 1..e :
               /\ AtLine(t, q, c) /\ h \in Seq(Symbols) /\ Len(h) = c - q + 2
               /\ ~full /\ (last <=> c = e) /\ FirstLine(t)'
               /\ s \in Seq(Symbols) /\ Len(s) \in Nat /\ e \in 1..Len(s) /\ HeadersEnd(s, e)
  <2>1. Parsed(t) /\ ParsedWell(t)
    BY <1>4, <1>6 DEF Parsed, Understood
  <2>2. s \in Seq(Symbols) /\ Len(s) \in Nat /\ e \in 1..Len(s) /\ HeadersEnd(s, e)
    BY <2>1, TextFacts, EndIs DEF Parsed
  <2>3. PICK q, c \in 1..e : AtLine(t, q, c)
    BY <1>1, <2>1 DEF ParsedWell
  <2>4. /\ h \in Seq(Symbols) /\ Len(h) = c - q + 2
        /\ q = 1 => Len(h) > 2 /\ h[1] = s[1] /\ h[2] = s[2]
        /\ ~full /\ (last <=> c = e)
    BY <1>1, <2>1, <2>3, LineRead DEF h, full, last
  <2>5. q = 1 => headers[t] = << >>
    <3>1. Lines(s, 0) = {}
      BY DEF Lines
    <3>2. q = 1 => Len(headers[t]) = 0
      <4>1. Len(headers[t]) = Cardinality(Lines(s, q - 1)) /\ (q = 1 => q - 1 = 0)
        BY <2>3 DEF AtLine
      <4> QED
        BY <3>1, <4>1, FS_EmptySet
    <3>3. headers[t] \in Seq(Seq(Symbols))
      BY DEF TInv, ThreadsOK
    <3> QED
      BY <3>2, <3>3
  <2>6. FirstLine(t)'
    BY <1>3, <1>4, <2>3, <2>4, <2>5, FirstLineKept DEF AtLine
  <2> QED
    BY <2>2, <2>3, <2>4, <2>6
<1>7. CASE full \/ last
  <2>1. Goes(t, "header", "split") /\ NoScan
    BY <1>1, <1>7
  <2>2. ASSUME Undisturbed', Parsed(t)' PROVE ParsedWell(t)'
    <3>1. PICK q, c \in 1..e :
               /\ AtLine(t, q, c) /\ h \in Seq(Symbols) /\ Len(h) = c - q + 2
               /\ ~full /\ (last <=> c = e) /\ FirstLine(t)'
               /\ s \in Seq(Symbols) /\ Len(s) \in Nat /\ e \in 1..Len(s) /\ HeadersEnd(s, e)
      BY <1>6, <2>2
    <3>2. c = e /\ size = Len(h) + 2
      BY <1>2, <1>7, <3>1
    <3>3. headersize[t] + 1 = q /\ headersize[t] \in Nat
      BY <3>1 DEF AtLine, TInv, ThreadsOK
    <3>4. headersize'[t] = e + 3
      <4>1. headersize'[t] = headersize[t] + (c - q + 2 + 2)
        BY <1>3, <3>1, <3>2
      <4>2. c \in Int
        OBVIOUS
      <4> HIDE DEF e, s
      <4>3. e \in Int
        BY <3>2, <4>2
      <4> QED
        BY <3>2, <3>3, <4>1, <4>3
    <3>5. \A j \in (e + 4)..Len(s) : mem'[Buffer(t)][j] = s[j]
      <4>1. \A j \in (e + 4)..Len(s) : j \in q..Len(s) /\ j # c
        <5> HIDE DEF e, s
        <5> QED
          BY <3>1
      <4> QED
        BY <2>1, <3>1, <4>1 DEF NoScan, AtLine
    <3>6. BehindLines(t)'
      BY <1>4, <3>1, <3>4, <3>5 DEF BehindLines, Buffer
    <3>7. pc'[t] = "split"
      BY <2>1, Threaded DEF Goes, TInv, ThreadsOK
    <3> QED
      BY <3>6, <3>7 DEF ParsedWell
  <2>3. Undisturbed' /\ Blank(t)' => BlankStops(t)'
    BY <1>4, <1>5 DEF Blank
  <2>4. mem' = mem /\ token' = token /\ saved' = saved
    BY <2>1 DEF NoScan
  <2> QED
    BY <1>3, <1>4, <2>1, <2>2, <2>3, <2>4, ParsingLeavesOthers
<1>8. CASE ~(full \/ last)
  <2>1. Goes(t, "header", "header") /\ Scans(t, mem, NULL, {"CR", "LF"})
    BY <1>1, <1>8
  <2>2. StringsOK /\ mem \in Memories /\ NULL \in Pointers \cup {NULL}
    BY DEF TInv, StringsOK
  <2>3. ASSUME Undisturbed'
        PROVE  /\ \A b \in Buffers \ Own(t) : mem'[b] = mem[b]
               /\ \A u \in Actors : u # t => token'[u] = token[u]
               /\ saved'.by = t /\ saved'.buf \in Own(t)
               /\ saved.by = t
    <3>1. ScansApart /\ ~mixed'
      BY <2>3 DEF Understood, Undisturbed
    <3> QED
      BY <1>4, <2>1, <2>2, <3>1, OwnScan
  <2>4. ASSUME Undisturbed', Parsed(t)' PROVE ParsedWell(t)'
    <3>1. PICK q, c \in 1..e :
               /\ AtLine(t, q, c) /\ h \in Seq(Symbols) /\ Len(h) = c - q + 2
               /\ ~full /\ (last <=> c = e) /\ FirstLine(t)'
               /\ s \in Seq(Symbols) /\ Len(s) \in Nat /\ e \in 1..Len(s) /\ HeadersEnd(s, e)
      BY <1>6, <2>4
    <3> DEFINE B == mem[Buffer(t)]
    <3>2. /\ IsLine(s, q, c) /\ headersize[t] + 1 = q
          /\ Len(headers[t]) = Cardinality(Lines(s, q - 1))
          /\ \A j \in q..Len(s) : j # c => B[j] = s[j]
          /\ saved.buf = Buffer(t) /\ saved.pos = c + 1
      BY <2>3, <2>4, <3>1 DEF AtLine
    <3>3. B \in Seq(Symbols) /\ Len(B) = Len(s) + 1
      BY <1>1, BufferFacts DEF TInv, StringsOK, Memories, ThreadsOK, Progress, Text
    <3> HIDE DEF B, e, s
    <3>4. c # e /\ size = Len(h) /\ ~last
      BY <1>2, <1>8, <3>1
    <3>5. c + 2 \in 1..e /\ s[c + 1] = "LF" /\ s[c + 2] \notin {"CR", "LF"}
      BY <3>1, <3>2, <3>4, LineNext DEF IsLine
    <3> DEFINE p == c + 2
    <3>6. PICK d \in (p + 1)..e : IsLine(s, p, d)
      <4> HIDE DEF p
      <4>1. p \in 1..e /\ s[p] \notin {"CR", "LF"}
        BY <3>5 DEF p
      <4> QED
        BY <3>1, <4>1, LineEnds
    <3>7. d \in 1..e /\ p \in 1..e /\ q < c /\ q \in Nat
      BY <3>1, <3>2, <3>5, <3>6 DEF IsLine
    <3>8. \A j \in (c + 1)..Len(s) : B[j] = s[j]
      BY <3>1, <3>2, <3>7
    <3>9. /\ B[c + 1] = "LF" /\ B[d] = "CR"
          /\ \A j \in p..(d - 1) : B[j] \notin {"CR", "LF"} \cup {"NUL"}
      <4>1. c + 1 \in (c + 1)..Len(s) /\ d \in (c + 1)..Len(s)
        BY <3>1, <3>6, <3>7
      <4>2. \A j \in p..(d - 1) : j \in (c + 1)..Len(s)
        BY <3>1, <3>6, <3>7
      <4> QED
        BY <3>5, <3>6, <3>8, <4>1, <4>2 DEF IsLine
    <3>10. Taken(t, Buffer(t), B, p, d)
      <4>1. p \in (c + 1)..Len(B) /\ d \in p..Len(B) /\ p \in p..(d - 1)
        BY <3>1, <3>3, <3>6, <3>7
      <4>2. \A j \in (c + 1)..(p - 1) : j = c + 1
        BY <3>1
      <4>3. Token(B, c + 1, p, d, {"CR", "LF"})
        <5> HIDE DEF p
        <5> QED
          BY <3>9, <4>1, <4>2 DEF Token
      <4> DEFINE n == c + 1
      <4>4. n \in Nat \ {0} /\ saved.pos = n
        BY <3>1, <3>2
      <4> HIDE DEF n, p
      <4>5. Token(mem[Buffer(t)], n, p, d, {"CR", "LF"})
        BY <4>3 DEF n, B
      <4> QED
        BY <1>4, <2>1, <2>2, <3>2, <4>4, <4>5, BufferFacts, ScansFind DEF B
    <3>11. /\ token'[t] = Ptr(Buffer(t), p) /\ mem'[Buffer(t)][d] = "NUL"
           /\ \A j \in p..Len(s) : j # d => mem'[Buffer(t)][j] = s[j]
           /\ saved'.buf = Buffer(t) /\ saved'.pos = d + 1
      <4>1. \A j \in p..Len(s) : j \in 1..Len(B) /\ j \in (c + 1)..Len(s)
        BY <3>1, <3>3, <3>6, <3>7
      <4>2. B[d] # "NUL"
        BY <3>9
      <4> HIDE DEF p
      <4> QED
        BY <3>8, <3>10, <4>1, <4>2 DEF Taken
    <3>12. headersize'[t] + 1 = p
      <4>1. headersize[t] \in Nat
        BY DEF TInv, ThreadsOK
      <4>2. headersize'[t] = headersize[t] + (c - q + 2)
        BY <1>3, <3>1, <3>4
      <4> QED
        BY <3>1, <3>2, <4>1, <4>2
    <3>13. Len(headers'[t]) = Cardinality(Lines(s, p - 1))
      <4>1. Cardinality(Lines(s, c + 1)) = Cardinality(Lines(s, q - 1)) + 1
        BY <3>1, <3>2, LinesCount
      <4>2. Len(headers'[t]) = Len(headers[t]) + 1
        BY <1>3 DEF TInv, ThreadsOK
      <4>3. p - 1 = c + 1
        BY <3>1
      <4> QED
        BY <3>2, <4>1, <4>2, <4>3
    <3>14. AtLine(t, p, d)'
      <4> HIDE DEF p
      <4> QED
        BY <1>4, <3>1, <3>6, <3>11, <3>12, <3>13 DEF AtLine, Ptr, Buffer, s
    <3>15. pc'[t] = "header" /\ End(Text(t))' = e
      BY <1>4, <2>1, Threaded DEF Goes, TInv, ThreadsOK, e, s
    <3> HIDE DEF p
    <3> QED
      BY <3>7, <3>14, <3>15 DEF ParsedWell
  <2>5. Undisturbed' /\ Blank(t)' => BlankStops(t)'
    BY <1>4, <1>5 DEF Blank
  <2> QED
    BY <1>3, <1>4, <2>1, <2>3, <2>4, <2>5, ParsingLeavesOthers
<1> QED
  BY <1>7, <1>8

LEMMA NoHeaderUnderstood ==
  ASSUME TInv, TInv', Understood, NEW t \in Threads, NoHeader(t), Undisturbed' => Undisturbed, UNCHANGED serverType
  PROVE  Understood'
<1>1. /\ token[t] = NULL /\ Goes(t, "header", "split") /\ NoScan
      /\ UNCHANGED <<input, packet, queue, worker, replies, status>>
  BY DEF NoHeader
<1>2. UNCHANGED <<input, headers, headersize, type, data, mem, saved, token>> /\ pc[t] = "header"
  BY <1>1 DEF packet, NoScan, Goes
<1>3. pc'[t] = "split"
  BY <1>1, Threaded DEF Goes, TInv, ThreadsOK
<1>4. ASSUME Undisturbed', Parsed(t)' PROVE FALSE
  <2>1. Parsed(t) /\ ParsedWell(t)
    BY <1>2, <1>4 DEF Parsed, Understood, Text
  <2>2. PICK q, c \in 1..End(Text(t)) : AtLine(t, q, c)
    BY <1>2, <2>1 DEF ParsedWell
  <2>3. End(Text(t)) \in 1..Len(Text(t)) /\ Len(Text(t)) \in Nat
    BY <2>1, TextFacts, EndIs DEF Parsed
  <2>4. Ptr(Buffer(t), q) \in Pointers
    BY <2>2, <2>3, BufferFacts DEF Ptr, Pointers
  <2> QED
    BY <1>1, <2>2, <2>4, ConstantFacts DEF AtLine
<1>5. ASSUME Undisturbed', Blank(t)' PROVE BlankStops(t)'
  <2>1. Blank(t) /\ BlankStops(t)
    BY <1>2, <1>5 DEF Blank, Understood, Text
  <2> QED
    BY <1>2, <1>3, <2>1 DEF BlankStops
<1> QED
  BY <1>1, <1>2, <1>4, <1>5, ParsingLeavesOthers

(* A header is split in a copy of it.                                      *)
LEMMA SplitLeaves ==
  ASSUME TInv, TInv', Understood, NEW t \in Threads, NEW from \in {"split", "value"},
         NEW to \in {"split", "value", "method"}, Goes(t, from, to),
         Undisturbed' => Undisturbed, UNCHANGED serverType,
         UNCHANGED <<input, headers, headersize, type, data, queue, worker, replies, status>>,
         NEW m \in Memories, NEW b \in {Line(t), First(t)}, NEW p, NEW delims,
         Scans(t, m, p, delims), from = "value" => p = NULL /\ b = Line(t),
         from = "split" => p \in Pointers /\ p.buf = b /\ headers[t] # << >>,
         \A c \in Buffers : c # b => m[c] = mem[c], to = "value" => b = Line(t),
         Undisturbed' /\ to = "method" /\ Parsed(t) /\ BehindLines(t) => MethodFound(t)'
  PROVE  Understood'
<1>1. /\ t \in Actors /\ b \in Own(t) /\ b \in Buffers /\ Buffer(t) \in Buffers /\ b # Buffer(t)
      /\ pc[t] = from /\ pc'[t] = to /\ p \in Pointers \cup {NULL} /\ StringsOK
  BY Threaded, OwnApart, BufferFacts DEF Goes, TInv, ThreadsOK
<1>2. Text(t)' = Text(t) /\ (Parsed(t)' <=> Parsed(t)) /\ (Blank(t)' <=> Blank(t))
  BY DEF Text, Parsed, Blank
<1>3. ASSUME Undisturbed'
      PROVE  /\ \A c \in Buffers \ Own(t) : mem'[c] = mem[c]
             /\ \A u \in Actors : u # t => token'[u] = token[u]
             /\ saved'.by = t /\ saved'.buf = b /\ mem'[Buffer(t)] = mem[Buffer(t)]
  <2>1. ScansApart /\ ~mixed'
    BY <1>3 DEF Understood, Undisturbed
  <2>2. p # NULL => p.buf \in Own(t)
    BY <1>1, ConstantFacts
  <2>3. \A c \in Buffers \ Own(t) : m[c] = mem[c]
    BY <1>1
  <2>4. /\ \A c \in Buffers \ Own(t) : mem'[c] = mem[c]
        /\ \A u \in Actors : u # t => token'[u] = token[u]
        /\ saved'.by = t /\ saved'.buf = IF p = NULL THEN saved.buf ELSE p.buf
        /\ p = NULL => saved.by = t
    BY <1>1, <2>1, <2>2, <2>3, OwnScan
  <2>5. saved'.buf = b
    BY <1>1, <2>1, <2>4, ConstantFacts DEF ScansApart
  <2>6. \A c \in Buffers : c # saved'.buf => mem'[c] = m[c]
    BY <1>1, ScansEffect
  <2> QED
    BY <1>1, <2>4, <2>5, <2>6
<1>4. ASSUME Undisturbed', Parsed(t)' PROVE ParsedWell(t)'
  <2>1. BehindLines(t) /\ Parsed(t)
    BY <1>1, <1>2, <1>4 DEF ParsedWell, Understood
  <2>2. BehindLines(t)'
    BY <1>2, <1>3, <1>4, <2>1 DEF BehindLines, FirstLine, Buffer
  <2> QED
    BY <1>1, <1>4, <2>1, <2>2 DEF ParsedWell
<1>5. Undisturbed' => ~Blank(t)'
  BY <1>1, <1>2 DEF BlankStops, Understood
<1>6. from # "done" /\ to \notin {"read", "done"}
  OBVIOUS
<1>7. Undisturbed' =>
        /\ saved' = saved \/ (saved'.by = t /\ saved'.buf \in Own(t))
        /\ to = "value" /\ saved'.by = t => saved'.buf = Line(t)
  BY <1>1, <1>3
<1> QED
  BY <1>3, <1>4, <1>5, <1>6, <1>7, ParsingLeavesOthers

(* What a copy of s begins with; it ends with the first NUL.               *)
LEMMA CStringFacts ==
  ASSUME NEW s \in Seq(Symbols)
  PROVE  /\ (Len(s) >= 2 /\ s[1] # "NUL" /\ s[2] # "NUL") =>
              Len(CString(s)) >= 3 /\ CString(s)[1] = s[1] /\ CString(s)[2] = s[2]
         /\ (\A i \in 1..Len(s) : s[i] # "NUL") => CString(s) = Append(s, "NUL")
<1> DEFINE a == Append(s, "NUL")
           f == FirstIn(a, 1, {"NUL"})
           n == f - 1
           c == SubSeq(s, 1, n)
<1>1. /\ a \in Seq(Symbols) /\ Len(a) = Len(s) + 1 /\ Len(s) \in Nat
      /\ a[Len(s) + 1] = "NUL" /\ \A i \in 1..Len(s) : a[i] = s[i]
  BY StringFacts, SymbolFacts
<1> HIDE DEF a
<1>2. f \in 1..(Len(s) + 1) /\ a[f] = "NUL"
  BY <1>1, FirstInFacts
<1>3. CString(s) = c \o <<"NUL">>
  BY DEF CString, a
<1> HIDE DEF f
<1>4. n \in Nat /\ n <= Len(s)
  BY <1>1, <1>2
<1>5. /\ c \in Seq(Symbols) /\ Len(c) = n
      /\ \A i \in 1..n : c[i] = s[i]
  <2> HIDE DEF n
  <2> QED
    BY <1>1, <1>4, SubSeqFacts
<1>6. ASSUME Len(s) >= 2, s[1] # "NUL", s[2] # "NUL"
      PROVE  Len(CString(s)) >= 3 /\ CString(s)[1] = s[1] /\ CString(s)[2] = s[2]
  <2>1. n >= 2
    <3>1. a[1] = s[1] /\ a[2] = s[2]
      BY <1>1, <1>6
    <3> QED
      BY <1>1, <1>2, <1>6, <3>1
  <2> DEFINE nul == <<"NUL">>
  <2>2. nul \in Seq(Symbols) /\ Len(nul) = 1 /\ CString(s) = c \o nul
    BY <1>3, SymbolFacts
  <2> HIDE DEF nul, c, n
  <2>3. /\ c \o nul \in Seq(Symbols) /\ Len(c \o nul) = Len(c) + Len(nul)
        /\ \A i \in 1..Len(c) : (c \o nul)[i] = c[i]
    BY <1>5, <2>2, ConcatFacts
  <2> QED
    BY <1>4, <1>5, <2>1, <2>2, <2>3
<1>7. ASSUME \A i \in 1..Len(s) : s[i] # "NUL" PROVE CString(s) = Append(s, "NUL")
  <2>1. f = Len(s) + 1
    BY <1>1, <1>2, <1>7
  <2>2. n = Len(s)
    BY <1>1, <2>1
  <2>3. c = s
    <3> HIDE DEF c, n
    <3> QED
      BY <1>5, <2>2
  <2>4. s \o <<"NUL">> = Append(s, "NUL")
    OBVIOUS
  <2> QED
    BY <1>3, <2>3, <2>4
<1> QED
  BY <1>6, <1>7

LEMMA SplitUnderstood ==
  ASSUME TInv, TInv', Understood, NEW t \in Threads, SplitKey(t) \/ SplitValue(t) \/ SplitMethod(t),
         Undisturbed' => Undisturbed, UNCHANGED serverType
  PROVE  Understood'
<1>1. headers[t] \in Seq(Seq(Symbols)) /\ line[t] \in Nat /\ line[t] >= 2 /\ Len(headers[t]) \in Nat
  BY DEF TInv, ThreadsOK, Progress
<1>2. mem \in Memories
  BY DEF TInv, StringsOK
<1>3. \A b \in Buffers : Ptr(b, 1) \in Pointers /\ Ptr(b, 1).buf = b
  BY DEF Ptr, Pointers
<1>4. /\ Line(t) \in Buffers /\ First(t) \in Buffers /\ Line(t) \in {Line(t), First(t)}
      /\ First(t) \in {Line(t), First(t)}
  BY BufferFacts
<1>5. CASE SplitKey(t)
  <2> DEFINE h == headers[t][line[t]]
             m == [mem EXCEPT ![Line(t)] = CString(h)]
             p == Ptr(Line(t), 1)
             delims == {":"}
             from == "split"
             to == "value"
  <2>1. /\ line[t] <= Len(headers[t]) /\ Goes(t, from, to) /\ Scans(t, m, p, delims)
        /\ UNCHANGED <<input, headers, headersize, type, data, queue, worker, replies, status>>
    BY <1>5 DEF SplitKey, packet
  <2>2. h \in Seq(Symbols) /\ headers[t] # << >>
    <3>1. line[t] \in 1..Len(headers[t])
      BY <1>1, <2>1
    <3> QED
      BY <1>1, <3>1
  <2>3. m \in Memories /\ \A c \in Buffers : c # Line(t) => m[c] = mem[c]
    <3>1. CString(h) \in Seq(Symbols) /\ Len(CString(h)) >= 1
      BY <2>2, CStringType
    <3> QED
      BY <1>2, <1>4, <3>1, MemoryWritten
  <2>4. p \in Pointers /\ p.buf = Line(t)
    BY <1>3, <1>4
  <2>5. from = "split" /\ to = "value" /\ from \in {"split", "value"} /\ to \in {"split", "value", "method"}
    OBVIOUS
  <2> HIDE DEF m, p, delims, from, to
  <2> QED
    BY <1>4, <2>1, <2>2, <2>3, <2>4, <2>5, SplitLeaves
<1>6. CASE SplitValue(t)
  <2> DEFINE m == mem
             p == NULL
             delims == {":"}
             from == "value"
             to == "split"
  <2>1. /\ Goes(t, from, to) /\ Scans(t, m, p, delims)
        /\ UNCHANGED <<input, headers, headersize, type, data, queue, worker, replies, status>>
    BY <1>6 DEF SplitValue
  <2>2. from = "value" /\ to = "split" /\ from \in {"split", "value"} /\ to \in {"split", "value", "method"}
    OBVIOUS
  <2>3. m \in Memories /\ p = NULL /\ \A c \in Buffers : c # Line(t) => m[c] = mem[c]
    BY <1>2
  <2> HIDE DEF m, p, delims, from, to
  <2> QED
    BY <1>4, <2>1, <2>2, <2>3, SplitLeaves
<1>7. CASE SplitMethod(t)
  <2> DEFINE h == Head(headers[t])
             m == [mem EXCEPT ![First(t)] = CString(h)]
             p == Ptr(First(t), 1)
             delims == {"SP"}
             from == "split"
             to == "method"
  <2>1. /\ headers[t] # << >> /\ Goes(t, from, to) /\ Scans(t, m, p, delims)
        /\ UNCHANGED <<input, headers, headersize, type, data, queue, worker, replies, status>>
    BY <1>7 DEF SplitMethod, packet
  <2>2. h \in Seq(Symbols)
    BY <1>1, <2>1
  <2>3. CString(h) \in Seq(Symbols) /\ Len(CString(h)) >= 1
    BY <2>2, CStringType
  <2>4. m \in Memories /\ m[First(t)] = CString(h) /\ \A c \in Buffers : c # First(t) => m[c] = mem[c]
    BY <1>2, <1>4, <2>3, MemoryWritten
  <2>5. p \in Pointers /\ p.buf = First(t)
    BY <1>3, <1>4
  <2>6. from = "split" /\ to = "method" /\ from \in {"split", "value"} /\ to \in {"split", "value", "method"}
    OBVIOUS
  <2>7. ASSUME Parsed(t), BehindLines(t) PROVE MethodFound(t)'
    <3>1. Len(h) >= 2 /\ h[1] = Text(t)[1] /\ h[2] = Text(t)[2]
      BY <2>7 DEF BehindLines, FirstLine
    <3>2. h[1] \in {"GET", "POST"} /\ h[2] = "SP"
      BY <2>7, <3>1 DEF Parsed, Method
    <3>3. /\ Len(m[First(t)]) >= 3 /\ m[First(t)][1] = h[1] /\ m[First(t)][2] = h[2]
      <4> HIDE DEF h, m
      <4>1. h[1] # "NUL" /\ h[2] # "NUL"
        BY <3>2
      <4> QED
        BY <2>2, <2>4, <3>1, <4>1, CStringFacts
    <3>4. Len(m[First(t)]) \in Nat
      <4> HIDE DEF m
      <4> QED
        BY <1>4, <2>4 DEF Memories
    <3>5. Token(m[First(t)], 1, 1, 2, delims)
      <4> HIDE DEF m, h
      <4>1. 1 \in 1..Len(m[First(t)]) /\ 2 \in 1..Len(m[First(t)])
        BY <3>3, <3>4
      <4>2. /\ m[First(t)][1] \notin delims \cup {"NUL"} /\ m[First(t)][2] \in delims \cup {"NUL"}
        BY <3>2, <3>3
      <4>3. \A j \in 1..(2 - 1) : j = 1
        OBVIOUS
      <4>4. \A j \in 1..(1 - 1) : FALSE
        OBVIOUS
      <4> HIDE DEF delims
      <4> QED
        BY <4>1, <4>2, <4>3, <4>4 DEF Token
    <3> DEFINE mm == m[First(t)]
    <3>6. Taken(t, First(t), mm, 1, 2)
      <4>1. StringsOK /\ p # NULL /\ p = Ptr(First(t), 1) /\ t \in Actors
        BY <2>5, Threaded, ConstantFacts DEF TInv
      <4> HIDE DEF m, p, delims
      <4> QED
        BY <1>4, <2>1, <2>4, <3>5, <4>1, ScansFind
    <3>7. Text(t)' = Text(t)
      BY <2>1 DEF Text
    <3>8. Len(mem'[First(t)]) >= 2
      <4> HIDE DEF m
      <4> QED
        BY <3>3, <3>4, <3>6 DEF Taken
    <3>9. mem'[First(t)][1] = h[1] /\ mem'[First(t)][2] = "NUL" /\ token'[t] = Ptr(First(t), 1)
      <4>1. 1 \in 1..Len(mm) /\ 1 # 2
        BY <3>3, <3>4
      <4> HIDE DEF m, mm
      <4> QED
        BY <3>3, <3>6, <4>1 DEF Taken, mm
    <3> HIDE DEF m
    <3> QED
      BY <3>1, <3>7, <3>8, <3>9 DEF MethodFound, Ptr, First
  <2> HIDE DEF m, p, delims, from, to
  <2> QED
    BY <1>4, <2>1, <2>4, <2>5, <2>6, <2>7, SplitLeaves
<1> QED
  BY <1>5, <1>6, <1>7

(* What the method's scan has found is the method.                         *)
LEMMA MethodIs ==
  ASSUME TInv, NEW t \in Threads, Parsed(t), MethodFound(t)
  PROVE  token[t] # NULL /\ StringAt(token[t]) = <<Text(t)[1]>>
<1> DEFINE B == mem[First(t)]
<1>1. B \in Seq(Symbols) /\ Len(B) \in Nat /\ First(t) \in Buffers
  BY BufferFacts DEF TInv, StringsOK, Memories
<1>2. token[t] = Ptr(First(t), 1) /\ Len(B) >= 2 /\ B[1] = Text(t)[1] /\ B[2] = "NUL"
  BY DEF MethodFound
<1>3. token[t] \in Pointers /\ token[t].buf = First(t) /\ token[t].pos = 1
  BY <1>1, <1>2 DEF Ptr, Pointers
<1>4. B[1] # "NUL"
  BY <1>2 DEF Parsed, Method
<1> HIDE DEF B
<1>5. FirstIn(B, 1, {"NUL"}) = 2
  <2> DEFINE set == {"NUL"}
             f == 2
  <2>1. f \in 1..Len(B) /\ B[f] \in set
    BY <1>1, <1>2
  <2>2. \A j \in 1..(f - 1) : j = 1
    OBVIOUS
  <2>3. \A j \in 1..(f - 1) : B[j] \notin set
    BY <1>4, <2>2
  <2> HIDE DEF set, f
  <2>4. FirstIn(B, 1, set) = f
    BY <1>1, <2>1, <2>3, FirstInIs
  <2> QED
    BY <2>4 DEF set, f
<1> DEFINE w == SubSeq(B, 1, 1)
<1>6. w \in Seq(Symbols) /\ Len(w) = 1 /\ w[1] = B[1]
  BY <1>1, <1>2
<1>7. StringAt(token[t]) = w
  <2>1. StringAt(token[t]) = SubSeq(mem[First(t)], 1, FirstIn(mem[First(t)], 1, {"NUL"}) - 1)
    BY <1>3, ConstantFacts DEF StringAt
  <2>2. 2 - 1 = 1
    OBVIOUS
  <2> QED
    BY <1>5, <2>1, <2>2 DEF B
<1> HIDE DEF w
<1>8. w = <<w[1]>>
  BY <1>6
<1> QED
  BY <1>2, <1>3, <1>6, <1>7, <1>8, ConstantFacts

LEMMA PlainParsed ==
  ASSUME TInv, NEW t \in Threads, Is(t, "plain")
  PROVE  Parsed(t)
BY TextFacts, FormAssumption DEF Is, Parsed, Text

LEMMA FinishUnderstood ==
  ASSUME TInv, TInv', Understood, NEW t \in Threads, Finish(t), Undisturbed' => Undisturbed, UNCHANGED serverType
  PROVE  Understood'
<1> DEFINE method == StringAt(token[t])
           size   == Len(input[t].text)
<1>1. /\ pc[t] = "method" /\ Goes(t, "method", "done") /\ NoScan
      /\ type' = [type EXCEPT ![t] = IF method \in {<<"POST">>, <<"GET">>} THEN Head(method) ELSE @]
      /\ data' = IF method = <<"POST">>
                 THEN [data EXCEPT ![t] = SubSeq(mem[Buffer(t)], headersize[t] + 1, size)]
                 ELSE data
      /\ queue' = Append(queue, t)
      /\ UNCHANGED <<input, headers, headersize, line, worker, replies, status, ranOn>>
  BY DEF Finish
<1>2. UNCHANGED <<input, headers, headersize, job, reg, todo, executed, replies, status, mem, saved, token>>
  BY <1>1 DEF worker, NoScan
<1>3. /\ pc'[t] = "done" /\ pc'[Worker] = pc[Worker]
      /\ \A u \in Threads : u # t => pc'[u] = pc[u]
  BY <1>1, Threaded DEF Goes, TInv, ThreadsOK
<1>4. /\ \A u \in Threads : u # t => type'[u] = type[u] /\ data'[u] = data[u]
      /\ type'[t] = IF method \in {<<"POST">>, <<"GET">>} THEN Head(method) ELSE type[t]
      /\ method = <<"POST">> => data'[t] = SubSeq(mem[Buffer(t)], headersize[t] + 1, size)
  BY <1>1 DEF TInv, ThreadsOK
<1>5. /\ Fresh /\ QueuedOnce /\ Working /\ Served /\ ExecutesRequest /\ Survived
      /\ Undisturbed => /\ ScansApart
                        /\ \A u \in Threads : Parsed(u) => ParsedWell(u)
                        /\ \A u \in Threads : Blank(u) => BlankStops(u)
  BY DEF Understood
<1>6. ASSUME Undisturbed', Parsed(t)' PROVE ParsedWell(t)'
  <2> DEFINE s == Text(t)
             e == End(s)
             B == mem[Buffer(t)]
  <2>1. Parsed(t) /\ BehindLines(t) /\ MethodFound(t)
    BY <1>1, <1>2, <1>5, <1>6 DEF Parsed, Text, ParsedWell
  <2>2. method = <<s[1]>> /\ s[1] \in {"GET", "POST"}
    BY <2>1, MethodIs DEF Parsed, Method
  <2>3. Head(method) = s[1] /\ method \in {<<"POST">>, <<"GET">>}
    BY <2>2
  <2>4. type'[t] = s[1]
    BY <1>4, <2>3
  <2>5. ASSUME s[1] = "POST" PROVE data'[t] = Body(s)
    <3>1. s \in Seq(Symbols) /\ Len(s) \in Nat /\ e \in 1..Len(s) /\ HeadersEnd(s, e)
      BY <2>1, TextFacts, EndIs DEF Parsed
    <3>2. B \in Seq(Symbols) /\ Len(B) = Len(s) + 1
      BY <1>1, BufferFacts DEF TInv, StringsOK, Memories, ThreadsOK, Progress, Text
    <3>3. headersize[t] = e + 3 /\ \A j \in (e + 4)..Len(s) : B[j] = s[j]
      BY <2>1 DEF BehindLines
    <3> HIDE DEF e, B
    <3> DEFINE m == e + 4
               n == Len(s)
    <3>4. data'[t] = SubSeq(B, m, n)
      <4>1. headersize[t] + 1 = m
        BY <3>1, <3>3
      <4> QED
        BY <1>4, <2>2, <2>5, <4>1 DEF Text, B
    <3>5. /\ m \in Nat \ {0} /\ n \in Nat /\ n <= Len(B) /\ n <= Len(s)
          /\ \A j \in m..n : B[j] = s[j]
      BY <3>1, <3>2, <3>3
    <3>6. Body(s) = SubSeq(s, m, n)
      BY DEF Body, e
    <3>7. SubSeq(B, m, n) = SubSeq(s, m, n)
      <4> HIDE DEF m, n, s
      <4> DEFINE x == SubSeq(B, m, n)
                 y == SubSeq(s, m, n)
      <4>1. /\ x \in Seq(Symbols) /\ Len(x) = IF m <= n THEN n - m + 1 ELSE 0
            /\ \A i \in 1..Len(x) : x[i] = B[m + i - 1]
        BY <3>2, <3>5, SubSeqFacts
      <4>2. /\ y \in Seq(Symbols) /\ Len(y) = IF m <= n THEN n - m + 1 ELSE 0
            /\ \A i \in 1..Len(y) : y[i] = s[m + i - 1]
        BY <3>1, <3>5, SubSeqFacts
      <4>3. \A i \in 1..Len(x) : m + i - 1 \in m..n
        BY <3>5, <4>1
      <4> HIDE DEF x, y
      <4>4. \A i \in 1..Len(x) : x[i] = y[i]
        BY <3>5, <4>1, <4>2, <4>3
      <4>5. x = y
        BY <4>1, <4>2, <4>4
      <4> QED
        BY <4>5 DEF x, y
    <3> QED
      BY <3>4, <3>6, <3>7
  <2>6. Text(t)' = s
    BY <1>2 DEF Text
  <2> HIDE DEF s
  <2>7. Packed(t)'
    BY <2>4, <2>5, <2>6 DEF Packed
  <2> QED
    BY <1>3, <2>7 DEF ParsedWell
<1>7. ASSUME Undisturbed' PROVE ~Blank(t)'
  BY <1>1, <1>2, <1>5, <1>7 DEF Blank, BlankStops, Text
<1>8. ASSUME NEW u \in Threads, u # t
      PROVE  Untouched(u) /\ (Is(u, "plain")' <=> Is(u, "plain"))
  BY <1>2, <1>3, <1>4, <1>8 DEF Untouched, Is
<1>9. ASSUME Undisturbed' PROVE ScansApart'
  <2>1. ScansApart
    BY <1>5, <1>9
  <2>2. /\ \A u \in Threads : Line(u)' = Line(u) /\ (pc'[u] = "value" => pc[u] = "value")
        /\ Own(saved.by)' = Own(saved'.by) /\ {Copy, Name}' = {Copy, Name}
    BY <1>3 DEF Line, Own, Copy, Name, Buffer, First
  <2> QED
    BY <1>2, <2>1, <2>2 DEF ScansApart
<1>10. /\ ~Waits(t) /\ job # t /\ replies[t] = << >> /\ executed[t] = NoCommand
  BY <1>1, <1>5 DEF QueuedOnce
<1>11. /\ DOMAIN queue' = DOMAIN queue \cup {Len(queue) + 1} /\ Len(queue) + 1 \notin DOMAIN queue
       /\ queue'[Len(queue) + 1] = t /\ \A i \in DOMAIN queue : queue'[i] = queue[i]
  <2>1. queue \in Seq(Threads) /\ Len(queue) \in Nat
    BY DEF TInv, WorkerOK
  <2> QED
    BY <1>1, <2>1, AppendProperties
<1>12. \A u \in Threads : Waits(u)' <=> Waits(u) \/ u = t
  BY <1>11 DEF Waits
<1>13. QueuedOnce'
  <2>1. \A i, j \in DOMAIN queue' : queue'[i] = queue'[j] => i = j
    BY <1>5, <1>10, <1>11 DEF QueuedOnce, Waits
  <2>2. \A u \in Threads : Waits(u)' \/ job' = u => pc'[u] = "done"
    BY <1>2, <1>3, <1>5, <1>12 DEF QueuedOnce
  <2>3. \A u \in Threads : Waits(u)' => job' # u
    BY <1>2, <1>5, <1>10, <1>12 DEF QueuedOnce
  <2>4. \A u \in Threads : pc'[u] # "done" \/ Waits(u)' => replies'[u] = << >> /\ executed'[u] = NoCommand
    BY <1>2, <1>3, <1>5, <1>10, <1>12 DEF QueuedOnce
  <2> QED
    BY <2>1, <2>2, <2>3, <2>4 DEF QueuedOnce
<1>14. Working'
  <2>1. job # NULL => job \in Threads /\ job # t
    BY <1>10 DEF TInv, WorkerOK
  <2> QED
    BY <1>2, <1>3, <1>4, <1>5, <2>1, WorkingStays
<1>15. Served'
  <2>1. ~Handled(t)'
    BY <1>11 DEF Handled
  <2>2. \A u \in Threads : Handled(u) <=> pc[u] = "done" /\ job # u /\ ~Waits(u)
    BY DEF Handled, Waits
  <2>3. \A u \in Threads : Handled(u)' <=> pc'[u] = "done" /\ job' # u /\ ~Waits(u)'
    BY DEF Handled, Waits
  <2>4. \A u \in Threads : u # t => (Handled(u)' <=> Handled(u))
    BY <1>2, <1>3, <1>12, <2>2, <2>3
  <2> QED
    BY <1>2, <1>4, <1>5, <1>8, <2>1, <2>4, ToldStays DEF Served, PlainRun
<1>16. ExecutesRequest' /\ Survived' /\ Fresh'
  <2>1. ExecutesRequest'
    BY <1>2, <1>5 DEF ExecutesRequest, Is
  <2>2. Survived'
    BY <1>2, <1>5 DEF Survived, Ok, Is
  <2>3. Fresh'
    BY <1>2, <1>3, <1>5 DEF Fresh
  <2> QED
    BY <2>1, <2>2, <2>3
<1>17. Undisturbed' => /\ ScansApart'
                       /\ \A u \in Threads : Parsed(u)' => ParsedWell(u)'
                       /\ \A u \in Threads : Blank(u)' => BlankStops(u)'
  BY <1>5, <1>6, <1>7, <1>8, <1>9, UntouchedStays
<1> QED
  BY <1>13, <1>14, <1>15, <1>16, <1>17 DEF Understood

(* Only what was disturbed or is not plain brings the server down.         *)
LEMMA CrashUnderstood ==
  ASSUME Understood, NEW a, NEW at, Crashes(a, at), UNCHANGED serverType,
         Undisturbed => \E t \in Threads : input[t] # NULL /\ ~Is(t, "plain")
  PROVE  Understood'
<1>1. /\ UNCHANGED <<input, mem, saved, pc, token, headers, headersize, line, type, data, queue, job>>
      /\ UNCHANGED <<reg, todo, executed, replies, mixed, ranOn>>
  BY DEF Crashes, packet, worker
<1>2. /\ Fresh /\ QueuedOnce /\ Working /\ Served /\ ExecutesRequest
      /\ Undisturbed => /\ ScansApart
                        /\ \A u \in Threads : Parsed(u) => ParsedWell(u)
                        /\ \A u \in Threads : Blank(u) => BlankStops(u)
  BY DEF Understood
<1>3. (Undisturbed' <=> Undisturbed) /\ \A t \in Threads : Is(t, "plain")' <=> Is(t, "plain")
  BY <1>1 DEF Undisturbed, Is
<1>4. Survived'
  BY <1>1, <1>3 DEF Survived
<1>5. \A u \in Threads : Untouched(u)
  BY <1>1 DEF Untouched
<1>6. Undisturbed' => /\ \A u \in Threads : Parsed(u)' => ParsedWell(u)'
                      /\ \A u \in Threads : Blank(u)' => BlankStops(u)'
  BY <1>2, <1>3, <1>5, UntouchedStays
<1>7. Undisturbed' => ScansApart'
  <2>1. /\ \A u \in Threads : Line(u)' = Line(u)
        /\ Own(saved.by)' = Own(saved'.by) /\ {Copy, Name}' = {Copy, Name}
    BY DEF Line, Own, Copy, Name, Buffer, First
  <2> QED
    BY <1>1, <1>2, <1>3, <2>1 DEF ScansApart
<1>8. Working'
  BY <1>1, <1>2, <1>3, WorkingStays
<1>9. Fresh' /\ QueuedOnce' /\ Served' /\ ExecutesRequest'
  <2>1. Served'
    BY <1>1, <1>2, <1>3, ToldStays DEF Served, Handled, PlainRun
  <2> QED
    BY <1>1, <1>2, <1>3, <2>1 DEF Fresh, QueuedOnce, ExecutesRequest, Waits
<1> QED
  BY <1>4, <1>6, <1>7, <1>8, <1>9 DEF Understood

LEMMA ParseCrashUnderstood ==
  ASSUME TInv, Understood, NEW t \in Threads, ParseCrashes(t), UNCHANGED serverType
  PROVE  Understood'
<1>1. pc[t] \in {"split", "method"} /\ \E at : Crashes(t, at)
  BY DEF ParseCrashes, Crashes
<1>2. input[t] # NULL
  BY <1>1, ConstantFacts DEF TInv, ThreadsOK, Progress
<1>3. ASSUME Undisturbed, Is(t, "plain") PROVE FALSE
  <2>1. Parsed(t) /\ ParsedWell(t)
    BY <1>3, PlainParsed DEF Understood
  <2>2. CASE headers[t] = << >> /\ pc[t] = "split"
    BY <2>1, <2>2 DEF ParsedWell, BehindLines, FirstLine
  <2>3. CASE pc[t] = "method"
    <3>1. token[t] # NULL /\ BehindLines(t)
      BY <2>1, <2>3, MethodIs DEF ParsedWell
    <3>2. headersize[t] <= Len(Text(t))
      <4>1. End(Text(t)) \in 1..Len(Text(t)) /\ HeadersEnd(Text(t), End(Text(t))) /\ Len(Text(t)) \in Nat
        BY <2>1, TextFacts, EndIs DEF Parsed
      <4> QED
        BY <3>1, <4>1 DEF BehindLines, HeadersEnd
    <3>3. headersize[t] > Len(Text(t))
      BY <2>3, <3>1 DEF ParseCrashes, Crashes, Text
    <3>4. headersize[t] \in Nat /\ Len(Text(t)) \in Nat
      BY <1>2, TextFacts DEF TInv, ThreadsOK
    <3> QED
      BY <3>2, <3>3, <3>4
  <2> QED
    BY <2>2, <2>3 DEF ParseCrashes, Crashes
<1> QED
  BY <1>1, <1>2, <1>3, CrashUnderstood

-----------------------------------------------------------------------------
(* The worker's scans.                                                     *)

LEMMA ScansLeft ==
  ASSUME NEW S \in Seq(ScanSet), NEW k \in 0..Len(S), NEW left, left = SubSeq(S, k + 1, Len(S))
  PROVE  /\ left = << >> <=> k = Len(S)
         /\ left # << >> => k + 1 \in 1..Len(S) /\ Head(left) = S[k + 1]
                            /\ Tail(left) = SubSeq(S, k + 2, Len(S))
<1>1. Len(S) \in Nat /\ k \in Nat /\ k <= Len(S)
  OBVIOUS
<1>2. CASE k = Len(S)
  <2>1. Len(S) < k + 1 /\ k + 1 \in Int /\ Len(S) \in Int
    BY <1>1, <1>2
  <2>2. left = << >>
    BY <2>1, SubSeqEmpty
  <2> QED
    BY <1>2, <2>2
<1>3. CASE k # Len(S)
  <2>1. k + 1 \in 1..Len(S) /\ Len(S) \in (k + 1)..Len(S) /\ k + 1 + 1 = k + 2
    BY <1>1, <1>3
  <2>2. Head(left) = S[k + 1] /\ Tail(left) = SubSeq(S, k + 2, Len(S))
    BY <2>1, HeadTailOfSubSeq
  <2>3. Len(left) = Len(S) - k
    BY <1>1, <2>1
  <2>4. Len(left) # 0 /\ Len(<< >>) = 0
    BY <1>1, <1>3, <2>3
  <2>5. left # << >>
    BY <2>4
  <2> QED
    BY <1>3, <2>1, <2>2, <2>5
<1> QED
  BY <1>2, <1>3

(* Where a scan is meant to find its token, it does.                       *)
LEMMA ScanStep ==
  ASSUME TInv, ScansApart, WorkerScan, ~mixed', job \in Threads,
         NEW b \in Seq(Symbols), NEW S \in Seq(ScanSet), NEW starts, NEW ends, NEW cuts,
         NEW from \in Registers, NEW k \in 0..Len(S),
         \A i \in 1..Len(S) : Fits(b, S, starts, ends, cuts, from, i),
         ScansDone(b, S, starts, ends, cuts, from, k)
  PROVE  /\ k + 1 \in 1..Len(S)
         /\ ScansDone(b, S, starts, ends, cuts, from, k + 1)'
         /\ \A r \in Registers : r # S[k + 1].to => reg'[r] = reg[r]
         /\ replies' = replies
<1> DEFINE n == k + 1
           s == S[n]
           p == starts[n]
           e == ends[n]
           f == IF s.from = "next" THEN NULL ELSE reg[s.from]
           M == mem[Copy]
<1>1. n \in 1..Len(S) /\ Head(todo) = s /\ Tail(todo) = SubSeq(S, n + 1, Len(S)) /\ k \in Nat
  <2>1. todo # << >> /\ todo = SubSeq(S, k + 1, Len(S)) /\ k + 2 = n + 1
    BY DEF WorkerScan, ScansDone
  <2> QED
    BY <2>1, ScansLeft
<1>2. /\ Scans(Worker, mem, f, {s.delim})
      /\ reg' = [reg EXCEPT ![s.to] = token'[Worker]] /\ todo' = SubSeq(S, n + 1, Len(S))
      /\ Replies(IF \E r \in s.tested : reg'[r] = NULL THEN <<400>> ELSE << >>)
  BY <1>1 DEF WorkerScan
<1>3. s \in ScanSet /\ Len(b) \in Nat /\ Len(S) \in Nat
  BY <1>1
<1>4. /\ s.to \in Registers /\ s.from \in Registers \cup {"next"} /\ s.delim # "NUL"
      /\ s.tested \subseteq Registers
  BY <1>3 DEF ScanSet
<1>5. Fits(b, S, starts, ends, cuts, from, n)
  BY <1>1
<1> DEFINE gone == Cuts(cuts, ends, k)
<1>6. n - 1 = k /\ n - 2 = k - 1
  BY <1>1
<1>7. /\ s.to # from /\ \A i \in 1..k : S[i].to # s.to
      /\ p \in 1..Len(b) /\ e \in (p + 1)..(Len(b) + 1)
      /\ \A j \in p..(e - 1) : j \notin gone /\ b[j] \notin {s.delim, "NUL"}
      /\ e <= Len(b) => e \in gone \/ b[e] = s.delim
      /\ s.from = "next" => n > 1
      /\ s.from # "next" => \/ s.from = from /\ p = starts[1]
                            \/ \E i \in 1..k : S[i].to = s.from /\ starts[i] = p
      /\ \A r \in s.tested : \E i \in 1..n : S[i].to = r
  BY <1>5, <1>6 DEF Fits
<1>8. /\ CutAt(b, gone) /\ At(from, starts[1]) /\ \A i \in 1..k : At(S[i].to, starts[i])
      /\ s.from = "next" => GoesOnAt(p)
  <2>1. n > 1 => k \in 1..(Len(S) - 1)
    BY <1>1, <1>3
  <2> QED
    BY <1>7, <2>1 DEF ScansDone
<1>9. /\ StringsOK /\ mem \in Memories /\ reg \in [Registers -> Pointers \cup {NULL}]
      /\ Copy \in Buffers /\ Worker \in Actors
  BY BufferFacts, Threaded DEF TInv, StringsOK, WorkerOK
<1>10. p \in Nat \ {0} /\ Ptr(Copy, p) \in Pointers /\ Ptr(Copy, p) # NULL
  <2>1. p \in Nat \ {0}
    BY <1>3, <1>7
  <2>2. Ptr(Copy, p) \in Pointers
    BY <1>9, <2>1 DEF Ptr, Pointers
  <2> QED
    BY <2>1, <2>2, ConstantFacts
<1> HIDE DEF gone, M, p, e, s
<1>11. /\ f \in Pointers \cup {NULL} /\ (f # NULL => f = Ptr(Copy, p))
       /\ f = NULL => s.from = "next"
  <2>1. CASE s.from = "next"
    BY <2>1
  <2>2. CASE s.from # "next"
    <3>1. reg[s.from] = Ptr(Copy, p)
      BY <1>7, <1>8, <2>2 DEF At
    <3> QED
      BY <1>10, <2>2, <3>1
  <2> QED
    BY <2>1, <2>2
<1> HIDE DEF f
<1> DEFINE delims == {s.delim}
<1>12. f = NULL => saved.buf = Copy /\ saved.pos = p
  <2>1. f # NULL => f.buf \in Own(Worker)
    BY <1>11, OwnApart DEF Ptr
  <2>2. f = NULL => saved.by = Worker
    <3>1. Scans(Worker, mem, f, delims)
      BY <1>2
    <3> HIDE DEF delims
    <3> QED
      BY <1>9, <1>11, <2>1, <3>1, OwnScan
  <2> QED
    BY <1>8, <1>11, <2>2 DEF GoesOnAt
<1>13. /\ M \in Seq(Symbols) /\ Len(M) = Len(b) + 1 /\ M[Len(b) + 1] = "NUL"
       /\ \A i \in 1..Len(b) : M[i] = IF i \in gone THEN "NUL" ELSE b[i]
  BY <1>8, <1>9 DEF CutAt, M, Memories
<1>14. Token(M, p, p, e, delims)
  <2>1. p \in p..Len(M) /\ e \in p..Len(M) /\ p \in p..(e - 1)
    BY <1>3, <1>7, <1>13
  <2>2. \A j \in p..(e - 1) : M[j] \notin delims \cup {"NUL"}
    <3>1. \A j \in p..(e - 1) : j \in 1..Len(b)
      BY <1>3, <1>7
    <3> QED
      BY <1>7, <1>13, <3>1
  <2>3. M[e] \in delims \cup {"NUL"}
    <3>1. e \in 1..Len(b) \/ e = Len(b) + 1
      <4>1. p \in 1..Len(b) /\ e \in (p + 1)..(Len(b) + 1)
        BY <1>7
      <4> QED
        BY <1>3, <4>1
    <3>2. e \in 1..Len(b) => e \in gone \/ b[e] = s.delim
      <4>1. e \in 1..Len(b) => e <= Len(b)
        BY <1>3
      <4> QED
        BY <1>7, <4>1
    <3> QED
      BY <1>13, <3>1, <3>2
  <2>4. \A j \in p..(p - 1) : FALSE
    BY <1>10
  <2> HIDE DEF delims
  <2> QED
    BY <2>1, <2>2, <2>3, <2>4 DEF Token
<1>15. Taken(Worker, Copy, M, p, e)
  <2>1. Scans(Worker, mem, f, delims) /\ Token(mem[Copy], p, p, e, delims)
    BY <1>2, <1>14 DEF M
  <2> HIDE DEF delims
  <2> QED
    BY <1>9, <1>10, <1>11, <1>12, <2>1, ScansFind DEF M
<1>16. /\ reg'[s.to] = Ptr(Copy, p) /\ \A r \in Registers : r # s.to => reg'[r] = reg[r]
  BY <1>2, <1>4, <1>9, <1>15 DEF Taken
<1>17. /\ Len(mem'[Copy]) = Len(b) + 1 /\ mem'[Copy][e] = "NUL"
       /\ \A j \in 1..(Len(b) + 1) : j # e => mem'[Copy][j] = M[j]
       /\ saved'.buf = Copy /\ saved'.pos = IF M[e] = "NUL" THEN e ELSE e + 1
  BY <1>13, <1>15 DEF Taken
<1>18. Cuts(cuts, ends, n) = gone \cup {e}
  <2>1. \A i : i \in 1..n <=> i \in 1..k \/ i = n
    BY <1>1
  <2> QED
    BY <2>1 DEF Cuts, gone, e
<1>19. CutAt(b, Cuts(cuts, ends, n))'
  <2>1. Len(b) + 1 \in 1..(Len(b) + 1)
    BY <1>3
  <2>2. mem'[Copy][Len(b) + 1] = "NUL"
    BY <1>13, <1>17, <2>1
  <2>3. ASSUME NEW i \in 1..Len(b)
        PROVE  mem'[Copy][i] = IF i \in gone \cup {e} THEN "NUL" ELSE b[i]
    <3>1. i \in 1..(Len(b) + 1)
      BY <1>3
    <3> QED
      BY <1>13, <1>17, <3>1
  <2>4. Copy' = Copy /\ Cuts(cuts, ends, n)' = Cuts(cuts, ends, n)
    BY DEF Copy
  <2> QED
    BY <1>17, <1>18, <2>2, <2>3, <2>4 DEF CutAt
<1>20. At(from, starts[1])' /\ \A i \in 1..n : At(S[i].to, starts[i])'
  <2>1. \A r, q : r \in Registers /\ r # s.to /\ At(r, q) => At(r, q)'
    BY <1>16 DEF At, Ptr, Copy
  <2>2. At(s.to, p)'
    BY <1>16 DEF At, Ptr, Copy
  <2>3. \A i \in 1..n : i \in 1..k \/ i = n
    BY <1>1
  <2>4. \A i \in 1..k : S[i].to \in Registers
    <3>1. \A i \in 1..k : i \in 1..Len(S)
      BY <1>1
    <3>2. \A x \in ScanSet : x.to \in Registers
      BY DEF ScanSet
    <3>3. \A i \in 1..Len(S) : S[i] \in ScanSet
      OBVIOUS
    <3> QED
      BY <3>1, <3>2, <3>3
  <2> QED
    BY <1>7, <1>8, <2>1, <2>2, <2>3, <2>4 DEF s, p
<1>21. ASSUME n \in 1..(Len(S) - 1), S[n + 1].from = "next" PROVE GoesOnAt(starts[n + 1])'
  <2>1. n + 1 \in 1..Len(S) /\ n + 1 - 1 = n /\ n + 1 - 2 = k
    BY <1>1, <1>21
  <2>2. /\ starts[n + 1] \in 1..Len(b) /\ starts[n + 1] = e + 1 /\ e \notin gone
    <3> DEFINE o == n + 1
    <3>1. Fits(b, S, starts, ends, cuts, from, o) /\ S[o].from = "next"
      BY <1>21, <2>1
    <3>2. o - 1 = n /\ o - 2 = k
      BY <2>1
    <3> HIDE DEF o, n
    <3>3. starts[o] \in 1..Len(b) /\ starts[o] = ends[n] + 1 /\ ends[n] \notin Cuts(cuts, ends, k)
      BY <3>1, <3>2 DEF Fits
    <3> QED
      BY <3>3 DEF o, e, gone, n
  <2>3. e \in 1..Len(b)
    BY <1>3, <1>7, <2>2
  <2>4. M[e] = s.delim
    BY <1>3, <1>7, <1>13, <2>2, <2>3
  <2> QED
    BY <1>4, <1>17, <2>2, <2>4 DEF GoesOnAt, Copy
<1>22. ScansDone(b, S, starts, ends, cuts, from, n)'
  BY <1>2, <1>19, <1>20, <1>21 DEF ScansDone
<1>23. \A r \in s.tested : reg'[r] # NULL
  <2>1. \A i \in 1..n : starts[i] \in Nat \ {0}
    <3>1. \A i \in 1..n : i \in 1..Len(S)
      BY <1>1
    <3>2. \A i \in 1..n : starts[i] \in 1..Len(b)
      BY <3>1 DEF Fits
    <3> QED
      BY <1>3, <3>2
  <2>2. \A i \in 1..n : Ptr(Copy, starts[i]) # NULL
    <3>1. \A i \in 1..n : Ptr(Copy, starts[i]) \in Pointers
      BY <1>9, <2>1 DEF Ptr, Pointers
    <3> QED
      BY <3>1, ConstantFacts
  <2>3. \A i \in 1..n : reg'[S[i].to] = Ptr(Copy, starts[i])
    BY <1>20 DEF At, Ptr, Copy
  <2>4. ASSUME NEW r \in s.tested PROVE reg'[r] # NULL
    <3>1. PICK i \in 1..n : S[i].to = r
      BY <1>7
    <3> HIDE DEF n
    <3> QED
      BY <2>2, <2>3, <3>1
  <2> QED
    BY <2>4
<1>24. replies' = replies
  <2>1. Replies(<< >>)
    BY <1>2, <1>23
  <2>2. replies \in [Threads -> Seq(Nat)]
    BY DEF TInv, RestOK
  <2>3. replies[job] \o << >> = replies[job]
    BY <2>2
  <2> QED
    BY <2>1, <2>2, <2>3 DEF Replies
<1> QED
  BY <1>1, <1>16, <1>22, <1>24 DEF s

LEMMA CutsNext ==
  ASSUME NEW cuts, NEW ends, NEW k \in Nat
  PROVE  Cuts(cuts, ends, 0) = cuts /\ Cuts(cuts, ends, k + 1) = Cuts(cuts, ends, k) \cup {ends[k + 1]}
<1>1. \A i : i \in 1..(k + 1) <=> i \in 1..k \/ i = k + 1
  OBVIOUS
<1>2. 1..0 = {}
  OBVIOUS
<1> QED
  BY <1>1, <1>2 DEF Cuts

(* The data of a command, place by place.                                  *)
LEMMA BodyFacts ==
  ASSUME NEW b \in Seq(Symbols), Fields(b), Len(b) \in {7, 11, 15}
  PROVE  /\ \A i \in {1, 3, 5, 7} : b[i] \notin {"=", "&", "NUL"}
         /\ b[2] = "=" /\ b[4] = "&" /\ b[6] = "="
         /\ Len(b) # 7 => /\ b[8] = "&" /\ b[10] = "="
                          /\ \A i \in {9, 11} : b[i] \notin {"=", "&", "NUL"}
         /\ Len(b) = 15 => /\ b[12] = "&" /\ b[14] = "="
                           /\ \A i \in {13, 15} : b[i] \notin {"=", "&", "NUL"}
         /\ \A i \in 1..Len(b) : b[i] # "NUL"
<1>1. \A i \in 1..Len(b) : /\ i % 2 = 1 => b[i] \notin {"=", "&", "NUL"}
                           /\ i % 4 = 2 => b[i] = "="
                           /\ i % 4 = 0 => b[i] = "&"
  BY DEF Fields
<1>2. /\ 1 % 2 = 1 /\ 3 % 2 = 1 /\ 5 % 2 = 1 /\ 7 % 2 = 1 /\ 9 % 2 = 1 /\ 11 % 2 = 1
      /\ 13 % 2 = 1 /\ 15 % 2 = 1
      /\ 2 % 4 = 2 /\ 6 % 4 = 2 /\ 10 % 4 = 2 /\ 14 % 4 = 2
      /\ 4 % 4 = 0 /\ 8 % 4 = 0 /\ 12 % 4 = 0
  OBVIOUS
<1> DEFINE n == Len(b)
<1>3. n \in {7, 11, 15} /\ n \in Nat /\ (n = 7 \/ n = 11 \/ n = 15)
  OBVIOUS
<1> HIDE DEF n
<1>4. /\ \A i \in {1, 2, 3, 4, 5, 6, 7} : i \in 1..n
      /\ n # 7 => \A i \in {8, 9, 10, 11} : i \in 1..n
      /\ n = 15 => \A i \in {12, 13, 14, 15} : i \in 1..n
  BY <1>3
<1>5. \A i \in 1..n : \/ i \in {1, 2, 3, 4, 5, 6, 7}
                      \/ n # 7 /\ i \in {8, 9, 10, 11}
                      \/ n = 15 /\ i \in {12, 13, 14, 15}
  BY <1>3
<1> USE DEF n
<1>6. \A i \in {1, 3, 5, 7} : b[i] \notin {"=", "&", "NUL"}
  BY <1>1, <1>2, <1>4
<1>7. b[2] = "=" /\ b[4] = "&" /\ b[6] = "="
  BY <1>1, <1>2, <1>4
<1>8. Len(b) # 7 => /\ b[8] = "&" /\ b[10] = "="
                    /\ \A i \in {9, 11} : b[i] \notin {"=", "&", "NUL"}
  BY <1>1, <1>2, <1>4
<1>9. Len(b) = 15 => /\ b[12] = "&" /\ b[14] = "="
                     /\ \A i \in {13, 15} : b[i] \notin {"=", "&", "NUL"}
  BY <1>1, <1>2, <1>4
<1>10. ASSUME NEW i \in 1..Len(b) PROVE b[i] # "NUL"
  <2>1. \/ i \in {1, 2, 3, 4, 5, 6, 7}
        \/ Len(b) # 7 /\ i \in {8, 9, 10, 11}
        \/ Len(b) = 15 /\ i \in {12, 13, 14, 15}
    BY <1>5
  <2> QED
    BY <1>6, <1>7, <1>8, <1>9, <2>1
<1> QED
  BY <1>6, <1>7, <1>8, <1>9, <1>10

LEMMA CommandFits ==
  ASSUME NEW b \in Seq(Symbols), Fields(b), Len(b) \in {7, 11, 15}
  PROVE  /\ Len(CommandScans) = 6
         /\ CommandScans[4].to = "op_value" /\ CommandScans[5].to = "op_datafield"
         /\ CommandScans[6].to = "op_datavalue"
         /\ \A i \in 1..6 : /\ Fits(b, CommandScans, CommandStarts, CommandEnds, {}, "copy", i)
                            /\ CommandScans[i].to # "weight_value"
<1> DEFINE S == CommandScans
           A == CommandStarts
           E == CommandEnds
           C(k) == Cuts({}, E, k)
<1>1. /\ Len(S) = 6
      /\ S[1].to = "op" /\ S[1].from = "copy" /\ S[1].delim = "&" /\ S[1].tested = {}
      /\ S[2].to = "opdata" /\ S[2].from = "next" /\ S[2].delim = "&" /\ S[2].tested = {"op", "opdata"}
      /\ S[3].to = "op_field" /\ S[3].from = "op" /\ S[3].delim = "=" /\ S[3].tested = {}
  BY DEF CommandScans, Scan
<1>2. /\ S[4].to = "op_value" /\ S[4].from = "next" /\ S[4].delim = "=" /\ S[4].tested = {"op_field", "op_value"}
      /\ S[5].to = "op_datafield" /\ S[5].from = "opdata" /\ S[5].delim = "=" /\ S[5].tested = {}
      /\ S[6].to = "op_datavalue" /\ S[6].from = "next" /\ S[6].delim = "="
      /\ S[6].tested = {"op_datafield", "op_datavalue"}
  BY DEF CommandScans, Scan
<1>3. /\ A[1] = 1 /\ A[2] = 5 /\ A[3] = 1 /\ A[4] = 3 /\ A[5] = 5 /\ A[6] = 7
      /\ E[1] = 4 /\ E[2] = 8 /\ E[3] = 2 /\ E[4] = 4 /\ E[5] = 6 /\ E[6] = 8
  BY DEF CommandStarts, CommandEnds
<1> HIDE DEF S, A, E
<1>4. /\ C(0) = {} /\ C(1) = {4} /\ C(2) = {4, 8} /\ C(3) = {2, 4, 8} /\ C(4) = {2, 4, 8}
      /\ C(5) = {2, 4, 6, 8}
  <2>1. C(0) = {} /\ \A k \in Nat : C(k + 1) = C(k) \cup {E[k + 1]}
    BY CutsNext
  <2> HIDE DEF C
  <2>2. /\ C(0 + 1) = C(0) \cup {E[0 + 1]} /\ C(1 + 1) = C(1) \cup {E[1 + 1]}
        /\ C(2 + 1) = C(2) \cup {E[2 + 1]} /\ C(3 + 1) = C(3) \cup {E[3 + 1]}
        /\ C(4 + 1) = C(4) \cup {E[4 + 1]}
    BY <2>1
  <2> QED
    BY <1>3, <2>1, <2>2
<1>5. /\ \A i \in {1, 3, 5, 7} : b[i] \notin {"=", "&", "NUL"}
      /\ b[2] = "=" /\ b[4] = "&" /\ b[6] = "=" /\ (Len(b) # 7 => b[8] = "&")
      /\ \A i \in 1..Len(b) : b[i] # "NUL"
  BY BodyFacts
<1>6. /\ 1..0 = {} /\ 1..1 = {1} /\ 1..2 = {1, 2} /\ 1..3 = {1, 2, 3} /\ 1..4 = {1, 2, 3, 4}
      /\ 1..5 = {1, 2, 3, 4, 5} /\ 5..7 = {5, 6, 7} /\ 3..3 = {3} /\ 5..5 = {5} /\ 7..7 = {7}
  OBVIOUS
<1> HIDE DEF C
<1>7. Fits(b, S, A, E, {}, "copy", 1)
  BY <1>1, <1>3, <1>4, <1>5, <1>6 DEF Fits, C
<1>8. Fits(b, S, A, E, {}, "copy", 2)
  <2>1. /\ \A i \in 1..(2 - 1) : i = 1
        /\ \A j \in 5..(8 - 1) : j \notin {4} /\ b[j] \notin {"&", "NUL"}
        /\ 5 \in 1..Len(b) /\ 8 \in (5 + 1)..(Len(b) + 1)
        /\ 2 - 1 = 1 /\ 2 - 2 = 0 /\ 1 \in 1..2 /\ 2 \in 1..2
        /\ 8 <= Len(b) => b[8] = "&"
    BY <1>5, <1>6
  <2> QED
    BY <1>1, <1>3, <1>4, <2>1 DEF Fits, C
<1>9. Fits(b, S, A, E, {}, "copy", 3)
  BY <1>1, <1>3, <1>4, <1>5, <1>6 DEF Fits, C
<1>10. Fits(b, S, A, E, {}, "copy", 4)
  <2>1. /\ \A i \in 1..(4 - 1) : i \in {1, 2, 3}
        /\ \A j \in 3..(4 - 1) : j \notin {2, 4, 8} /\ b[j] \notin {"=", "NUL"}
        /\ 3 \in 1..Len(b) /\ 4 \in (3 + 1)..(Len(b) + 1)
        /\ 4 - 1 = 3 /\ 4 - 2 = 2 /\ 3 \in 1..4 /\ 4 \in 1..4
    BY <1>5, <1>6
  <2> QED
    BY <1>1, <1>2, <1>3, <1>4, <2>1 DEF Fits, C
<1>11. Fits(b, S, A, E, {}, "copy", 5)
  BY <1>1, <1>2, <1>3, <1>4, <1>5, <1>6 DEF Fits, C
<1>12. Fits(b, S, A, E, {}, "copy", 6)
  <2>1. /\ \A i \in 1..(6 - 1) : i \in {1, 2, 3, 4, 5}
        /\ \A j \in 7..(8 - 1) : j \notin {2, 4, 6, 8} /\ b[j] \notin {"=", "NUL"}
        /\ 7 \in 1..Len(b) /\ 8 \in (7 + 1)..(Len(b) + 1)
        /\ 6 - 1 = 5 /\ 6 - 2 = 4 /\ 5 \in 1..6 /\ 6 \in 1..6
    BY <1>5, <1>6
  <2> QED
    BY <1>1, <1>2, <1>3, <1>4, <2>1 DEF Fits, C
<1>13. \A i \in 1..6 : i \in {1, 2, 3, 4, 5, 6}
  OBVIOUS
<1> QED
  BY <1>1, <1>2, <1>7, <1>8, <1>9, <1>10, <1>11, <1>12, <1>13 DEF S, A, E

LEMMA AddFits ==
  ASSUME NEW b \in Seq(Symbols), Fields(b), Len(b) = 15
  PROVE  /\ Len(AddScans) = 6
         /\ AddScans[4].to = "port_value" /\ AddScans[6].to = "weight_value"
         /\ \A i \in 1..6 : /\ Fits(b, AddScans, AddStarts, AddEnds, {2, 4, 6, 8}, "rest", i)
                            /\ AddScans[i].to # "op_datavalue"
<1> DEFINE S == AddScans
           A == AddStarts
           E == AddEnds
           c == {2, 4, 6, 8}
           C(k) == Cuts(c, E, k)
<1>1. /\ Len(S) = 6
      /\ S[1].to = "port" /\ S[1].from = "rest" /\ S[1].delim = "&" /\ S[1].tested = {}
      /\ S[2].to = "weight" /\ S[2].from = "next" /\ S[2].delim = "&" /\ S[2].tested = {}
      /\ S[3].to = "port_field" /\ S[3].from = "port" /\ S[3].delim = "=" /\ S[3].tested = {}
  BY DEF AddScans, PortScans, WeightScans, Scan
<1>2. /\ S[4].to = "port_value" /\ S[4].from = "next" /\ S[4].delim = "=" /\ S[4].tested = {}
      /\ S[5].to = "weight_field" /\ S[5].from = "weight" /\ S[5].delim = "=" /\ S[5].tested = {}
      /\ S[6].to = "weight_value" /\ S[6].from = "next" /\ S[6].delim = "=" /\ S[6].tested = {}
  BY DEF AddScans, PortScans, WeightScans, Scan
<1>3. /\ A[1] = 9 /\ A[2] = 13 /\ A[3] = 9 /\ A[4] = 11 /\ A[5] = 13 /\ A[6] = 15
      /\ E[1] = 12 /\ E[2] = 16 /\ E[3] = 10 /\ E[4] = 12 /\ E[5] = 14 /\ E[6] = 16
  BY DEF AddStarts, AddEnds
<1> HIDE DEF S, A, E
<1>4. /\ C(0) = c /\ C(1) = c \cup {12} /\ C(2) = c \cup {12, 16} /\ C(3) = c \cup {10, 12, 16}
      /\ C(4) = c \cup {10, 12, 16} /\ C(5) = c \cup {10, 12, 14, 16}
  <2>1. C(0) = c /\ \A k \in Nat : C(k + 1) = C(k) \cup {E[k + 1]}
    BY CutsNext
  <2> HIDE DEF C, c
  <2>2. C(1) = C(0) \cup {E[1]} /\ C(2) = C(1) \cup {E[2]} /\ C(3) = C(2) \cup {E[3]}
    <3>1. /\ C(0 + 1) = C(0) \cup {E[0 + 1]} /\ C(1 + 1) = C(1) \cup {E[1 + 1]}
          /\ C(2 + 1) = C(2) \cup {E[2 + 1]}
      BY <2>1
    <3> QED
      BY <3>1
  <2>3. C(4) = C(3) \cup {E[4]} /\ C(5) = C(4) \cup {E[5]}
    <3>1. C(3 + 1) = C(3) \cup {E[3 + 1]} /\ C(4 + 1) = C(4) \cup {E[4 + 1]}
      BY <2>1
    <3> QED
      BY <3>1
  <2>4. C(1) = c \cup {12} /\ C(2) = c \cup {12, 16}
    BY <1>3, <2>1, <2>2
  <2>5. C(3) = c \cup {10, 12, 16}
    BY <1>3, <2>2, <2>4
  <2>6. C(4) = c \cup {10, 12, 16}
    BY <1>3, <2>3, <2>5
  <2>7. C(5) = c \cup {10, 12, 14, 16}
    BY <1>3, <2>3, <2>6
  <2> QED
    BY <2>1, <2>4, <2>5, <2>6, <2>7
<1>5. /\ \A i \in {9, 11, 13, 15} : b[i] \notin {"=", "&", "NUL"}
      /\ b[10] = "=" /\ b[12] = "&" /\ b[14] = "=" /\ Len(b) = 15
  <2>1. Len(b) \in {7, 11, 15} /\ Len(b) # 7
    OBVIOUS
  <2> QED
    BY <2>1, BodyFacts
<1>6. \A i \in c : i < 9
  OBVIOUS
<1> HIDE DEF C, c
<1>7. Fits(b, S, A, E, c, "rest", 1)
  <2>1. /\ \A i \in 1..(1 - 1) : FALSE
        /\ \A j \in 9..(12 - 1) : j \notin c /\ b[j] \notin {"&", "NUL"}
        /\ 9 \in 1..15 /\ 12 \in (9 + 1)..(15 + 1) /\ 1 - 1 = 0
    BY <1>5, <1>6
  <2> QED
    BY <1>1, <1>3, <1>4, <1>5, <2>1 DEF Fits, C
<1>8. Fits(b, S, A, E, c, "rest", 2)
  <2>1. /\ \A i \in 1..(2 - 1) : i = 1
        /\ \A j \in 13..(16 - 1) : j \notin c \cup {12} /\ b[j] \notin {"&", "NUL"}
        /\ 13 \in 1..15 /\ 16 \in (13 + 1)..(15 + 1) /\ 2 - 1 = 1 /\ 2 - 2 = 0 /\ 12 \notin c
    BY <1>5, <1>6
  <2> QED
    BY <1>1, <1>3, <1>4, <1>5, <2>1 DEF Fits, C
<1>9. Fits(b, S, A, E, c, "rest", 3)
  <2>1. /\ \A i \in 1..(3 - 1) : i \in {1, 2}
        /\ \A j \in 9..(10 - 1) : j \notin c \cup {12, 16} /\ b[j] \notin {"=", "NUL"}
        /\ 9 \in 1..15 /\ 10 \in (9 + 1)..(15 + 1) /\ 3 - 1 = 2 /\ 1 \in 1..2
    BY <1>5, <1>6
  <2> QED
    BY <1>1, <1>3, <1>4, <1>5, <2>1 DEF Fits, C
<1>10. Fits(b, S, A, E, c, "rest", 4)
  <2>1. /\ \A i \in 1..(4 - 1) : i \in {1, 2, 3}
        /\ \A j \in 11..(12 - 1) : j \notin c \cup {10, 12, 16} /\ b[j] \notin {"=", "NUL"}
        /\ 11 \in 1..15 /\ 12 \in (11 + 1)..(15 + 1) /\ 4 - 1 = 3 /\ 4 - 2 = 2
        /\ 10 \notin c \cup {12, 16}
    BY <1>5, <1>6
  <2> QED
    BY <1>1, <1>2, <1>3, <1>4, <1>5, <2>1 DEF Fits, C
<1>11. Fits(b, S, A, E, c, "rest", 5)
  <2>1. /\ \A i \in 1..(5 - 1) : i \in {1, 2, 3, 4}
        /\ \A j \in 13..(14 - 1) : j \notin c \cup {10, 12, 16} /\ b[j] \notin {"=", "NUL"}
        /\ 13 \in 1..15 /\ 14 \in (13 + 1)..(15 + 1) /\ 5 - 1 = 4 /\ 2 \in 1..4
    BY <1>5, <1>6
  <2> QED
    BY <1>1, <1>2, <1>3, <1>4, <1>5, <2>1 DEF Fits, C
<1>12. Fits(b, S, A, E, c, "rest", 6)
  <2>1. /\ \A i \in 1..(6 - 1) : i \in {1, 2, 3, 4, 5}
        /\ \A j \in 15..(16 - 1) : j \notin c \cup {10, 12, 14, 16} /\ b[j] \notin {"=", "NUL"}
        /\ 15 \in 1..15 /\ 16 \in (15 + 1)..(15 + 1) /\ 6 - 1 = 5 /\ 6 - 2 = 4
        /\ 14 \notin c \cup {10, 12, 16}
    BY <1>5, <1>6
  <2> QED
    BY <1>1, <1>2, <1>3, <1>4, <1>5, <2>1 DEF Fits, C
<1>13. \A i \in 1..6 : i \in {1, 2, 3, 4, 5, 6}
  OBVIOUS
<1> QED
  BY <1>1, <1>2, <1>7, <1>8, <1>9, <1>10, <1>11, <1>12, <1>13 DEF S, A, E, c

LEMMA DelFits ==
  ASSUME NEW b \in Seq(Symbols), Fields(b), Len(b) = 11
  PROVE  /\ Len(DelScans) = 3 /\ DelScans[3].to = "port_value"
         /\ \A i \in 1..3 : /\ Fits(b, DelScans, DelStarts, DelEnds, {2, 4, 6, 8}, "rest", i)
                            /\ DelScans[i].to \notin {"op_datavalue", "weight_value"}
<1> DEFINE S == DelScans
           A == DelStarts
           E == DelEnds
           c == {2, 4, 6, 8}
           C(k) == Cuts(c, E, k)
<1>1. /\ Len(S) = 3
      /\ S[1].to = "port" /\ S[1].from = "rest" /\ S[1].delim = "&" /\ S[1].tested = {}
      /\ S[2].to = "port_field" /\ S[2].from = "port" /\ S[2].delim = "=" /\ S[2].tested = {}
      /\ S[3].to = "port_value" /\ S[3].from = "next" /\ S[3].delim = "=" /\ S[3].tested = {}
  BY DEF DelScans, PortScans, Scan
<1>3. /\ A[1] = 9 /\ A[2] = 9 /\ A[3] = 11 /\ E[1] = 12 /\ E[2] = 10 /\ E[3] = 12
  BY DEF DelStarts, DelEnds
<1> HIDE DEF S, A, E
<1>4. /\ C(0) = c /\ C(1) = c \cup {12} /\ C(2) = c \cup {10, 12}
  <2>1. C(0) = c /\ \A k \in Nat : C(k + 1) = C(k) \cup {E[k + 1]}
    BY CutsNext
  <2> HIDE DEF C, c
  <2>2. /\ C(0 + 1) = C(0) \cup {E[0 + 1]} /\ C(1 + 1) = C(1) \cup {E[1 + 1]}
    BY <2>1
  <2> QED
    BY <1>3, <2>1, <2>2
<1>5. /\ \A i \in {9, 11} : b[i] \notin {"=", "&", "NUL"}
      /\ b[10] = "=" /\ Len(b) = 11
  BY BodyFacts
<1>6. \A i \in c : i < 9
  OBVIOUS
<1> HIDE DEF C, c
<1>7. Fits(b, S, A, E, c, "rest", 1)
  <2>1. /\ \A i \in 1..(1 - 1) : FALSE
        /\ \A j \in 9..(12 - 1) : j \notin c /\ b[j] \notin {"&", "NUL"}
        /\ 9 \in 1..11 /\ 12 \in (9 + 1)..(11 + 1) /\ 1 - 1 = 0
    BY <1>5, <1>6
  <2> QED
    BY <1>1, <1>3, <1>4, <1>5, <2>1 DEF Fits, C
<1>8. Fits(b, S, A, E, c, "rest", 2)
  <2>1. /\ \A i \in 1..(2 - 1) : i = 1
        /\ \A j \in 9..(10 - 1) : j \notin c \cup {12} /\ b[j] \notin {"=", "NUL"}
        /\ 9 \in 1..11 /\ 10 \in (9 + 1)..(11 + 1) /\ 2 - 1 = 1 /\ 1 \in 1..1
    BY <1>5, <1>6
  <2> QED
    BY <1>1, <1>3, <1>4, <1>5, <2>1 DEF Fits, C
<1>9. Fits(b, S, A, E, c, "rest", 3)
  <2>1. /\ \A i \in 1..(3 - 1) : i \in {1, 2}
        /\ \A j \in 11..(12 - 1) : j \notin c \cup {10, 12} /\ b[j] \notin {"=", "NUL"}
        /\ 11 \in 1..11 /\ 12 \in (11 + 1)..(11 + 1) /\ 3 - 1 = 2 /\ 3 - 2 = 1
        /\ 10 \notin c \cup {12}
    BY <1>5, <1>6
  <2> QED
    BY <1>1, <1>3, <1>4, <1>5, <2>1 DEF Fits, C
<1>10. \A i \in 1..3 : i \in {1, 2, 3}
  OBVIOUS
<1> QED
  BY <1>1, <1>7, <1>8, <1>9, <1>10 DEF S, A, E, c

-----------------------------------------------------------------------------
(* The worker's steps.                                                     *)

(* A step of the worker leaves the threads and their texts alone.          *)
WorkerApart ==
  Undisturbed' =>
    /\ \A b \in Buffers \ Own(Worker) : mem'[b] = mem[b]
    /\ \A u \in Threads : token'[u] = token[u]
    /\ saved' = saved \/ (saved'.by = Worker /\ saved'.buf \in Own(Worker))
    /\ \A r \in Registers : reg'[r] # NULL => reg'[r].buf \in {Copy, Name}

LEMMA WorkerUnderstood ==
  ASSUME TInv, TInv', Understood, NEW from, NEW to, Goes(Worker, from, to),
         Undisturbed' => Undisturbed, UNCHANGED serverType, UNCHANGED <<input, packet, status>>, WorkerApart,
         QueuedOnce', Working', Served', ExecutesRequest'
  PROVE  Understood'
<1>1. \A t \in Threads : t \in Actors /\ t # Worker /\ pc'[t] = pc[t] /\ Worker \in Actors
  BY Threaded DEF Goes, TInv, ThreadsOK
<1>2. UNCHANGED <<input, headers, headersize, line, type, data, status>>
  BY DEF packet
<1>3. ASSUME Undisturbed'
      PROVE  /\ ScansApart'
             /\ \A t \in Threads : Parsed(t)' => ParsedWell(t)'
             /\ \A t \in Threads : Blank(t)' => BlankStops(t)'
  <2>1. /\ ScansApart /\ \A t \in Threads : Parsed(t) => ParsedWell(t)
        /\ \A t \in Threads : Blank(t) => BlankStops(t)
    BY <1>3 DEF Understood
  <2>2. ASSUME NEW u \in Threads
        PROVE  Untouched(u)
    <3>1. \A b \in Own(u) : b \in Buffers \ Own(Worker)
      BY <1>1, OwnApart
    <3>2. saved'.by = u => saved' = saved
      BY <1>1, <1>3 DEF WorkerApart
    <3> QED
      BY <1>1, <1>2, <1>3, <3>1, <3>2 DEF Untouched, WorkerApart
  <2>3. ScansApart'
    <3>1. saved' = saved \/ (saved'.by = Worker /\ saved'.buf \in Own(Worker))
      BY <1>3 DEF WorkerApart
    <3>2. saved'.by # NULL => saved'.buf \in Own(saved'.by)
      BY <2>1, <3>1 DEF ScansApart
    <3>3. \A t \in Threads : pc'[t] = "value" /\ saved'.by = t => saved'.buf = Line(t)
      BY <1>1, <2>1, <3>1 DEF ScansApart
    <3>4. /\ Own(saved'.by) = Own(saved.by)' /\ Copy' = Copy /\ Name' = Name
          /\ \A t \in Threads : Line(t)' = Line(t)
      BY DEF Own, Copy, Name, Line, Buffer, First
    <3> QED
      BY <1>3, <3>2, <3>3, <3>4 DEF ScansApart, WorkerApart
  <2> QED
    BY <2>1, <2>2, <2>3, UntouchedStays
<1>4. Fresh' /\ Survived'
  BY <1>1, <1>2 DEF Understood, Fresh, Survived, Is, Ok
<1> QED
  BY <1>3, <1>4 DEF Understood

LEMMA JobUnderstood ==
  ASSUME TInv, TInv', Understood, NEW from, from \notin {"take", "close"}, NEW to, to # "take",
         Goes(Worker, from, to), Undisturbed' => Undisturbed, UNCHANGED serverType,
         UNCHANGED <<input, packet, status, job, queue>>, WorkerApart,
         \A u \in Threads : u # job => replies'[u] = replies[u] /\ executed'[u] = executed[u],
         executed' = executed \/ (PlainRun(job)' => executed'[job] = input[job].means),
         to = "forward" => Forwarded(job)', to = "close" => Told(job)',
         PlainRun(job)' => /\ IF to = "close" THEN ToldOnce(job)' ELSE Len(replies'[job]) = 0
                           /\ ScansFound'
  PROVE  Understood'
<1>1. /\ \A t \in Threads : t \in Actors /\ t # Worker /\ pc'[t] = pc[t]
      /\ pc[Worker] = from /\ pc'[Worker] = to
  BY Threaded DEF Goes, TInv, ThreadsOK
<1>2. job \in Threads /\ job # NULL
  BY <1>1 DEF TInv, WorkerOK
<1>3. UNCHANGED <<type, data, input, job, queue>>
  BY DEF packet
<1>4. /\ QueuedOnce /\ Working /\ Served /\ ExecutesRequest
  BY DEF Understood
<1>5. \A t \in Threads : Waits(t)' <=> Waits(t)
  BY <1>3 DEF Waits
<1>6. QueuedOnce'
  <2>1. \A t \in Threads : pc'[t] # "done" \/ Waits(t)' => replies'[t] = << >> /\ executed'[t] = NoCommand
    BY <1>1, <1>2, <1>4, <1>5 DEF QueuedOnce
  <2> QED
    BY <1>1, <1>3, <1>4, <1>5, <2>1 DEF QueuedOnce
<1>7. Working'
  BY <1>1, <1>2, <1>3, <1>4 DEF Working
<1>8. Served'
  <2>1. ASSUME NEW t \in Threads, Handled(t)'
        PROVE  Handled(t) /\ t # job
    BY <1>1, <1>3, <2>1 DEF Handled
  <2>2. ASSUME NEW t \in Threads, PlainRun(t)'
        PROVE  PlainRun(t)
    BY <1>3, <2>2 DEF PlainRun, Is
  <2>3. ASSUME NEW t \in Threads, t # job
        PROVE  (Told(t) => Told(t)') /\ (ToldOnce(t) => ToldOnce(t)')
    BY <2>3, ToldStays
  <2> QED
    BY <1>3, <1>4, <2>1, <2>2, <2>3 DEF Served
<1>9. ExecutesRequest'
  <2> SUFFICES ASSUME NEW t \in Threads, Undisturbed', Is(t, "plain")', executed'[t] # NoCommand
               PROVE  executed'[t] = input'[t].means
    BY DEF ExecutesRequest
  <2>1. Is(t, "plain")
    BY <1>3 DEF Is
  <2>2. CASE executed'[t] = executed[t]
    BY <1>3, <1>4, <2>1, <2>2 DEF ExecutesRequest
  <2>3. CASE executed'[t] # executed[t]
    <3>1. t = job /\ executed' # executed
      BY <2>3
    <3>2. PlainRun(job)'
      BY <1>3, <3>1 DEF PlainRun
    <3> QED
      BY <1>3, <3>1, <3>2
  <2> QED
    BY <2>2, <2>3
<1> QED
  BY <1>6, <1>7, <1>8, <1>9, WorkerUnderstood

(* What is queued of a plain command is its command.                       *)
LEMMA PlainCommand ==
  ASSUME TInv, Understood, NEW t \in Threads, PlainRun(t), pc[t] = "done"
  PROVE  /\ type[t] \in {"GET", "POST"}
         /\ type[t] = "POST" =>
              LET b == Body(Text(t))
              IN  /\ b \in Seq(Symbols) /\ Fields(b) /\ Len(b) \in {7, 11, 15}
                  /\ Commands(b, input[t].means) /\ data[t] = b
<1>1. input[t] # NULL /\ Is(t, "plain") /\ Undisturbed
  BY DEF PlainRun, Is
<1>2. Parsed(t) /\ Packed(t)
  BY <1>1, PlainParsed DEF Understood, ParsedWell
<1>3. type[t] = Text(t)[1] /\ Text(t)[1] \in {"GET", "POST"} /\ (type[t] = "POST" => data[t] = Body(Text(t)))
  BY <1>2 DEF Packed, Parsed, Method
<1>4. ASSUME type[t] = "POST"
      PROVE  Commands(Body(Text(t)), input[t].means)
  <2>1. input[t] \in Requests /\ input[t].form = "plain" /\ input[t].text = Text(t)
    BY <1>1, TextFacts DEF Is, Text
  <2>2. ~Method(Text(t), "GET")
    BY <1>3, <1>4 DEF Method
  <2> QED
    BY <2>1, <2>2, FormAssumption
<1>5. Body(Text(t)) \in Seq(Symbols)
  <2>1. Text(t) \in Seq(Symbols) /\ WellFormed(Text(t)) /\ Len(Text(t)) \in Nat
    BY <1>1, <1>2, TextFacts DEF Parsed
  <2>2. End(Text(t)) \in 1..Len(Text(t))
    BY <2>1, EndIs
  <2>3. End(Text(t)) + 4 \in Nat \ {0} /\ Len(Text(t)) <= Len(Text(t))
    BY <2>1, <2>2
  <2> QED
    BY <2>1, <2>3, SubSeqFacts DEF Body
<1>6. ASSUME NEW b \in Seq(Symbols), NEW means, Commands(b, means)
      PROVE  Fields(b) /\ Len(b) \in {7, 11, 15}
  BY <1>6 DEF Commands
<1> QED
  BY <1>3, <1>4, <1>5, <1>6

(* The oldest packet leaves the queue.                                     *)
LEMMA HeadLeaves ==
  ASSUME queue \in Seq(Threads), QueuedOnce, queue # << >>, queue' = Tail(queue),
         NEW t, t = Head(queue)
  PROVE  /\ t \in Threads /\ Waits(t) /\ ~Waits(t)'
         /\ \A u \in Threads : u # t => (Waits(u)' <=> Waits(u))
         /\ \A i, j \in DOMAIN queue' : queue'[i] = queue'[j] => i = j
<1>1. /\ t = queue[1] /\ Len(queue) \in Nat \ {0} /\ DOMAIN queue = 1..Len(queue)
      /\ DOMAIN queue' = 1..(Len(queue) - 1) /\ queue[1] \in Threads
      /\ \A i \in 1..(Len(queue) - 1) : queue'[i] = queue[i + 1]
  BY HeadTailProperties
<1> DEFINE n == Len(queue)
<1>2. n \in Nat \ {0}
  BY <1>1
<1>3. \A i \in 1..(n - 1) : i + 1 \in 1..n /\ i + 1 # 1
  BY <1>2
<1>4. \A i \in 1..n : i # 1 => i - 1 \in 1..(n - 1) /\ (i - 1) + 1 = i
  BY <1>2
<1>5. 1 \in 1..n
  BY <1>2
<1>6. \A i, j \in 1..n : queue[i] = queue[j] => i = j
  BY <1>1 DEF QueuedOnce
<1> HIDE DEF n
<1>7. \A i, j \in DOMAIN queue' : queue'[i] = queue'[j] => i = j
  <2> SUFFICES ASSUME NEW i \in 1..(n - 1), NEW j \in 1..(n - 1), queue'[i] = queue'[j]
               PROVE  i = j
    BY <1>1 DEF n
  <2>1. queue[i + 1] = queue[j + 1]
    BY <1>1 DEF n
  <2>2. i + 1 = j + 1
    BY <1>3, <1>6, <2>1
  <2> QED
    BY <1>2, <2>2
<1>8. Waits(t) /\ t \in Threads
  BY <1>1, <1>5 DEF Waits, n
<1>9. ~Waits(t)'
  <2>1. ASSUME NEW i \in 1..(n - 1)
        PROVE  queue'[i] # queue[1]
    <3>1. queue'[i] = queue[i + 1]
      BY <1>1 DEF n
    <3> QED
      BY <1>3, <1>5, <1>6, <3>1
  <2>2. DOMAIN queue' = 1..(n - 1)
    BY <1>1 DEF n
  <2>3. \A i \in DOMAIN queue' : queue'[i] # t
    BY <1>1, <2>1, <2>2
  <2> QED
    BY <2>3 DEF Waits
<1>10. ASSUME NEW u \in Threads, u # t
       PROVE  Waits(u)' <=> Waits(u)
  <2>1. ASSUME Waits(u)
        PROVE  Waits(u)'
    <3>1. PICK i \in 1..n : queue[i] = u
      BY <1>1, <2>1 DEF Waits, n
    <3>2. i # 1
      BY <1>1, <1>10, <3>1
    <3>3. i - 1 \in 1..(n - 1) /\ queue'[i - 1] = u
      <4>1. i - 1 \in 1..(n - 1) /\ (i - 1) + 1 = i
        BY <1>4, <3>2
      <4>2. queue'[i - 1] = queue[(i - 1) + 1]
        BY <1>1, <4>1 DEF n
      <4> QED
        BY <3>1, <4>1, <4>2
    <3> QED
      BY <1>1, <3>3 DEF Waits, n
  <2>2. ASSUME Waits(u)'
        PROVE  Waits(u)
    <3>1. PICK i \in 1..(n - 1) : queue'[i] = u
      BY <1>1, <2>2 DEF Waits, n
    <3>2. i + 1 \in 1..n /\ queue[i + 1] = u
      BY <1>1, <1>3, <3>1 DEF n
    <3> QED
      BY <1>1, <3>2 DEF Waits, n
  <2> QED
    BY <2>1, <2>2
<1> QED
  BY <1>7, <1>8, <1>9, <1>10

(* The worker copies the data of a plain command whole.                    *)
LEMMA TakeFinds ==
  ASSUME TInv, Understood, Take, pc'[Worker] = "command", Undisturbed' => Undisturbed,
         NEW t \in Threads, t = Head(queue), PlainRun(t)', pc[t] = "done",
         UNCHANGED <<input, packet>>
  PROVE  ScansFound'
<1> DEFINE b == Body(Text(t))
           S == CommandScans
           E == CommandEnds
           A == CommandStarts
           c == {}
<1>1. PlainRun(t) /\ job' = t /\ ~ranOn'
  BY DEF PlainRun, Is, Take, Undisturbed
<1>2. type[t] = "POST"
  <2>1. CASE type[t] # "POST"
    <3>1. Worker \in DOMAIN pc /\ pc' = [pc EXCEPT ![Worker] = "close"]
      BY <2>1, Threaded DEF Take, Goes, TInv, ThreadsOK, Actors
    <3>2. pc'[Worker] = "close"
      BY <3>1
    <3> QED
      BY <3>2
  <2> QED
    BY <2>1
<1>3. b \in Seq(Symbols) /\ Fields(b) /\ Len(b) \in {7, 11, 15} /\ data[t] = b
  BY <1>1, <1>2, PlainCommand
<1>4. CString(b) = Append(b, "NUL")
  BY <1>3, BodyFacts, CStringFacts
<1>5. /\ reg'["copy"] = Ptr(Copy, 1) /\ reg'["weight_value"] = NULL /\ todo' = S
  <2>1. /\ reg' = [r \in Registers |-> CASE r = "copy" -> Ptr(Copy, 1)
                                        [] r = "name" -> Ptr(Name, 1)
                                        [] OTHER -> NULL]
        /\ todo' = S
    BY <1>2 DEF Take
  <2>2. "copy" \in Registers /\ "weight_value" \in Registers
    BY DEF Registers
  <2> QED
    BY <2>1, <2>2
<1>6. mem'[Copy] = Append(b, "NUL")
  <2>1. PICK behind \in {<< >>, <<"junk">>} :
          /\ mem' = [mem EXCEPT ![Copy] = CString(data[t] \o behind), ![Name] = <<"store", "NUL">>]
          /\ ranOn' = (ranOn \/ (behind # << >> /\ CString(data[t]) = Append(data[t], "NUL")))
    BY <1>2 DEF Take
  <2>2. behind = << >>
    BY <1>1, <1>3, <1>4, <2>1
  <2>3. data[t] \o behind = b
    BY <1>3, <2>2, SymbolFacts, ConcatProperties, ConcatEmptySeq
  <2>4. Copy \in DOMAIN mem /\ Copy # Name
    BY BufferFacts DEF TInv, StringsOK, Memories
  <2> QED
    BY <1>4, <2>1, <2>3, <2>4
<1>7. CutAt(b, Cuts(c, E, 0))'
  <2>1. Cuts(c, E, 0) = {} /\ (Cuts(c, E, 0)' = Cuts(c, E, 0))
    <3> HIDE DEF E
    <3> QED
      BY CutsNext DEF Cuts
  <2>2. /\ Append(b, "NUL")[Len(b) + 1] = "NUL" /\ Len(Append(b, "NUL")) = Len(b) + 1
        /\ \A i \in 1..Len(b) : Append(b, "NUL")[i] = b[i]
    BY <1>3, StringFacts, SymbolFacts
  <2>3. b' = b /\ Copy' = Copy
    BY DEF Text, Copy, packet
  <2> HIDE DEF b, E, c
  <2>4. /\ Len(mem'[Copy]) = Len(b) + 1 /\ mem'[Copy][Len(b) + 1] = "NUL"
        /\ \A i \in 1..Len(b) : mem'[Copy][i] = IF i \in Cuts(c, E, 0) THEN "NUL" ELSE b[i]
    BY <1>6, <2>1, <2>2
  <2> QED
    BY <2>1, <2>3, <2>4 DEF CutAt
<1>8. ScansDone(b, S, A, E, c, "copy", 0)'
  <2>1. S \in Seq(ScanSet) /\ Len(S) = 6
    BY <1>3, ScanFacts, CommandFits
  <2>2. A[1] = 1
    BY DEF CommandStarts
  <2> HIDE DEF S, A, E, c, b
  <2>3. S = SubSeq(S, 0 + 1, Len(S))
    <3>1. 0 + 1 = 1
      OBVIOUS
    <3> QED
      BY <2>1, <3>1, SubSeqFull
  <2>4. At("copy", A[1])'
    BY <1>5, <2>2 DEF At, Ptr, Copy
  <2>5. 0 \notin 1..(Len(S) - 1) /\ \A i \in 1..0 : FALSE
    BY <2>1
  <2> QED
    BY <1>5, <1>7, <2>3, <2>4, <2>5 DEF ScansDone
<1>9. CommandFound(b, 0)' /\ 0 \in 0..6
  BY <1>5, <1>8 DEF CommandFound
<1>10. Body(Text(job))' = b' /\ b' = b
  BY <1>1 DEF Text
<1> HIDE DEF b
<1> QED
  BY <1>9, <1>10 DEF ScansFound

LEMMA TakeUnderstood ==
  ASSUME TInv, TInv', Understood, Take, Undisturbed' => Undisturbed, UNCHANGED serverType
  PROVE  Understood'
<1>0. PICK t \in Threads : t = Head(queue)
  BY HeadTailProperties DEF Take, TInv, WorkerOK
<1>1. /\ queue \in Seq(Threads) /\ queue # << >> /\ queue' = Tail(queue) /\ job' = t
      /\ UNCHANGED <<input, saved, token, packet, executed, status, mixed>>
      /\ replies \in [Threads -> Seq(Nat)]
  BY <1>0 DEF Take, TInv, WorkerOK, RestOK
<1>2. /\ QueuedOnce /\ Working /\ Served /\ ExecutesRequest
  BY DEF Understood
<1>3. /\ t \in Threads /\ Waits(t) /\ ~Waits(t)'
      /\ \A u \in Threads : u # t => (Waits(u)' <=> Waits(u))
      /\ \A i, j \in DOMAIN queue' : queue'[i] = queue'[j] => i = j
  BY <1>0, <1>1, <1>2, HeadLeaves
<1>4. pc[t] = "done" /\ t # NULL /\ replies[t] = << >> /\ executed[t] = NoCommand
  BY <1>2, <1>3, ConstantFacts DEF QueuedOnce
<1>5. Worker \in DOMAIN pc
  BY Threaded, <1>3 DEF TInv, ThreadsOK
<1>6. /\ type[t] = "POST" => Goes(Worker, "take", "command") /\ replies' = replies
      /\ type[t] # "POST" => /\ Goes(Worker, "take", "close")
                             /\ type[t] = "GET" => replies' = [replies EXCEPT ![t] = Append(@, 200)]
                             /\ type[t] # "GET" => replies' = replies
  BY <1>0, <1>1 DEF Take
<1> DEFINE to == IF type[t] = "POST" THEN "command" ELSE "close"
<1>7. Goes(Worker, "take", to)
  BY <1>6
<1>8. /\ pc[Worker] = "take" /\ pc'[Worker] = to
      /\ \A u \in Threads : pc'[u] = pc[u]
  BY <1>5, <1>7, Threaded DEF Goes
<1>9. job = NULL
  BY <1>8 DEF TInv, WorkerOK
<1>10. \A u \in Threads : u # t => replies'[u] = replies[u]
  BY <1>1, <1>6
<1>11. type[t] = "GET" => Len(replies'[t]) = 1 /\ replies'[t] # << >>
  <2> SUFFICES ASSUME type[t] = "GET"
               PROVE  Len(replies'[t]) = 1 /\ replies'[t] # << >>
    OBVIOUS
  <2>1. replies'[t] = Append(<< >>, 200)
    BY <1>1, <1>3, <1>4, <1>6
  <2>2. << >> \in Seq(Nat) /\ 200 \in Nat
    OBVIOUS
  <2>3. Len(Append(<< >>, 200)) = 1
    BY <2>2
  <2> QED
    BY <2>1, <2>3
<1>12. UNCHANGED <<type, data, input>>
  BY <1>1 DEF packet
<1>13. QueuedOnce'
  <2>1. \A u \in Threads : Waits(u)' \/ t = u => pc'[u] = "done"
    BY <1>2, <1>3, <1>4, <1>8 DEF QueuedOnce
  <2>2. \A u \in Threads : Waits(u)' => t # u
    BY <1>3
  <2>3. \A u \in Threads : pc'[u] # "done" \/ Waits(u)' => replies'[u] = << >> /\ executed'[u] = NoCommand
    BY <1>1, <1>2, <1>3, <1>4, <1>8, <1>10 DEF QueuedOnce
  <2> QED
    BY <1>1, <1>3, <2>1, <2>2, <2>3 DEF QueuedOnce
<1>14. Working'
  <2>1. to # "close" => type'[t] = "POST"
    BY <1>12
  <2>2. to = "close" /\ type'[t] # NULL => Told(t)'
    <3>1. type[t] \in {"POST", "GET", NULL}
      BY <1>3 DEF TInv, ThreadsOK
    <3> QED
      BY <3>1, <1>11, <1>12 DEF Told
  <2>3. ASSUME PlainRun(t)'
        PROVE  (IF to = "close" THEN ToldOnce(t)' ELSE Len(replies'[t]) = 0) /\ ScansFound'
    <3>1. PlainRun(t)
      BY <1>12, <2>3 DEF PlainRun, Is
    <3>2. type[t] \in {"GET", "POST"}
      BY <1>3, <1>4, <3>1, PlainCommand
    <3>3. CASE type[t] = "POST"
      <4>1. pc'[Worker] = "command" /\ replies'[t] = << >>
        BY <1>4, <1>6, <1>8, <3>3
      <4>2. ScansFound'
        BY <1>1, <1>3, <1>4, <2>3, <4>1, <1>0, TakeFinds
      <4>3. Len(<< >>) = 0
        OBVIOUS
      <4> QED
        BY <3>3, <4>1, <4>2, <4>3
    <3>4. CASE type[t] = "GET"
      <4>1. pc'[Worker] = "close" /\ to = "close"
        BY <1>8, <3>4
      <4> QED
        BY <1>11, <3>4, <4>1 DEF ScansFound, ToldOnce
    <3> QED
      BY <3>2, <3>3, <3>4
  <2>4. to # "forward"
    OBVIOUS
  <2> HIDE DEF to
  <2> QED
    BY <1>1, <1>4, <1>8, <2>1, <2>2, <2>3, <2>4 DEF Working
<1>15. Served'
  <2>1. ASSUME NEW u \in Threads, Handled(u)'
        PROVE  Handled(u) /\ u # t
    <3>1. pc[u] = "done" /\ t # u /\ ~Waits(u)'
      BY <1>1, <1>8, <2>1 DEF Handled, Waits
    <3>2. ~Waits(u) /\ job # u
      BY <1>3, <1>9, <3>1, ConstantFacts
    <3> QED
      BY <3>1, <3>2 DEF Handled, Waits
  <2>2. ASSUME NEW u \in Threads, PlainRun(u)'
        PROVE  PlainRun(u)
    BY <1>12, <2>2 DEF PlainRun, Is
  <2>3. ASSUME NEW u \in Threads, u # t
        PROVE  (Told(u) => Told(u)') /\ (ToldOnce(u) => ToldOnce(u)')
    BY <1>1, <1>10, <2>3, ToldStays
  <2> QED
    BY <1>2, <1>12, <2>1, <2>2, <2>3 DEF Served
<1>16. ExecutesRequest'
  BY <1>1, <1>2 DEF ExecutesRequest, Is
<1>17. WorkerApart
  <2> SUFFICES ASSUME Undisturbed'
               PROVE  /\ \A b \in Buffers \ Own(Worker) : mem'[b] = mem[b]
                      /\ \A u \in Threads : token'[u] = token[u]
                      /\ saved' = saved \/ (saved'.by = Worker /\ saved'.buf \in Own(Worker))
                      /\ \A r \in Registers : reg'[r] # NULL => reg'[r].buf \in {Copy, Name}
    BY DEF WorkerApart
  <2>1. \A b \in Buffers \ Own(Worker) : mem'[b] = mem[b]
    <3>1. \A b \in Buffers \ Own(Worker) : b # Copy /\ b # Name
      BY OwnApart
    <3>2. mem \in [Buffers -> Seq(Symbols)]
      BY DEF TInv, StringsOK, Memories
    <3>3. mem' = mem \/ \E x, y : mem' = [mem EXCEPT ![Copy] = x, ![Name] = y]
      BY DEF Take
    <3> QED
      BY <3>1, <3>2, <3>3
  <2>2. \A r \in Registers : reg'[r] # NULL => reg'[r].buf \in {Copy, Name}
    <3>1. \A r \in Registers : reg[r] # NULL => reg[r].buf \in {Copy, Name}
      BY DEF Understood, ScansApart
    <3>2. \/ reg' = reg
          \/ reg' = [r \in Registers |-> CASE r = "copy" -> Ptr(Copy, 1)
                                           [] r = "name" -> Ptr(Name, 1)
                                           [] OTHER -> NULL]
      BY DEF Take
    <3>3. Ptr(Copy, 1).buf = Copy /\ Ptr(Name, 1).buf = Name
      BY DEF Ptr
    <3> QED
      BY <3>1, <3>2, <3>3
  <2> QED
    BY <1>1, <2>1, <2>2
<1> HIDE DEF to
<1> QED
  BY <1>1, <1>7, <1>13, <1>14, <1>15, <1>16, <1>17, WorkerUnderstood

LEMMA CloseUnderstood ==
  ASSUME TInv, TInv', Understood, Close, Undisturbed' => Undisturbed, UNCHANGED serverType
  PROVE  Understood'
<1>1. /\ Goes(Worker, "close", "take") /\ job' = NULL
      /\ UNCHANGED <<input, packet, queue, reg, todo, executed, replies, status, ranOn>>
      /\ UNCHANGED <<mem, saved, token, mixed>>
  BY DEF Close, NoScan
<1>2. /\ QueuedOnce /\ Working /\ Served /\ ExecutesRequest
  BY DEF Understood
<1>3. /\ pc[Worker] = "close" /\ \A t \in Threads : pc'[t] = pc[t]
      /\ job \in Threads
  BY <1>1, Threaded DEF Goes, TInv, ThreadsOK, WorkerOK
<1>4. UNCHANGED <<type, data, input>>
  BY <1>1 DEF packet
<1>5. \A t \in Threads : (Waits(t)' <=> Waits(t)) /\ t # NULL
  BY <1>1, ConstantFacts DEF Waits
<1>6. QueuedOnce'
  BY <1>1, <1>2, <1>3, <1>5 DEF QueuedOnce
<1>7. Working'
  BY <1>1 DEF Working
<1>8. Served'
  <2> SUFFICES ASSUME NEW t \in Threads, Handled(t)'
               PROVE  /\ type'[t] # NULL => Told(t)'
                      /\ PlainRun(t)' => ToldOnce(t)'
    BY DEF Served
  <2>1. PlainRun(t)' => PlainRun(t)
    BY <1>4 DEF PlainRun, Is
  <2> (Told(t)' <=> Told(t)) /\ (ToldOnce(t)' <=> ToldOnce(t))
    BY <1>1, ToldStays
  <2>2. CASE t = job
    BY <1>1, <1>2, <1>3, <1>4, <1>5, <2>1, <2>2 DEF Working
  <2>3. CASE t # job
    <3>1. Handled(t)
      BY <1>1, <1>3, <2>3 DEF Handled
    <3> QED
      BY <1>1, <1>2, <1>4, <2>1, <3>1 DEF Served
  <2> QED
    BY <2>2, <2>3
<1>9. ExecutesRequest'
  BY <1>1, <1>2 DEF ExecutesRequest, Is, Undisturbed
<1>10. WorkerApart
  BY <1>1 DEF WorkerApart, Understood, ScansApart
<1> QED
  BY <1>1, <1>6, <1>7, <1>8, <1>9, <1>10, WorkerUnderstood

(* What the worker has in hand of a plain command.                         *)
LEMMA PlainJob ==
  ASSUME TInv, Understood, job # NULL, pc[Worker] # "close", PlainRun(job)
  PROVE  /\ job \in Threads /\ Len(replies[job]) = 0 /\ ScansFound /\ ScansApart
         /\ LET b == Body(Text(job))
            IN  /\ b \in Seq(Symbols) /\ Fields(b) /\ Len(b) \in {7, 11, 15}
                /\ Commands(b, input[job].means)
<1>1. job \in Threads /\ pc[job] = "done" /\ type[job] = "POST"
  BY DEF TInv, WorkerOK, Understood, QueuedOnce, Working
<1>2. Len(replies[job]) = 0 /\ ScansFound /\ ScansApart
  BY DEF Understood, Working, PlainRun
<1> QED
  BY <1>1, <1>2, PlainCommand

(* What strtok returns is in the buffer where it stopped.                  *)
LEMMA TokenPlace ==
  ASSUME StringsOK, NEW a \in Actors, NEW m, NEW from, NEW delims, Scans(a, m, from, delims)
  PROVE  token'[a] # NULL => token'[a].buf = saved'.buf
<1> DEFINE r == Strtok(a, m, from, delims)
<1>1. r.token # NULL => r.token.buf = r.saved.buf
  BY DEF Strtok, Ptr
<1>2. token'[a] = r.token /\ saved' = r.saved
  BY DEF Scans, StringsOK
<1> QED
  BY <1>1, <1>2

LEMMA WorkerScanFinds ==
  ASSUME TInv, Understood, WorkerScan, PlainRun(job)', Undisturbed' => Undisturbed
  PROVE  ScansFound' /\ replies' = replies
<1>1. /\ UNCHANGED <<input, job>> /\ todo # << >> /\ pc' = [pc EXCEPT ![Worker] = pc[Worker]]
      /\ ~mixed'
  BY DEF WorkerScan, Goes, PlainRun, Undisturbed
<1>2. /\ pc[Worker] \in WorkerPCs \ {"take", "close"} /\ job # NULL /\ pc'[Worker] = pc[Worker]
  BY <1>1, Threaded DEF TInv, WorkerOK, ThreadsOK
<1>3. PlainRun(job)
  BY <1>1 DEF PlainRun, Is
<1> PICK b : b = Body(Text(job))
  OBVIOUS
<1>4. /\ job \in Threads /\ ScansFound /\ ScansApart
      /\ b \in Seq(Symbols) /\ Fields(b) /\ Len(b) \in {7, 11, 15}
      /\ Commands(b, input[job].means)
  BY <1>2, <1>3, PlainJob
<1>5. Body(Text(job))' = b
  BY <1>1 DEF Text
<1>6. CASE pc[Worker] = "command"
  <2> DEFINE S == CommandScans
             A == CommandStarts
             E == CommandEnds
             c == {}
             f == "copy"
             w == "weight_value"
  <2>1. PICK k \in 0..6 : CommandFound(b, k)
    BY <1>4, <1>6 DEF ScansFound
  <2>2. ScansDone(b, S, A, E, c, f, k) /\ reg[w] = NULL
    BY <2>1 DEF CommandFound
  <2>3. f \in Registers /\ w \in Registers
    BY DEF Registers
  <2>4. S \in Seq(ScanSet) /\ Len(S) = 6 /\ \A i \in 1..6 : Fits(b, S, A, E, c, f, i) /\ S[i].to # w
    BY <1>4, CommandFits, ScanFacts
  <2> HIDE DEF S, A, E, c, f, w
  <2>5. /\ k + 1 \in 1..6 /\ ScansDone(b, S, A, E, c, f, k + 1)'
        /\ \A r \in Registers : r # S[k + 1].to => reg'[r] = reg[r]
        /\ replies' = replies
    <3>1. k \in 0..Len(S) /\ \A i \in 1..Len(S) : Fits(b, S, A, E, c, f, i)
      BY <2>4
    <3>2. Len(S) = 6 /\ S \in Seq(ScanSet) /\ f \in Registers /\ ~mixed'
      BY <1>1, <2>3, <2>4
    <3> QED
      BY <1>4, <2>2, <3>1, <3>2, ScanStep, ZenonT(30)
  <2>6. reg'[w] = NULL
    BY <2>2, <2>3, <2>4, <2>5
  <2>7. CommandFound(b, k + 1)' /\ k + 1 \in 0..6
    BY <2>5, <2>6 DEF CommandFound, S, A, E, c, f, w
  <2> QED
    BY <1>2, <1>5, <1>6, <2>5, <2>7 DEF ScansFound
<1>7. CASE pc[Worker] = "ADD"
  <2> DEFINE S == AddScans
             A == AddStarts
             E == AddEnds
             c == {2, 4, 6, 8}
             f == "rest"
             w == "op_datavalue"
  <2>1. PICK k \in 0..6 : AddFound(b, k)
    BY <1>4, <1>7 DEF ScansFound
  <2>2. ScansDone(b, S, A, E, c, f, k) /\ At(w, 7)
    BY <2>1 DEF AddFound
  <2>3. f \in Registers /\ w \in Registers
    BY DEF Registers
  <2>4. b[3] = "ADD" /\ Len(b) = 15
    BY <1>4, <1>7 DEF ScansFound, Commands
  <2>5. S \in Seq(ScanSet) /\ Len(S) = 6 /\ \A i \in 1..6 : Fits(b, S, A, E, c, f, i) /\ S[i].to # w
    BY <1>4, <2>4, AddFits, ScanFacts
  <2> HIDE DEF S, A, E, c, f, w
  <2>6. /\ k + 1 \in 1..6 /\ ScansDone(b, S, A, E, c, f, k + 1)'
        /\ \A r \in Registers : r # S[k + 1].to => reg'[r] = reg[r]
        /\ replies' = replies
    <3>1. k \in 0..Len(S) /\ \A i \in 1..Len(S) : Fits(b, S, A, E, c, f, i)
      BY <2>5
    <3>2. Len(S) = 6 /\ S \in Seq(ScanSet) /\ f \in Registers /\ ~mixed'
      BY <1>1, <2>3, <2>5
    <3> QED
      BY <1>4, <2>2, <3>1, <3>2, ScanStep, ZenonT(30)
  <2>7. At(w, 7)'
    BY <2>2, <2>3, <2>5, <2>6 DEF At, Ptr, Copy
  <2>8. AddFound(b, k + 1)' /\ k + 1 \in 0..6
    BY <2>6, <2>7 DEF AddFound, S, A, E, c, f, w
  <2> QED
    BY <1>2, <1>5, <1>7, <2>4, <2>6, <2>8 DEF ScansFound
<1>8. CASE pc[Worker] = "DEL"
  <2> DEFINE S == DelScans
             A == DelStarts
             E == DelEnds
             c == {2, 4, 6, 8}
             f == "rest"
             w == "op_datavalue"
             v == "weight_value"
  <2>1. PICK k \in 0..3 : DelFound(b, k)
    BY <1>4, <1>8 DEF ScansFound
  <2>2. ScansDone(b, S, A, E, c, f, k) /\ At(w, 7) /\ reg[v] = NULL
    BY <2>1 DEF DelFound
  <2>3. f \in Registers /\ w \in Registers /\ v \in Registers
    BY DEF Registers
  <2>4. b[3] = "DEL" /\ Len(b) = 11
    BY <1>4, <1>8 DEF ScansFound, Commands
  <2>5. /\ S \in Seq(ScanSet) /\ Len(S) = 3
        /\ \A i \in 1..3 : Fits(b, S, A, E, c, f, i) /\ S[i].to # w /\ S[i].to # v
    BY <1>4, <2>4, DelFits, ScanFacts
  <2> HIDE DEF S, A, E, c, f, w, v
  <2>6. /\ k + 1 \in 1..3 /\ ScansDone(b, S, A, E, c, f, k + 1)'
        /\ \A r \in Registers : r # S[k + 1].to => reg'[r] = reg[r]
        /\ replies' = replies
    <3>1. k \in 0..Len(S) /\ \A i \in 1..Len(S) : Fits(b, S, A, E, c, f, i)
      BY <2>5
    <3>2. Len(S) = 3 /\ S \in Seq(ScanSet) /\ f \in Registers /\ ~mixed'
      BY <1>1, <2>3, <2>5
    <3> QED
      BY <1>4, <2>2, <3>1, <3>2, ScanStep, ZenonT(30)
  <2>7. At(w, 7)' /\ reg'[v] = NULL
    BY <2>2, <2>3, <2>5, <2>6 DEF At, Ptr, Copy
  <2>8. DelFound(b, k + 1)' /\ k + 1 \in 0..3
    BY <2>6, <2>7 DEF DelFound, S, A, E, c, f, w, v
  <2> QED
    BY <1>2, <1>5, <1>8, <2>4, <2>6, <2>8 DEF ScansFound
<1>9. CASE pc[Worker] = "forward"
  <2>1. todo = ForwardScans
    BY <1>1, <1>4, <1>9 DEF ScansFound
  <2>2. Head(todo).tested = {} /\ Tail(todo) = << >>
    BY <2>1 DEF ForwardScans, Scan
  <2>3. todo' = << >> /\ replies' = [replies EXCEPT ![job] = @ \o << >>]
    BY <2>2 DEF WorkerScan, Replies
  <2>4. replies \in [Threads -> Seq(Nat)]
    BY DEF TInv, RestOK
  <2>5. replies[job] \o << >> = replies[job]
    BY <1>4, <2>4, ConcatEmptySeq
  <2>6. replies' = replies
    BY <2>3, <2>4, <2>5
  <2> QED
    BY <1>2, <1>9, <2>3, <2>6 DEF ScansFound
<1> QED
  BY <1>2, <1>6, <1>7, <1>8, <1>9 DEF WorkerPCs

LEMMA WorkerScanUnderstood ==
  ASSUME TInv, TInv', Understood, WorkerScan, Undisturbed' => Undisturbed, UNCHANGED serverType
  PROVE  Understood'
<1> DEFINE s == Head(todo)
           p == IF s.from = "next" THEN NULL ELSE reg[s.from]
<1>1. /\ todo # << >> /\ Goes(Worker, pc[Worker], pc[Worker])
      /\ Scans(Worker, mem, p, {s.delim}) /\ reg' = [reg EXCEPT ![s.to] = token'[Worker]]
      /\ UNCHANGED <<input, packet, queue, job, executed, status, ranOn>>
  BY DEF WorkerScan
<1>2. \E codes : replies' = [replies EXCEPT ![job] = @ \o codes]
  BY DEF WorkerScan, Replies
<1>3. /\ s.to \in Registers /\ s.from \in Registers \cup {"next"}
  <2>1. todo \in Seq(ScanSet)
    BY DEF TInv, WorkerOK
  <2>2. s \in ScanSet
    BY <1>1, <2>1, HeadTailProperties
  <2> QED
    BY <2>2 DEF ScanSet
<1>4. pc[Worker] \notin {"take", "close"} /\ job \in Threads
  BY <1>1 DEF TInv, WorkerOK
<1>5. WorkerApart
  <2> SUFFICES ASSUME Undisturbed'
               PROVE  /\ \A b \in Buffers \ Own(Worker) : mem'[b] = mem[b]
                      /\ \A u \in Threads : token'[u] = token[u]
                      /\ saved'.by = Worker /\ saved'.buf \in Own(Worker)
                      /\ \A r \in Registers : reg'[r] # NULL => reg'[r].buf \in {Copy, Name}
    BY DEF WorkerApart
  <2>1. /\ ScansApart /\ StringsOK /\ mem \in Memories /\ Worker \in Actors /\ ~mixed'
        /\ \A r \in Registers : reg[r] # NULL => reg[r].buf \in {Copy, Name}
    BY <1>4, Threaded DEF Understood, ScansApart, TInv, StringsOK, Undisturbed
  <2>2. p \in Pointers \cup {NULL} /\ (p # NULL => p.buf \in Own(Worker))
    BY <1>3, <2>1 DEF TInv, WorkerOK, Own
  <2> HIDE DEF p, s
  <2>3. /\ \A b \in Buffers \ Own(Worker) : mem'[b] = mem[b]
        /\ \A u \in Actors : u # Worker => token'[u] = token[u]
        /\ saved'.by = Worker /\ saved'.buf \in Own(Worker)
    BY <1>1, <2>1, <2>2, OwnScan
  <2>4. token'[Worker] # NULL => token'[Worker].buf \in {Copy, Name}
    BY <1>1, <2>1, <2>3, TokenPlace DEF Own
  <2>5. reg \in [Registers -> Pointers \cup {NULL}]
    BY DEF TInv, WorkerOK
  <2>6. \A r \in Registers : reg'[r] = IF r = s.to THEN token'[Worker] ELSE reg[r]
    BY <1>1, <1>3, <2>5
  <2> QED
    BY <2>1, <2>3, <2>4, <2>6, Threaded
<1>6. \A u \in Threads : u # job => replies'[u] = replies[u] /\ executed'[u] = executed[u]
  BY <1>1, <1>2
<1>7. PlainRun(job)' => Len(replies'[job]) = 0 /\ ScansFound'
  <2> SUFFICES ASSUME PlainRun(job)'
               PROVE  Len(replies'[job]) = 0 /\ ScansFound'
    OBVIOUS
  <2>1. PlainRun(job) /\ job # NULL
    BY <1>1, <1>4, ConstantFacts DEF PlainRun, Is
  <2> QED
    BY <1>4, <2>1, PlainJob, WorkerScanFinds
<1> HIDE DEF p, s
<1> DEFINE at == pc[Worker]
<1>8. Goes(Worker, at, at) /\ at \notin {"take", "close"}
  BY <1>1, <1>4
<1>9. UNCHANGED <<input, packet, status, job, queue>> /\ executed' = executed
  BY <1>1
<1> HIDE DEF at
<1>10. at = "forward" => Forwarded(job)'
  <2>1. at = "forward" => Forwarded(job)
    BY <1>4, ConstantFacts DEF Understood, Working, at
  <2> QED
    BY <1>9, <2>1 DEF Forwarded, Coordinator
<1> QED
  BY <1>5, <1>6, <1>7, <1>8, <1>9, <1>10, JobUnderstood

(* What a register points to ends at the next cut.                         *)
LEMMA ValueIs ==
  ASSUME StringsOK, NEW b \in Seq(Symbols), NEW cuts, CutAt(b, cuts), NEW r, NEW p \in 1..Len(b),
         At(r, p), b[p] # "NUL", p \notin cuts, p + 1 \in cuts \/ p = Len(b)
  PROVE  reg[r] # NULL /\ Value(r) = <<b[p]>> /\ Len(Value(r)) = 1
<1> DEFINE s == mem[Copy]
           n == Len(b)
<1>1. n \in Nat /\ p \in Nat \ {0} /\ p <= n /\ s \in Seq(Symbols) /\ Len(s) = n + 1
  BY BufferFacts DEF CutAt, StringsOK, Memories
<1>2. p + 1 \in 1..Len(s) /\ p \in 1..Len(s)
  BY <1>1
<1>3. s[p] = b[p] /\ s[p + 1] = "NUL"
  <2>1. s[p] = b[p]
    BY DEF CutAt
  <2>2. CASE p = n
    BY <2>2 DEF CutAt
  <2>3. CASE p # n
    <3>1. p + 1 \in 1..n /\ p + 1 \in cuts
      BY <1>1, <2>3
    <3> QED
      BY <3>1 DEF CutAt
  <2> QED
    BY <2>1, <2>2, <2>3
<1> HIDE DEF s, n
<1> DEFINE all == {"NUL"}
<1>4. FirstIn(s, p, all) = p + 1
  <2>1. p + 1 \in p..Len(s) /\ s[p + 1] \in all
    BY <1>1, <1>2, <1>3
  <2>2. \A j \in p..((p + 1) - 1) : j = p
    BY <1>1
  <2>3. \A j \in p..((p + 1) - 1) : s[j] \notin all
    BY <1>3, <2>2 DEF s
  <2> DEFINE f == p + 1
  <2> HIDE DEF f, all
  <2>4. f \in p..Len(s) /\ s[f] \in all /\ \A j \in p..(f - 1) : s[j] \notin all
    BY <2>1, <2>3 DEF f
  <2>5. FirstIn(s, p, all) = f
    BY <1>1, <2>4, FirstInIs
  <2> QED
    BY <2>5 DEF f
<1>5. reg[r] = Ptr(Copy, p) /\ reg[r].buf = Copy /\ reg[r].pos = p
  BY DEF At, Ptr
<1>6. reg[r] # NULL
  <2>1. Ptr(Copy, p) \in Pointers
    BY <1>1, BufferFacts DEF Ptr, Pointers
  <2> QED
    BY <1>5, <2>1, ConstantFacts
<1>7. Value(r) = SubSeq(s, p, p)
  <2>1. Value(r) = SubSeq(s, p, FirstIn(s, p, all) - 1)
    BY <1>5, <1>6 DEF Value, StringAt, s
  <2>2. (p + 1) - 1 = p
    BY <1>1
  <2> QED
    BY <1>4, <2>1, <2>2
<1>8. SubSeq(s, p, p) = <<s[p]>>
  <2>1. p \in Nat /\ p <= Len(s) /\ p <= p /\ p - p + 1 = 1 /\ p + 1 - 1 = p /\ 1 \in 1..1
    BY <1>1
  <2> DEFINE v == SubSeq(s, p, p)
  <2>2. v \in Seq(Symbols) /\ Len(v) = 1 /\ v[1] = s[p]
    <3>1. v \in Seq(Symbols) /\ Len(v) = IF p <= p THEN p - p + 1 ELSE 0
      BY <1>1, <2>1, SubSeqFacts
    <3>2. \A i \in 1..Len(v) : v[i] = s[p + i - 1]
      BY <1>1, <2>1, SubSeqFacts
    <3>3. Len(v) = 1
      BY <2>1, <3>1
    <3>4. v[1] = s[p + 1 - 1]
      BY <2>1, <3>2, <3>3
    <3> QED
      BY <2>1, <3>1, <3>3, <3>4
  <2> HIDE DEF v
  <2>3. v = <<s[p]>>
    BY <2>2
  <2> QED
    BY <2>3 DEF v
<1>9. Len(<<b[p]>>) = 1
  OBVIOUS
<1> QED
  BY <1>3, <1>6, <1>7, <1>8, <1>9 DEF s

LEMMA LastValueIs ==
  ASSUME StringsOK, NEW b \in Seq(Symbols), NEW cuts, CutAt(b, cuts), NEW r, NEW p,
         p = Len(b), At(r, p), p \in 1..Len(b), b[p] # "NUL", p \notin cuts
  PROVE  reg[r] # NULL /\ Value(r) = <<b[p]>>
BY ValueIs

(* With all its scans done, the worker has the command in parts.           *)
LEMMA CommandDone ==
  ASSUME TInv, ScansFound, CommandReady, NEW b, b = Body(Text(job)),
         b \in Seq(Symbols), Fields(b), Len(b) \in {7, 11, 15}
  PROVE  /\ \A r \in {"op_value", "op_datafield", "op_datavalue"} : reg[r] # NULL
         /\ Op = <<b[3]>> /\ Value("op_datafield") = <<b[5]>>
         /\ Value("op_datavalue") = <<b[7]>> /\ Len(Value("op_datavalue")) = 1
         /\ CutAt(b, {2, 4, 6, 8}) /\ At("op_datavalue", 7) /\ reg["weight_value"] = NULL
<1> DEFINE S == CommandScans
           A == CommandStarts
           E == CommandEnds
           c == {}
<1>1. PICK k \in 0..6 : CommandFound(b, k)
  BY DEF ScansFound, CommandReady
<1>2. /\ todo = SubSeq(S, k + 1, Len(S)) /\ CutAt(b, Cuts(c, E, k))
      /\ \A i \in 1..k : At(S[i].to, A[i])
      /\ reg["weight_value"] = NULL /\ todo = << >>
  BY <1>1 DEF CommandFound, ScansDone, CommandReady
<1>3. /\ S \in Seq(ScanSet) /\ Len(S) = 6 /\ S[4].to = "op_value" /\ S[5].to = "op_datafield"
      /\ S[6].to = "op_datavalue"
  BY ScanFacts, CommandFits
<1>4. A[4] = 3 /\ A[5] = 5 /\ A[6] = 7
  BY DEF CommandStarts
<1>5. E[1] = 4 /\ E[2] = 8 /\ E[3] = 2 /\ E[4] = 4 /\ E[5] = 6 /\ E[6] = 8
  BY DEF CommandEnds
<1> HIDE DEF S, A, E
<1>6. k = 6
  BY <1>2, <1>3, ScansLeft
<1>7. Cuts(c, E, 6) = {2, 4, 6, 8}
  <2>1. \A i \in 1..6 : i \in {1, 2, 3, 4, 5, 6}
    OBVIOUS
  <2>2. \A i \in {1, 2, 3, 4, 5, 6} : i \in 1..6
    OBVIOUS
  <2> QED
    BY <1>5, <2>1, <2>2 DEF Cuts
<1>8. /\ At("op_value", 3) /\ At("op_datafield", 5) /\ At("op_datavalue", 7)
      /\ CutAt(b, {2, 4, 6, 8})
  <2>1. 4 \in 1..6 /\ 5 \in 1..6 /\ 6 \in 1..6
    OBVIOUS
  <2> QED
    BY <1>2, <1>3, <1>4, <1>6, <1>7, <2>1
<1>9. \A i \in {3, 5, 7} : /\ i \in 1..Len(b) /\ b[i] # "NUL" /\ i \notin {2, 4, 6, 8}
                           /\ i + 1 \in {2, 4, 6, 8}
  <2>1. b[3] # "NUL" /\ b[5] # "NUL" /\ b[7] # "NUL"
    BY BodyFacts
  <2> DEFINE n == Len(b)
  <2>2. 3 \in 1..n /\ 5 \in 1..n /\ 7 \in 1..n
    <3>1. n = 7 \/ n = 11 \/ n = 15
      OBVIOUS
    <3> HIDE DEF n
    <3> QED
      BY <3>1
  <2> QED
    BY <2>1, <2>2
<1> DEFINE C == {2, 4, 6, 8}
<1>10. StringsOK
  BY DEF TInv
<1> HIDE DEF C, c
<1>11. /\ 3 \in 1..Len(b) /\ b[3] # "NUL" /\ 3 \notin C /\ 3 + 1 \in C
       /\ 5 \in 1..Len(b) /\ b[5] # "NUL" /\ 5 \notin C /\ 5 + 1 \in C
       /\ 7 \in 1..Len(b) /\ b[7] # "NUL" /\ 7 \notin C /\ 7 + 1 \in C
  BY <1>9 DEF C
<1>12. CutAt(b, C)
  BY <1>8 DEF C
<1>13. reg["op_value"] # NULL /\ Value("op_value") = <<b[3]>>
  BY <1>8, <1>10, <1>11, <1>12, ValueIs
<1>14. reg["op_datafield"] # NULL /\ Value("op_datafield") = <<b[5]>>
  BY <1>8, <1>10, <1>11, <1>12, ValueIs
<1>15. /\ reg["op_datavalue"] # NULL /\ Value("op_datavalue") = <<b[7]>>
       /\ Len(Value("op_datavalue")) = 1
  BY <1>8, <1>10, <1>11, <1>12, ValueIs
<1> QED
  BY <1>2, <1>8, <1>13, <1>14, <1>15 DEF Op

LEMMA AddDone ==
  ASSUME TInv, ScansFound, pc[Worker] = "ADD", todo = << >>, NEW b, b = Body(Text(job)),
         b \in Seq(Symbols), Fields(b), Len(b) = 15
  PROVE  /\ b[3] = "ADD" /\ reg["port_value"] # NULL /\ reg["weight_value"] # NULL
         /\ Value("op_datavalue") = <<b[7]>>
         /\ Value("port_value") = <<b[11]>> /\ Value("weight_value") = <<b[15]>>
<1> DEFINE S == AddScans
           A == AddStarts
           E == AddEnds
           c == {2, 4, 6, 8}
<1>1. b[3] = "ADD" /\ \E k \in 0..6 : AddFound(b, k)
  BY DEF ScansFound
<1>2. PICK k \in 0..6 : AddFound(b, k)
  BY <1>1
<1>3. /\ todo = SubSeq(S, k + 1, Len(S)) /\ CutAt(b, Cuts(c, E, k))
      /\ \A i \in 1..k : At(S[i].to, A[i])
      /\ At("op_datavalue", 7)
  BY <1>2 DEF AddFound, ScansDone
<1>4. S \in Seq(ScanSet) /\ Len(S) = 6 /\ S[4].to = "port_value" /\ S[6].to = "weight_value"
  BY ScanFacts, AddFits
<1>5. A[4] = 11 /\ A[6] = 15
  BY DEF AddStarts
<1>6. E[1] = 12 /\ E[2] = 16 /\ E[3] = 10 /\ E[4] = 12 /\ E[5] = 14 /\ E[6] = 16
  BY DEF AddEnds
<1> HIDE DEF S, A, E
<1>7. k = 6
  BY <1>3, <1>4, ScansLeft
<1> DEFINE C == Cuts(c, E, 6)
<1>8. 12 \in C /\ 8 \in C /\ 7 \notin C /\ 11 \notin C /\ 15 \notin C
  <2>1. 1 \in 1..6 /\ \A i \in 1..6 : i \in {1, 2, 3, 4, 5, 6}
    OBVIOUS
  <2>2. \A i \in 1..6 : E[i] \in {10, 12, 14, 16}
    BY <1>6, <2>1
  <2>3. C = c \cup {E[i] : i \in 1..6}
    BY DEF Cuts
  <2>4. 12 \in C /\ 8 \in C
    BY <1>6, <2>1, <2>3
  <2> DEFINE D == {E[i] : i \in 1..6}
  <2>5. \A x \in D : x \in {10, 12, 14, 16}
    BY <2>2
  <2> HIDE DEF D, C
  <2>6. \A x \in {7, 11, 15} : x \notin c /\ x \notin D
    BY <2>5
  <2> QED
    BY <2>3, <2>4, <2>6 DEF D
<1> HIDE DEF C, c
<1>9. At("port_value", 11) /\ At("weight_value", 15) /\ CutAt(b, C)
  <2>1. 4 \in 1..6 /\ 6 \in 1..6
    OBVIOUS
  <2> QED
    BY <1>3, <1>4, <1>5, <1>7, <2>1 DEF C
<1>10. b[7] # "NUL" /\ b[11] # "NUL" /\ b[15] # "NUL"
  <2>1. Len(b) \in {7, 11, 15} /\ Len(b) # 7
    OBVIOUS
  <2> QED
    BY <2>1, BodyFacts
<1>11. /\ 7 \in 1..Len(b) /\ 11 \in 1..Len(b) /\ 15 \in 1..Len(b) /\ StringsOK
       /\ 7 + 1 = 8 /\ 11 + 1 = 12
  BY DEF TInv
<1>12. Value("op_datavalue") = <<b[7]>>
  BY <1>3, <1>8, <1>9, <1>10, <1>11, ValueIs
<1>13. reg["port_value"] # NULL /\ Value("port_value") = <<b[11]>>
  BY <1>8, <1>9, <1>10, <1>11, ValueIs
<1>14. reg["weight_value"] # NULL /\ Value("weight_value") = <<b[15]>>
  <2> DEFINE q == 15
             r == "weight_value"
  <2>1. q \in 1..Len(b) /\ b[q] # "NUL" /\ q \notin C /\ q = Len(b) /\ At(r, q)
    BY <1>8, <1>9, <1>10, <1>11
  <2> HIDE DEF q, r
  <2>2. StringsOK /\ CutAt(b, C)
    BY <1>9, <1>11
  <2>3. reg[r] # NULL /\ Value(r) = <<b[q]>>
    BY <2>1, <2>2, LastValueIs, ZenonT(30)
  <2> QED
    BY <2>3 DEF q, r
<1> QED
  BY <1>1, <1>12, <1>13, <1>14

LEMMA DelDone ==
  ASSUME TInv, ScansFound, pc[Worker] = "DEL", todo = << >>, NEW b, b = Body(Text(job)),
         b \in Seq(Symbols), Fields(b), Len(b) = 11
  PROVE  /\ b[3] = "DEL" /\ reg["port_value"] # NULL
         /\ Value("op_datavalue") = <<b[7]>>
         /\ Value("port_value") = <<b[11]>> /\ Value("weight_value") = << >>
<1> DEFINE S == DelScans
           A == DelStarts
           E == DelEnds
           c == {2, 4, 6, 8}
<1>1. b[3] = "DEL" /\ \E k \in 0..3 : DelFound(b, k)
  BY DEF ScansFound
<1>2. PICK k \in 0..3 : DelFound(b, k)
  BY <1>1
<1>3. /\ todo = SubSeq(S, k + 1, Len(S)) /\ CutAt(b, Cuts(c, E, k))
      /\ \A i \in 1..k : At(S[i].to, A[i])
      /\ At("op_datavalue", 7) /\ reg["weight_value"] = NULL
  BY <1>2 DEF DelFound, ScansDone
<1>4. S \in Seq(ScanSet) /\ Len(S) = 3 /\ S[3].to = "port_value"
  BY ScanFacts, DelFits
<1>5. A[3] = 11
  BY DEF DelStarts
<1>6. E[1] = 12 /\ E[2] = 10 /\ E[3] = 12
  BY DEF DelEnds
<1> HIDE DEF S, A, E
<1>7. k = 3
  BY <1>3, <1>4, ScansLeft
<1> DEFINE C == Cuts(c, E, 3)
<1>8. 8 \in C /\ 7 \notin C /\ 11 \notin C
  <2>1. \A i \in 1..3 : i \in {1, 2, 3}
    OBVIOUS
  <2> QED
    BY <1>6, <2>1 DEF Cuts
<1> HIDE DEF C, c
<1>9. At("port_value", 11) /\ CutAt(b, C)
  <2>1. 3 \in 1..3
    OBVIOUS
  <2> QED
    BY <1>3, <1>4, <1>5, <1>7, <2>1 DEF C
<1>10. b[7] # "NUL" /\ b[11] # "NUL"
  <2>1. Len(b) \in {7, 11, 15} /\ Len(b) # 7
    OBVIOUS
  <2> QED
    BY <2>1, BodyFacts
<1>11. 7 \in 1..Len(b) /\ 11 \in 1..Len(b) /\ StringsOK /\ 7 + 1 = 8
  BY DEF TInv
<1>12. Value("op_datavalue") = <<b[7]>>
  BY <1>3, <1>8, <1>9, <1>10, <1>11, ValueIs
<1>13. reg["port_value"] # NULL /\ Value("port_value") = <<b[11]>>
  <2> DEFINE q == 11
             r == "port_value"
  <2>1. q \in 1..Len(b) /\ b[q] # "NUL" /\ q \notin C /\ q = Len(b) /\ At(r, q)
    BY <1>8, <1>9, <1>10, <1>11
  <2> HIDE DEF q, r
  <2>2. StringsOK /\ CutAt(b, C)
    BY <1>9, <1>11
  <2>3. reg[r] # NULL /\ Value(r) = <<b[q]>>
    BY <2>1, <2>2, LastValueIs, ZenonT(30)
  <2> QED
    BY <2>3 DEF q, r
<1>14. Value("weight_value") = << >>
  BY <1>3 DEF Value, StringAt
<1> QED
  BY <1>1, <1>12, <1>13, <1>14

LEMMA RepliesGrow ==
  ASSUME RestOK, job \in Threads, NEW x \in Nat, Replies(<<x>>)
  PROVE  /\ replies'[job] # << >> /\ Len(replies'[job]) = Len(replies[job]) + 1
         /\ \A u \in Threads : u # job => replies'[u] = replies[u]
<1>1. replies \in [Threads -> Seq(Nat)] /\ replies' = [replies EXCEPT ![job] = @ \o <<x>>]
  BY DEF RestOK, Replies
<1> DEFINE s == replies[job]
           c == <<x>>
<1>2. s \in Seq(Nat) /\ c \in Seq(Nat) /\ Len(c) = 1 /\ Len(s) \in Nat
  BY <1>1
<1>3. replies'[job] = s \o c
  BY <1>1
<1> HIDE DEF s, c
<1>4. Len(s \o c) = Len(s) + 1
  <2>1. Len(s \o c) = Len(s) + Len(c)
    BY <1>2, ConcatProperties, Zenon
  <2> QED
    BY <1>2, <2>1
<1>5. Len(<< >>) = 0 /\ Len(s) + 1 # 0
  BY <1>2
<1> QED
  BY <1>1, <1>3, <1>4, <1>5 DEF s

LEMMA RepliesNone ==
  ASSUME RestOK, job \in Threads, Replies(<< >>)
  PROVE  replies' = replies
<1>1. replies \in [Threads -> Seq(Nat)] /\ replies' = [replies EXCEPT ![job] = @ \o << >>]
  BY DEF RestOK, Replies
<1>2. replies[job] \in Seq(Nat)
  BY <1>1
<1>3. replies[job] \o << >> = replies[job]
  BY <1>2, ConcatEmptySeq
<1> QED
  BY <1>1, <1>3

(* Between its scans the worker acts on what it has found.                 *)
LEMMA SteadyUnderstood ==
  ASSUME TInv, TInv', Understood, NEW from, from \notin {"take", "close"}, NEW to, to # "take",
         Goes(Worker, from, to), NoScan,
         UNCHANGED <<input, packet, queue, job, status, ranOn, serverType>>,
         ScansApart => \A r \in Registers : reg'[r] # NULL => reg'[r].buf \in {Copy, Name},
         \/ to # "close" /\ replies' = replies
         \/ to = "close" /\ \E x \in Nat : Replies(<<x>>)
         \/ to = "close" /\ replies' = replies /\ Forwarded(job)',
         to = "forward" => Forwarded(job)',
         \/ executed' = executed
         \/ \E c : Executes(c) /\ (PlainRun(job) => c = input[job].means),
         PlainRun(job) => to = "close" \/ ScansFound'
  PROVE  Understood'
<1>1. UNCHANGED <<mem, saved, token, mixed, ranOn, input, job>>
  BY DEF NoScan
<1>2. (Undisturbed' <=> Undisturbed) /\ (PlainRun(job)' <=> PlainRun(job))
  BY <1>1 DEF Undisturbed, PlainRun, Is
<1>3. /\ pc[Worker] = from /\ pc'[Worker] = to
  BY Threaded DEF Goes, TInv, ThreadsOK, Actors
<1>4. job \in Threads /\ job # NULL
  BY <1>3 DEF TInv, WorkerOK
<1>5. /\ \A u \in Threads : u # job => replies'[u] = replies[u]
      /\ to = "close" => \/ replies'[job] # << >> /\ Len(replies'[job]) = Len(replies[job]) + 1
                         \/ replies'[job] = replies[job] /\ Forwarded(job)'
      /\ to # "close" => replies'[job] = replies[job]
  BY <1>4, RepliesGrow DEF TInv
<1>6. /\ \A u \in Threads : u # job => executed'[u] = executed[u]
      /\ executed' = executed \/ (PlainRun(job)' => executed'[job] = input[job].means)
  <2>1. executed = [t \in Threads |-> executed[t]]
    BY DEF TInv, RestOK
  <2>2. CASE executed' = executed
    BY <2>2
  <2>3. ASSUME NEW c, Executes(c), PlainRun(job) => c = input[job].means
        PROVE  <1>6!1 /\ <1>6!2
    <3>1. \A u \in Threads : executed'[u] = IF u = job THEN c ELSE executed[u]
      BY <2>1, <2>3 DEF Executes
    <3> QED
      BY <1>2, <1>4, <2>3, <3>1
  <2> QED
    BY <2>2, <2>3
<1>7. PlainRun(job)' => /\ IF to = "close" THEN ToldOnce(job)' ELSE Len(replies'[job]) = 0
                        /\ ScansFound'
  <2> SUFFICES ASSUME PlainRun(job)
               PROVE  /\ IF to = "close" THEN ToldOnce(job)' ELSE Len(replies'[job]) = 0
                      /\ ScansFound'
    BY <1>2
  <2>1. Len(replies[job]) = 0
    BY <1>3, <1>4, PlainJob
  <2>2. ScansFound'
    <3>1. CASE to = "close"
      BY <1>3, <3>1 DEF ScansFound
    <3> QED
      BY <3>1
  <2>3. to = "close" => ToldOnce(job)'
    <3>1. replies[job] \in Seq(Nat)
      BY <1>4 DEF TInv, RestOK
    <3>2. replies[job] = << >>
      BY <2>1, <3>1
    <3> QED
      BY <1>1, <1>5, <2>1, <3>2 DEF ToldOnce
  <2>4. to # "close" => Len(replies'[job]) = 0
    BY <1>5, <2>1
  <2> QED
    BY <2>2, <2>3, <2>4
<1>8. WorkerApart
  BY <1>1, <1>2 DEF WorkerApart, Understood
<1>9. Undisturbed' => Undisturbed
  BY <1>2
<1>10. to = "close" => Told(job)'
  BY <1>1, <1>5 DEF Told
<1> QED
  BY <1>5, <1>6, <1>7, <1>8, <1>9, <1>10, JobUnderstood

LEMMA ForwardedByData ==
  ASSUME TInv, Data, PassedOn, UNCHANGED serverType
  PROVE  Forwarded(job)'
<1>1. /\ Executes(Command) /\ job \in Threads /\ UNCHANGED job
      /\ Coordinator /\ Op \in {<<"GET">>, <<"SET">>}
  BY DEF Data, PassedOn, CommandReady, TInv, WorkerOK
<1>2. Command.op \in {"GET", "SET"}
  <2>1. Op = <<"GET">> => Head(Op) = "GET" /\ Op # <<"SET">>
    OBVIOUS
  <2> QED
    BY <1>1, <2>1 DEF Command, Means
<1>3. executed'[job] = Command
  BY <1>1 DEF Executes, TInv, RestOK
<1> QED
  BY <1>1, <1>2, <1>3 DEF Forwarded, Coordinator

LEMMA DataUnderstood ==
  ASSUME TInv, TInv', Understood, Data, UNCHANGED serverType
  PROVE  Understood'
<1>1. /\ CommandReady /\ Op \in {<<"GET">>, <<"SET">>, <<"REM">>} /\ Executes(Command)
      /\ NoScan /\ UNCHANGED <<input, packet, queue, job, reg, status, ranOn>>
  BY DEF Data
<1>2. \/ /\ Goes(Worker, "command", "forward") /\ todo' = ForwardScans
         /\ replies' = replies /\ Forwarded(job)'
      \/ Goes(Worker, "command", "close") /\ \E x \in Nat : Replies(<<x>>)
      \/ Goes(Worker, "command", "close") /\ replies' = replies /\ Forwarded(job)'
  <2>1. PassedOn => Forwarded(job)'
    BY ForwardedByData
  <2>2. CASE PassedOn /\ Goes(Worker, "command", "forward") /\ todo' = ForwardScans /\ UNCHANGED replies
    BY <2>1, <2>2
  <2>3. CASE Goes(Worker, "command", "close") /\ \E codes \in OwnAnswers : Replies(codes)
    <3>1. PICK codes \in OwnAnswers : Replies(codes)
      BY <2>3
    <3>2. CASE codes = << >> /\ PassedOn
      <4>1. Replies(<< >>)
        BY <3>1, <3>2
      <4>2. job \in Threads
        BY <1>1 DEF CommandReady, TInv, WorkerOK
      <4> QED
        BY <2>1, <2>3, <3>2, <4>1, <4>2, RepliesNone DEF TInv
    <3>3. CASE \E x \in Nat : codes = <<x>>
      BY <2>3, <3>1, <3>3
    <3>4. (codes = << >> /\ PassedOn) \/ \E x \in Nat : codes = <<x>>
      <4>1. 501 \in Nat /\ 404 \in Nat /\ 200 \in Nat
        OBVIOUS
      <4> QED
        BY <4>1 DEF OwnAnswers, Answers
    <3> QED
      BY <3>2, <3>3, <3>4
  <2> QED
    BY <2>2, <2>3 DEF Data
<1>3. ASSUME PlainRun(job)
      PROVE  Command = input[job].means
  <2> PICK b : b = Body(Text(job))
    OBVIOUS
  <2>1. job # NULL /\ pc[Worker] # "close"
    BY <1>1 DEF CommandReady, TInv, WorkerOK
  <2>2. /\ ScansFound /\ b \in Seq(Symbols) /\ Fields(b) /\ Len(b) \in {7, 11, 15}
        /\ Commands(b, input[job].means)
    BY <1>3, <2>1, PlainJob
  <2>3. Op = <<b[3]>> /\ Value("op_datafield") = <<b[5]>> /\ Value("op_datavalue") = <<b[7]>>
    BY <1>1, <2>2, CommandDone
  <2>4. \A x, y : <<x>> = <<y>> => x = y
    OBVIOUS
  <2>5. b[3] \in {"GET", "SET", "REM"} /\ (Op = <<"SET">> <=> b[3] = "SET") /\ Head(Op) = b[3]
    BY <1>1, <2>3, <2>4
  <2>6. Command = IF b[3] = "SET" THEN Means("SET", <<b[5]>>, <<b[7]>>, << >>)
                  ELSE Means(b[3], <<b[7]>>, << >>, << >>)
    BY <2>3, <2>5 DEF Command
  <2> QED
    BY <2>2, <2>5, <2>6 DEF Commands
<1>4. ScansApart => \A r \in Registers : reg'[r] # NULL => reg'[r].buf \in {Copy, Name}
  BY <1>1 DEF ScansApart
<1>5. CASE /\ Goes(Worker, "command", "forward") /\ todo' = ForwardScans
           /\ replies' = replies /\ Forwarded(job)'
  <2>1. pc'[Worker] = "forward"
    BY <1>5, Threaded DEF Goes, TInv, ThreadsOK, Actors
  <2>2. ScansFound'
    BY <1>5, <2>1 DEF ScansFound
  <2> QED
    BY <1>1, <1>3, <1>4, <1>5, <2>2, SteadyUnderstood
<1>6. CASE Goes(Worker, "command", "close") /\ \E x \in Nat : Replies(<<x>>)
  BY <1>1, <1>3, <1>4, <1>6, SteadyUnderstood
<1>7. CASE Goes(Worker, "command", "close") /\ replies' = replies /\ Forwarded(job)'
  BY <1>1, <1>3, <1>4, <1>7, SteadyUnderstood
<1> QED
  BY <1>2, <1>5, <1>6, <1>7

LEMMA UnknownUnderstood ==
  ASSUME TInv, TInv', Understood, Unknown \/ Forward, UNCHANGED serverType
  PROVE  Understood'
<1>1. PICK from \in {"command", "forward"} :
        /\ Goes(Worker, from, "close")
        /\ \/ \E x \in Nat : Replies(<<x>>)
           \/ from = "forward" /\ Replies(<< >>)
  <2>1. 400 \in Nat /\ 200 \in Nat
    OBVIOUS
  <2> QED
    BY <2>1 DEF Unknown, Forward
<1>2. NoScan /\ UNCHANGED <<input, packet, queue, job, reg, executed, status, ranOn>>
  BY DEF Unknown, Forward, worker
<1>3. ScansApart => \A r \in Registers : reg'[r] # NULL => reg'[r].buf \in {Copy, Name}
  BY <1>2 DEF ScansApart
<1>4. pc[Worker] = from /\ job \in Threads /\ job # NULL
  BY <1>1 DEF Goes, TInv, WorkerOK
<1>5. from = "forward" => Forwarded(job)'
  <2>1. from = "forward" => Forwarded(job)
    BY <1>4 DEF Understood, Working
  <2> QED
    BY <1>2, <2>1 DEF Forwarded, Coordinator
<1>6. \/ \E x \in Nat : Replies(<<x>>)
      \/ replies' = replies /\ Forwarded(job)'
  BY <1>1, <1>4, <1>5, RepliesNone DEF TInv
<1> QED
  BY <1>1, <1>2, <1>3, <1>6, SteadyUnderstood

(* ADD and DEL look behind the end of the ip.                              *)
LEMMA RingFinds ==
  ASSUME TInv, Understood, Ring, PlainRun(job), pc'[Worker] = Head(Op)
  PROVE  ScansFound'
<1>1. /\ CommandReady /\ Op \in {<<"ADD">>, <<"DEL">>} /\ UNCHANGED <<mem, input, job>>
      /\ reg' = [reg EXCEPT !["rest"] = [reg["op_datavalue"] EXCEPT
                                           !.pos = @ + Len(Value("op_datavalue")) + 1]]
      /\ todo' = IF Op = <<"ADD">> THEN AddScans ELSE DelScans
  BY DEF Ring, NoScan
<1> PICK b : b = Body(Text(job))
  OBVIOUS
<1>2. job # NULL /\ pc[Worker] # "close"
  BY <1>1 DEF CommandReady, TInv, WorkerOK
<1>3. /\ ScansFound /\ b \in Seq(Symbols) /\ Fields(b) /\ Len(b) \in {7, 11, 15}
  BY <1>2, PlainJob
<1>4. /\ Op = <<b[3]>> /\ Len(Value("op_datavalue")) = 1
      /\ CutAt(b, {2, 4, 6, 8}) /\ At("op_datavalue", 7) /\ reg["weight_value"] = NULL
  BY <1>1, <1>3, CommandDone
<1>5. Body(Text(job))' = b
  BY <1>1 DEF Text
<1>6. \A x, y : <<x>> = <<y>> => x = y
  OBVIOUS
<1>7. b[3] \in {"ADD", "DEL"} /\ (Op = <<"ADD">> <=> b[3] = "ADD") /\ pc'[Worker] = b[3]
  BY <1>1, <1>4, <1>6
<1>8. At("rest", 9)' /\ At("op_datavalue", 7)' /\ reg'["weight_value"] = NULL
  <2>1. "rest" \in Registers /\ "op_datavalue" \in Registers /\ "weight_value" \in Registers
    BY DEF Registers
  <2>2. DOMAIN reg = Registers
    BY DEF TInv, WorkerOK
  <2>3. reg'["rest"] = [Ptr(Copy, 7) EXCEPT !.pos = @ + 1 + 1]
    BY <1>1, <1>4, <2>1, <2>2 DEF At
  <2>4. [Ptr(Copy, 7) EXCEPT !.pos = @ + 1 + 1] = Ptr(Copy, 9)
    BY DEF Ptr
  <2>5. reg'["op_datavalue"] = Ptr(Copy, 7) /\ reg'["weight_value"] = NULL
    BY <1>1, <1>4, <2>1, <2>2 DEF At
  <2> QED
    BY <2>3, <2>4, <2>5 DEF At, Ptr, Copy
<1> DEFINE c == {2, 4, 6, 8}
<1>9. ASSUME NEW E
      PROVE  CutAt(b, Cuts(c, E, 0))'
  <2>1. CutAt(b, c)'
    BY <1>1, <1>4 DEF CutAt, Copy
  <2> HIDE DEF c
  <2>2. Cuts(c, E, 0) = c
    BY CutsNext
  <2> QED
    BY <2>1, <2>2
<1>10. ASSUME NEW S \in Seq(ScanSet), NEW A, A[1] = 9, todo' = S, NEW E, NEW f, f = "rest"
       PROVE  ScansDone(b, S, A, E, c, f, 0)'
  <2>1. S = SubSeq(S, 0 + 1, Len(S))
    <3>1. 0 + 1 = 1
      OBVIOUS
    <3> QED
      BY <3>1, SubSeqFull
  <2> HIDE DEF c
  <2>2. At(f, A[1])'
    BY <1>8, <1>10
  <2>3. 0 \notin 1..(Len(S) - 1) /\ \A i \in 1..0 : FALSE
    OBVIOUS
  <2> QED
    BY <1>9, <1>10, <2>1, <2>2, <2>3 DEF ScansDone
<1>11. CASE b[3] = "ADD"
  <2>1. todo' = AddScans /\ AddScans \in Seq(ScanSet) /\ AddStarts[1] = 9
    BY <1>1, <1>7, <1>11, ScanFacts DEF AddStarts
  <2> DEFINE f == "rest"
  <2> HIDE DEF c, f
  <2>2. ScansDone(b, AddScans, AddStarts, AddEnds, c, f, 0)'
    BY <1>10, <2>1 DEF f
  <2>3. AddFound(b, 0)' /\ 0 \in 0..6
    BY <1>8, <2>2 DEF AddFound, c, f
  <2> QED
    BY <1>5, <1>7, <1>11, <2>3 DEF ScansFound
<1>12. CASE b[3] = "DEL"
  <2>1. todo' = DelScans /\ DelScans \in Seq(ScanSet) /\ DelStarts[1] = 9
    BY <1>1, <1>7, <1>12, ScanFacts DEF DelStarts
  <2> DEFINE f == "rest"
  <2> HIDE DEF c, f
  <2>2. ScansDone(b, DelScans, DelStarts, DelEnds, c, f, 0)'
    BY <1>10, <2>1 DEF f
  <2>3. DelFound(b, 0)' /\ 0 \in 0..3
    BY <1>8, <2>2 DEF DelFound, c, f
  <2> QED
    BY <1>5, <1>7, <1>12, <2>3 DEF ScansFound
<1> QED
  BY <1>7, <1>11, <1>12

LEMMA RingUnderstood ==
  ASSUME TInv, TInv', Understood, Ring, UNCHANGED serverType
  PROVE  Understood'
<1> DEFINE to == Head(Op)
<1>1. /\ Goes(Worker, "command", to) /\ Op \in {<<"ADD">>, <<"DEL">>}
      /\ NoScan /\ UNCHANGED <<input, packet, queue, job, executed, replies, status, ranOn>>
      /\ Coordinator /\ \A r \in Needed : reg[r] # NULL
      /\ reg' = [reg EXCEPT !["rest"] = [reg["op_datavalue"] EXCEPT
                                           !.pos = @ + Len(Value("op_datavalue")) + 1]]
  BY DEF Ring
<1>2. Head(<<"ADD">>) = "ADD" /\ Head(<<"DEL">>) = "DEL"
  OBVIOUS
<1>3. to \in {"ADD", "DEL"} /\ pc'[Worker] = to
  <2>1. to \in {"ADD", "DEL"}
    BY <1>1, <1>2
  <2>2. pc' = [pc EXCEPT ![Worker] = to] /\ Worker \in DOMAIN pc
    BY <1>1, Threaded DEF Goes, TInv, ThreadsOK, Actors
  <2> HIDE DEF to
  <2> QED
    BY <2>1, <2>2
<1>4. ScansApart => \A r \in Registers : reg'[r] # NULL => reg'[r].buf \in {Copy, Name}
  <2>1. "op_datavalue" \in Needed
    BY <1>1 DEF Needed
  <2>2. reg["op_datavalue"] # NULL /\ "op_datavalue" \in Registers
    BY <1>1, <2>1 DEF Registers
  <2>3. reg \in [Registers -> Pointers \cup {NULL}]
    BY DEF TInv, WorkerOK
  <2>4. reg["op_datavalue"] \in Pointers
    BY <2>2, <2>3
  <2> DEFINE p == [reg["op_datavalue"] EXCEPT !.pos = @ + Len(Value("op_datavalue")) + 1]
  <2>5. p.buf = reg["op_datavalue"].buf
    BY <2>4 DEF Pointers
  <2>6. \A r \in Registers : reg'[r] = IF r = "rest" THEN p ELSE reg[r]
    BY <1>1, <2>3
  <2> HIDE DEF p
  <2> QED
    BY <2>2, <2>5, <2>6 DEF ScansApart
<1>5. PlainRun(job) => ScansFound'
  BY <1>3, RingFinds
<1> HIDE DEF to
<1>6. to # "close" /\ to # "take" /\ to # "forward"
  BY <1>3
<1> QED
  BY <1>1, <1>4, <1>5, <1>6, SteadyUnderstood

LEMMA RingChangedUnderstood ==
  ASSUME TInv, TInv', Understood, RingChanged, UNCHANGED serverType
  PROVE  Understood'
<1> PICK from : from = pc[Worker]
  OBVIOUS
<1>1. /\ todo = << >> /\ from \in {"ADD", "DEL"} /\ Goes(Worker, from, "close")
      /\ Executes(Means(from, Value("op_datavalue"), Value("port_value"), Value("weight_value")))
      /\ Replies(<<200>>) /\ NoScan
      /\ UNCHANGED <<input, packet, queue, job, reg, todo, status, ranOn>>
  BY DEF RingChanged
<1>2. \E x \in Nat : Replies(<<x>>)
  <2>1. 200 \in Nat
    OBVIOUS
  <2> QED
    BY <1>1, <2>1
<1>3. ASSUME PlainRun(job)
      PROVE  Means(from, Value("op_datavalue"), Value("port_value"), Value("weight_value"))
               = input[job].means
  <2> PICK b : b = Body(Text(job))
    OBVIOUS
  <2>1. job # NULL /\ pc[Worker] # "close"
    BY <1>1 DEF TInv, WorkerOK
  <2>2. /\ ScansFound /\ b \in Seq(Symbols) /\ Fields(b) /\ Commands(b, input[job].means)
    BY <1>3, <2>1, PlainJob
  <2>3. b[3] = from
    BY <1>1, <2>2 DEF ScansFound
  <2>4. CASE from = "ADD"
    <3>1. Len(b) = 15 /\ input[job].means = Means("ADD", <<b[7]>>, <<b[11]>>, <<b[15]>>)
      BY <2>2, <2>3, <2>4 DEF Commands
    <3>2. /\ Value("op_datavalue") = <<b[7]>>
          /\ Value("port_value") = <<b[11]>> /\ Value("weight_value") = <<b[15]>>
      BY <1>1, <2>2, <2>4, <3>1, AddDone
    <3> QED
      BY <2>4, <3>1, <3>2
  <2>5. CASE from = "DEL"
    <3>1. Len(b) = 11 /\ input[job].means = Means("DEL", <<b[7]>>, <<b[11]>>, << >>)
      BY <2>2, <2>3, <2>5 DEF Commands
    <3>2. /\ Value("op_datavalue") = <<b[7]>>
          /\ Value("port_value") = <<b[11]>> /\ Value("weight_value") = << >>
      BY <1>1, <2>2, <2>5, <3>1, DelDone
    <3> QED
      BY <2>5, <3>1, <3>2
  <2> QED
    BY <1>1, <2>4, <2>5
<1>4. ScansApart => \A r \in Registers : reg'[r] # NULL => reg'[r].buf \in {Copy, Name}
  BY <1>1 DEF ScansApart
<1>5. \E c : Executes(c) /\ (PlainRun(job) => c = input[job].means)
  BY <1>1, <1>3
<1> QED
  BY <1>1, <1>2, <1>4, <1>5, SteadyUnderstood

(* Of a plain command nothing is missing.                                  *)
LEMMA HandleCrashUnderstood ==
  ASSUME TInv, Understood, CommandCrashes \/ RingCrashes, UNCHANGED serverType
  PROVE  Understood'
<1>1. PICK at : Crashes(Worker, at)
  BY DEF CommandCrashes, RingCrashes
<1>2. pc[Worker] \in {"command", "ADD", "DEL"} /\ todo = << >>
  BY DEF CommandCrashes, RingCrashes, CommandReady
<1>3. job \in Threads /\ job # NULL /\ pc[Worker] # "close"
  BY <1>2 DEF TInv, WorkerOK
<1>4. input[job] # NULL
  <2>1. pc[job] = "done"
    BY <1>3 DEF Understood, QueuedOnce
  <2>2. input[job] \in Requests
    BY <1>3, <2>1 DEF TInv, ThreadsOK, Progress
  <2> QED
    BY <2>2, ConstantFacts
<1>5. ASSUME PlainRun(job)
      PROVE  FALSE
  <2> PICK b : b = Body(Text(job))
    OBVIOUS
  <2>1. /\ ScansFound /\ b \in Seq(Symbols) /\ Fields(b) /\ Len(b) \in {7, 11, 15}
        /\ Commands(b, input[job].means)
    BY <1>3, <1>5, PlainJob
  <2>2. CASE pc[Worker] = "command"
    <3>1. \A r \in {"op_value", "op_datafield", "op_datavalue"} : reg[r] # NULL
      BY <1>2, <2>1, <2>2, CommandDone DEF CommandReady
    <3>2. \E r \in Needed : reg[r] = NULL
      BY <2>2 DEF CommandCrashes, RingCrashes
    <3>3. Needed \subseteq {"op_value", "op_datafield", "op_datavalue"}
      BY DEF Needed
    <3> QED
      BY <3>1, <3>2, <3>3
  <2>3. CASE pc[Worker] = "ADD"
    <3>1. Len(b) = 15
      BY <2>1, <2>3 DEF ScansFound, Commands
    <3>2. reg["port_value"] # NULL /\ reg["weight_value"] # NULL
      BY <1>2, <2>1, <2>3, <3>1, AddDone
    <3> QED
      BY <2>3, <3>2 DEF CommandCrashes, RingCrashes, CommandReady
  <2>4. CASE pc[Worker] = "DEL"
    <3>1. Len(b) = 11
      BY <2>1, <2>4 DEF ScansFound, Commands
    <3>2. reg["port_value"] # NULL
      BY <1>2, <2>1, <2>4, <3>1, DelDone
    <3> QED
      BY <2>4, <3>2 DEF CommandCrashes, RingCrashes, CommandReady
  <2> QED
    BY <1>2, <2>2, <2>3, <2>4
<1>6. Undisturbed => \E t \in Threads : input[t] # NULL /\ ~Is(t, "plain")
  BY <1>3, <1>4, <1>5 DEF PlainRun
<1> QED
  BY <1>1, <1>6, CrashUnderstood

-----------------------------------------------------------------------------
(* What is understood of the requests.                                     *)

LEMMA InitUnderstood ==
  ASSUME Init
  PROVE  Understood
<1>1. /\ \A t \in Threads : /\ pc[t] = "read" /\ input[t] = NULL /\ headersize[t] = 0
                            /\ replies[t] = << >> /\ executed[t] = NoCommand
      /\ \A r \in Registers : reg[r] = NULL
      /\ saved.by = NULL /\ queue = << >> /\ job = NULL /\ status = "ok"
  <2>1. \A t \in Threads : t \in Actors /\ t # Worker
    BY Threaded
  <2> QED
    BY <2>1 DEF Init
<1>2. ScansApart
  BY <1>1, ConstantFacts DEF ScansApart
<1>3. \A t \in Threads : ~Parsed(t) /\ ~Blank(t)
  BY <1>1 DEF Parsed, Blank
<1>4. DOMAIN queue = {}
  BY <1>1
<1>5. QueuedOnce
  BY <1>1, <1>4, ConstantFacts DEF QueuedOnce, Waits
<1>6. Working /\ Served /\ ExecutesRequest /\ Survived /\ Fresh
  BY <1>1 DEF Working, Served, Handled, ExecutesRequest, Survived, Fresh, Ok
<1> QED
  BY <1>2, <1>3, <1>5, <1>6 DEF Understood

LEMMA NextUnderstood ==
  ASSUME TInv, Understood, [Next]_vars
  PROVE  Understood'
<1>1. TInv' /\ (Undisturbed' => Undisturbed)
  BY NextTypes, DisturbedStays
<1> UNCHANGED serverType
  BY DEF Next, vars
<1>2. CASE UNCHANGED vars
  <2>1. UNCHANGED <<input, mem, saved, pc, token, headers, headersize, type, data, queue, job,
                    reg, todo, executed, replies, status, mixed, ranOn>>
    BY <1>2 DEF vars, packet, worker
  <2>2. Undisturbed' <=> Undisturbed
    BY <2>1 DEF Undisturbed
  <2>3. ASSUME NEW t \in Threads
        PROVE  Untouched(t)
    BY <2>1 DEF Untouched
  <2>4. ScansApart' <=> ScansApart
    BY <2>1 DEF ScansApart, Own, Copy, Name, Line, Buffer, First
  <2>5. Working'
    BY <2>1, <2>2, WorkingStays DEF Understood
  <2>6. QueuedOnce' /\ Served'
    <3>1. \A t \in Threads : (Told(t)' <=> Told(t)) /\ (ToldOnce(t)' <=> ToldOnce(t))
      BY <2>1, ToldStays
    <3> QED
      BY <2>1, <2>2, <3>1 DEF Understood, QueuedOnce, Waits, Served, Handled, PlainRun, Is
  <2>7. Fresh' /\ ExecutesRequest' /\ Survived'
    BY <2>1, <2>2 DEF Understood, Fresh, ExecutesRequest, Survived, Is, Ok
  <2> QED
    BY <2>2, <2>3, <2>4, <2>5, <2>6, <2>7, UntouchedStays DEF Understood
<1>3. CASE Next
  <2>1. ASSUME NEW t \in Threads, Parse(t)
        PROVE  Understood'
    <3>1. CASE Read(t)
      BY <1>1, <3>1, ReadUnderstood
    <3>2. CASE Header(t)
      BY <1>1, <3>2, HeaderUnderstood
    <3>3. CASE NoHeader(t)
      BY <1>1, <3>3, NoHeaderUnderstood
    <3>4. CASE SplitKey(t) \/ SplitValue(t) \/ SplitMethod(t)
      BY <1>1, <3>4, SplitUnderstood
    <3>5. CASE Finish(t)
      BY <1>1, <3>5, FinishUnderstood
    <3>6. CASE ParseCrashes(t)
      BY <3>6, ParseCrashUnderstood
    <3> QED
      BY <2>1, <3>1, <3>2, <3>3, <3>4, <3>5, <3>6 DEF Parse
  <2>2. CASE Take
    BY <1>1, <2>2, TakeUnderstood
  <2>3. CASE WorkerScan
    BY <1>1, <2>3, WorkerScanUnderstood
  <2>4. CASE CommandCrashes \/ RingCrashes
    BY <2>4, HandleCrashUnderstood
  <2>5. CASE Data
    BY <1>1, <2>5, DataUnderstood
  <2>6. CASE Ring
    BY <1>1, <2>6, RingUnderstood
  <2>7. CASE Unknown \/ Forward
    BY <1>1, <2>7, UnknownUnderstood
  <2>8. CASE RingChanged
    BY <1>1, <2>8, RingChangedUnderstood
  <2>9. CASE Close
    BY <1>1, <2>9, CloseUnderstood
  <2> QED
    BY <1>3, <2>1, <2>2, <2>3, <2>4, <2>5, <2>6, <2>7, <2>8, <2>9 DEF Next, Handle
<1> QED
  BY <1>2, <1>3

LEMMA UnderstoodInvariant == Spec => [](TInv /\ Understood)
<1>1. Init => TInv /\ Understood
  BY InitTypes, InitUnderstood
<1>2. TInv /\ Understood /\ [Next]_vars => TInv' /\ Understood'
  BY NextTypes, NextUnderstood
<1> QED
  BY <1>1, <1>2, PTL DEF Spec

(* Whatever the texts and however the threads' steps mix with the worker's,*)
(* the worker executes for each plain request the command that its client  *)
(* meant, while no scan went on in another's text and nothing was read     *)
(* behind the data.                                                        *)
THEOREM ExecutesCorrect == Spec => []ExecutesRequest
<1>1. Understood => ExecutesRequest
  BY DEF Understood
<1> QED
  BY <1>1, UnderstoodInvariant, PTL

(* Then a plain request is answered once, and an incomplete one, which the *)
(* server survives, at least once, except that a coordinator may say       *)
(* nothing to a GET or SET it had to pass on to a store.                   *)
THEOREM AnsweredCorrect == Spec => []Answered
<1>1. TInv /\ Understood => Answered
  <2> SUFFICES ASSUME TInv, Understood, NEW t \in Threads, Undisturbed, Handled(t)
               PROVE  /\ Is(t, "plain") => ToldOnce(t)
                      /\ Is(t, "incomplete") => Told(t)
    BY DEF Answered, Told, ToldOnce
  <2>1. Is(t, "plain") => ToldOnce(t)
    BY DEF Understood, Served, PlainRun
  <2>2. ASSUME Is(t, "incomplete")
        PROVE  Told(t)
    <3>1. input[t] \in Requests /\ input[t].form = "incomplete" /\ input[t] # NULL
          /\ pc[t] = "done"
      BY <2>2, TextFacts DEF Is, Handled
    <3>2. ~Blank(t)
      BY <3>1 DEF Understood, BlankStops
    <3>3. Parsed(t)
      BY <3>1, <3>2, FormAssumption DEF Blank, Parsed, Text
    <3>4. type[t] \in {"GET", "POST"}
      BY <3>1, <3>3 DEF Understood, ParsedWell, Packed, Parsed, Method
    <3>5. type[t] # NULL
      BY <3>4, ConstantFacts
    <3> QED
      BY <3>5 DEF Understood, Served
  <2> QED
    BY <2>1, <2>2
<1> QED
  BY <1>1, UnderstoodInvariant, PTL

(* And plain requests, pages or commands for either kind of server, never  *)
(* bring the server down.                                                  *)
THEOREM CrashesCorrect == Spec => []CrashesOnlyWhen
<1>1. Understood => CrashesOnlyWhen
  BY DEF Understood, Survived, CrashesOnlyWhen
<1> QED
  BY <1>1, UnderstoodInvariant, PTL
=============================================================================
