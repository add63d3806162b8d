------------------------------ MODULE KVStore ------------------------------
(***************************************************************************)
(* The key-value system of dkvstore.c as its users see it: a coordinator   *)
(* whose one worker answers a request at a time, the stores it forwards    *)
(* to, and what goes wrong between them: stores that are down, die, start  *)
(* again empty or never answer, requests for the ring, a coordinator that  *)
(* starts again.                                                           *)
(*                                                                         *)
(* The ring is the map that HashRing shows it to be: the owner of a key is *)
(* the first of the servers in the key's own order, and the key is sent to *)
(* a name and a port recorded with it.  A store is the map of KVMap.       *)
(***************************************************************************)
EXTENDS Naturals, Sequences

CONSTANTS
  Keys, Values, Stores,
  Places,      \* where the stores may run: an ip and a port for each
  Order,       \* the stores in the order a key meets them on the ring
  Initial,     \* the stores on the coordinator's command line
  MaxLeaks,    \* descriptors the coordinator has for forwarding
  MaxFaults,   \* bound: how often stores and coordinator fail
  NULL

\* What the coordinator forwards.
Requests == [op : {"SET"}, key : Keys, value : Values]
              \cup [op : {"GET"}, key : Keys, value : {NULL}]

Codes == {0, 200, 400, 404, 501}

\* What it answers; code 0 closes the connection without an answer, and cause
\* says why.
Answers == [op : {"SET", "GET", "REM", "SYNC", "ADD", "DEL"}, key : Keys \cup {NULL},
            code : Codes, value : Values \cup {NULL},
            cause : {"none", "unresolved", "nofd", "refused", "reset"}]

ASSUME KVAssumption ==
  /\ NULL \notin Values \cup Stores \cup Keys \cup Requests \cup Answers
  /\ Initial \subseteq Stores
  /\ \A p \in Places :
       /\ DOMAIN p = Stores
       /\ \A s, t \in Stores : p[s] = p[t] => s = t
       /\ \A s \in Stores : p[s] = <<p[s][1], p[s][2]>>
  /\ \A a, b \in {p[s][i] : p \in Places, s \in Stores, i \in 1..2} : NULL # <<a, b>>
  /\ Order \in [Keys -> Seq(Stores)]
  /\ \A k \in Keys, s \in Stores : \E i \in DOMAIN Order[k] : Order[k][i] = s
  /\ MaxLeaks \in Nat \ {0} /\ MaxFaults \in Nat

VARIABLES
  place,      \* of the stores, as they were started
  servers,    \* coordinator: the stores on the ring
  route,      \* the ip and port recorded with each key, NULL off the ring
  worker,     \* "take", "connect", "read" or "spin"
  job,        \* the request being forwarded
  leaked,     \* descriptors of failed forwards, never closed
  up, data,   \* stores: running, and their tables
  link,       \* the worker's connection: store, request, state
  orphan,     \* a request a coordinator sent before it died
  reply,      \* the last request answered and its answer
  acked, home, \* history: value and store of each SET answered 200
  lost,       \* history: keys whose store died or was told to remove them
  moved,      \* history: keys that ADD or DEL sent elsewhere
  restarted,  \* history: the coordinator has lost its ring
  faults      \* history: how often a store or the coordinator failed

ringVars == <<servers, route>>
history  == <<acked, home, lost, moved, restarted, faults>>
vars == <<place, ringVars, worker, job, leaked, up, data, link, orphan, reply, history>>

Address(s) == place[s]

\* hashring_addkey: the server whose range the key is in.
Owner(k, ring) ==
  LET i == CHOOSE n \in DOMAIN Order[k] :
             /\ Order[k][n] \in ring
             /\ \A m \in DOMAIN Order[k] : m < n => Order[k][m] \notin ring
  IN  Order[k][i]

\* hashring_lookupserver: the stores of the ring at an address.
Resolve(address) == {s \in servers : Address(s) = address}

Placed == {k \in Keys : route[k] # NULL}

NoLink == [store |-> NULL, state |-> "none", code |-> 0, value |-> NULL]

\* An answer with its cause.
Answer(op, k, code, v, cause) ==
  [op |-> op, key |-> k, code |-> code, value |-> v, cause |-> cause]

Replies(op, k, code, v) ==
  reply' = Answer(op, k, code, v, "none")

-----------------------------------------------------------------------------
(* The coordinator's worker takes a request.                               *)

\* Faulty variant: a key on the ring is placed and sent again.
SetAgain(k, v) ==
  /\ worker = "take"
  /\ servers # {}
  /\ route' = [route EXCEPT ![k] = Address(Owner(k, servers))]
  /\ job' = [op |-> "SET", key |-> k, value |-> v]
  /\ worker' = "connect"
  /\ UNCHANGED <<servers, leaked, up, data, link, orphan, reply, history>>

\* SET: the key goes on the ring before it is forwarded.
Set(k, v) ==
  /\ worker = "take"
  /\ route[k] = NULL /\ servers # {}
  /\ route' = [route EXCEPT ![k] = Address(Owner(k, servers))]
  /\ job' = [op |-> "SET", key |-> k, value |-> v]
  /\ worker' = "connect"
  /\ UNCHANGED <<servers, leaked, up, data, link, orphan, reply, history>>

\* A key on the ring is refused.
SetRefused(k, v) ==
  /\ worker = "take" /\ route[k] # NULL
  /\ Replies("SET", k, 404, v)
  /\ UNCHANGED <<ringVars, worker, job, leaked, up, data, link, orphan, history>>

\* Without servers the walk for the key's store goes round for ever.
SetSpins(k) ==
  /\ worker = "take"
  /\ route[k] = NULL /\ servers = {}
  /\ worker' = "spin"
  /\ UNCHANGED <<ringVars, job, leaked, up, data, link, orphan, reply, history>>

Get(k) ==
  /\ worker = "take"
  /\ IF route[k] = NULL
     THEN /\ Replies("GET", k, 404, NULL)
          /\ UNCHANGED <<worker, job>>
     ELSE /\ job' = [op |-> "GET", key |-> k, value |-> NULL]
          /\ worker' = "connect"
          /\ UNCHANGED reply
  /\ UNCHANGED <<ringVars, leaked, up, data, link, orphan, history>>

\* REM is not the coordinator's (501), SYNC falls through to 400.
Other(op) ==
  /\ worker = "take"
  /\ Replies(op, NULL, IF op = "REM" THEN 501 ELSE 400, NULL)
  /\ UNCHANGED <<ringVars, worker, job, leaked, up, data, link, orphan, history>>

-----------------------------------------------------------------------------
(* Requests for the ring.                                                  *)

\* The keys in the new server's range are sent to it, not those placed before
\* the ring was empty.
RouteAdded(s) ==
  [k \in Keys |-> IF k \in Placed /\ servers # {} /\ Owner(k, servers \cup {s}) = s
                  THEN Address(s) ELSE route[k]]

\* Its keys take the ip of the next server and keep their port.
RouteDeleted(s) ==
  LET rest == servers \ {s}
  IN  [k \in Keys |-> IF k \in Placed /\ rest # {} /\ Owner(k, servers) = s
                      THEN <<place[Owner(k, rest)][1], route[k][2]>> ELSE route[k]]

\* The keys that are sent elsewhere than before.
Moves ==
  moved' = moved \cup {k \in Keys : route'[k] # route[k]}

Add(s) ==
  /\ worker = "take"
  /\ IF s \in servers
     THEN /\ Replies("ADD", NULL, 400, NULL)
          /\ UNCHANGED <<ringVars, moved>>
     ELSE /\ Replies("ADD", NULL, 200, NULL)
          /\ servers' = servers \cup {s}
          /\ route' = RouteAdded(s)
          /\ Moves
  /\ UNCHANGED <<worker, job, leaked, up, data, link, orphan, acked, home, lost,
                 restarted, faults>>

Del(s) ==
  /\ worker = "take"
  /\ IF s \notin servers
     THEN /\ Replies("DEL", NULL, 404, NULL)
          /\ UNCHANGED <<ringVars, moved>>
     ELSE /\ Replies("DEL", NULL, 200, NULL)
          /\ servers' = servers \ {s}
          /\ route' = RouteDeleted(s)
          /\ Moves
  /\ UNCHANGED <<worker, job, leaked, up, data, link, orphan, acked, home, lost,
                 restarted, faults>>

-----------------------------------------------------------------------------
(* coordinator_requestForward.                                             *)

\* It returns -1 and the connection is closed without an answer.
Unanswered(cause) ==
  /\ reply' = Answer(job.op, job.key, 0, NULL, cause)
  /\ worker' = "take" /\ job' = NULL

\* Nothing on the ring at the key's address, or no descriptor left.
Unresolved ==
  /\ worker = "connect"
  /\ \/ Resolve(route[job.key]) = {} /\ Unanswered("unresolved")
     \/ leaked = MaxLeaks /\ Unanswered("nofd")
  /\ UNCHANGED <<ringVars, leaked, up, data, link, orphan, history>>

\* Faulty variant: descriptors are taken without end.
RefusedOver ==
  /\ worker = "connect"
  /\ \E s \in Resolve(route[job.key]) : ~up[s]
  /\ leaked' = leaked + 1
  /\ Unanswered("refused")
  /\ UNCHANGED <<ringVars, up, data, link, orphan, history>>

\* The store is down; the socket is not closed.
Refused ==
  /\ worker = "connect" /\ leaked < MaxLeaks
  /\ \E s \in Resolve(route[job.key]) : ~up[s]
  /\ leaked' = leaked + 1
  /\ Unanswered("refused")
  /\ UNCHANGED <<ringVars, up, data, link, orphan, history>>

\* Faulty variant: the key's owner is looked for again, not the recorded store.
ConnectOwner ==
  /\ worker = "connect" /\ leaked < MaxLeaks /\ servers # {}
  /\ LET s == Owner(job.key, servers)
     IN  up[s] /\ link' = [NoLink EXCEPT !.store = s, !.state = "sent"]
  /\ worker' = "read"
  /\ UNCHANGED <<ringVars, job, leaked, up, data, orphan, reply, history>>

Connect ==
  /\ worker = "connect" /\ leaked < MaxLeaks
  /\ \E s \in Resolve(route[job.key]) :
       /\ up[s]
       /\ link' = [NoLink EXCEPT !.store = s, !.state = "sent"]
  /\ worker' = "read"
  /\ UNCHANGED <<ringVars, job, leaked, up, data, orphan, reply, history>>

\* Faulty variant: the key counts as acknowledged whatever the store said.
AcknowledgesAny == job.op = "SET"

\* The client is told that its value is kept.
Acknowledges == job.op = "SET" /\ link.code = 200

\* The answer is copied to the client; a "stale" one's store died after it.
Return ==
  /\ worker = "read" /\ link.state \in {"answered", "stale"}
  /\ reply' = Answer(job.op, job.key, link.code, link.value, "none")
  /\ IF Acknowledges
     THEN /\ acked' = [acked EXCEPT ![job.key] = job.value]
          /\ home' = [home EXCEPT ![job.key] = link.store]
          /\ lost' = IF link.state = "stale" THEN lost \cup {job.key} ELSE lost \ {job.key}
     ELSE UNCHANGED <<acked, home, lost>>
  /\ worker' = "take" /\ job' = NULL /\ link' = NoLink
  /\ UNCHANGED <<ringVars, leaked, up, data, orphan, moved, restarted, faults>>

\* Faulty variant: the worker reads again until there is an answer.
ReturnNothingNot == FALSE

\* The store died before it answered: read returns 0 or -1, nothing is written.
ReturnNothing ==
  /\ worker = "read" /\ link.state = "reset"
  /\ Unanswered("reset")
  /\ link' = NoLink
  /\ UNCHANGED <<ringVars, leaked, up, data, orphan, history>>

-----------------------------------------------------------------------------
(* Stores.                                                                 *)

\* Faulty variant: the value is not kept.
StoredNot(s, r) == data

\* hashtable_insert of a store for request r.
Stored(s, r) ==
  IF r.op = "SET" /\ data[s][r.key] = NULL
  THEN [data EXCEPT ![s][r.key] = r.value]
  ELSE data

Handle(s) ==
  LET held == data[s][job.key]
  IN  /\ up[s] /\ link.store = s /\ link.state = "sent"
      /\ data' = Stored(s, job)
      /\ link' = [link EXCEPT
                    !.state = "answered",
                    !.code = CASE job.op = "SET" -> IF held = NULL THEN 200 ELSE 400
                               [] job.op = "GET" -> IF held = NULL THEN 404 ELSE 200,
                    !.value = IF job.op = "SET" THEN job.value ELSE held]
      /\ UNCHANGED <<ringVars, worker, job, leaked, up, orphan, reply, history>>

\* One failure more.
Fails == faults < MaxFaults /\ faults' = faults + 1

\* The store's answer will not come: it is stopped, or its accept loop has
\* lost the connection.
Ignore(s) ==
  /\ up[s] /\ link.store = s /\ link.state = "sent"
  /\ link' = [link EXCEPT !.state = "ignored"]
  /\ Fails
  /\ UNCHANGED <<ringVars, worker, job, leaked, up, data, orphan, reply, acked, home, lost,
                 moved, restarted>>

\* A request the coordinator had sent before it died.
HandleOrphan ==
  /\ orphan # NULL
  /\ orphan' = NULL
  /\ data' = IF up[orphan.store] THEN Stored(orphan.store, orphan.request) ELSE data
  /\ UNCHANGED <<ringVars, worker, job, leaked, up, link, reply, history>>

\* What s had answered for a key of ks no longer holds.
Outdated(s, ks) ==
  IF link.store = s /\ link.state = "answered" /\ job.key \in ks
  THEN [link EXCEPT !.state = "stale"] ELSE link

\* A store dies with its table; the kernel closes its connections.
Crash(s) ==
  /\ up[s]
  /\ up' = [up EXCEPT ![s] = FALSE]
  /\ data' = [data EXCEPT ![s] = [k \in Keys |-> NULL]]
  /\ link' = IF link.store = s /\ link.state \in {"sent", "ignored"}
             THEN [link EXCEPT !.state = "reset"] ELSE Outdated(s, Keys)
  /\ orphan' = IF orphan # NULL /\ orphan.store = s THEN NULL ELSE orphan
  /\ lost' = lost \cup {k \in Keys : home[k] = s}
  /\ Fails
  /\ UNCHANGED <<ringVars, worker, job, leaked, reply, acked, home, moved, restarted>>

Restart(s) ==
  /\ ~up[s]
  /\ up' = [up EXCEPT ![s] = TRUE]
  /\ UNCHANGED <<ringVars, worker, job, leaked, data, link, orphan, reply, history>>

\* REM sent to the store itself: the coordinator has no REM.
RemoveAt(s, k) ==
  /\ up[s] /\ data[s][k] # NULL
  /\ data' = [data EXCEPT ![s][k] = NULL]
  /\ link' = Outdated(s, {k})
  /\ lost' = IF home[k] = s THEN lost \cup {k} ELSE lost
  /\ Fails
  /\ UNCHANGED <<ringVars, worker, job, leaked, up, orphan, reply, acked, home,
                 moved, restarted>>

\* The coordinator dies and serverBecomeCoordinator builds the ring anew from
\* the command line; what it had sent is still on its way.
RestartCoordinator ==
  /\ orphan = NULL
  /\ servers' = Initial
  /\ route' = [k \in Keys |-> NULL]
  /\ worker' = "take" /\ job' = NULL /\ leaked' = 0
  /\ link' = NoLink
  /\ orphan' = IF link.state = "sent" THEN [store |-> link.store, request |-> job] ELSE NULL
  /\ restarted' = TRUE /\ Fails
  /\ UNCHANGED <<up, data, reply, acked, home, lost, moved>>

-----------------------------------------------------------------------------
Init ==
  /\ place \in Places
  /\ servers = Initial
  /\ route = [k \in Keys |-> NULL]
  /\ worker = "take" /\ job = NULL /\ leaked = 0
  /\ up = [s \in Stores |-> TRUE]
  /\ data = [s \in Stores |-> [k \in Keys |-> NULL]]
  /\ link = NoLink /\ orphan = NULL /\ reply = NULL
  /\ acked = [k \in Keys |-> NULL] /\ home = [k \in Keys |-> NULL]
  /\ lost = {} /\ moved = {}
  /\ restarted = FALSE /\ faults = 0

Arrives ==
  \/ \E k \in Keys : SetSpins(k) \/ Get(k)
  \/ \E k \in Keys, v \in Values : Set(k, v) \/ SetRefused(k, v)
  \/ \E s \in Stores : Add(s) \/ Del(s)
  \/ \E op \in {"REM", "SYNC"} : Other(op)

Forward == Unresolved \/ Refused \/ Connect \/ Return \/ ReturnNothing

Failure ==
  \/ \E s \in Stores : Ignore(s) \/ Crash(s) \/ Restart(s)
  \/ \E s \in Stores, k \in Keys : RemoveAt(s, k)
  \/ RestartCoordinator

Next ==
  /\ \/ Arrives
     \/ Forward
     \/ \E s \in Stores : Handle(s)
     \/ HandleOrphan
     \/ Failure
  /\ UNCHANGED place

Spec == Init /\ [][Next]_vars

\* The worker goes on and a running store answers what it does not ignore.
FairSpec ==
  /\ Spec
  /\ WF_vars(Forward /\ UNCHANGED place)
  /\ \A s \in Stores : WF_vars(Handle(s) /\ UNCHANGED place)
-----------------------------------------------------------------------------
(* Properties.                                                             *)

Links == [store : Stores \cup {NULL}, code : Codes, value : Values \cup {NULL},
          state : {"none", "sent", "ignored", "answered", "stale", "reset"}]

RingTypeOK ==
  /\ place \in Places
  /\ servers \subseteq Stores
  /\ DOMAIN route = Keys
  /\ \A k \in Placed : \E s, t \in Stores : route[k] = <<place[s][1], place[t][2]>>

WorkerTypeOK ==
  /\ worker \in {"take", "connect", "read", "spin"}
  /\ job \in Requests \cup {NULL}
  /\ job = NULL <=> worker \in {"take", "spin"}
  /\ leaked \in 0..MaxLeaks

LinkTypeOK ==
  /\ link \in Links
  /\ link.state = "none" <=> worker # "read"
  /\ link.state # "none" => link.store \in Stores
  /\ orphan \in [store : Stores, request : Requests] \cup {NULL}

StoreTypeOK ==
  /\ up \in [Stores -> BOOLEAN]
  /\ data \in [Stores -> [Keys -> Values \cup {NULL}]]

HistoryTypeOK ==
  /\ acked \in [Keys -> Values \cup {NULL}]
  /\ home \in [Keys -> Stores \cup {NULL}]
  /\ lost \subseteq Keys /\ moved \subseteq Keys
  /\ restarted \in BOOLEAN /\ faults \in 0..MaxFaults

(* Ring, request, connection and tables are of their kinds, and a          *)
(* connection is there exactly while the worker reads from one.            *)
TypeOK == RingTypeOK /\ WorkerTypeOK /\ LinkTypeOK /\ StoreTypeOK /\ HistoryTypeOK

(* What a client was told is kept stays at the store that took it, through *)
(* later SETs, ADD, DEL, restarts of the coordinator and requests it had   *)
(* sent before, until that store dies or is told to remove it.             *)
AckedHeld ==
  \A k \in Keys : acked[k] # NULL /\ k \notin lost => data[home[k]][k] = acked[k]

(* As long as the coordinator keeps its ring, no two stores hold the same  *)
(* key, although ADD and DEL change where a key belongs.                   *)
OneCopy ==
  ~restarted =>
    \A k \in Keys, s, t \in Stores : data[s][k] # NULL /\ data[t][k] # NULL => s = t

\* A GET is answered, and nothing has happened to its key since it was set.
AnswersGet(k) ==
  /\ reply' # reply /\ reply'.op = "GET" /\ reply'.key = k /\ reply'.code # 0
  /\ acked[k] # NULL /\ k \notin lost \cup moved /\ ~restarted

(* A GET that is answered finds what a SET was told is kept, unless the    *)
(* store lost it, ADD or DEL sent the key elsewhere, or the coordinator    *)
(* lost its ring.                                                          *)
GetsAcknowledged ==
  [][\A k \in Keys : AnswersGet(k) => reply'.code = 200 /\ reply'.value = acked[k]]_vars

\* No failure so far, and every key is at a store of the ring where it was set.
Calm == faults = 0 /\ moved = {} /\ \A k \in Placed : Resolve(route[k]) # {}

\* The value a client can count on: not one whose SET is under way.
Held(k) ==
  IF \E s \in Stores : data[s][k] # NULL /\ ~(job # NULL /\ job.op = "SET" /\ job.key = k)
  THEN data[CHOOSE s \in Stores : data[s][k] # NULL][k]
  ELSE NULL

\* The answer as a single store would give it: 404 for a SET is its 400.
Told ==
  IF reply = NULL THEN NULL
  ELSE [op    |-> IF reply.op \in {"SET", "GET"} THEN reply.op ELSE "other",
        key   |-> reply.key,
        code  |-> CASE reply.op = "SET" /\ reply.code = 404 -> 400
                    [] reply.op \notin {"SET", "GET"} -> 400
                    [] OTHER -> reply.code,
        value |-> reply.value]

KV == INSTANCE KVMap WITH dict <- [k \in Keys |-> Held(k)], reply <- Told

(* Until a store or the coordinator fails or a key moves, coordinator and  *)
(* stores together are to their clients the one map that each store        *)
(* promises: a SET takes effect when it is answered.                       *)
ActsAsOneMap == KV!Init /\ [][~Calm' \/ KV!Next]_(KV!vars)

(* The coordinator's one worker gets rid of each request it has forwarded, *)
(* whatever stores die, unless a running store never answers.              *)
RequestEnds ==
  worker \in {"connect", "read"} ~> worker = "take" \/ link.state = "ignored"

-----------------------------------------------------------------------------
(* What comments say of the code and the code does not do.                 *)

(* dkvstore.c:542 "If connection fails return a HTTP 500": a request whose *)
(* store is down is answered 500.                                          *)
RefusedIs500 == reply # NULL /\ reply.cause = "refused" => reply.code = 500

(* dkvstore.h:70 "SET: Inserts a key, value pair into the store.": when it *)
(* is refused, a store holds the key already.                              *)
RefusedSetIsHeld ==
  reply # NULL /\ reply.op = "SET" /\ reply.code = 404
    => \E s \in Stores : data[s][reply.key] # NULL

(* README.md "SYNC: Sync keys between stores and coordinator.": after it,  *)
(* the coordinator sends each key to the store that holds it.              *)
SyncFindsKeys ==
  reply # NULL /\ reply.op = "SYNC"
    => \A s \in Stores, k \in Keys :
         data[s][k] # NULL => Resolve(route[k]) = {s}
=============================================================================
