------------------------------- MODULE KVMap -------------------------------
(***************************************************************************)
(* What a store promises (dkvstore.c, requestHandle for                    *)
(* SERVER_TYPE_STORE): a map from keys to values, kept in memory only, and *)
(* the reply each request gets.  HashTable implements it.                  *)
(***************************************************************************)
CONSTANTS Keys, Values, NULL    \* NULL is not a value

VARIABLES
  dict,    \* the value of each key, NULL when it has none
  reply    \* the last request and its reply

vars == <<dict, reply>>

\* The request op of k is answered with a code; v is the value set or found.
Reply(op, k, code, v) == [op |-> op, key |-> k, code |-> code, value |-> v]

Init ==
  /\ dict = [k \in Keys |-> NULL]
  /\ reply = NULL

\* GET: the value, or 404.
Get(k) ==
  /\ reply' = Reply("GET", k, IF dict[k] = NULL THEN 404 ELSE 200, dict[k])
  /\ UNCHANGED dict

\* SET of a new key.
Set(k, v) ==
  /\ dict[k] = NULL
  /\ dict' = [dict EXCEPT ![k] = v]
  /\ reply' = Reply("SET", k, 200, v)

\* SET never replaces a value, and may fail for want of memory.
Refuse(k, v) ==
  /\ reply' = Reply("SET", k, 400, v)
  /\ UNCHANGED dict

\* REM: forget the value, or 404.
Remove(k) ==
  /\ reply' = Reply("REM", k, IF dict[k] = NULL THEN 404 ELSE 200, NULL)
  /\ dict' = [dict EXCEPT ![k] = NULL]

\* Other commands get 400, HTTP GET 200, other methods no reply.
Other ==
  /\ reply' \in {Reply("other", NULL, code, NULL) : code \in {200, 400}} \cup {NULL}
  /\ UNCHANGED dict

\* The process starts again, with nothing.
Restart ==
  /\ dict' = [k \in Keys |-> NULL]
  /\ reply' = NULL

Next ==
  \/ \E k \in Keys : Get(k) \/ Remove(k)
  \/ \E k \in Keys, v \in Values : Set(k, v) \/ Refuse(k, v)
  \/ Other
  \/ Restart

Spec == Init /\ [][Next]_vars
=============================================================================
