--------------------------- MODULE MCLoadBalancer ---------------------------
(***************************************************************************)
(* Small instances of LoadBalancer: clients of one host, and requests with *)
(* the cookie the balancer sends (123) or the number of a server.          *)
(***************************************************************************)
EXTENDS LoadBalancer

OneHost == [c \in Clients |-> "host"]
=============================================================================
