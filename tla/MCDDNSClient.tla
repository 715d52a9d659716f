---- MODULE MCDDNSClient ----
(* Three timers: the one that is live and two whose updates outlive them. *)
(* Five outages, until the period wraps.                                  *)
EXTENDS DDNSClient
====
