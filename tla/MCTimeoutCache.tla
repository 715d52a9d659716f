---- MODULE MCTimeoutCache ----
(* Two cookies, three entries and a timeout of one tick: an entry can be   *)
(* replaced while its cleanup is due, next to another key's entry.        *)
EXTENDS TimeoutCache

CONSTANTS k1, k2, e1, e2, e3

MCKey == {k1, k2}
MCEntry == {e1, e2, e3}
====
