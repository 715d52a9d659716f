---- MODULE MCPublisher ----
(* Two formats of the video encoder, so that a description is replaced,   *)
(* one of the audio encoder, and one waiting block for each Handler.      *)
EXTENDS Publisher

MCFormats == [k \in Kind |-> IF k = "video" THEN 2 ELSE 1]
====
