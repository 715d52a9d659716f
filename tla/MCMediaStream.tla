---- MODULE MCMediaStream ----
EXTENDS MediaStream

(* With packets of 17 bytes: an IDR that just fits, one of two full       *)
(* fragments, a delta slice of three fragments, the last one shorter, and *)
(* a slice without a NAL; audio without data, audio that just fits, that  *)
(* passes the check but not the copy, and that the check refuses.         *)
MCSlice == [codec : {"h264"}, length : {9, 11}, idr : {TRUE}]
           \cup [codec : {"h264"}, length : {12, 4}, idr : {FALSE}]
           \cup [codec : {"aac"}, length : {0, 1, 5, 6}, idr : {TRUE}]
====
