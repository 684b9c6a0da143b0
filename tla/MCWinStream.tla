---------------------------- MODULE MCWinStream ----------------------------
(* An instance of WinStream: plain responses, redirects, and a video.      *)
EXTENDS WinStream

Short(h, b, r) == [hdr |-> h, body |-> b, long |-> FALSE, redirect |-> r, video |-> FALSE]
Long(h, b, v) == [hdr |-> h, body |-> b, long |-> TRUE, redirect |-> FALSE, video |-> v]

MixedResponses == {Short(1, 2, FALSE), Short(1, 0, TRUE), Long(2, 1, FALSE), Long(1, 2, TRUE)}
=============================================================================
