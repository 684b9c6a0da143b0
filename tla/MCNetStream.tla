---------------------------- MODULE MCNetStream ----------------------------
(* Small instances of NetStream for TLC. *)
EXTENDS NetStream, TLC

Resp(h, b, l, r) == [hdr |-> h, body |-> b, long |-> l, redirect |-> r]

\* For the safety run, with ChunkLen 2: a response with a body, one whose header leaves no
\* room in m_chunk for the look-ahead, one whose header does not fit, a redirect.
MCResponses == {Resp(1, 2, FALSE, FALSE), Resp(2, 1, TRUE, FALSE), Resp(3, 0, FALSE, FALSE),
                Resp(1, 0, FALSE, TRUE)}

\* For the run with one stream, with ChunkLen 3: a short and a long response that fit, one whose
\* look-ahead and one whose header does not, a redirect.
MCLongResponses == {Resp(1, 2, FALSE, FALSE), Resp(1, 3, TRUE, FALSE), Resp(3, 1, TRUE, FALSE),
                    Resp(4, 0, FALSE, FALSE), Resp(1, 0, FALSE, TRUE)}

Symmetry == Permutations(Streams) \cup Permutations(Fds) \cup Permutations(Protos)
=============================================================================
