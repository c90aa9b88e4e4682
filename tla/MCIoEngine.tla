----------------------------- MODULE MCIoEngine -----------------------------
(* The instances of the I/O engine that TLC checks. *)
EXTENDS IoEngine, TLC

CONSTANTS t1, t2, s1

SR(s) == [mode |-> "stream", wr |-> FALSE, strm |-> s]
SW(s) == [mode |-> "stream", wr |-> TRUE, strm |-> s]
AR    == [mode |-> "async", wr |-> FALSE, strm |-> NoStream]
YR    == [mode |-> "sync", wr |-> FALSE, strm |-> NoStream]

\* One thread that submits to one stream.
OneStream == t1 :> {SR(s1), SW(s1)}
\* Two threads on one stream; one also reads outside of it.
ReaderAndWriter == (t1 :> {SR(s1)}) @@ (t2 :> {SW(s1), AR})
\* One thread with a stream, one that makes synchronous calls too.
StreamAndSync == (t1 :> {SR(s1), SW(s1)}) @@ (t2 :> {YR})
\* Two threads that share one stream.
SharedStream == (t1 :> {SR(s1), SW(s1)}) @@ (t2 :> {SR(s1)})
=============================================================================
