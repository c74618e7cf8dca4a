------------------------------ MODULE MCPipeline ------------------------------
(* A small output of tshark for checking Pipeline. *)
EXTENDS Pipeline

Line(kind, rec) == [kind |-> kind, rec |-> rec]

Fine(kind, stream) == [kind |-> kind, stream |-> stream, absent |-> {}, bad |-> {}]

\* On one stream a request with its response; one whose response has no code,
\* so that the next one may take its place; and that one.  They are enough for
\* every channel and every sender to be full.  On another stream a request over
\* IPv6, which has no ip.dst.
SixRecords ==
  << Fine("request", 1), Fine("response", 1), Fine("request", 1),
     [Fine("response", 1) EXCEPT !.absent = {"code"}], Fine("request", 1),
     [Fine("request", 2) EXCEPT !.absent = {"ip"}] >>

\* The first record has an inner line; a line precedes and one follows it.
Printed ==
  << Line("other", 0), Line("open", 1), Line("inside", 1), Line("close", 1),
     Line("other", 0), Line("open", 2), Line("close", 2),
     Line("open", 3), Line("close", 3), Line("open", 4), Line("close", 4),
     Line("open", 5), Line("close", 5), Line("open", 6), Line("close", 6) >>

OneProcessor == {[splitByHost |-> TRUE, processors |-> <<"file">>,
                  failing |-> {}, ignored |-> {}]}

\* The hypothesis of the theorem about RecordsIntact.
ASSUME PrintedWhole == PrintsRecords
=============================================================================
