--------------------------- MODULE MCCloudWatchHook ---------------------------
(* A small instance for checking CloudWatchHook. *)
EXTENDS CloudWatchHook

\* Five events; the third fills a batch by length, the fourth by
\* size, and the last is too big by itself.
FiveSizes == <<1, 1, 1, 3, 4>>
=============================================================================
