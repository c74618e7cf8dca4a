--------------------------- MODULE MCHarProcessors ---------------------------
(* Small instances for checking HarProcessors. *)
EXTENDS HarProcessors

\* Three transactions of two applications.
ThreeTransactions == <<"a", "b", "a">>
TwoKeys == {"a", "b", NoApp}

Setting(processors, failing) ==
  [splitByHost |-> TRUE, splitByAppId |-> TRUE, paced |-> TRUE,
   processors |-> processors, failing |-> failing, ignored |-> {}, badQueries |-> {}]

\* Files, s3, a file that may fail before s3 and s3 before a file, with health
\* checks; one har for all applications; and the statistics.
SomeSettings ==
  { [Setting(<<"file">>, {1}) EXCEPT !.ignored = {3}],
    Setting(<<"s3">>, {}),
    [Setting(<<"file", "s3">>, {1}) EXCEPT !.ignored = {2, 3}],
    [Setting(<<"s3", "file">>, {}) EXCEPT !.ignored = {2}, !.paced = FALSE],
    [Setting(<<"file">>, {}) EXCEPT !.splitByHost = FALSE, !.splitByAppId = FALSE,
                                    !.badQueries = {1, 3}],
    Setting(<<"sites-stats">>, {}),
    [Setting(<<"cw-sites-stats">>, {}) EXCEPT !.ignored = {1, 2}],
    Setting(<<"sampled-transactions">>, {1}),
    [Setting(<<"transactions-sizes">>, {}) EXCEPT !.ignored = {1}] }
=============================================================================
