--------------------------- MODULE MCWatchlistJobs ---------------------------
(* WatchlistJobs for TLC: its constants are model values. *)
EXTENDS WatchlistJobs, TLC

=============================================================================
