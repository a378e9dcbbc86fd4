--------------------------- MODULE MCWatchStream ---------------------------
(* Scopes for WatchStream.  A client with a resource and a cache, and a    *)
(* row lost to the TTL with a fault or a new epoch.  A single stream on a  *)
(* longer journal, which the ring of the tailer outruns, read one row or   *)
(* two at a time.  Two streams that share tailers, with a lost row, with   *)
(* two entries, and with a new epoch.                                      *)
EXTENDS WatchStream

CONSTANTS c1, c2, o1

Streams(readers, batch, replay, entries, gone) ==
  [clients |-> readers, objs |-> {}, batch |-> batch, replay |-> replay,
   entries |-> entries, epochs |-> 1, gone |-> gone, faults |-> 0]

Cache(epochs, gone, broken) ==
  [Streams({c1}, 1, 2, 2, gone) EXCEPT !.objs = {o1}, !.epochs = epochs, !.faults = broken]

MCScopes ==
  {Cache(1, 1, 1), Cache(2, 1, 0),
   Streams({c1}, 1, 3, 4, 1), Streams({c1}, 2, 3, 4, 1),
   Streams({c1, c2}, 1, 2, 1, 1), Streams({c1, c2}, 1, 1, 2, 0),
   [Streams({c1, c2}, 1, 2, 1, 0) EXCEPT !.epochs = 2]}

============================================================================
