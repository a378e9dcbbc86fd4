--------------------------- MODULE MCCdcSequencer ---------------------------
(* Two generations: two batches of one stream, then one batch of two, so   *)
(* that a watermark has to wait for another reader and for a stream of the *)
(* same reader.  In the logs a stream is behind the other, is quiet, has a *)
(* change of the same time, or has nothing in the first generation.        *)
EXTENDS CdcSequencer

MCBatches == <<{{"a"}, {"b"}}, {{"c", "d"}}>>

MCEnds == <<2, 3>>

Apart == {<<"b", 1>>, <<"a", 2>>, <<"c", 3>>}

Together == {<<"a", 2>>, <<"b", 2>>}

MCTables ==
    {[kind |-> "Namespace", log |-> l] :
       l \in {Apart, Together, {<<"a", 1>>, <<"b", 2>>, <<"d", 3>>}, {<<"c", 3>>, <<"d", 3>>}}}
    \cup {[kind |-> "Product", log |-> l] : l \in {Apart, Together}}

MCPrivate == {<<"a", 1>>}
=============================================================================
