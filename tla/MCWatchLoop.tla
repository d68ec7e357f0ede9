---------------------------- MODULE MCWatchLoop ----------------------------
\* Instance of WatchLoop: the session grows by a turn, is rewritten with a turn
\* and its models missing, does not load, or disappears.
EXTENDS WatchLoop

MCData(turns, models, buckets) ==
    [turns |-> turns, work |-> 1, blocking |-> 0, models |-> models, servers |-> 0,
     buckets |-> buckets]
MCFileStates ==
    {[kind |-> "data", data |-> MCData(<<[id |-> 1, calls |-> 2]>>, 3, 3)],
     [kind |-> "data", data |-> MCData(<<[id |-> 2, calls |-> 0]>>, 1, 1)],
     [kind |-> "broken", data |-> NoData],
     [kind |-> "gone", data |-> NoData]}
=============================================================================
