---------------------------- MODULE MCAutomation ----------------------------
(***************************************************************************)
(* Instances of Automation for TLC.                                          *)
(***************************************************************************)
EXTENDS Automation

CONSTANTS i1, i2

\* Items 1 and 2 are a chain of segment 0, as item 4 is alone, and item 3 is
\* in segment 1.
SegmentOf == 1 :> 0 @@ 2 :> 0 @@ 3 :> 1 @@ 4 :> 0
Chains == 1 :> "a" @@ 2 :> "a" @@ 3 :> "b" @@ 4 :> "c"
OneGroup == [k \in Segments |-> "g"]

\* Segments found by a query, worked in turn by one instance, paused once; one
\* segment with more items than a batch takes; the same, worked by a RunOnce
\* that may die beside a Run; a list without segments; a RunOnce over shards.
Rotating == [segmented |-> TRUE, sharded |-> FALSE, items |-> {1, 3}, run |-> {i2},
             once |-> {}, maxSegments |-> 1, batchSize |-> 2,
             mortal |-> {}, failing |-> {"check", "live"},
             maxFaults |-> 1, maxToggles |-> 1, maxDelay |-> 0]
Queueing == [segmented |-> TRUE, sharded |-> FALSE, items |-> {1, 2, 4}, run |-> {i2},
             once |-> {}, maxSegments |-> 1, batchSize |-> 2,
             mortal |-> {}, failing |-> {"renew", "acquire", "claim", "release"},
             maxFaults |-> 1, maxToggles |-> 0, maxDelay |-> 1]
Sharing  == [segmented |-> TRUE, sharded |-> FALSE, items |-> {1, 2}, run |-> {i1, i2},
             once |-> {i1}, maxSegments |-> 2, batchSize |-> 1,
             mortal |-> {i1}, failing |-> {},
             maxFaults |-> 1, maxToggles |-> 0, maxDelay |-> 0]
Plain    == [segmented |-> FALSE, sharded |-> FALSE, items |-> {1, 3}, run |-> {i2},
             once |-> {}, maxSegments |-> 1, batchSize |-> 1,
             mortal |-> {}, failing |-> {"claim", "check", "defer"},
             maxFaults |-> 1, maxToggles |-> 0, maxDelay |-> 1]

Once     == [segmented |-> TRUE, sharded |-> TRUE, items |-> {1, 2}, run |-> {i1},
             once |-> {i1}, maxSegments |-> 2, batchSize |-> 1,
             mortal |-> {}, failing |-> {"release"},
             maxFaults |-> 1, maxToggles |-> 1, maxDelay |-> 0]

AllSetups == {Rotating, Queueing, Sharing, Plain, Once}

\* Shard 0 is empty, shard 1 has an item, and one of them is held at a time.
Starving == {[segmented |-> TRUE, sharded |-> TRUE, items |-> {3}, run |-> {i2},
              once |-> {}, maxSegments |-> 1, batchSize |-> 1,
              mortal |-> {}, failing |-> {},
             maxFaults |-> 0, maxToggles |-> 0, maxDelay |-> 0]}

\* Both shards are held at once, and one call or item fails.
Roomy == {[segmented |-> TRUE, sharded |-> TRUE, items |-> {3}, run |-> {i2},
           once |-> {}, maxSegments |-> 2, batchSize |-> 1,
           mortal |-> {}, failing |-> {"release"},
             maxFaults |-> 1, maxToggles |-> 0, maxDelay |-> 0]}

=============================================================================
