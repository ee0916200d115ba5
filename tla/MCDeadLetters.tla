--------------------------- MODULE MCDeadLetters ---------------------------
(***************************************************************************)
(* Instances of DeadLetters for TLC.                                         *)
(***************************************************************************)
EXTENDS DeadLetters

CONSTANTS i1, i2

OwnName == [i \in Instances |-> i]

\* Events 1 and 3 are of one stream, 2 of another.
TwoStreams == <<"a", "b", "a">>

\* One segment that two instances compete for; one whose stream is asked for by
\* a second call while the first waits, is served or has been given up; the
\* stream's events in two segments, which finish a replay at once; a projection
\* that skips only what fails at the end of the log, and is rebuilt; one whose
\* FinishReplay may fail.
Competing == [store |-> "sqlite", segmentOf |-> <<0, 0, 0>>, segments |-> {0},
              run |-> {i1, i2}, callers |-> {i1}, onError |-> "SkipAlways", batch |-> 3, bad |-> {1},
              failing |-> {"expire", "restart"}, maxFaults |-> 1, maxRebuilds |-> 0,
              maxRequests |-> 1]
Queueing  == [Competing EXCEPT !.store = "postgres", !.run = {i1}, !.maxRequests = 2,
                               !.failing = {"ctx", "commit"}]
Split     == [store |-> "postgres", segmentOf |-> <<0, 0, 1>>, segments |-> {0, 1},
              run |-> {i1}, callers |-> {i1}, onError |-> "SkipAlways", batch |-> 3, bad |-> {1, 3},
              failing |-> {}, maxFaults |-> 0, maxRebuilds |-> 0, maxRequests |-> 1]
Rebuilt   == [store |-> "postgres", segmentOf |-> <<0, 0, 0>>, segments |-> {0},
              run |-> {i1}, callers |-> {i1}, onError |-> "SkipWhenLive", batch |-> 2, bad |-> {1, 3},
              failing |-> {"read", "commit"}, maxFaults |-> 1, maxRebuilds |-> 1, maxRequests |-> 1]
Unfinished == [Competing EXCEPT !.run = {i1}, !.failing = {"finish"}]

AllSetups == {Competing, Queueing, Split, Rebuilt, Unfinished}

\* Recording that a replay was served may fail.
Unrecorded == {Unfinished}

=============================================================================
