------------------------------ MODULE EventStores ------------------------------
(***************************************************************************)
(* The four event stores under one contract (eventstore.go): each behaviour  *)
(* is about one of them, with its savers, readers, loaders and dashboard.     *)
(***************************************************************************)
EXTENDS EventBrowser

On(backend) == setup.backend = backend

SaveStep(w) ==
    \/ On("memory")    /\ Mem!Save(w)
    \/ On("sqlite")    /\ Lite!SaveStep(w)
    \/ On("postgres")  /\ Pg!SaveStep(w)
    \/ On("kurrentdb") /\ Kurrent!SaveStep(w)

FailStep(w) ==
    \/ On("sqlite")   /\ Lite!Fail(w)
    \/ On("postgres") /\ Pg!Fail(w)

ReadStep(r) ==
    \/ On("memory")    /\ Mem!ReadPage(r)
    \/ On("sqlite")    /\ Lite!ReadStep(r)
    \/ On("postgres")  /\ Pg!ReadStep(r)
    \/ On("kurrentdb") /\ Kurrent!ReadPage(r)

LoadStep(l) ==
    \/ On("memory")    /\ Mem!LoadStep(l)
    \/ On("sqlite")    /\ Lite!LoadStep(l)
    \/ On("postgres")  /\ Pg!LoadStep(l)
    \/ On("kurrentdb") /\ Kurrent!LoadStep(l)

ServerStep ==
    /\ On("kurrentdb")
    /\ \/ Kurrent!SystemRecord
       \/ \E w \in Saving : \E a \in grpc[w].flying : Kurrent!Serve(w, a)

Next ==
    \/ \E w \in Saving : CallSave(w) \/ SaveStep(w) \/ FailStep(w)
    \/ \E r \in setup.readers : ReadStep(r)
    \/ \E l \in Loading : LoadStep(l) \/ NextFails(l) \/ Close(l)
    \/ \E b \in setup.browsers : BrowseStep(b)
    \/ ServerStep

Spec == Init /\ [][Next]_vars

(***************************************************************************)
(* A Save's statements run, a waiting Save gets a connection and its locks   *)
(* in turn, an append is answered, retried or given up; a reader keeps       *)
(* polling, a caller iterates to the end.  A failure is never counted on to   *)
(* end a wait, nor the server to answer.                                      *)
(***************************************************************************)
WaitsFor(w) ==
    \/ On("sqlite")   /\ Lite!Begin(w)
    \/ On("postgres") /\ (Pg!Begin(w) \/ Pg!LockStream(w) \/ Pg!LockAppend(w))

Iterates(l) ==
    IF On("kurrentdb") THEN Kurrent!Recv(l) ELSE NextOf(l)

FairSpec ==
    /\ Spec
    /\ \A w \in Savers : /\ WF_vars(w \in Saving /\ SaveStep(w))
                         /\ SF_vars(w \in Saving /\ WaitsFor(w))
    /\ \A r \in Readers : SF_vars(r \in setup.readers /\ ReadStep(r))
    /\ \A l \in Loaders : WF_vars(l \in Loading /\ Iterates(l))

=============================================================================
