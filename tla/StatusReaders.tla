----------------------------- MODULE StatusReaders -----------------------------
(***************************************************************************)
(* The two readers of a projection's statuses, each beside the runners that  *)
(* write them.  They share nothing but the store, so a behaviour has one.     *)
(***************************************************************************)
EXTENDS Probe, Hub

VARIABLE using      \* "probe" or "hub": never changes

vars == <<history, probeVars, hubVars, using>>

Init ==
    /\ using \in {"probe", "hub"}
    /\ StoreInit
    /\ ProbeInit
    /\ HubInit

Next ==
    \/ StoreNext /\ UNCHANGED <<probeVars, hubVars, using>>
    \/ using = "probe" /\ ProbeNext /\ UNCHANGED <<history, hubVars, using>>
    \/ using = "hub" /\ HubNext /\ UNCHANGED <<history, probeVars, using>>

Spec == Init /\ [][Next]_vars

(***************************************************************************)
(* Goroutines run and timers fire; a wait and a page take what comes.  A      *)
(* store that keeps being read is read in the end, and a page that keeps      *)
(* being sent what was read shows it before a failed read replaces it.        *)
(* Nobody has to stop waiting, close a page or poke.                          *)
(***************************************************************************)
OnProbe(A) == using = "probe" /\ A /\ UNCHANGED <<history, hubVars, using>>
OnHub(A) == using = "hub" /\ A /\ UNCHANGED <<history, probeVars, using>>

FairSpec ==
    /\ Spec
    /\ \A w \in Waits : WF_vars(OnProbe(WaitStep(w)))
    /\ \A p \in Pages : WF_vars(OnHub(Show(p))) /\ SF_vars(OnHub(page[p].ch # Unreadable /\ Show(p)))
    /\ \A g \in Generations :
          /\ WF_vars(OnProbe(Publish(g))) /\ SF_vars(OnProbe(Read(g)))
          /\ WF_vars(OnHub(publish(g))) /\ SF_vars(OnHub(HubRead(g, Now)))

(***************************************************************************)
(* Neither reader tells anything that was only true before it was started:    *)
(* see Probe!AnswerIsCurrent and Hub!PagesGoForward.                          *)
(***************************************************************************)
NothingStale == AnswerIsCurrent /\ PagesGoForward

(***************************************************************************)
(* Waits end and open pages catch up: see Probe!WaitsEnd and                  *)
(* Hub!PagesCatchUp.                                                          *)
(***************************************************************************)
ReadersAreServed == WaitsEnd /\ PagesCatchUp

=============================================================================
