---------------------------- MODULE MCWorkerLoop ----------------------------
(***************************************************************************)
(* WorkerLoop for TLC: two worker threads, each in a process of its own or *)
(* both in one.                                                            *)
(***************************************************************************)
EXTENDS WorkerLoop, TLC

CONSTANTS j1, j2, w1, w2, h1, h2

Apart == (w1 :> h1) @@ (w2 :> h2)
Together == (w1 :> h1) @@ (w2 :> h1)

\* Processes, each with its threads, are interchangeable.
MCSymmetry ==
    {f \in Permutations(Workers \cup Hosts) :
        \A w \in Workers : f[w] \in Workers /\ HostOf[f[w]] = f[HostOf[w]]}
=============================================================================
