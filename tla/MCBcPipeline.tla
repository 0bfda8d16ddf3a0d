---------------------------- MODULE MCBcPipeline ----------------------------
(* A small instance of the behaviour-cloning suite. *)
EXTENDS BcPipeline

CONSTANTS a

\* Two of the reports pass, so that a passing model may still be replaced.
ThreeReports ==
    {[rank |-> 0, failed |-> {}], [rank |-> 1, failed |-> {}],
     [rank |-> 2, failed |-> {a}]}
=============================================================================
