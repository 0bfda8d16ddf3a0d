-------------------------- MODULE SelectionContract --------------------------
(***************************************************************************)
(* What a run of the behaviour-cloning suite promises about its outcome,   *)
(* however often it is interrupted: validation reports can only improve    *)
(* the selected model, the test split is opened once, for a model that     *)
(* passed validation, after which the selection stays, and one verdict is  *)
(* published.                                                              *)
(***************************************************************************)
EXTENDS Integers

CONSTANTS
    Candidates,     \* the checkpoints a run may select, with their reports
    Reports,        \* of the test split
    None

VARIABLES
    selected,       \* the selected candidate
    opened,         \* the candidate the test split was opened for
    verdict         \* the published status

vars == <<selected, opened, verdict>>

Passed(report) == report.failed = {}

Init == selected = None /\ opened = None /\ verdict = None

Improve ==
    /\ opened = None /\ verdict = None
    /\ \E c \in Candidates :
          /\ selected = None \/ c.report.rank < selected.report.rank
          /\ selected' = c
    /\ UNCHANGED <<opened, verdict>>

OpenTest ==
    /\ opened = None /\ verdict = None
    /\ selected # None /\ Passed(selected.report)
    /\ opened' = selected
    /\ UNCHANGED <<selected, verdict>>

Publish ==
    /\ verdict = None /\ selected # None
    /\ verdict' \in IF opened = None
                    THEN {"base-not-ready"}
                    ELSE {"base-ready", "base-not-ready"}
    /\ opened = None => ~Passed(selected.report)
    /\ UNCHANGED <<selected, opened>>

Next == Improve \/ OpenTest \/ Publish
Spec == Init /\ [][Next]_vars
=============================================================================
