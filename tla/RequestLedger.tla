---------------------------- MODULE RequestLedger ----------------------------
(***************************************************************************)
(* What the content service promises for each original request, whatever   *)
(* happens inside: it arrives once, is attempted at most MaxRetries + 1    *)
(* times, one attempt at a time, and ends succeeded or failed for good.    *)
(* The learning environment settles its rewards on this promise            *)
(* (SchedulingEnv._settle_logical_reward, retry_records).                  *)
(***************************************************************************)
EXTENDS Naturals

CONSTANTS Requests, MaxRetries

VARIABLES
    stage,    \* of each original: see Stages
    attempt   \* index of its current or last attempt

ledger == <<stage, attempt>>

Stages == {"future", "live", "retrying", "succeeded", "failed"}

LedgerTypeOK ==
    /\ stage \in [Requests -> Stages]
    /\ attempt \in [Requests -> 0 .. MaxRetries]

LedgerInit ==
    /\ stage = [r \in Requests |-> "future"]
    /\ attempt = [r \in Requests |-> 0]

Move(r, from, to) == stage[r] = from /\ stage' = [stage EXCEPT ![r] = to]

Arrives(r) == Move(r, "future", "live") /\ UNCHANGED attempt
Succeeds(r) == Move(r, "live", "succeeded") /\ UNCHANGED attempt
Fails(r) ==
    /\ attempt[r] = MaxRetries
    /\ Move(r, "live", "failed")
    /\ UNCHANGED attempt
FailsOnce(r) ==
    /\ attempt[r] < MaxRetries
    /\ Move(r, "live", "retrying")
    /\ attempt' = [attempt EXCEPT ![r] = @ + 1]
ArrivesAgain(r) == Move(r, "retrying", "live") /\ UNCHANGED attempt

LedgerNext ==
    \E r \in Requests : \/ Arrives(r) \/ Succeeds(r) \/ Fails(r)
                        \/ FailsOnce(r) \/ ArrivesAgain(r)

LedgerSpec == LedgerInit /\ [][LedgerNext]_ledger
=============================================================================
