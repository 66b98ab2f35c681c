----------------------------- MODULE TestRunner -----------------------------
(***************************************************************************)
(* The Apex test runner (src/test_runner.rs, run_internal): a pool of      *)
(* scoped threads that claim test cases by an atomic counter, run each on  *)
(* a host of its own, push the results under a lock in the order they      *)
(* happen to finish, and end when the counter passes the last case.  The   *)
(* caller joins them, sorts the results by name and reports.               *)
(*                                                                         *)
(* A case is the rank of its name among the lower-cased names.             *)
(***************************************************************************)
EXTENDS Integers, FiniteSets, Sequences

CONSTANTS
    Cases,    \* the selected cases in discovery order
    Threads   \* the threads; no more of them start than there are cases

ASSUME RunnerAssumption ==
    /\ Cases \in Seq(Nat) /\ Cases # <<>>
    /\ \A i, j \in DOMAIN Cases : Cases[i] = Cases[j] => i = j
    /\ IsFiniteSet(Threads) /\ Threads # {}
    /\ Cardinality(Threads) <= Len(Cases)

VARIABLES
    next,       \* the claim counter
    claim,      \* what each worker is doing: 0 nothing, -1 ended, or a claim
    executed,   \* the results, in the order they were pushed
    report      \* <<>> until the runner returns

runnerVars == <<next, claim, executed, report>>

Free == 0
Ended == -1

RunnerInit ==
    /\ next = 1
    /\ claim = [w \in Threads |-> Free]
    /\ executed = <<>>
    /\ report = <<>>

\* fetch_add.
FetchAdd == next' = next + 1

\* Mutant: a worker that finds no case left looks again.
ClaimOrSpin(w) ==
    /\ claim[w] = Free
    /\ next \in DOMAIN Cases => FetchAdd
    /\ next \notin DOMAIN Cases => UNCHANGED next
    /\ claim' = [claim EXCEPT ![w] = IF next \in DOMAIN Cases THEN next ELSE Free]
    /\ UNCHANGED <<executed, report>>

\* The worker claims the next case, or finds none and ends.
Claim(w) ==
    /\ claim[w] = Free
    /\ FetchAdd
    /\ claim' = [claim EXCEPT ![w] = IF next \in DOMAIN Cases THEN next ELSE Ended]
    /\ UNCHANGED <<executed, report>>

\* The test has run; its result is pushed.
Push(w) ==
    /\ claim[w] \in DOMAIN Cases
    /\ executed' = Append(executed, Cases[claim[w]])
    /\ claim' = [claim EXCEPT ![w] = Free]
    /\ UNCHANGED <<next, report>>

\* Mutant: the results in the order they were pushed.
Unsorted(results) == results

Rearrangements(results) ==
    {[i \in DOMAIN results |-> results[p[i]]] :
        p \in {p \in [DOMAIN results -> DOMAIN results] :
                 \A i, j \in DOMAIN results : p[i] = p[j] => i = j}}

\* sort_by.
Sorted(results) ==
    CHOOSE s \in Rearrangements(results) : \A i, j \in DOMAIN s : i < j => s[i] <= s[j]

\* The scope ends when every worker has.
Report ==
    /\ report = <<>>
    /\ \A w \in Threads : claim[w] = Ended
    /\ report' = Sorted(executed)
    /\ UNCHANGED <<next, claim, executed>>

Finished == report # <<>> /\ UNCHANGED runnerVars

RunnerNext ==
    \/ \E w \in Threads : Claim(w) \/ Push(w)
    \/ Report
    \/ Finished

\* Threads are scheduled, tests terminate, and the caller waits for them.
Fairness == (\A w \in Threads : WF_runnerVars(Claim(w) \/ Push(w))) /\ WF_runnerVars(Report)

RunnerSpec == RunnerInit /\ [][RunnerNext]_runnerVars /\ Fairness

-----------------------------------------------------------------------------
(* Properties                                                              *)

\* The report does not depend on the interleaving: it has every case once, by
\* name, and no two workers ever run one case.
ReportIsDeterministic ==
    /\ \A v, w \in Threads : claim[v] = claim[w] /\ claim[v] \in DOMAIN Cases => v = w
    /\ report # <<>> =>
         /\ DOMAIN report = DOMAIN Cases
         /\ {report[i] : i \in DOMAIN report} = {Cases[i] : i \in DOMAIN Cases}
         /\ \A i, j \in DOMAIN report : i < j => report[i] < report[j]

\* The runner returns, even when workers outnumber the cases left to claim.
RunnerReturns == <>(report # <<>>)

=============================================================================
