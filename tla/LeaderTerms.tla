----------------------------- MODULE LeaderTerms -----------------------------
(***************************************************************************)
(* What coordinator election promises the rest of the control plane: a     *)
(* durable counter of terms, each counted term claimed by at most one      *)
(* instance, and a local belief that an instance may keep after its term   *)
(* was overtaken.  No lease, no clock: LeaderElection implements this, and *)
(* MapFailover is built on it.                                             *)
(***************************************************************************)
EXTENDS Naturals

CONSTANTS Coordinators, MaxTerm

VARIABLES
    durableTerm,   \* the newest term counted
    claim,         \* claim[c]: term counted for c that c has not stored yet
    leaderTerm     \* leaderTerm[c]: the term c believes it leads, or 0

termVars == <<durableTerm, claim, leaderTerm>>

TermsInit ==
    /\ durableTerm = 0
    /\ claim = [c \in Coordinators |-> 0]
    /\ leaderTerm = [c \in Coordinators |-> 0]

\* A term is counted for c; the reply that tells c may be lost.
CountTerm(c) ==
    /\ durableTerm < MaxTerm
    /\ leaderTerm[c] = 0
    /\ durableTerm' = durableTerm + 1
    /\ \/ claim' = [claim EXCEPT ![c] = durableTerm + 1]
       \/ UNCHANGED claim
    /\ UNCHANGED leaderTerm

\* c starts to lead the term it claimed, however long ago that was.
Believe(c) ==
    /\ claim[c] > 0
    /\ leaderTerm' = [leaderTerm EXCEPT ![c] = claim[c]]
    /\ claim' = [claim EXCEPT ![c] = 0]
    /\ UNCHANGED durableTerm

\* c stops believing: a failed renewal, a resignation or a crash.
Drop(c) ==
    /\ leaderTerm' = [leaderTerm EXCEPT ![c] = 0]
    /\ claim' = [claim EXCEPT ![c] = 0]
    /\ UNCHANGED durableTerm

TermsNext == \E c \in Coordinators : CountTerm(c) \/ Believe(c) \/ Drop(c)

TermsSpec == TermsInit /\ [][TermsNext]_termVars
=============================================================================
