--------------------------- MODULE LeaderElection ---------------------------
(***************************************************************************)
(* Coordinator leader election: elector/redis.go driven by the leaderLoop  *)
(* of coordinator/coordinator.go.                                          *)
(*                                                                         *)
(* One Redis key holds the token of the lease holder and expires on its    *)
(* own; a second, durable key counts leader terms.  Every coordinator      *)
(* instance keeps a local belief (leader, term) that is written after the  *)
(* Redis script returned and dropped only when a renewal fails, so a       *)
(* paused instance can go on believing after its lease is gone.  What the  *)
(* rest of the system relies on is that such an instance carries a term    *)
(* the durable counter has already left behind.                            *)
(***************************************************************************)
EXTENDS Naturals

CONSTANTS
    Coordinators,  \* the coordinator instances
    NoToken,       \* the lease key does not exist
    LostToken,     \* the lease is held by a token no running process knows
    TTL,           \* life of a lease, in ticks of Elapse
    MaxTerm        \* bound on the durable term counter

ASSUME TokenAssumption ==
    /\ NoToken \notin Coordinators
    /\ LostToken \notin Coordinators
    /\ NoToken # LostToken

ASSUME BoundAssumption ==
    /\ TTL \in Nat \ {0}
    /\ MaxTerm \in Nat

VARIABLES
    lease,         \* Redis: token stored under the lease key
    ttl,           \* Redis: remaining life of that key
    durableTerm,   \* Redis: the term counter, never deleted
    phase,         \* phase[c]: where instance c is in Campaign / Close
    grant,         \* grant[c]: term returned by acquire, not yet stored locally
    leader,        \* RedisElector.leader
    term           \* RedisElector.term

electionVars == <<lease, ttl, durableTerm, phase, grant, leader, term>>

Phases == {"idle", "campaigning", "acquired", "leading", "closing", "closed",
           "down"}

Tokens == Coordinators \cup {NoToken, LostToken}

\* The type invariant of the election state.
ElectionTypeOK ==
    /\ lease \in Tokens
    /\ ttl \in 0..TTL
    /\ durableTerm \in Nat
    /\ phase \in [Coordinators -> Phases]
    /\ grant \in [Coordinators -> Nat]
    /\ leader \in [Coordinators -> BOOLEAN]
    /\ term \in [Coordinators -> Nat]

-----------------------------------------------------------------------------
\* IsLeader and Term read the local belief only; neither asks Redis.
IsLeader(c) == leader[c]

Term(c) == IF leader[c] THEN term[c] ELSE 0

\* loseLeadership: drop the local belief.  The lease key is left alone.
LoseLeadership(c) ==
    /\ leader' = [leader EXCEPT ![c] = FALSE]
    /\ term' = [term EXCEPT ![c] = 0]

ElectionInit ==
    /\ lease = NoToken
    /\ ttl = 0
    /\ durableTerm = 0
    /\ phase = [c \in Coordinators |-> "idle"]
    /\ grant = [c \in Coordinators |-> 0]
    /\ leader = [c \in Coordinators |-> FALSE]
    /\ term = [c \in Coordinators |-> 0]

-----------------------------------------------------------------------------
\* leaderLoop calls Campaign; an instance that leads returns early from it.
CampaignStart(c) ==
    /\ phase[c] = "idle"
    /\ phase' = [phase EXCEPT ![c] = "campaigning"]
    /\ UNCHANGED <<lease, ttl, durableTerm, grant, leader, term>>

\* Mutant: the term is counted only once.
AcquireScriptWithoutIncr(c) ==
    /\ lease = NoToken
    /\ durableTerm < MaxTerm
    /\ lease' = c
    /\ ttl' = TTL
    /\ durableTerm' = IF durableTerm = 0 THEN 1 ELSE durableTerm

\* Mutant: the lease outlives its configured duration.
AcquireScriptTooLong(c) ==
    /\ lease = NoToken
    /\ durableTerm < MaxTerm
    /\ lease' = c
    /\ ttl' = TTL + 1
    /\ durableTerm' = durableTerm + 1

\* The acquire script: SET NX PX and INCR of the term, in one Lua script.
AcquireScript(c) ==
    /\ lease = NoToken
    /\ durableTerm < MaxTerm
    /\ lease' = c
    /\ ttl' = TTL
    /\ durableTerm' = durableTerm + 1

\* acquire returned the new term; Campaign has not stored it yet.
Acquire(c) ==
    /\ phase[c] = "campaigning"
    /\ AcquireScript(c)
    /\ grant' = [grant EXCEPT ![c] = durableTerm']
    /\ phase' = [phase EXCEPT ![c] = "acquired"]
    /\ UNCHANGED <<leader, term>>

\* acquire failed.  The script may have run with its reply lost.
AcquireError(c) ==
    /\ phase[c] = "campaigning"
    /\ \/ AcquireScript(c)
       \/ UNCHANGED <<lease, ttl, durableTerm>>
    /\ LoseLeadership(c)
    /\ phase' = [phase EXCEPT ![c] = "idle"]
    /\ UNCHANGED grant

\* Campaign stores the term under e.mu and starts renewLoop.
BecomeLeader(c) ==
    /\ phase[c] = "acquired"
    /\ leader' = [leader EXCEPT ![c] = TRUE]
    /\ term' = [term EXCEPT ![c] = grant[c]]
    /\ grant' = [grant EXCEPT ![c] = 0]
    /\ phase' = [phase EXCEPT ![c] = "leading"]
    /\ UNCHANGED <<lease, ttl, durableTerm>>

\* Mutant: the renewal writes its token whoever holds the lease.
RenewUnconditional(c) ==
    /\ phase[c] = "leading"
    /\ lease' = c
    /\ ttl' = TTL
    /\ UNCHANGED <<durableTerm, phase, grant, leader, term>>

\* renewLoop: the renew script extends the lease while the token matches.
Renew(c) ==
    /\ phase[c] = "leading"
    /\ lease = c
    /\ ttl' = TTL
    /\ UNCHANGED <<lease, durableTerm, phase, grant, leader, term>>

\* renewLoop: the script finds another token, or the call fails with the
\* script run or not.  Either way leadership is dropped and leaderLoop
\* campaigns again.
RenewFails(c) ==
    /\ phase[c] = "leading"
    /\ \/ UNCHANGED ttl
       \/ lease = c /\ ttl' = TTL
    /\ LoseLeadership(c)
    /\ phase' = [phase EXCEPT ![c] = "idle"]
    /\ UNCHANGED <<lease, durableTerm, grant>>

\* Mutant: the lease key is set without an expiry.
LeaseNeverExpires ==
    /\ lease # NoToken
    /\ ttl > 1
    /\ ttl' = ttl - 1
    /\ UNCHANGED <<lease, durableTerm, phase, grant, leader, term>>

\* Time passes at Redis; a key whose life is over disappears.
Elapse ==
    /\ lease # NoToken
    /\ IF ttl > 1
       THEN ttl' = ttl - 1 /\ UNCHANGED lease
       ELSE ttl' = 0 /\ lease' = NoToken
    /\ UNCHANGED <<durableTerm, phase, grant, leader, term>>

\* Coordinator.Close: stop the loop and Resign, which first drops the belief.
Close(c) ==
    /\ phase[c] \in {"idle", "campaigning", "acquired", "leading"}
    /\ LoseLeadership(c)
    /\ grant' = [grant EXCEPT ![c] = 0]
    /\ phase' = [phase EXCEPT ![c] = "closing"]
    /\ UNCHANGED <<lease, ttl, durableTerm>>

\* Mutant: the release deletes whatever lease it finds.
ReleaseScriptUnconditional(c) ==
    /\ lease' = NoToken
    /\ ttl' = 0

\* The release script: DEL of the lease key if it still holds this token.
ReleaseScript(c) ==
    /\ lease' = IF lease = c THEN NoToken ELSE lease
    /\ ttl' = IF lease = c THEN 0 ELSE ttl

\* Resign's releaseToken; a failed call leaves the lease to expire.
ReleaseToken(c) ==
    /\ phase[c] = "closing"
    /\ \/ ReleaseScript(c)
       \/ UNCHANGED <<lease, ttl>>
    /\ phase' = [phase EXCEPT ![c] = "closed"]
    /\ UNCHANGED <<durableTerm, grant, leader, term>>

\* The process dies.  Its token is random per process, so whatever lease it
\* holds now belongs to nobody.
Crash(c) ==
    /\ phase[c] # "down"
    /\ LoseLeadership(c)
    /\ lease' = IF lease = c THEN LostToken ELSE lease
    /\ grant' = [grant EXCEPT ![c] = 0]
    /\ phase' = [phase EXCEPT ![c] = "down"]
    /\ UNCHANGED <<ttl, durableTerm>>

\* A new process of the same instance, with a new token.
Restart(c) ==
    /\ phase[c] = "down"
    /\ phase' = [phase EXCEPT ![c] = "idle"]
    /\ UNCHANGED <<lease, ttl, durableTerm, grant, leader, term>>

Campaign(c) == CampaignStart(c) \/ Acquire(c) \/ AcquireError(c) \/ BecomeLeader(c)

RenewLoop(c) == Renew(c) \/ RenewFails(c)

ElectionNext ==
    \/ \E c \in Coordinators :
          \/ Campaign(c) \/ RenewLoop(c)
          \/ Close(c) \/ ReleaseToken(c) \/ Crash(c) \/ Restart(c)
    \/ Elapse

ElectionSpec == ElectionInit /\ [][ElectionNext]_electionVars

(***************************************************************************)
(* Fairness: Redis expires keys, and a running coordinator's loop goes on. *)
(* Acquire needs strong fairness: the loop retries after every error, so   *)
(* this says Redis does not fail every single attempt for ever.            *)
(***************************************************************************)
ElectionFairness ==
    /\ WF_electionVars(Elapse)
    /\ \A c \in Coordinators :
          /\ WF_electionVars(CampaignStart(c))
          /\ SF_electionVars(Acquire(c))
          /\ SF_electionVars(BecomeLeader(c))

FairElectionSpec == ElectionSpec /\ ElectionFairness

-----------------------------------------------------------------------------
(***************************************************************************)
(* A lapsed lease leaves its old holder believing, so several instances    *)
(* may answer IsLeader() at once.  At most one of them carries the term    *)
(* that Redis accepts in a topology commit.                                *)
(***************************************************************************)
OneEffectiveLeader ==
    \A c, d \in Coordinators :
        (Term(c) = durableTerm /\ Term(d) = durableTerm /\ durableTerm > 0)
            => c = d

(***************************************************************************)
(* An instance that leads and whose token is the live lease carries the    *)
(* newest durable term: the holder of the lease is never fenced out.       *)
(***************************************************************************)
LeaseHolderNotFenced ==
    \A c \in Coordinators : (lease = c /\ leader[c]) => term[c] = durableTerm

(***************************************************************************)
(* redis.go:61: an expired old leader can neither overwrite nor delete the *)
(* lease of a new one.  A token leaves the lease key only by expiry or by  *)
(* a step of the instance that put it there.                               *)
(***************************************************************************)
LeaseOnlyLostToOwnerOrTime ==
    [][\A c \in Coordinators :
          (lease = c /\ lease' # c) =>
              \/ ttl = 1
              \/ phase[c] = "closing" /\ phase'[c] = "closed"
              \/ phase'[c] = "down"]_electionVars

(***************************************************************************)
(* Redis errors, lost replies, crashes and leases of dead processes delay  *)
(* an election, but an instance that campaigns gets a leader elected or    *)
(* leaves the campaign for good (the bound on terms ends the observation). *)
(***************************************************************************)
LeaderEmerges ==
    \A c \in Coordinators :
        (phase[c] = "campaigning") ~>
            \/ \E d \in Coordinators : leader[d]
            \/ phase[c] \in {"closing", "closed", "down"}
            \/ durableTerm = MaxTerm

-----------------------------------------------------------------------------
\* The refinement mapping to the promise the control plane is built on.
Terms == INSTANCE LeaderTerms WITH
    claim <- grant,
    leaderTerm <- [c \in Coordinators |-> Term(c)]

(***************************************************************************)
(* Leases, expiry, lost replies, resignations and crashes implement        *)
(* LeaderTerms: a term is counted before anyone leads it, and an instance  *)
(* leads exactly the term that was counted for it.                         *)
(***************************************************************************)
ImplementsTerms == Terms!TermsSpec
=============================================================================
