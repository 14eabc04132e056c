------------------------ MODULE LeaderElectionProofs ------------------------
(***************************************************************************)
(* Proofs about LeaderElection, for any set of coordinators and any bound. *)
(***************************************************************************)
EXTENDS LeaderElection, TLAPS

\* The term an instance holds: claimed and not yet stored, or led.
Held(c) == IF grant[c] > 0 THEN grant[c] ELSE term[c]

\* grant and term are set in exactly the phases that need them.
PhaseInv ==
    \A c \in Coordinators :
        /\ grant[c] > 0 <=> phase[c] = "acquired"
        /\ term[c] > 0 => phase[c] = "leading"
        /\ leader[c] <=> phase[c] = "leading"
        /\ leader[c] => term[c] > 0

\* Nobody holds a term that was not counted, and no term has two holders.
TermInv ==
    /\ \A c \in Coordinators : grant[c] <= durableTerm /\ term[c] <= durableTerm
    /\ \A c, d \in Coordinators : (Held(c) > 0 /\ Held(c) = Held(d)) => c = d

\* A lease has life left, and whoever holds it and a term holds the newest.
LeaseInv ==
    /\ lease # NoToken => ttl > 0
    /\ \A c \in Coordinators :
          (lease = c /\ Held(c) > 0) => Held(c) = durableTerm

ElectionInv == ElectionTypeOK /\ PhaseInv /\ TermInv /\ LeaseInv

\* The initial state satisfies the inductive invariant.
LEMMA ElectionInit_Inv == ElectionInit => ElectionInv
  BY TokenAssumption, BoundAssumption
  DEF ElectionInit, ElectionInv, ElectionTypeOK, PhaseInv, TermInv, LeaseInv,
      Held, Tokens, Phases

\* Every step of every instance, and time, preserve it.
LEMMA ElectionNext_Inv ==
  ElectionInv /\ [ElectionNext]_electionVars => ElectionInv'
<1> SUFFICES ASSUME ElectionInv, [ElectionNext]_electionVars
             PROVE  ElectionInv'
  OBVIOUS
<1> USE TokenAssumption, BoundAssumption
    DEF ElectionInv, ElectionTypeOK, PhaseInv, TermInv, LeaseInv, Held, Tokens,
        Phases
<1>1. ASSUME NEW c \in Coordinators, CampaignStart(c)
      PROVE  ElectionInv'
  BY <1>1 DEF CampaignStart
<1>2. ASSUME NEW c \in Coordinators, Acquire(c)
      PROVE  ElectionInv'
  BY <1>2 DEF Acquire, AcquireScript
<1>3. ASSUME NEW c \in Coordinators, AcquireError(c)
      PROVE  ElectionInv'
  BY <1>3 DEF AcquireError, AcquireScript, LoseLeadership
<1>4. ASSUME NEW c \in Coordinators, BecomeLeader(c)
      PROVE  ElectionInv'
  BY <1>4 DEF BecomeLeader
<1>5. ASSUME NEW c \in Coordinators, Renew(c)
      PROVE  ElectionInv'
  BY <1>5 DEF Renew
<1>6. ASSUME NEW c \in Coordinators, RenewFails(c)
      PROVE  ElectionInv'
  BY <1>6 DEF RenewFails, LoseLeadership
<1>7. CASE Elapse
  BY <1>7 DEF Elapse
<1>8. ASSUME NEW c \in Coordinators, Close(c)
      PROVE  ElectionInv'
  BY <1>8 DEF Close, LoseLeadership
<1>9. ASSUME NEW c \in Coordinators, ReleaseToken(c)
      PROVE  ElectionInv'
  BY <1>9 DEF ReleaseToken, ReleaseScript
<1>10. ASSUME NEW c \in Coordinators, Crash(c)
       PROVE  ElectionInv'
  BY <1>10 DEF Crash, LoseLeadership
<1>11. ASSUME NEW c \in Coordinators, Restart(c)
       PROVE  ElectionInv'
  BY <1>11 DEF Restart
<1>12. CASE UNCHANGED electionVars
  BY <1>12 DEF electionVars
<1>13. QED
  BY <1>1, <1>2, <1>3, <1>4, <1>5, <1>6, <1>7, <1>8, <1>9, <1>10, <1>11, <1>12
  DEF ElectionNext, Campaign, RenewLoop

\* The invariant holds in every reachable state.
LEMMA ElectionInvariant == ElectionSpec => []ElectionInv
  BY ElectionInit_Inv, ElectionNext_Inv, PTL DEF ElectionSpec

\* The state of leases, counters and instances is always well typed.
THEOREM ElectionTypeCorrect == ElectionSpec => []ElectionTypeOK
<1>1. ElectionInv => ElectionTypeOK
  BY DEF ElectionInv
<1>2. QED
  BY <1>1, ElectionInvariant, PTL

\* However many instances answer IsLeader() at once, because leases lapsed
\* while their holders were paused, one of them at most carries the durable
\* term that the topology commit script accepts (elector/redis.go).
THEOREM OneEffectiveLeaderTheorem == ElectionSpec => []OneEffectiveLeader
<1>1. ElectionInv => OneEffectiveLeader
  <2> SUFFICES ASSUME ElectionInv,
                      NEW c \in Coordinators, NEW d \in Coordinators,
                      Term(c) = durableTerm, Term(d) = durableTerm,
                      durableTerm > 0
               PROVE  c = d
    BY DEF OneEffectiveLeader
  <2>1. Held(c) = durableTerm /\ Held(d) = durableTerm
    BY DEF ElectionInv, ElectionTypeOK, PhaseInv, Held, Term
  <2>2. QED
    BY <2>1 DEF ElectionInv, ElectionTypeOK, TermInv
<1>2. QED
  BY <1>1, ElectionInvariant, PTL

\* The instance whose token is the live lease and that leads is never the
\* one fenced out: its term is the newest one.
THEOREM LeaseHolderNotFencedTheorem == ElectionSpec => []LeaseHolderNotFenced
<1>1. ElectionInv => LeaseHolderNotFenced
  BY DEF ElectionInv, ElectionTypeOK, PhaseInv, TermInv, LeaseInv, Held,
         LeaseHolderNotFenced
<1>2. QED
  BY <1>1, ElectionInvariant, PTL

\* No step of one instance takes the lease from another: a token leaves the
\* key by expiry, or by its owner's own release or crash (redis.go:61).
THEOREM LeaseOnlyLostToOwnerOrTimeTheorem ==
  ElectionSpec => LeaseOnlyLostToOwnerOrTime
<1> DEFINE Kept == \A c \in Coordinators :
                      (lease = c /\ lease' # c) =>
                          \/ ttl = 1
                          \/ phase[c] = "closing" /\ phase'[c] = "closed"
                          \/ phase'[c] = "down"
<1>1. ElectionInv /\ [ElectionNext]_electionVars => [Kept]_electionVars
  <2> SUFFICES ASSUME ElectionInv, ElectionNext,
                      NEW c \in Coordinators, lease = c, lease' # c
               PROVE  \/ ttl = 1
                      \/ phase[c] = "closing" /\ phase'[c] = "closed"
                      \/ phase'[c] = "down"
    BY DEF electionVars
  <2> USE TokenAssumption DEF ElectionInv, ElectionTypeOK, LeaseInv
  <2>1. CASE Elapse
    BY <2>1 DEF Elapse
  <2>2. ASSUME NEW d \in Coordinators, Campaign(d) \/ RenewLoop(d)
        PROVE  FALSE
    BY <2>2
    DEF Campaign, RenewLoop, CampaignStart, Acquire, AcquireScript,
        AcquireError, BecomeLeader, Renew, RenewFails
  <2>3. ASSUME NEW d \in Coordinators, Close(d) \/ Restart(d)
        PROVE  FALSE
    BY <2>3 DEF Close, Restart
  <2>4. ASSUME NEW d \in Coordinators, ReleaseToken(d)
        PROVE  phase[c] = "closing" /\ phase'[c] = "closed"
    BY <2>4 DEF ReleaseToken, ReleaseScript
  <2>5. ASSUME NEW d \in Coordinators, Crash(d)
        PROVE  phase'[c] = "down"
    BY <2>5 DEF Crash
  <2>6. QED
    BY <2>1, <2>2, <2>3, <2>4, <2>5 DEF ElectionNext
<1>2. QED
  BY <1>1, ElectionInvariant, PTL DEF ElectionSpec, LeaseOnlyLostToOwnerOrTime

-----------------------------------------------------------------------------
\* The election implements the promise MapFailover is built on: a term is
\* counted before it is led, and led only by the instance it was counted for.
THEOREM ElectionImplementsTerms == ElectionSpec => ImplementsTerms
<1>1. ElectionInit => Terms!TermsInit
  BY DEF ElectionInit, Terms!TermsInit, Term
<1>2. ElectionInv /\ [ElectionNext]_electionVars
        => [Terms!TermsNext]_(Terms!termVars)
  <2> SUFFICES ASSUME ElectionInv, [ElectionNext]_electionVars
               PROVE  Terms!TermsNext \/ UNCHANGED Terms!termVars
    OBVIOUS
  <2> USE DEF ElectionInv, ElectionTypeOK, PhaseInv, Term
  <2>1. ASSUME NEW c \in Coordinators, Acquire(c)
        PROVE  Terms!CountTerm(c)
    BY <2>1 DEF Acquire, AcquireScript, Terms!CountTerm
  <2>2. ASSUME NEW c \in Coordinators, AcquireError(c)
        PROVE  Terms!CountTerm(c) \/ UNCHANGED Terms!termVars
    BY <2>2
    DEF AcquireError, AcquireScript, LoseLeadership, Terms!CountTerm,
        Terms!termVars
  <2>3. ASSUME NEW c \in Coordinators, BecomeLeader(c)
        PROVE  Terms!Believe(c)
    BY <2>3 DEF BecomeLeader, Terms!Believe
  <2>4. ASSUME NEW c \in Coordinators, RenewFails(c) \/ Close(c) \/ Crash(c)
        PROVE  Terms!Drop(c)
    BY <2>4 DEF RenewFails, Close, Crash, LoseLeadership, Terms!Drop
  <2>5. ASSUME NEW c \in Coordinators,
               \/ CampaignStart(c) \/ Renew(c) \/ ReleaseToken(c) \/ Restart(c)
        PROVE  UNCHANGED Terms!termVars
    BY <2>5
    DEF CampaignStart, Renew, ReleaseToken, ReleaseScript, Restart,
        Terms!termVars
  <2>6. CASE Elapse \/ UNCHANGED electionVars
    BY <2>6 DEF Elapse, electionVars, Terms!termVars
  <2>7. QED
    BY <2>1, <2>2, <2>3, <2>4, <2>5, <2>6
    DEF ElectionNext, Campaign, RenewLoop, Terms!TermsNext
<1>3. QED
  BY <1>1, <1>2, ElectionInvariant, PTL
  DEF ElectionSpec, ImplementsTerms, Terms!TermsSpec
=============================================================================
