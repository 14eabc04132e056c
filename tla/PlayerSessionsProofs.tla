------------------------ MODULE PlayerSessionsProofs ------------------------
(***************************************************************************)
(* Proofs about PlayerSessions, for any number of streams and maps.        *)
(*                                                                         *)
(* Nothing reserves the player for a login, so exclusion holds only as     *)
(* long as logins have not overlapped and Redis has read and written every *)
(* session (Quiet): then one stream at a time is busy with the player,     *)
(* because LoginCheck finds no session while another stream serves.  What  *)
(* a stream may rely on is stated for each place its calls can be at       *)
(* (Mine); a step of one stream cannot disturb what another relies on,     *)
(* because that one is not busy.                                           *)
(***************************************************************************)
EXTENDS PlayerSessions, FiniteSetTheorems, TLAPS

\* A login is under way, its session not yet saved.
Enters == {"adding", "saving"}

\* The session names the map that the profile names.
Settled == {"entering", "playing", "calling", "accepted", "showing", "answering",
            "removing", "arriving", "rollback", "leaving", "logout", "deleting"}

\* The player has arrived on the target of a switch.
Moves == {"confirming", "loading", "resaving", "profiling"}

Serves == Settled \cup Moves

Busy == Enters \cup Serves

\* No two logins have overlapped, and no session was misread or not written.
Quiet(tr) == {"overlap", "unread", "unsaved"} \cap tr = {}

\* Besides, no switch has ended with the player on the target unannounced, and
\* no login has used an outdated profile.
Calm(tr) == {"overlap", "staleProfile", "unannounced", "unread", "unsaved"} \cap tr = {}

\* In what follows k is the state of a stream, l its gateway's copy of the
\* session, se the session, w the player's maps, lm LastMap, tr the troubles.

\* Whether the node has done what the command asks for.
Fit(k) ==
    /\ k.pc \in {"playing", "calling", "removing", "arriving"} => k.applied = FALSE
    /\ k.pc \in {"accepted", "showing"} \cup Moves => k.applied = TRUE
    /\ k.pc = "rollback" => /\ k.answer \in {"STALE_ROUTE", "ROUTE_NOT_READY"}
                            /\ k.answer = "STALE_ROUTE" => k.applied = FALSE
    /\ (k.pc = "answering" /\ k.answer = "accepted") => k.applied = TRUE

\* What a busy stream knows of the session.
SessionOf(k, l, se, w) ==
    /\ k.pc \in Enters => se = NoSession
    /\ k.pc \in Serves => l # NoSession /\ se # NoSession /\ l.version <= se.version
    /\ k.pc = "resaving" => l.version <= k.loaded
    /\ k.pc = "confirming" => k.to \in w

\* Where the player can be.
PlaceOf(k, l, se, w, lm) ==
    /\ k.pc \in Enters => k.to = lm
    /\ k.pc \in Enters \cup Settled => w \subseteq {lm}
    /\ k.pc \in {"calling", "accepted", "removing", "arriving", "rollback",
                 "leaving", "logout"} => k.from = lm
    /\ k.pc \in {"arriving", "logout"} => w = {}
    /\ k.pc \in Moves => w \subseteq {k.to}
    /\ k.pc \in Settled => se.map = lm /\ l.map = lm
    /\ k.pc = "profiling" => se.map = k.to /\ l.map = k.to

\* Where the player is, if nothing has gone wrong.
PresentAt(k, w, lm) ==
    /\ k.pc \in {"saving", "entering", "playing", "calling", "accepted",
                 "showing", "answering", "removing"} => lm \in w
    /\ k.pc \in Moves => k.to \in w

\* The conjunct on the answer is about what the client is told.
MineAs(k, l, se, w, lm, tr) ==
    /\ Fit(k)
    /\ Quiet(tr) => SessionOf(k, l, se, w)
    /\ /\ Quiet(tr) /\ "lostBlow" \notin tr
       /\ k.pc = "answering" /\ k.answer \in {"STALE_ROUTE", "COMMAND_REJECTED"}
       => k.applied = FALSE
    /\ Calm(tr) => PlaceOf(k, l, se, w, lm)
    /\ tr = {} => PresentAt(k, w, lm)

\* The part of the type invariant that the streams' steps are about.
CoreTypeOK ==
    /\ session \in Session \cup {NoSession}
    /\ local \in [Streams -> Session \cup {NoSession}]
    /\ where \in SUBSET Maps
    /\ lastMap \in Maps
    /\ stream \in [Streams -> Stream]
    /\ faults \in Nat
    /\ trouble \in SUBSET Troubles

\* What stream s relies on.
Mine(s) == MineAs(stream[s], local[s], session, where, lastMap, trouble)

\* One stream at a time.
AloneInv ==
    Quiet(trouble) => \A r, s \in Streams :
        stream[r].pc \in Busy /\ stream[s].pc \in Busy => r = s

\* Between two logins the player can only be where the next one leads.
GhostInv ==
    Calm(trouble) /\ (\A s \in Streams : stream[s].pc \notin Busy)
        => where \subseteq {lastMap}

SessionInv ==
    /\ CoreTypeOK
    /\ \A s \in Streams : Mine(s)
    /\ AloneInv
    /\ GhostInv

-----------------------------------------------------------------------------
(* A step of one stream.                                                   *)

\* It leaves the other streams alone, keeps what s relies on, and changes the
\* player's whereabouts only if s is busy.
StepOf(s) ==
    /\ CoreTypeOK'
    /\ Mine(s)'
    /\ \A r \in Streams \ {s} : stream'[r] = stream[r] /\ local'[r] = local[r]
    /\ trouble \subseteq trouble'
    /\ stream[s].pc \notin Busy => UNCHANGED <<session, where, lastMap>>
    /\ stream[s].pc \notin Busy /\ stream'[s].pc \in Busy =>
          (Quiet(trouble') => /\ session = NoSession
                              /\ \A r \in Streams \ {s} : stream[r].pc \notin Enters)
    /\ stream[s].pc \in Busy /\ stream'[s].pc \notin Busy /\ Calm(trouble') =>
          where' \subseteq {lastMap'}

\* A stream that is not busy relies on nothing that another one changes.
LEMMA StepOf_Inv ==
  ASSUME SessionInv, NEW s \in Streams, StepOf(s)
  PROVE  SessionInv'
<1>1. ASSUME NEW r \in Streams, r # s
      PROVE  Mine(r)'
  <2>1. stream'[r] = stream[r] /\ local'[r] = local[r] /\ Mine(r) /\ trouble \subseteq trouble'
    BY <1>1 DEF StepOf, SessionInv
  <2>2. CASE stream[s].pc \notin Busy
    <3>1. UNCHANGED <<session, where, lastMap>>
      BY <2>2 DEF StepOf
    <3>2. QED
      <4>1. (Quiet(trouble') => Quiet(trouble)) /\ (Calm(trouble') => Calm(trouble))
        BY <2>1 DEF Quiet, Calm
      <4>2. QED
        BY <2>1, <3>1, <4>1 DEF Mine, MineAs
  <2>3. CASE stream[s].pc \in Busy
    <3>1. Quiet(trouble) => stream[r].pc \notin Busy
      BY <1>1, <2>3 DEF SessionInv, AloneInv
    <3>2. /\ Quiet(trouble') => Quiet(trouble)
          /\ Calm(trouble') => Quiet(trouble')
          /\ trouble' = {} => Quiet(trouble')
      BY <2>1 DEF Quiet, Calm
    <3>3. stream[r].pc \notin Busy =>
            /\ SessionOf(stream[r], local[r], session', where')
            /\ PlaceOf(stream[r], local[r], session', where', lastMap')
            /\ PresentAt(stream[r], where', lastMap')
      BY <2>1 DEF SessionOf, PlaceOf, PresentAt, Busy, Serves, Settled, Moves, Enters
    <3>4. QED
      BY <2>1, <3>1, <3>2, <3>3 DEF Mine, MineAs
  <2>4. QED
    BY <2>2, <2>3
<1>2. \A r \in Streams : Mine(r)'
  BY <1>1 DEF StepOf
<1>3. AloneInv'
  <2>1. SUFFICES ASSUME Quiet(trouble)', NEW q \in Streams, NEW r \in Streams,
                        stream'[q].pc \in Busy, stream'[r].pc \in Busy, q # r
                 PROVE  FALSE
    BY DEF AloneInv
  <2>2. Quiet(trouble)
    BY <2>1 DEF Quiet, StepOf
  <2>3. \A v \in Streams \ {s} : stream'[v] = stream[v] /\ Mine(v)
    BY DEF StepOf, SessionInv
  <2>4. \A v, w \in Streams : stream[v].pc \in Busy /\ stream[w].pc \in Busy => v = w
    BY <2>2 DEF SessionInv, AloneInv
  <2>5. CASE stream[s].pc \in Busy \/ (q # s /\ r # s)
    BY <2>1, <2>3, <2>4, <2>5
  <2>6. CASE stream[s].pc \notin Busy /\ (q = s \/ r = s)
    <3>1. PICK v \in Streams \ {s} : stream'[s].pc \in Busy /\ stream[v].pc \in Busy
      BY <2>1, <2>3, <2>6
    <3>2. session = NoSession /\ stream[v].pc \notin Enters
      BY <2>1, <2>6, <3>1 DEF StepOf
    <3>3. stream[v].pc \in Serves
      BY <3>1, <3>2 DEF Busy
    <3>4. session # NoSession
      BY <2>2, <2>3, <3>3 DEF Mine, MineAs, SessionOf
    <3>5. QED
      BY <3>2, <3>4
  <2>7. QED
    BY <2>5, <2>6
<1>4. GhostInv'
  <2>1. SUFFICES ASSUME Calm(trouble)', \A r \in Streams : stream'[r].pc \notin Busy
                 PROVE  where' \subseteq {lastMap'}
    BY DEF GhostInv
  <2>2. Calm(trouble)
    BY <2>1 DEF Calm, StepOf
  <2>3. CASE stream[s].pc \in Busy
    BY <2>1, <2>3 DEF StepOf
  <2>4. CASE stream[s].pc \notin Busy
    <3>1. \A r \in Streams : stream[r].pc \notin Busy
      BY <2>1, <2>4 DEF StepOf
    <3>2. where \subseteq {lastMap}
      BY <2>2, <3>1 DEF SessionInv, GhostInv
    <3>3. QED
      BY <2>4, <3>2 DEF StepOf
  <2>5. QED
    BY <2>3, <2>4
<1>5. QED
  BY <1>2, <1>3, <1>4 DEF SessionInv, StepOf

\* The whole effect of a step of stream s, doubts being what it puts in doubt.
After(s, k, l, se, w, lm, doubts) ==
    /\ stream' = [stream EXCEPT ![s] = k] /\ local' = [local EXCEPT ![s] = l]
    /\ session' = se /\ where' = w /\ lastMap' = lm
    /\ faults' \in {faults, faults + 1} /\ trouble' = trouble \cup doubts

\* That the values are of their types and what s relies on.
Allowed(s, k, l, se, w, lm, doubts) ==
    /\ k \in Stream /\ l \in Session \cup {NoSession}
    /\ se \in Session \cup {NoSession} /\ w \in SUBSET Maps /\ lm \in Maps
    /\ doubts \in SUBSET Troubles
    /\ MineAs(k, l, se, w, lm, trouble \cup doubts)
    /\ k.pc \notin Busy /\ Calm(trouble \cup doubts) => w \subseteq {lm}

\* What is known before a step of s.
Before(s) ==
    /\ stream \in [Streams -> Stream] /\ stream[s] \in Stream
    /\ local \in [Streams -> Session \cup {NoSession}]
    /\ local[s] \in Session \cup {NoSession} /\ session \in Session \cup {NoSession}
    /\ where \in SUBSET Maps /\ lastMap \in Maps
    /\ DefaultMapID \in Maps /\ MaxVersion \in Nat /\ MaxVersion > 0
    /\ MineAs(stream[s], local[s], session, where, lastMap, trouble)

LEMMA SessionInv_Before ==
  ASSUME SessionInv, NEW s \in Streams
  PROVE  Before(s)
<1>1. MaxVersion \in Nat /\ MaxVersion > 0
  BY SessionBoundAssumption
<1>2. QED
  BY <1>1, SessionMapAssumption DEF Before, SessionInv, CoreTypeOK, Mine

LEMMA Stepped ==
  ASSUME SessionInv, NEW s \in Streams, stream[s].pc \in Busy,
         NEW k, NEW l, NEW se, NEW w, NEW lm, NEW doubts,
         After(s, k, l, se, w, lm, doubts), Allowed(s, k, l, se, w, lm, doubts)
  PROVE  StepOf(s)
<1>1. CoreTypeOK
  BY DEF SessionInv
<1>2. /\ stream'[s] = k /\ local'[s] = l
      /\ \A r \in Streams \ {s} : stream'[r] = stream[r] /\ local'[r] = local[r]
  BY <1>1 DEF CoreTypeOK, After
<1>3. CoreTypeOK'
  BY <1>1 DEF CoreTypeOK, After, Allowed
<1>4. Mine(s)'
  BY <1>2 DEF Mine, After, Allowed
<1>5. QED
  BY <1>2, <1>3, <1>4 DEF StepOf, After, Allowed

LEMMA PlayingIsStream ==
  Playing \in Stream /\ Outside \in Stream
<1>1. 0 \in 0..MaxVersion
  BY SessionBoundAssumption
<1>2. QED
  BY <1>1, SessionMapAssumption DEF Playing, Outside, Stream, Steps, Answers

LEMMA SessionIsEntry ==
  \A x \in Session : x # NoSession
<1>1. Session \subseteq [map : Maps, version : Nat]
  BY SessionBoundAssumption DEF Session
<1>2. QED
  BY <1>1, NoSessionFreshAssumption

\* mapError of the errors the calls can end with.
LEMMA MapErrorValues ==
  /\ MapError("FailedPrecondition") = "STALE_ROUTE"
  /\ MapError("Unavailable") = "ROUTE_NOT_READY"
  /\ MapError("DeadlineExceeded") = "ROUTE_NOT_READY"
  /\ MapError("noRoute") = "ROUTE_NOT_READY" /\ MapError("syncing") = "ROUTE_NOT_READY"
  /\ MapError("rejected") = "COMMAND_REJECTED" /\ MapError("Unknown") = "COMMAND_REJECTED"
  /\ MapError("offline") = "COMMAND_REJECTED"
  /\ \A err \in Refusals : MapError(err) \in {"STALE_ROUTE", "ROUTE_NOT_READY"}
  /\ \A err \in Refusals \cup {"Unknown"} : MapError(err) \in Answers
  BY DEF MapError, Refusals, Answers

\* Once logins overlapped or a session was misread or not written, a stream
\* relies on little.
LEMMA Unquiet ==
  ASSUME SessionInv, NEW s \in Streams,
         NEW k \in Stream, NEW l \in Session \cup {NoSession},
         NEW se \in Session \cup {NoSession}, NEW doubts \in SUBSET Troubles,
         After(s, k, l, se, where, lastMap, doubts),
         stream[s].pc \in Busy \/ se = session,
         ~Quiet(trouble \cup doubts), Fit(k)
  PROVE  StepOf(s)
<1>1. CoreTypeOK
  BY DEF SessionInv
<1>2. /\ stream'[s] = k /\ local'[s] = l
      /\ \A r \in Streams \ {s} : stream'[r] = stream[r] /\ local'[r] = local[r]
  BY <1>1 DEF CoreTypeOK, After
<1>3. CoreTypeOK'
  BY <1>1 DEF CoreTypeOK, After
<1>4. /\ trouble' = trouble \cup doubts /\ where' = where /\ lastMap' = lastMap
      /\ session' = se
  BY DEF After
<1>5. ~Quiet(trouble') /\ ~Calm(trouble') /\ trouble' # {}
  BY <1>4 DEF Quiet, Calm
<1>6. Mine(s)'
  BY <1>2, <1>5 DEF Mine, MineAs
<1>7. QED
  BY <1>2, <1>3, <1>4, <1>5, <1>6 DEF StepOf

LEMMA AnswerUnquiet ==
  ASSUME SessionInv, NEW s \in Streams, stream[s].pc \in Busy,
         NEW a \in BOOLEAN, NEW b \in Answers, b = "accepted" => a = TRUE,
         AnswerTo(s, a, b),
         NEW l \in Session \cup {NoSession}, local' = [local EXCEPT ![s] = l],
         session' \in {session, NoSession}, UNCHANGED <<where, lastMap>>,
         NEW doubts \in SUBSET Troubles,
         faults' \in {faults, faults + 1}, trouble' = trouble \cup doubts,
         ~Quiet(trouble \cup doubts)
  PROVE  StepOf(s)
<1> DEFINE k == [Playing EXCEPT !.pc = "answering", !.applied = a, !.answer = b]
<1>1. k \in Stream
  BY PlayingIsStream DEF Stream, Steps
<1>2. Fit(k)
  <2>1. k.pc = "answering" /\ k.answer = b /\ k.applied = a
    BY DEF Playing, Outside
  <2> HIDE DEF k
  <2>2. QED
    BY <2>1 DEF Fit, Moves
<1>3. session' \in Session \cup {NoSession}
  BY DEF SessionInv, CoreTypeOK
<1>4. stream' = [stream EXCEPT ![s] = k]
  BY DEF AnswerTo
<1> HIDE DEF k
<1>5. After(s, k, l, session', where, lastMap, doubts)
  BY <1>4 DEF After
<1>6. QED
  BY <1>1, <1>2, <1>3, <1>5, Unquiet

\* sessionNode has found a copy of the session, or none.
Routes(s) ==
    /\ local' = local \/ local' = [local EXCEPT ![s] = Copy(s)]
    /\ faults' \in {faults, faults + 1}
    /\ trouble' \in {trouble, trouble \cup {"unread"}}

LEMMA FailsUnquiet ==
  ASSUME SessionInv, NEW s \in Streams, stream[s].pc \in Busy, ~Quiet(trouble),
         NEW err \in {"noRoute", "syncing", "rejected", "offline"},
         Fails(s, err), Routes(s), Copy(s) \in Session \cup {NoSession},
         UNCHANGED <<session, where, lastMap>>
  PROVE  StepOf(s)
<1>1. CoreTypeOK
  BY DEF SessionInv
<1>2. stream[s].applied \in BOOLEAN
  BY <1>1 DEF CoreTypeOK, Stream
<1>3. MapError(err) \in Answers /\ MapError(err) # "accepted"
  BY MapErrorValues DEF Answers
<1>4. PICK l \in Session \cup {NoSession} : local' = [local EXCEPT ![s] = l]
  <2>1. local = [local EXCEPT ![s] = local[s]] /\ local[s] \in Session \cup {NoSession}
    BY <1>1 DEF CoreTypeOK
  <2>2. QED
    BY <2>1 DEF Routes
<1>5. PICK doubts \in SUBSET Troubles : trouble' = trouble \cup doubts
  <2>1. {} \in SUBSET Troubles /\ {"unread"} \in SUBSET Troubles /\ trouble = trouble \cup {}
    BY DEF Troubles
  <2>2. QED
    BY <2>1 DEF Routes
<1>6. ~Quiet(trouble \cup doubts)
  BY DEF Quiet
<1>7. AnswerTo(s, stream[s].applied, MapError(err))
  BY DEF Fails, Answer
<1>8. faults' \in {faults, faults + 1}
  BY DEF Routes
<1>9. QED
  BY <1>2, <1>3, <1>4, <1>5, <1>6, <1>7, <1>8, AnswerUnquiet

-----------------------------------------------------------------------------
(* The steps of a busy stream.                                             *)

LEMMA LoginAdd_Step ==
  ASSUME SessionInv, NEW s \in Streams, LoginAdd(s)
  PROVE  StepOf(s)
<1>g. stream[s].pc = "adding"
  BY DEF LoginAdd, At
<1>t. Before(s)
  BY SessionInv_Before
<1>1. ASSUME Done(where \cup {stream[s].to}),
             Goto(s, "saving"),
             UNCHANGED <<session, local, lastMap>>
      PROVE  StepOf(s)
  <2> DEFINE k == [stream[s] EXCEPT !.pc = "saving"]
  <2>1. After(s, k, local[s], session, where \cup {stream[s].to}, lastMap, {})
    BY <1>1, <1>g, <1>t
    DEF After, Before, Stream, Fine, Fault, Done, Goto
  <2>2. k \in Stream
    BY <1>1, <1>t
    DEF Before, Stream, Steps, Answers, Session
  <2>3. MineAs(k, local[s], session, where \cup {stream[s].to}, lastMap, trouble \cup {})
    BY <1>1, <1>g, <1>t
    DEF Before, MineAs, SessionOf, PlaceOf, PresentAt, Fit, Quiet, Calm,
      Stream, Session, Enters, Serves, Settled, Moves
  <2>4. Allowed(s, k, local[s], session, where \cup {stream[s].to}, lastMap, {})
    BY <1>g, <1>t, <2>2, <2>3
    DEF Allowed, Before, Stream, Session, Troubles, Busy, Enters, Serves,
      Settled, Moves
  <2> HIDE DEF k
  <2>5. QED
    BY <1>g, <2>1, <2>4, Stepped DEF Busy, Enters, Serves, Settled, Moves
<1>2. ASSUME Refused({}),
             Goto(s, "out"),
             UNCHANGED <<session, local, lastMap>>
      PROVE  StepOf(s)
  <2> DEFINE k == [stream[s] EXCEPT !.pc = "out"]
  <2>1. After(s, k, local[s], session, where, lastMap, {})
    BY <1>2, <1>g, <1>t
    DEF After, Before, Stream, Fine, Fault, Refused, Goto
  <2>2. k \in Stream
    BY <1>2, <1>t
    DEF Before, Stream, Steps, Answers, Session
  <2>3. MineAs(k, local[s], session, where, lastMap, trouble \cup {})
    BY <1>2, <1>g, <1>t
    DEF Before, MineAs, SessionOf, PlaceOf, PresentAt, Fit, Quiet, Calm,
      Stream, Session, Enters, Serves, Settled, Moves
  <2>4. Allowed(s, k, local[s], session, where, lastMap, {})
    BY <1>g, <1>t, <2>2, <2>3
    DEF Allowed, Before, Stream, Session, Troubles, Busy, Enters, Serves,
      Settled, Moves, MineAs, PlaceOf, Calm
  <2> HIDE DEF k
  <2>5. QED
    BY <1>g, <2>1, <2>4, Stepped DEF Busy, Enters, Serves, Settled, Moves
<1>3. ASSUME AnswerLost(where \cup {stream[s].to}, {}),
             Goto(s, "out"),
             UNCHANGED <<session, local, lastMap>>
      PROVE  StepOf(s)
  <2> DEFINE k == [stream[s] EXCEPT !.pc = "out"]
  <2>1. After(s, k, local[s], session, where \cup {stream[s].to}, lastMap, {})
    BY <1>3, <1>g, <1>t
    DEF After, Before, Stream, Fine, Fault, AnswerLost, Goto
  <2>2. k \in Stream
    BY <1>3, <1>t
    DEF Before, Stream, Steps, Answers, Session
  <2>3. MineAs(k, local[s], session, where \cup {stream[s].to}, lastMap, trouble \cup {})
    BY <1>3, <1>g, <1>t
    DEF Before, MineAs, SessionOf, PlaceOf, PresentAt, Fit, Quiet, Calm,
      Stream, Session, Enters, Serves, Settled, Moves
  <2>4. Allowed(s, k, local[s], session, where \cup {stream[s].to}, lastMap, {})
    BY <1>g, <1>t, <2>2, <2>3
    DEF Allowed, Before, Stream, Session, Troubles, Busy, Enters, Serves,
      Settled, Moves, MineAs, PlaceOf, Calm
  <2> HIDE DEF k
  <2>5. QED
    BY <1>g, <2>1, <2>4, Stepped DEF Busy, Enters, Serves, Settled, Moves
<1>4. QED
  BY <1>1, <1>2, <1>3
  DEF LoginAdd

LEMMA LoginSave_Step ==
  ASSUME SessionInv, NEW s \in Streams, LoginSave(s)
  PROVE  StepOf(s)
<1>g. stream[s].pc = "saving"
  BY DEF LoginSave, At
<1>t. Before(s)
  BY SessionInv_Before
<1>1. ASSUME session' = [map |-> stream[s].to, version |-> FirstVersion],
             Fine,
             local' = [local EXCEPT ![s] =
                           [map |-> stream[s].to, version |-> FirstVersion]],
             Goto(s, "entering"),
             UNCHANGED <<where, lastMap>>
      PROVE  StepOf(s)
  <2> DEFINE k == [stream[s] EXCEPT !.pc = "entering"]
             l == [map |-> stream[s].to, version |-> FirstVersion]
  <2>1. After(s, k, l, l, where, lastMap, {})
    BY <1>1, <1>g, <1>t
    DEF After, Before, Stream, Fine, Fault, Goto
  <2>2. k \in Stream /\ l \in Session /\ l # NoSession
    BY <1>1, <1>t, SessionIsEntry
    DEF Before, Stream, Steps, Answers, Session, FirstVersion
  <2>3. MineAs(k, l, l, where, lastMap, trouble \cup {})
    BY <1>1, <1>g, <1>t, <2>2
    DEF Before, MineAs, SessionOf, PlaceOf, PresentAt, Fit, Quiet, Calm,
      Stream, Session, Enters, Serves, Settled, Moves, FirstVersion
  <2>4. Allowed(s, k, l, l, where, lastMap, {})
    BY <1>g, <1>t, <2>2, <2>3
    DEF Allowed, Before, Stream, Session, Troubles, Busy, Enters, Serves,
      Settled, Moves
  <2> HIDE DEF k, l
  <2>5. QED
    BY <1>g, <2>1, <2>4, Stepped DEF Busy, Enters, Serves, Settled, Moves
<1>2. ASSUME UNCHANGED session,
             Fault({"unsaved"}),
             local' = [local EXCEPT ![s] =
                           [map |-> stream[s].to, version |-> FirstVersion]],
             Goto(s, "entering"),
             UNCHANGED <<where, lastMap>>
      PROVE  StepOf(s)
  <2> DEFINE k == [stream[s] EXCEPT !.pc = "entering"]
             l == [map |-> stream[s].to, version |-> FirstVersion]
  <2>1. After(s, k, l, session, where, lastMap, {"unsaved"})
    BY <1>2, <1>g, <1>t
    DEF After, Before, Stream, Fine, Fault, Goto
  <2>2. k \in Stream /\ l \in Session /\ l # NoSession
    BY <1>2, <1>t, SessionIsEntry
    DEF Before, Stream, Steps, Answers, Session, FirstVersion
  <2>3. MineAs(k, l, session, where, lastMap, trouble \cup {"unsaved"})
    BY <1>2, <1>g, <1>t, <2>2
    DEF Before, MineAs, SessionOf, PlaceOf, PresentAt, Fit, Quiet, Calm,
      Stream, Session, Enters, Serves, Settled, Moves, FirstVersion
  <2>4. Allowed(s, k, l, session, where, lastMap, {"unsaved"})
    BY <1>g, <1>t, <2>2, <2>3
    DEF Allowed, Before, Stream, Session, Troubles, Busy, Enters, Serves,
      Settled, Moves
  <2> HIDE DEF k, l
  <2>5. QED
    BY <1>g, <2>1, <2>4, Stepped DEF Busy, Enters, Serves, Settled, Moves
<1>3. QED
  BY <1>1, <1>2
  DEF LoginSave

LEMMA LoginEnter_Step ==
  ASSUME SessionInv, NEW s \in Streams, LoginEnter(s)
  PROVE  StepOf(s)
<1>g. stream[s].pc = "entering"
  BY DEF LoginEnter, At
<1>t. Before(s)
  BY SessionInv_Before
<1>1. ASSUME stream' = [stream EXCEPT ![s] = Playing],
             Fine,
             UNCHANGED <<session, local, where, lastMap>>
      PROVE  StepOf(s)
  <2> DEFINE k == Playing
  <2>1. After(s, k, local[s], session, where, lastMap, {})
    BY <1>1, <1>g, <1>t
    DEF After, Before, Stream, Fine, Fault, Playing, Outside
  <2>2. k \in Stream
    BY <1>1, <1>t, PlayingIsStream
    DEF Before, Stream, Steps, Answers, Session
  <2>3. MineAs(k, local[s], session, where, lastMap, trouble \cup {})
    BY <1>1, <1>g, <1>t
    DEF Before, MineAs, SessionOf, PlaceOf, PresentAt, Fit, Quiet, Calm,
      Stream, Session, Enters, Serves, Settled, Moves, Playing, Outside
  <2>4. Allowed(s, k, local[s], session, where, lastMap, {})
    BY <1>g, <1>t, <2>2, <2>3
    DEF Allowed, Before, Stream, Session, Troubles, Busy, Enters, Serves,
      Settled, Moves, Playing, Outside
  <2> HIDE DEF k
  <2>5. QED
    BY <1>g, <2>1, <2>4, Stepped DEF Busy, Enters, Serves, Settled, Moves
<1>2. ASSUME Goto(s, "failed"),
             Fault({}),
             UNCHANGED <<session, local, where, lastMap>>
      PROVE  StepOf(s)
  <2> DEFINE k == [stream[s] EXCEPT !.pc = "failed"]
  <2>1. After(s, k, local[s], session, where, lastMap, {})
    BY <1>2, <1>g, <1>t
    DEF After, Before, Stream, Fine, Fault, Goto
  <2>2. k \in Stream
    BY <1>2, <1>t
    DEF Before, Stream, Steps, Answers, Session
  <2>3. MineAs(k, local[s], session, where, lastMap, trouble \cup {})
    BY <1>2, <1>g, <1>t
    DEF Before, MineAs, SessionOf, PlaceOf, PresentAt, Fit, Quiet, Calm,
      Stream, Session, Enters, Serves, Settled, Moves
  <2>4. Allowed(s, k, local[s], session, where, lastMap, {})
    BY <1>g, <1>t, <2>2, <2>3
    DEF Allowed, Before, Stream, Session, Troubles, Busy, Enters, Serves,
      Settled, Moves, MineAs, PlaceOf, Calm
  <2> HIDE DEF k
  <2>5. QED
    BY <1>g, <2>1, <2>4, Stepped DEF Busy, Enters, Serves, Settled, Moves
<1>3. QED
  BY <1>1, <1>2
  DEF LoginEnter

LEMMA CommandStart_Step ==
  ASSUME SessionInv, NEW s \in Streams, CommandStart(s)
  PROVE  StepOf(s)
<1>g. stream[s].pc = "playing"
  BY DEF CommandStart, At
<1>t. Before(s)
  BY SessionInv_Before
<1>c. Quiet(trouble) => Copy(s) = local[s] /\ local[s] # NoSession
  BY <1>g, <1>t DEF Before, MineAs, SessionOf, Copy, Serves, Settled, Moves
<1>1. ASSUME Quiet(trouble),
             local' = [local EXCEPT ![s] = Copy(s)],
             stream' = [stream EXCEPT ![s] =
                 [Playing EXCEPT !.pc = "calling", !.from = Copy(s).map]],
             Fine,
             UNCHANGED <<session, where, lastMap>>
      PROVE  StepOf(s)
  <2> DEFINE k == [Playing EXCEPT !.pc = "calling", !.from = local[s].map]
  <2>1. After(s, k, local[s], session, where, lastMap, {})
    BY <1>1, <1>g, <1>t, <1>c
    DEF After, Before, Stream, Fine, Fault, Playing, Outside
  <2>2. k \in Stream
    BY <1>1, <1>t, <1>c, PlayingIsStream
    DEF Before, Stream, Steps, Answers, Session
  <2>3. MineAs(k, local[s], session, where, lastMap, trouble \cup {})
    BY <1>1, <1>g, <1>t, <1>c
    DEF Before, MineAs, SessionOf, PlaceOf, PresentAt, Fit, Quiet, Calm,
      Stream, Session, Enters, Serves, Settled, Moves, Playing, Outside
  <2>4. Allowed(s, k, local[s], session, where, lastMap, {})
    BY <1>g, <1>t, <2>2, <2>3
    DEF Allowed, Before, Stream, Session, Troubles, Busy, Enters, Serves,
      Settled, Moves, Playing, Outside
  <2> HIDE DEF k
  <2>5. QED
    BY <1>g, <2>1, <2>4, Stepped DEF Busy, Enters, Serves, Settled, Moves
<1>2. ASSUME Quiet(trouble),
             local' = [local EXCEPT ![s] = Copy(s)],
             Fails(s, "noRoute"),
             Fault({}),
             UNCHANGED <<session, where, lastMap>>
      PROVE  StepOf(s)
  <2> DEFINE k == [Playing EXCEPT !.pc = "answering", !.applied =
                   stream[s].applied, !.answer = "ROUTE_NOT_READY"]
  <2>1. After(s, k, local[s], session, where, lastMap, {})
    BY <1>2, <1>g, <1>t, <1>c, MapErrorValues
    DEF After, Before, Stream, Fine, Fault, Playing, Outside, Answer, AnswerTo,
      Fails
  <2>2. k \in Stream
    BY <1>2, <1>t, <1>c, MapErrorValues, PlayingIsStream
    DEF Before, Stream, Steps, Answers, Session
  <2>3. MineAs(k, local[s], session, where, lastMap, trouble \cup {})
    BY <1>2, <1>g, <1>t, <1>c, MapErrorValues
    DEF Before, MineAs, SessionOf, PlaceOf, PresentAt, Fit, Quiet, Calm,
      Stream, Session, Enters, Serves, Settled, Moves, Playing, Outside
  <2>4. Allowed(s, k, local[s], session, where, lastMap, {})
    BY <1>g, <1>t, <2>2, <2>3
    DEF Allowed, Before, Stream, Session, Troubles, Busy, Enters, Serves,
      Settled, Moves, Playing, Outside
  <2> HIDE DEF k
  <2>5. QED
    BY <1>g, <2>1, <2>4, Stepped DEF Busy, Enters, Serves, Settled, Moves
<1>3. ASSUME ~Quiet(trouble)
      PROVE  StepOf(s)
  <2>1. /\ stream[s].pc \in Busy /\ stream[s].applied = FALSE
        /\ Copy(s) \in Session \cup {NoSession}
        /\ UNCHANGED <<session, where, lastMap>>
    BY <1>g, <1>t DEF CommandStart, Before, MineAs, Fit, Copy, Busy, Serves, Settled
  <2>2. CASE \E err \in {"noRoute", "offline"} : /\ Fails(s, err)
                                                 /\ Routes(s)
    BY <1>3, <2>1, <2>2, FailsUnquiet
  <2>3. CASE /\ Copy(s) # NoSession /\ Fine /\ local' = [local EXCEPT ![s] = Copy(s)]
             /\ stream' = [stream EXCEPT
                  ![s] = [Playing EXCEPT !.pc = "calling", !.from = Copy(s).map]]
    <3> DEFINE k == [Playing EXCEPT !.pc = "calling", !.from = Copy(s).map]
    <3>1. Copy(s).map \in Maps
      BY <2>1, <2>3 DEF Session
    <3>2. k \in Stream
      BY <3>1, PlayingIsStream DEF Stream, Steps
    <3>3. Fit(k)
      BY DEF Fit, Moves, Playing, Outside
    <3> HIDE DEF k
    <3>4. After(s, k, Copy(s), session, where, lastMap, {})
      BY <2>1, <2>3 DEF After, Fine, k
    <3>5. {} \in SUBSET Troubles /\ trouble \cup {} = trouble
      OBVIOUS
    <3>6. QED
      BY <1>3, <1>t, <2>1, <3>2, <3>3, <3>4, <3>5, Unquiet DEF Before
  <2>4. QED
    BY <2>2, <2>3 DEF CommandStart, Routed, Unrouted, Unread, Routes, Fault, Fine
<1>4. ASSUME Quiet(trouble), Unrouted(s)
      PROVE  FALSE
  BY <1>4, <1>c DEF Unrouted
<1>5. QED
  BY <1>1, <1>2, <1>3, <1>4, <1>c
  DEF CommandStart, Routed

LEMMA CommandApplied_Step ==
  ASSUME SessionInv, NEW s \in Streams, CommandApplied(s)
  PROVE  StepOf(s)
<1>g. stream[s].pc = "calling"
  BY DEF CommandApplied, At
<1>t. Before(s)
  BY SessionInv_Before
<1>1. ASSUME stream[s].from \in where,
             stream' = [stream EXCEPT ![s].pc = "accepted", ![s].applied = TRUE],
             Fine,
             UNCHANGED <<session, local, where, lastMap>>
      PROVE  StepOf(s)
  <2> DEFINE k == [stream[s] EXCEPT !.pc = "accepted", !.applied = TRUE]
  <2>1. After(s, k, local[s], session, where, lastMap, {})
    BY <1>1, <1>g, <1>t
    DEF After, Before, Stream, Fine, Fault
  <2>2. k \in Stream
    BY <1>1, <1>t
    DEF Before, Stream, Steps, Answers, Session
  <2>3. MineAs(k, local[s], session, where, lastMap, trouble \cup {})
    BY <1>1, <1>g, <1>t
    DEF Before, MineAs, SessionOf, PlaceOf, PresentAt, Fit, Quiet, Calm,
      Stream, Session, Enters, Serves, Settled, Moves
  <2>4. Allowed(s, k, local[s], session, where, lastMap, {})
    BY <1>g, <1>t, <2>2, <2>3
    DEF Allowed, Before, Stream, Session, Troubles, Busy, Enters, Serves,
      Settled, Moves
  <2> HIDE DEF k
  <2>5. QED
    BY <1>g, <2>1, <2>4, Stepped DEF Busy, Enters, Serves, Settled, Moves
<1>2. QED
  BY <1>1
  DEF CommandApplied

LEMMA CommandTurnedDown_Step ==
  ASSUME SessionInv, NEW s \in Streams, CommandTurnedDown(s)
  PROVE  StepOf(s)
<1>g. stream[s].pc = "calling"
  BY DEF CommandTurnedDown, At
<1>t. Before(s)
  BY SessionInv_Before
<1>1. ASSUME Fails(s, "rejected"),
             Fine,
             UNCHANGED <<session, local, where, lastMap>>
      PROVE  StepOf(s)
  <2> DEFINE k == [Playing EXCEPT !.pc = "answering", !.applied =
                   stream[s].applied, !.answer = "COMMAND_REJECTED"]
  <2>1. After(s, k, local[s], session, where, lastMap, {})
    BY <1>1, <1>g, <1>t, MapErrorValues
    DEF After, Before, Stream, Fine, Fault, Playing, Outside, Answer, AnswerTo,
      Fails
  <2>2. k \in Stream
    BY <1>1, <1>t, MapErrorValues, PlayingIsStream
    DEF Before, Stream, Steps, Answers, Session
  <2>3. MineAs(k, local[s], session, where, lastMap, trouble \cup {})
    BY <1>1, <1>g, <1>t, MapErrorValues
    DEF Before, MineAs, SessionOf, PlaceOf, PresentAt, Fit, Quiet, Calm,
      Stream, Session, Enters, Serves, Settled, Moves, Playing, Outside
  <2>4. Allowed(s, k, local[s], session, where, lastMap, {})
    BY <1>g, <1>t, <2>2, <2>3
    DEF Allowed, Before, Stream, Session, Troubles, Busy, Enters, Serves,
      Settled, Moves, Playing, Outside
  <2> HIDE DEF k
  <2>5. QED
    BY <1>g, <2>1, <2>4, Stepped DEF Busy, Enters, Serves, Settled, Moves
<1>2. QED
  BY <1>1
  DEF CommandTurnedDown

LEMMA CommandRefused_Step ==
  ASSUME SessionInv, NEW s \in Streams, CommandRefused(s)
  PROVE  StepOf(s)
<1>g. stream[s].pc = "calling"
  BY DEF CommandRefused, At
<1>t. Before(s)
  BY SessionInv_Before
<1>1. ASSUME NEW err \in Refusals \cup {"Unknown"},
             Fails(s, err),
             Fault({}),
             UNCHANGED <<session, local, where, lastMap>>
      PROVE  StepOf(s)
  <2> DEFINE k == [Playing EXCEPT !.pc = "answering", !.applied =
                   stream[s].applied, !.answer = MapError(err)]
  <2>1. After(s, k, local[s], session, where, lastMap, {})
    BY <1>1, <1>g, <1>t, MapErrorValues
    DEF After, Before, Stream, Fine, Fault, Playing, Outside, Answer, AnswerTo,
      Fails
  <2>2. k \in Stream
    BY <1>1, <1>t, MapErrorValues, PlayingIsStream
    DEF Before, Stream, Steps, Answers, Session
  <2>3. MineAs(k, local[s], session, where, lastMap, trouble \cup {})
    BY <1>1, <1>g, <1>t, MapErrorValues
    DEF Before, MineAs, SessionOf, PlaceOf, PresentAt, Fit, Quiet, Calm,
      Stream, Session, Enters, Serves, Settled, Moves, Playing, Outside
  <2>4. Allowed(s, k, local[s], session, where, lastMap, {})
    BY <1>g, <1>t, <2>2, <2>3
    DEF Allowed, Before, Stream, Session, Troubles, Busy, Enters, Serves,
      Settled, Moves, Playing, Outside
  <2> HIDE DEF k
  <2>5. QED
    BY <1>g, <2>1, <2>4, Stepped DEF Busy, Enters, Serves, Settled, Moves
<1>2. QED
  BY <1>1
  DEF CommandRefused

LEMMA CommandTimesOut_Step ==
  ASSUME SessionInv, NEW s \in Streams, CommandTimesOut(s)
  PROVE  StepOf(s)
<1>g. stream[s].pc = "calling"
  BY DEF CommandTimesOut, At
<1>t. Before(s)
  BY SessionInv_Before
<1>1. ASSUME AnswerTo(s, TRUE, MapError("DeadlineExceeded")),
             Fault({}),
             UNCHANGED <<session, local, where, lastMap>>
      PROVE  StepOf(s)
  <2> DEFINE k == [Playing EXCEPT !.pc = "answering", !.applied = TRUE,
                   !.answer = "ROUTE_NOT_READY"]
  <2>1. After(s, k, local[s], session, where, lastMap, {})
    BY <1>1, <1>g, <1>t, MapErrorValues
    DEF After, Before, Stream, Fine, Fault, Playing, Outside, Answer, AnswerTo,
      Fails
  <2>2. k \in Stream
    BY <1>1, <1>t, MapErrorValues, PlayingIsStream
    DEF Before, Stream, Steps, Answers, Session
  <2>3. MineAs(k, local[s], session, where, lastMap, trouble \cup {})
    BY <1>1, <1>g, <1>t, MapErrorValues
    DEF Before, MineAs, SessionOf, PlaceOf, PresentAt, Fit, Quiet, Calm,
      Stream, Session, Enters, Serves, Settled, Moves, Playing, Outside
  <2>4. Allowed(s, k, local[s], session, where, lastMap, {})
    BY <1>g, <1>t, <2>2, <2>3
    DEF Allowed, Before, Stream, Session, Troubles, Busy, Enters, Serves,
      Settled, Moves, Playing, Outside
  <2> HIDE DEF k
  <2>5. QED
    BY <1>g, <2>1, <2>4, Stepped DEF Busy, Enters, Serves, Settled, Moves
<1>2. QED
  BY <1>1
  DEF CommandTimesOut

LEMMA CommandUnanswered_Step ==
  ASSUME SessionInv, NEW s \in Streams, CommandUnanswered(s)
  PROVE  StepOf(s)
<1>g. stream[s].pc = "calling"
  BY DEF CommandUnanswered, At
<1>t. Before(s)
  BY SessionInv_Before
<1>1. ASSUME AnswerTo(s, TRUE, MapError("Unknown")),
             Fault({"lostBlow"}),
             UNCHANGED <<session, local, where, lastMap>>
      PROVE  StepOf(s)
  <2> DEFINE k == [Playing EXCEPT !.pc = "answering", !.applied = TRUE,
                   !.answer = "COMMAND_REJECTED"]
  <2>1. After(s, k, local[s], session, where, lastMap, {"lostBlow"})
    BY <1>1, <1>g, <1>t, MapErrorValues
    DEF After, Before, Stream, Fine, Fault, Playing, Outside, Answer, AnswerTo,
      Fails
  <2>2. k \in Stream
    BY <1>1, <1>t, MapErrorValues, PlayingIsStream
    DEF Before, Stream, Steps, Answers, Session
  <2>3. MineAs(k, local[s], session, where, lastMap, trouble \cup {"lostBlow"})
    BY <1>1, <1>g, <1>t, MapErrorValues
    DEF Before, MineAs, SessionOf, PlaceOf, PresentAt, Fit, Quiet, Calm,
      Stream, Session, Enters, Serves, Settled, Moves, Playing, Outside
  <2>4. Allowed(s, k, local[s], session, where, lastMap, {"lostBlow"})
    BY <1>g, <1>t, <2>2, <2>3
    DEF Allowed, Before, Stream, Session, Troubles, Busy, Enters, Serves,
      Settled, Moves, Playing, Outside
  <2> HIDE DEF k
  <2>5. QED
    BY <1>g, <2>1, <2>4, Stepped DEF Busy, Enters, Serves, Settled, Moves
<1>2. QED
  BY <1>1
  DEF CommandUnanswered

LEMMA CommandAccepted_Step ==
  ASSUME SessionInv, NEW s \in Streams, CommandAccepted(s)
  PROVE  StepOf(s)
<1>g. stream[s].pc = "accepted"
  BY DEF CommandAccepted, At
<1>t. Before(s)
  BY SessionInv_Before
<1>1. ASSUME Answer(s, "accepted"),
             UNCHANGED lastMap,
             Fine,
             UNCHANGED <<session, local, where>>
      PROVE  StepOf(s)
  <2> DEFINE k == [Playing EXCEPT !.pc = "answering", !.applied =
                   stream[s].applied, !.answer = "accepted"]
  <2>1. After(s, k, local[s], session, where, lastMap, {})
    BY <1>1, <1>g, <1>t
    DEF After, Before, Stream, Fine, Fault, Playing, Outside, Answer, AnswerTo,
      Fails
  <2>2. k \in Stream
    BY <1>1, <1>t, PlayingIsStream
    DEF Before, Stream, Steps, Answers, Session
  <2>3. MineAs(k, local[s], session, where, lastMap, trouble \cup {})
    BY <1>1, <1>g, <1>t
    DEF Before, MineAs, SessionOf, PlaceOf, PresentAt, Fit, Quiet, Calm,
      Stream, Session, Enters, Serves, Settled, Moves, Playing, Outside
  <2>4. Allowed(s, k, local[s], session, where, lastMap, {})
    BY <1>g, <1>t, <2>2, <2>3
    DEF Allowed, Before, Stream, Session, Troubles, Busy, Enters, Serves,
      Settled, Moves, Playing, Outside
  <2> HIDE DEF k
  <2>5. QED
    BY <1>g, <2>1, <2>4, Stepped DEF Busy, Enters, Serves, Settled, Moves
<1>2. ASSUME Show(s),
             UNCHANGED lastMap,
             Fine,
             UNCHANGED <<session, local, where>>
      PROVE  StepOf(s)
  <2> DEFINE k == [Playing EXCEPT !.pc = "showing", !.applied =
                   stream[s].applied]
  <2>1. After(s, k, local[s], session, where, lastMap, {})
    BY <1>2, <1>g, <1>t
    DEF After, Before, Stream, Fine, Fault, Playing, Outside, Show
  <2>2. k \in Stream
    BY <1>2, <1>t, PlayingIsStream
    DEF Before, Stream, Steps, Answers, Session
  <2>3. MineAs(k, local[s], session, where, lastMap, trouble \cup {})
    BY <1>2, <1>g, <1>t
    DEF Before, MineAs, SessionOf, PlaceOf, PresentAt, Fit, Quiet, Calm,
      Stream, Session, Enters, Serves, Settled, Moves, Playing, Outside
  <2>4. Allowed(s, k, local[s], session, where, lastMap, {})
    BY <1>g, <1>t, <2>2, <2>3
    DEF Allowed, Before, Stream, Session, Troubles, Busy, Enters, Serves,
      Settled, Moves, Playing, Outside
  <2> HIDE DEF k
  <2>5. QED
    BY <1>g, <2>1, <2>4, Stepped DEF Busy, Enters, Serves, Settled, Moves
<1>3. ASSUME Show(s),
             lastMap' = stream[s].from,
             Fine,
             UNCHANGED <<session, local, where>>
      PROVE  StepOf(s)
  <2> DEFINE k == [Playing EXCEPT !.pc = "showing", !.applied =
                   stream[s].applied]
  <2>1. After(s, k, local[s], session, where, stream[s].from, {})
    BY <1>3, <1>g, <1>t
    DEF After, Before, Stream, Fine, Fault, Playing, Outside, Show
  <2>2. k \in Stream
    BY <1>3, <1>t, PlayingIsStream
    DEF Before, Stream, Steps, Answers, Session
  <2>3. MineAs(k, local[s], session, where, stream[s].from, trouble \cup {})
    BY <1>3, <1>g, <1>t
    DEF Before, MineAs, SessionOf, PlaceOf, PresentAt, Fit, Quiet, Calm,
      Stream, Session, Enters, Serves, Settled, Moves, Playing, Outside
  <2>4. Allowed(s, k, local[s], session, where, stream[s].from, {})
    BY <1>g, <1>t, <2>2, <2>3
    DEF Allowed, Before, Stream, Session, Troubles, Busy, Enters, Serves,
      Settled, Moves, Playing, Outside
  <2> HIDE DEF k
  <2>5. QED
    BY <1>g, <2>1, <2>4, Stepped DEF Busy, Enters, Serves, Settled, Moves
<1>4. ASSUME Show(s),
             UNCHANGED lastMap,
             Fault({"unsaved"}),
             UNCHANGED <<session, local, where>>
      PROVE  StepOf(s)
  <2> DEFINE k == [Playing EXCEPT !.pc = "showing", !.applied =
                   stream[s].applied]
  <2>1. After(s, k, local[s], session, where, lastMap, {"unsaved"})
    BY <1>4, <1>g, <1>t
    DEF After, Before, Stream, Fine, Fault, Playing, Outside, Show
  <2>2. k \in Stream
    BY <1>4, <1>t, PlayingIsStream
    DEF Before, Stream, Steps, Answers, Session
  <2>3. MineAs(k, local[s], session, where, lastMap, trouble \cup {"unsaved"})
    BY <1>4, <1>g, <1>t
    DEF Before, MineAs, SessionOf, PlaceOf, PresentAt, Fit, Quiet, Calm,
      Stream, Session, Enters, Serves, Settled, Moves, Playing, Outside
  <2>4. Allowed(s, k, local[s], session, where, lastMap, {"unsaved"})
    BY <1>g, <1>t, <2>2, <2>3
    DEF Allowed, Before, Stream, Session, Troubles, Busy, Enters, Serves,
      Settled, Moves, Playing, Outside
  <2> HIDE DEF k
  <2>5. QED
    BY <1>g, <2>1, <2>4, Stepped DEF Busy, Enters, Serves, Settled, Moves
<1>5. QED
  BY <1>1, <1>2, <1>3, <1>4
  DEF CommandAccepted

LEMMA CommandShow_Step ==
  ASSUME SessionInv, NEW s \in Streams, CommandShow(s)
  PROVE  StepOf(s)
<1>g. stream[s].pc = "showing"
  BY DEF CommandShow, At
<1>t. Before(s)
  BY SessionInv_Before
<1>c. Quiet(trouble) => Copy(s) = local[s] /\ local[s] # NoSession
  BY <1>g, <1>t DEF Before, MineAs, SessionOf, Copy, Serves, Settled, Moves
<1>1. ASSUME Quiet(trouble),
             local' = [local EXCEPT ![s] = Copy(s)],
             Answer(s, "accepted"),
             Fine,
             UNCHANGED <<session, where, lastMap>>
      PROVE  StepOf(s)
  <2> DEFINE k == [Playing EXCEPT !.pc = "answering", !.applied =
                   stream[s].applied, !.answer = "accepted"]
  <2>1. After(s, k, local[s], session, where, lastMap, {})
    BY <1>1, <1>g, <1>t, <1>c
    DEF After, Before, Stream, Fine, Fault, Playing, Outside, Answer, AnswerTo,
      Fails
  <2>2. k \in Stream
    BY <1>1, <1>t, <1>c, PlayingIsStream
    DEF Before, Stream, Steps, Answers, Session
  <2>3. MineAs(k, local[s], session, where, lastMap, trouble \cup {})
    BY <1>1, <1>g, <1>t, <1>c
    DEF Before, MineAs, SessionOf, PlaceOf, PresentAt, Fit, Quiet, Calm,
      Stream, Session, Enters, Serves, Settled, Moves, Playing, Outside
  <2>4. Allowed(s, k, local[s], session, where, lastMap, {})
    BY <1>g, <1>t, <2>2, <2>3
    DEF Allowed, Before, Stream, Session, Troubles, Busy, Enters, Serves,
      Settled, Moves, Playing, Outside
  <2> HIDE DEF k
  <2>5. QED
    BY <1>g, <2>1, <2>4, Stepped DEF Busy, Enters, Serves, Settled, Moves
<1>2. ASSUME Quiet(trouble), NEW err \in {"noRoute", "syncing"},
             local' = [local EXCEPT ![s] = Copy(s)],
             Fails(s, err),
             Fault({}),
             UNCHANGED <<session, where, lastMap>>
      PROVE  StepOf(s)
  <2> DEFINE k == [Playing EXCEPT !.pc = "answering", !.applied =
                   stream[s].applied, !.answer = "ROUTE_NOT_READY"]
  <2>1. After(s, k, local[s], session, where, lastMap, {})
    BY <1>2, <1>g, <1>t, <1>c, MapErrorValues
    DEF After, Before, Stream, Fine, Fault, Playing, Outside, Answer, AnswerTo,
      Fails
  <2>2. k \in Stream
    BY <1>2, <1>t, <1>c, MapErrorValues, PlayingIsStream
    DEF Before, Stream, Steps, Answers, Session
  <2>3. MineAs(k, local[s], session, where, lastMap, trouble \cup {})
    BY <1>2, <1>g, <1>t, <1>c, MapErrorValues
    DEF Before, MineAs, SessionOf, PlaceOf, PresentAt, Fit, Quiet, Calm,
      Stream, Session, Enters, Serves, Settled, Moves, Playing, Outside
  <2>4. Allowed(s, k, local[s], session, where, lastMap, {})
    BY <1>g, <1>t, <2>2, <2>3
    DEF Allowed, Before, Stream, Session, Troubles, Busy, Enters, Serves,
      Settled, Moves, Playing, Outside
  <2> HIDE DEF k
  <2>5. QED
    BY <1>g, <2>1, <2>4, Stepped DEF Busy, Enters, Serves, Settled, Moves
<1>3. ASSUME ~Quiet(trouble)
      PROVE  StepOf(s)
  <2>1. /\ stream[s].pc \in Busy /\ stream[s].applied = TRUE
        /\ Copy(s) \in Session \cup {NoSession}
        /\ UNCHANGED <<session, where, lastMap>>
    BY <1>g, <1>t DEF CommandShow, Before, MineAs, Fit, Copy, Busy, Serves, Settled
  <2>2. CASE \E err \in {"noRoute", "syncing", "offline"} : /\ Fails(s, err)
                                                            /\ Routes(s)
    BY <1>3, <2>1, <2>2, FailsUnquiet
  <2>3. CASE /\ Answer(s, "accepted") /\ Fine
             /\ local' = [local EXCEPT ![s] = Copy(s)]
    <3>1. trouble' = trouble \cup {} /\ ~Quiet(trouble \cup {})
      BY <1>3, <2>3 DEF Fine
    <3>2. AnswerTo(s, TRUE, "accepted")
      BY <2>1, <2>3 DEF Answer
    <3>3. QED
      BY <2>1, <2>3, <3>1, <3>2, AnswerUnquiet DEF Fine, Answers
  <2>4. QED
    BY <2>2, <2>3 DEF CommandShow, Routed, Routes, Fault, Fine
<1>4. QED
  BY <1>1, <1>2, <1>3, <1>c
  DEF CommandShow, Routed

LEMMA Answered_Step ==
  ASSUME SessionInv, NEW s \in Streams, Answered(s)
  PROVE  StepOf(s)
<1>g. stream[s].pc = "answering"
  BY DEF Answered, At
<1>t. Before(s)
  BY SessionInv_Before
<1>1. ASSUME stream' = [stream EXCEPT ![s] = Playing],
             Fine,
             UNCHANGED <<session, local, where, lastMap>>
      PROVE  StepOf(s)
  <2> DEFINE k == Playing
  <2>1. After(s, k, local[s], session, where, lastMap, {})
    BY <1>1, <1>g, <1>t
    DEF After, Before, Stream, Fine, Fault, Playing, Outside
  <2>2. k \in Stream
    BY <1>1, <1>t, PlayingIsStream
    DEF Before, Stream, Steps, Answers, Session
  <2>3. MineAs(k, local[s], session, where, lastMap, trouble \cup {})
    BY <1>1, <1>g, <1>t
    DEF Before, MineAs, SessionOf, PlaceOf, PresentAt, Fit, Quiet, Calm,
      Stream, Session, Enters, Serves, Settled, Moves, Playing, Outside
  <2>4. Allowed(s, k, local[s], session, where, lastMap, {})
    BY <1>g, <1>t, <2>2, <2>3
    DEF Allowed, Before, Stream, Session, Troubles, Busy, Enters, Serves,
      Settled, Moves, Playing, Outside
  <2> HIDE DEF k
  <2>5. QED
    BY <1>g, <2>1, <2>4, Stepped DEF Busy, Enters, Serves, Settled, Moves
<1>2. QED
  BY <1>1
  DEF Answered

LEMMA SwitchStart_Step ==
  ASSUME SessionInv, NEW s \in Streams, NEW target \in Maps, SwitchStart(s, target)
  PROVE  StepOf(s)
<1>g. stream[s].pc = "playing"
  BY DEF SwitchStart, At
<1>t. Before(s)
  BY SessionInv_Before
<1>c. Quiet(trouble) => Copy(s) = local[s] /\ local[s] # NoSession
  BY <1>g, <1>t DEF Before, MineAs, SessionOf, Copy, Serves, Settled, Moves
<1>1. ASSUME Quiet(trouble),
             local' = [local EXCEPT ![s] = Copy(s)],
             Copy(s).map \in where,
             stream' = [stream EXCEPT ![s] =
                 [Playing EXCEPT !.pc = "removing",
                                     !.from = Copy(s).map, !.to = target]],
             Fine,
             UNCHANGED <<session, where, lastMap>>
      PROVE  StepOf(s)
  <2> DEFINE k == [Playing EXCEPT !.pc = "removing", !.from = local[s].map,
                   !.to = target]
  <2>1. After(s, k, local[s], session, where, lastMap, {})
    BY <1>1, <1>g, <1>t, <1>c
    DEF After, Before, Stream, Fine, Fault, Playing, Outside
  <2>2. k \in Stream
    BY <1>1, <1>t, <1>c, PlayingIsStream
    DEF Before, Stream, Steps, Answers, Session
  <2>3. MineAs(k, local[s], session, where, lastMap, trouble \cup {})
    BY <1>1, <1>g, <1>t, <1>c
    DEF Before, MineAs, SessionOf, PlaceOf, PresentAt, Fit, Quiet, Calm,
      Stream, Session, Enters, Serves, Settled, Moves, Playing, Outside
  <2>4. Allowed(s, k, local[s], session, where, lastMap, {})
    BY <1>g, <1>t, <2>2, <2>3
    DEF Allowed, Before, Stream, Session, Troubles, Busy, Enters, Serves,
      Settled, Moves, Playing, Outside
  <2> HIDE DEF k
  <2>5. QED
    BY <1>g, <2>1, <2>4, Stepped DEF Busy, Enters, Serves, Settled, Moves
<1>2. ASSUME Quiet(trouble),
             local' = [local EXCEPT ![s] = Copy(s)],
             Fails(s, "rejected"),
             Fine,
             UNCHANGED <<session, where, lastMap>>
      PROVE  StepOf(s)
  <2> DEFINE k == [Playing EXCEPT !.pc = "answering", !.applied =
                   stream[s].applied, !.answer = "COMMAND_REJECTED"]
  <2>1. After(s, k, local[s], session, where, lastMap, {})
    BY <1>2, <1>g, <1>t, <1>c, MapErrorValues
    DEF After, Before, Stream, Fine, Fault, Playing, Outside, Answer, AnswerTo,
      Fails
  <2>2. k \in Stream
    BY <1>2, <1>t, <1>c, MapErrorValues, PlayingIsStream
    DEF Before, Stream, Steps, Answers, Session
  <2>3. MineAs(k, local[s], session, where, lastMap, trouble \cup {})
    BY <1>2, <1>g, <1>t, <1>c, MapErrorValues
    DEF Before, MineAs, SessionOf, PlaceOf, PresentAt, Fit, Quiet, Calm,
      Stream, Session, Enters, Serves, Settled, Moves, Playing, Outside
  <2>4. Allowed(s, k, local[s], session, where, lastMap, {})
    BY <1>g, <1>t, <2>2, <2>3
    DEF Allowed, Before, Stream, Session, Troubles, Busy, Enters, Serves,
      Settled, Moves, Playing, Outside
  <2> HIDE DEF k
  <2>5. QED
    BY <1>g, <2>1, <2>4, Stepped DEF Busy, Enters, Serves, Settled, Moves
<1>3. ASSUME Quiet(trouble),
             local' = [local EXCEPT ![s] = Copy(s)],
             Fails(s, "noRoute"),
             Fault({}),
             UNCHANGED <<session, where, lastMap>>
      PROVE  StepOf(s)
  <2> DEFINE k == [Playing EXCEPT !.pc = "answering", !.applied =
                   stream[s].applied, !.answer = "ROUTE_NOT_READY"]
  <2>1. After(s, k, local[s], session, where, lastMap, {})
    BY <1>3, <1>g, <1>t, <1>c, MapErrorValues
    DEF After, Before, Stream, Fine, Fault, Playing, Outside, Answer, AnswerTo,
      Fails
  <2>2. k \in Stream
    BY <1>3, <1>t, <1>c, MapErrorValues, PlayingIsStream
    DEF Before, Stream, Steps, Answers, Session
  <2>3. MineAs(k, local[s], session, where, lastMap, trouble \cup {})
    BY <1>3, <1>g, <1>t, <1>c, MapErrorValues
    DEF Before, MineAs, SessionOf, PlaceOf, PresentAt, Fit, Quiet, Calm,
      Stream, Session, Enters, Serves, Settled, Moves, Playing, Outside
  <2>4. Allowed(s, k, local[s], session, where, lastMap, {})
    BY <1>g, <1>t, <2>2, <2>3
    DEF Allowed, Before, Stream, Session, Troubles, Busy, Enters, Serves,
      Settled, Moves, Playing, Outside
  <2> HIDE DEF k
  <2>5. QED
    BY <1>g, <2>1, <2>4, Stepped DEF Busy, Enters, Serves, Settled, Moves
<1>4. ASSUME ~Quiet(trouble)
      PROVE  StepOf(s)
  <2>1. /\ stream[s].pc \in Busy /\ stream[s].applied = FALSE
        /\ Copy(s) \in Session \cup {NoSession}
        /\ UNCHANGED <<session, where, lastMap>>
    BY <1>g, <1>t DEF SwitchStart, Before, MineAs, Fit, Copy, Busy, Serves, Settled
  <2>2. CASE \E err \in {"noRoute", "rejected", "offline"} : /\ Fails(s, err)
                                                             /\ Routes(s)
    BY <1>4, <2>1, <2>2, FailsUnquiet
  <2>3. CASE /\ Copy(s) # NoSession /\ Fine /\ local' = [local EXCEPT ![s] = Copy(s)]
             /\ stream' = [stream EXCEPT
                  ![s] = [Playing EXCEPT !.pc = "removing", !.from = Copy(s).map,
                                         !.to = target]]
    <3> DEFINE k == [Playing EXCEPT !.pc = "removing", !.from = Copy(s).map,
                                    !.to = target]
    <3>1. Copy(s).map \in Maps
      BY <2>1, <2>3 DEF Session
    <3>2. k \in Stream
      BY <3>1, PlayingIsStream DEF Stream, Steps
    <3>3. Fit(k)
      BY DEF Fit, Moves, Playing, Outside
    <3> HIDE DEF k
    <3>4. After(s, k, Copy(s), session, where, lastMap, {})
      BY <2>1, <2>3 DEF After, Fine, k
    <3>5. {} \in SUBSET Troubles /\ trouble \cup {} = trouble
      OBVIOUS
    <3>6. QED
      BY <1>4, <1>t, <2>1, <3>2, <3>3, <3>4, <3>5, Unquiet DEF Before
  <2>4. QED
    BY <2>2, <2>3 DEF SwitchStart, Routed, Unrouted, Unread, Routes, Fault, Fine
<1>5. ASSUME Quiet(trouble), Unrouted(s)
      PROVE  FALSE
  BY <1>5, <1>c DEF Unrouted
<1>6. QED
  BY <1>1, <1>2, <1>3, <1>4, <1>5, <1>c
  DEF SwitchStart, Routed

LEMMA SwitchRemove_Step ==
  ASSUME SessionInv, NEW s \in Streams, SwitchRemove(s)
  PROVE  StepOf(s)
<1>g. stream[s].pc = "removing"
  BY DEF SwitchRemove, At
<1>t. Before(s)
  BY SessionInv_Before
<1>1. ASSUME Done(where \ {stream[s].from}),
             stream[s].from \in where,
             Goto(s, "arriving"),
             UNCHANGED <<session, local, lastMap>>
      PROVE  StepOf(s)
  <2> DEFINE k == [stream[s] EXCEPT !.pc = "arriving"]
  <2>1. After(s, k, local[s], session, where \ {stream[s].from}, lastMap, {})
    BY <1>1, <1>g, <1>t
    DEF After, Before, Stream, Fine, Fault, Done, Goto
  <2>2. k \in Stream
    BY <1>1, <1>t
    DEF Before, Stream, Steps, Answers, Session
  <2>3. MineAs(k, local[s], session, where \ {stream[s].from}, lastMap, trouble \cup {})
    BY <1>1, <1>g, <1>t
    DEF Before, MineAs, SessionOf, PlaceOf, PresentAt, Fit, Quiet, Calm,
      Stream, Session, Enters, Serves, Settled, Moves
  <2>4. Allowed(s, k, local[s], session, where \ {stream[s].from}, lastMap, {})
    BY <1>g, <1>t, <2>2, <2>3
    DEF Allowed, Before, Stream, Session, Troubles, Busy, Enters, Serves,
      Settled, Moves
  <2> HIDE DEF k
  <2>5. QED
    BY <1>g, <2>1, <2>4, Stepped DEF Busy, Enters, Serves, Settled, Moves
<1>2. ASSUME Done(where \ {stream[s].from}),
             stream[s].from \notin where,
             Fails(s, "rejected"),
             UNCHANGED <<session, local, lastMap>>
      PROVE  StepOf(s)
  <2> DEFINE k == [Playing EXCEPT !.pc = "answering", !.applied =
                   stream[s].applied, !.answer = "COMMAND_REJECTED"]
  <2>1. After(s, k, local[s], session, where \ {stream[s].from}, lastMap, {})
    BY <1>2, <1>g, <1>t, MapErrorValues
    DEF After, Before, Stream, Fine, Fault, Playing, Outside, Done, Answer,
      AnswerTo, Fails
  <2>2. k \in Stream
    BY <1>2, <1>t, MapErrorValues, PlayingIsStream
    DEF Before, Stream, Steps, Answers, Session
  <2>3. MineAs(k, local[s], session, where \ {stream[s].from}, lastMap, trouble \cup {})
    BY <1>2, <1>g, <1>t, MapErrorValues
    DEF Before, MineAs, SessionOf, PlaceOf, PresentAt, Fit, Quiet, Calm,
      Stream, Session, Enters, Serves, Settled, Moves, Playing, Outside
  <2>4. Allowed(s, k, local[s], session, where \ {stream[s].from}, lastMap, {})
    BY <1>g, <1>t, <2>2, <2>3
    DEF Allowed, Before, Stream, Session, Troubles, Busy, Enters, Serves,
      Settled, Moves, Playing, Outside
  <2> HIDE DEF k
  <2>5. QED
    BY <1>g, <2>1, <2>4, Stepped DEF Busy, Enters, Serves, Settled, Moves
<1>3. ASSUME NEW err \in Refusals,
             Refused({}),
             Fails(s, err),
             UNCHANGED <<session, local, lastMap>>
      PROVE  StepOf(s)
  <2> DEFINE k == [Playing EXCEPT !.pc = "answering", !.applied =
                   stream[s].applied, !.answer = MapError(err)]
  <2>1. After(s, k, local[s], session, where, lastMap, {})
    BY <1>3, <1>g, <1>t, MapErrorValues
    DEF After, Before, Stream, Fine, Fault, Playing, Outside, Refused, Answer,
      AnswerTo, Fails
  <2>2. k \in Stream
    BY <1>3, <1>t, MapErrorValues, PlayingIsStream
    DEF Before, Stream, Steps, Answers, Session
  <2>3. MineAs(k, local[s], session, where, lastMap, trouble \cup {})
    BY <1>3, <1>g, <1>t, MapErrorValues
    DEF Before, MineAs, SessionOf, PlaceOf, PresentAt, Fit, Quiet, Calm,
      Stream, Session, Enters, Serves, Settled, Moves, Playing, Outside
  <2>4. Allowed(s, k, local[s], session, where, lastMap, {})
    BY <1>g, <1>t, <2>2, <2>3
    DEF Allowed, Before, Stream, Session, Troubles, Busy, Enters, Serves,
      Settled, Moves, Playing, Outside
  <2> HIDE DEF k
  <2>5. QED
    BY <1>g, <2>1, <2>4, Stepped DEF Busy, Enters, Serves, Settled, Moves
<1>4. ASSUME AnswerLost(where \ {stream[s].from}, {"lostPlayer"}),
             Fails(s, "DeadlineExceeded"),
             UNCHANGED <<session, local, lastMap>>
      PROVE  StepOf(s)
  <2> DEFINE k == [Playing EXCEPT !.pc = "answering", !.applied =
                   stream[s].applied, !.answer = "ROUTE_NOT_READY"]
  <2>1. After(s, k, local[s], session, where \ {stream[s].from}, lastMap, {"lostPlayer"})
    BY <1>4, <1>g, <1>t, MapErrorValues
    DEF After, Before, Stream, Fine, Fault, Playing, Outside, AnswerLost,
      Answer, AnswerTo, Fails
  <2>2. k \in Stream
    BY <1>4, <1>t, MapErrorValues, PlayingIsStream
    DEF Before, Stream, Steps, Answers, Session
  <2>3. MineAs(k, local[s], session, where \ {stream[s].from}, lastMap, trouble \cup {"lostPlayer"})
    BY <1>4, <1>g, <1>t, MapErrorValues
    DEF Before, MineAs, SessionOf, PlaceOf, PresentAt, Fit, Quiet, Calm,
      Stream, Session, Enters, Serves, Settled, Moves, Playing, Outside
  <2>4. Allowed(s, k, local[s], session, where \ {stream[s].from}, lastMap, {"lostPlayer"})
    BY <1>g, <1>t, <2>2, <2>3
    DEF Allowed, Before, Stream, Session, Troubles, Busy, Enters, Serves,
      Settled, Moves, Playing, Outside
  <2> HIDE DEF k
  <2>5. QED
    BY <1>g, <2>1, <2>4, Stepped DEF Busy, Enters, Serves, Settled, Moves
<1>5. QED
  BY <1>1, <1>2, <1>3, <1>4
  DEF SwitchRemove

LEMMA SwitchArrive_Step ==
  ASSUME SessionInv, NEW s \in Streams, SwitchArrive(s)
  PROVE  StepOf(s)
<1>g. stream[s].pc = "arriving"
  BY DEF SwitchArrive, At
<1>t. Before(s)
  BY SessionInv_Before
<1>1. ASSUME Done(where \cup {stream[s].to}),
             stream' = [stream EXCEPT ![s].pc = "confirming", ![s].applied = TRUE,
                                        ![s].answer = "none"],
             UNCHANGED <<session, local, lastMap>>
      PROVE  StepOf(s)
  <2> DEFINE k == [stream[s] EXCEPT !.pc = "confirming", !.applied = TRUE,
                   !.answer = "none"]
  <2>1. After(s, k, local[s], session, where \cup {stream[s].to}, lastMap, {})
    BY <1>1, <1>g, <1>t
    DEF After, Before, Stream, Fine, Fault, Done
  <2>2. k \in Stream
    BY <1>1, <1>t
    DEF Before, Stream, Steps, Answers, Session
  <2>3. MineAs(k, local[s], session, where \cup {stream[s].to}, lastMap, trouble \cup {})
    BY <1>1, <1>g, <1>t
    DEF Before, MineAs, SessionOf, PlaceOf, PresentAt, Fit, Quiet, Calm,
      Stream, Session, Enters, Serves, Settled, Moves
  <2>4. Allowed(s, k, local[s], session, where \cup {stream[s].to}, lastMap, {})
    BY <1>g, <1>t, <2>2, <2>3
    DEF Allowed, Before, Stream, Session, Troubles, Busy, Enters, Serves,
      Settled, Moves
  <2> HIDE DEF k
  <2>5. QED
    BY <1>g, <2>1, <2>4, Stepped DEF Busy, Enters, Serves, Settled, Moves
<1>2. ASSUME NEW err \in Refusals,
             Refused({}),
             stream' = [stream EXCEPT ![s].pc = "rollback", ![s].applied = FALSE,
                                        ![s].answer = MapError(err)],
             UNCHANGED <<session, local, lastMap>>
      PROVE  StepOf(s)
  <2> DEFINE k == [stream[s] EXCEPT !.pc = "rollback", !.applied = FALSE,
                   !.answer = MapError(err)]
  <2>1. After(s, k, local[s], session, where, lastMap, {})
    BY <1>2, <1>g, <1>t, MapErrorValues
    DEF After, Before, Stream, Fine, Fault, Refused
  <2>2. k \in Stream
    BY <1>2, <1>t, MapErrorValues
    DEF Before, Stream, Steps, Answers, Session
  <2>3. MineAs(k, local[s], session, where, lastMap, trouble \cup {})
    BY <1>2, <1>g, <1>t, MapErrorValues
    DEF Before, MineAs, SessionOf, PlaceOf, PresentAt, Fit, Quiet, Calm,
      Stream, Session, Enters, Serves, Settled, Moves
  <2>4. Allowed(s, k, local[s], session, where, lastMap, {})
    BY <1>g, <1>t, <2>2, <2>3
    DEF Allowed, Before, Stream, Session, Troubles, Busy, Enters, Serves,
      Settled, Moves
  <2> HIDE DEF k
  <2>5. QED
    BY <1>g, <2>1, <2>4, Stepped DEF Busy, Enters, Serves, Settled, Moves
<1>3. ASSUME AnswerLost(where \cup {stream[s].to}, {"unannounced"}),
             stream' = [stream EXCEPT ![s].pc = "rollback", ![s].applied = TRUE,
                                        ![s].answer = MapError("DeadlineExceeded")],
             UNCHANGED <<session, local, lastMap>>
      PROVE  StepOf(s)
  <2> DEFINE k == [stream[s] EXCEPT !.pc = "rollback", !.applied = TRUE,
                   !.answer = "ROUTE_NOT_READY"]
  <2>1. After(s, k, local[s], session, where \cup {stream[s].to}, lastMap, {"unannounced"})
    BY <1>3, <1>g, <1>t, MapErrorValues
    DEF After, Before, Stream, Fine, Fault, AnswerLost
  <2>2. k \in Stream
    BY <1>3, <1>t, MapErrorValues
    DEF Before, Stream, Steps, Answers, Session
  <2>3. MineAs(k, local[s], session, where \cup {stream[s].to}, lastMap, trouble \cup {"unannounced"})
    BY <1>3, <1>g, <1>t, MapErrorValues
    DEF Before, MineAs, SessionOf, PlaceOf, PresentAt, Fit, Quiet, Calm,
      Stream, Session, Enters, Serves, Settled, Moves
  <2>4. Allowed(s, k, local[s], session, where \cup {stream[s].to}, lastMap, {"unannounced"})
    BY <1>g, <1>t, <2>2, <2>3
    DEF Allowed, Before, Stream, Session, Troubles, Busy, Enters, Serves,
      Settled, Moves
  <2> HIDE DEF k
  <2>5. QED
    BY <1>g, <2>1, <2>4, Stepped DEF Busy, Enters, Serves, Settled, Moves
<1>4. QED
  BY <1>1, <1>2, <1>3
  DEF SwitchArrive

LEMMA SwitchRollback_Step ==
  ASSUME SessionInv, NEW s \in Streams, SwitchRollback(s)
  PROVE  StepOf(s)
<1>g. stream[s].pc = "rollback"
  BY DEF SwitchRollback, At
<1>t. Before(s)
  BY SessionInv_Before
<1>1. ASSUME Done(where \cup {stream[s].from}),
             Answer(s, stream[s].answer),
             UNCHANGED <<session, local, lastMap>>
      PROVE  StepOf(s)
  <2> DEFINE k == [Playing EXCEPT !.pc = "answering", !.applied =
                   stream[s].applied, !.answer = stream[s].answer]
  <2>1. After(s, k, local[s], session, where \cup {stream[s].from}, lastMap, {})
    BY <1>1, <1>g, <1>t
    DEF After, Before, Stream, Fine, Fault, Playing, Outside, Done, Answer,
      AnswerTo, Fails
  <2>2. k \in Stream
    BY <1>1, <1>t, PlayingIsStream
    DEF Before, Stream, Steps, Answers, Session
  <2>3. MineAs(k, local[s], session, where \cup {stream[s].from}, lastMap, trouble \cup {})
    BY <1>1, <1>g, <1>t
    DEF Before, MineAs, SessionOf, PlaceOf, PresentAt, Fit, Quiet, Calm,
      Stream, Session, Enters, Serves, Settled, Moves, Playing, Outside
  <2>4. Allowed(s, k, local[s], session, where \cup {stream[s].from}, lastMap, {})
    BY <1>g, <1>t, <2>2, <2>3
    DEF Allowed, Before, Stream, Session, Troubles, Busy, Enters, Serves,
      Settled, Moves, Playing, Outside
  <2> HIDE DEF k
  <2>5. QED
    BY <1>g, <2>1, <2>4, Stepped DEF Busy, Enters, Serves, Settled, Moves
<1>2. ASSUME Refused({"lostPlayer"}),
             Answer(s, stream[s].answer),
             UNCHANGED <<session, local, lastMap>>
      PROVE  StepOf(s)
  <2> DEFINE k == [Playing EXCEPT !.pc = "answering", !.applied =
                   stream[s].applied, !.answer = stream[s].answer]
  <2>1. After(s, k, local[s], session, where, lastMap, {"lostPlayer"})
    BY <1>2, <1>g, <1>t
    DEF After, Before, Stream, Fine, Fault, Playing, Outside, Refused, Answer,
      AnswerTo, Fails
  <2>2. k \in Stream
    BY <1>2, <1>t, PlayingIsStream
    DEF Before, Stream, Steps, Answers, Session
  <2>3. MineAs(k, local[s], session, where, lastMap, trouble \cup {"lostPlayer"})
    BY <1>2, <1>g, <1>t
    DEF Before, MineAs, SessionOf, PlaceOf, PresentAt, Fit, Quiet, Calm,
      Stream, Session, Enters, Serves, Settled, Moves, Playing, Outside
  <2>4. Allowed(s, k, local[s], session, where, lastMap, {"lostPlayer"})
    BY <1>g, <1>t, <2>2, <2>3
    DEF Allowed, Before, Stream, Session, Troubles, Busy, Enters, Serves,
      Settled, Moves, Playing, Outside
  <2> HIDE DEF k
  <2>5. QED
    BY <1>g, <2>1, <2>4, Stepped DEF Busy, Enters, Serves, Settled, Moves
<1>3. ASSUME AnswerLost(where \cup {stream[s].from}, {}),
             Answer(s, stream[s].answer),
             UNCHANGED <<session, local, lastMap>>
      PROVE  StepOf(s)
  <2> DEFINE k == [Playing EXCEPT !.pc = "answering", !.applied =
                   stream[s].applied, !.answer = stream[s].answer]
  <2>1. After(s, k, local[s], session, where \cup {stream[s].from}, lastMap, {})
    BY <1>3, <1>g, <1>t
    DEF After, Before, Stream, Fine, Fault, Playing, Outside, AnswerLost,
      Answer, AnswerTo, Fails
  <2>2. k \in Stream
    BY <1>3, <1>t, PlayingIsStream
    DEF Before, Stream, Steps, Answers, Session
  <2>3. MineAs(k, local[s], session, where \cup {stream[s].from}, lastMap, trouble \cup {})
    BY <1>3, <1>g, <1>t
    DEF Before, MineAs, SessionOf, PlaceOf, PresentAt, Fit, Quiet, Calm,
      Stream, Session, Enters, Serves, Settled, Moves, Playing, Outside
  <2>4. Allowed(s, k, local[s], session, where \cup {stream[s].from}, lastMap, {})
    BY <1>g, <1>t, <2>2, <2>3
    DEF Allowed, Before, Stream, Session, Troubles, Busy, Enters, Serves,
      Settled, Moves, Playing, Outside
  <2> HIDE DEF k
  <2>5. QED
    BY <1>g, <2>1, <2>4, Stepped DEF Busy, Enters, Serves, Settled, Moves
<1>4. QED
  BY <1>1, <1>2, <1>3
  DEF SwitchRollback

LEMMA SwitchConfirm_Step ==
  ASSUME SessionInv, NEW s \in Streams, SwitchConfirm(s)
  PROVE  StepOf(s)
<1>g. stream[s].pc = "confirming"
  BY DEF SwitchConfirm, At
<1>t. Before(s)
  BY SessionInv_Before
<1>1. ASSUME stream[s].to \in where,
             Goto(s, "loading"),
             Fine,
             UNCHANGED <<session, local, where, lastMap>>
      PROVE  StepOf(s)
  <2> DEFINE k == [stream[s] EXCEPT !.pc = "loading"]
  <2>1. After(s, k, local[s], session, where, lastMap, {})
    BY <1>1, <1>g, <1>t
    DEF After, Before, Stream, Fine, Fault, Goto
  <2>2. k \in Stream
    BY <1>1, <1>t
    DEF Before, Stream, Steps, Answers, Session
  <2>3. MineAs(k, local[s], session, where, lastMap, trouble \cup {})
    BY <1>1, <1>g, <1>t
    DEF Before, MineAs, SessionOf, PlaceOf, PresentAt, Fit, Quiet, Calm,
      Stream, Session, Enters, Serves, Settled, Moves
  <2>4. Allowed(s, k, local[s], session, where, lastMap, {})
    BY <1>g, <1>t, <2>2, <2>3
    DEF Allowed, Before, Stream, Session, Troubles, Busy, Enters, Serves,
      Settled, Moves
  <2> HIDE DEF k
  <2>5. QED
    BY <1>g, <2>1, <2>4, Stepped DEF Busy, Enters, Serves, Settled, Moves
<1>2. ASSUME stream[s].to \notin where,
             Fails(s, "rejected"),
             Fine,
             UNCHANGED <<session, local, where, lastMap>>
      PROVE  StepOf(s)
  <2> DEFINE k == [Playing EXCEPT !.pc = "answering", !.applied =
                   stream[s].applied, !.answer = "COMMAND_REJECTED"]
  <2>1. After(s, k, local[s], session, where, lastMap, {})
    BY <1>2, <1>g, <1>t, MapErrorValues
    DEF After, Before, Stream, Fine, Fault, Playing, Outside, Answer, AnswerTo,
      Fails
  <2>2. k \in Stream
    BY <1>2, <1>t, MapErrorValues, PlayingIsStream
    DEF Before, Stream, Steps, Answers, Session
  <2>3. MineAs(k, local[s], session, where, lastMap, trouble \cup {})
    BY <1>2, <1>g, <1>t, MapErrorValues
    DEF Before, MineAs, SessionOf, PlaceOf, PresentAt, Fit, Quiet, Calm,
      Stream, Session, Enters, Serves, Settled, Moves, Playing, Outside
  <2>4. Allowed(s, k, local[s], session, where, lastMap, {})
    BY <1>g, <1>t, <2>2, <2>3
    DEF Allowed, Before, Stream, Session, Troubles, Busy, Enters, Serves,
      Settled, Moves, Playing, Outside
  <2> HIDE DEF k
  <2>5. QED
    BY <1>g, <2>1, <2>4, Stepped DEF Busy, Enters, Serves, Settled, Moves
<1>3. ASSUME Fails(s, "Unavailable"),
             Fault({"unannounced"}),
             UNCHANGED <<session, local, where, lastMap>>
      PROVE  StepOf(s)
  <2> DEFINE k == [Playing EXCEPT !.pc = "answering", !.applied =
                   stream[s].applied, !.answer = "ROUTE_NOT_READY"]
  <2>1. After(s, k, local[s], session, where, lastMap, {"unannounced"})
    BY <1>3, <1>g, <1>t, MapErrorValues
    DEF After, Before, Stream, Fine, Fault, Playing, Outside, Answer, AnswerTo,
      Fails
  <2>2. k \in Stream
    BY <1>3, <1>t, MapErrorValues, PlayingIsStream
    DEF Before, Stream, Steps, Answers, Session
  <2>3. MineAs(k, local[s], session, where, lastMap, trouble \cup {"unannounced"})
    BY <1>3, <1>g, <1>t, MapErrorValues
    DEF Before, MineAs, SessionOf, PlaceOf, PresentAt, Fit, Quiet, Calm,
      Stream, Session, Enters, Serves, Settled, Moves, Playing, Outside
  <2>4. Allowed(s, k, local[s], session, where, lastMap, {"unannounced"})
    BY <1>g, <1>t, <2>2, <2>3
    DEF Allowed, Before, Stream, Session, Troubles, Busy, Enters, Serves,
      Settled, Moves, Playing, Outside
  <2> HIDE DEF k
  <2>5. QED
    BY <1>g, <2>1, <2>4, Stepped DEF Busy, Enters, Serves, Settled, Moves
<1>4. QED
  BY <1>1, <1>2, <1>3
  DEF SwitchConfirm

LEMMA SwitchLoad_Step ==
  ASSUME SessionInv, NEW s \in Streams, SwitchLoad(s)
  PROVE  StepOf(s)
<1>g. stream[s].pc = "loading"
  BY DEF SwitchLoad, At
<1>t. Before(s)
  BY SessionInv_Before
<1>1. ASSUME session = NoSession,
             Goto(s, "profiling"),
             Fine,
             UNCHANGED <<session, local, where, lastMap>>
      PROVE  StepOf(s)
  <2> DEFINE k == [stream[s] EXCEPT !.pc = "profiling"]
  <2>1. After(s, k, local[s], session, where, lastMap, {})
    BY <1>1, <1>g, <1>t
    DEF After, Before, Stream, Fine, Fault, Goto
  <2>2. k \in Stream
    BY <1>1, <1>t
    DEF Before, Stream, Steps, Answers, Session
  <2>3. MineAs(k, local[s], session, where, lastMap, trouble \cup {})
    BY <1>1, <1>g, <1>t
    DEF Before, MineAs, SessionOf, PlaceOf, PresentAt, Fit, Quiet, Calm,
      Stream, Session, Enters, Serves, Settled, Moves
  <2>4. Allowed(s, k, local[s], session, where, lastMap, {})
    BY <1>g, <1>t, <2>2, <2>3
    DEF Allowed, Before, Stream, Session, Troubles, Busy, Enters, Serves,
      Settled, Moves
  <2> HIDE DEF k
  <2>5. QED
    BY <1>g, <2>1, <2>4, Stepped DEF Busy, Enters, Serves, Settled, Moves
<1>2. ASSUME session # NoSession,
             stream' = [stream EXCEPT ![s].pc = "resaving",
                                        ![s].loaded = session.version],
             Fine,
             UNCHANGED <<session, local, where, lastMap>>
      PROVE  StepOf(s)
  <2> DEFINE k == [stream[s] EXCEPT !.pc = "resaving", !.loaded =
                   session.version]
  <2>v. session.version \in 0..MaxVersion
    BY <1>2, <1>t DEF Before, Session
  <2>1. After(s, k, local[s], session, where, lastMap, {})
    BY <1>2, <1>g, <1>t, <2>v
    DEF After, Before, Stream, Fine, Fault
  <2>2. k \in Stream
    BY <1>2, <1>t, <2>v
    DEF Before, Stream, Steps, Answers, Session
  <2>3. MineAs(k, local[s], session, where, lastMap, trouble \cup {})
    BY <1>2, <1>g, <1>t, <2>v
    DEF Before, MineAs, SessionOf, PlaceOf, PresentAt, Fit, Quiet, Calm,
      Stream, Session, Enters, Serves, Settled, Moves
  <2>4. Allowed(s, k, local[s], session, where, lastMap, {})
    BY <1>g, <1>t, <2>2, <2>3
    DEF Allowed, Before, Stream, Session, Troubles, Busy, Enters, Serves,
      Settled, Moves
  <2> HIDE DEF k
  <2>5. QED
    BY <1>g, <2>1, <2>4, Stepped DEF Busy, Enters, Serves, Settled, Moves
<1>3. ASSUME Unread, Goto(s, "profiling"), UNCHANGED <<session, local, where, lastMap>>
      PROVE  StepOf(s)
  <2> DEFINE k == [stream[s] EXCEPT !.pc = "profiling"]
  <2>1. k \in Stream /\ Fit(k)
    BY <1>g, <1>t DEF Before, Stream, Steps, MineAs, Fit, Moves
  <2>2. After(s, k, local[s], session, where, lastMap, {"unread"})
    BY <1>3, <1>g, <1>t DEF After, Before, Stream, Unread, Fault, Goto
  <2>3. ~Quiet(trouble \cup {"unread"}) /\ {"unread"} \in SUBSET Troubles
    BY DEF Quiet, Troubles
  <2> HIDE DEF k
  <2>4. QED
    BY <1>t, <2>1, <2>2, <2>3, Unquiet DEF Before
<1>4. QED
  BY <1>1, <1>2, <1>3
  DEF SwitchLoad

LEMMA SwitchSave_Step ==
  ASSUME SessionInv, NEW s \in Streams, SwitchSave(s)
  PROVE  StepOf(s)
<1>g. stream[s].pc = "resaving"
  BY DEF SwitchSave, At
<1>t. Before(s)
  BY SessionInv_Before
<1>1. ASSUME session' = [map |-> stream[s].to, version |-> stream[s].loaded + 1],
             Fine,
             stream[s].loaded < MaxVersion,
             local' = [local EXCEPT ![s] = [map |-> stream[s].to, version |-> stream[s].loaded + 1]],
             Goto(s, "profiling"),
             UNCHANGED <<where, lastMap>>
      PROVE  StepOf(s)
  <2> DEFINE k == [stream[s] EXCEPT !.pc = "profiling"]
             l == [map |-> stream[s].to, version |-> stream[s].loaded + 1]
  <2>1. After(s, k, l, l, where, lastMap, {})
    BY <1>1, <1>g, <1>t
    DEF After, Before, Stream, Fine, Fault, Goto
  <2>2. k \in Stream /\ l \in Session /\ l # NoSession
    BY <1>1, <1>t, SessionIsEntry
    DEF Before, Stream, Steps, Answers, Session
  <2>3. MineAs(k, l, l, where, lastMap, trouble \cup {})
    BY <1>1, <1>g, <1>t, <2>2
    DEF Before, MineAs, SessionOf, PlaceOf, PresentAt, Fit, Quiet, Calm,
      Stream, Session, Enters, Serves, Settled, Moves
  <2>4. Allowed(s, k, l, l, where, lastMap, {})
    BY <1>g, <1>t, <2>2, <2>3
    DEF Allowed, Before, Stream, Session, Troubles, Busy, Enters, Serves,
      Settled, Moves
  <2> HIDE DEF k, l
  <2>5. QED
    BY <1>g, <2>1, <2>4, Stepped DEF Busy, Enters, Serves, Settled, Moves
<1>2. ASSUME UNCHANGED session,
             Fault({"unsaved"}),
             stream[s].loaded < MaxVersion,
             local' = [local EXCEPT ![s] = [map |-> stream[s].to, version |-> stream[s].loaded + 1]],
             Goto(s, "profiling"),
             UNCHANGED <<where, lastMap>>
      PROVE  StepOf(s)
  <2> DEFINE k == [stream[s] EXCEPT !.pc = "profiling"]
             l == [map |-> stream[s].to, version |-> stream[s].loaded + 1]
  <2>1. After(s, k, l, session, where, lastMap, {"unsaved"})
    BY <1>2, <1>g, <1>t
    DEF After, Before, Stream, Fine, Fault, Goto
  <2>2. k \in Stream /\ l \in Session /\ l # NoSession
    BY <1>2, <1>t, SessionIsEntry
    DEF Before, Stream, Steps, Answers, Session
  <2>3. MineAs(k, l, session, where, lastMap, trouble \cup {"unsaved"})
    BY <1>2, <1>g, <1>t, <2>2
    DEF Before, MineAs, SessionOf, PlaceOf, PresentAt, Fit, Quiet, Calm,
      Stream, Session, Enters, Serves, Settled, Moves
  <2>4. Allowed(s, k, l, session, where, lastMap, {"unsaved"})
    BY <1>g, <1>t, <2>2, <2>3
    DEF Allowed, Before, Stream, Session, Troubles, Busy, Enters, Serves,
      Settled, Moves
  <2> HIDE DEF k, l
  <2>5. QED
    BY <1>g, <2>1, <2>4, Stepped DEF Busy, Enters, Serves, Settled, Moves
<1>3. QED
  BY <1>1, <1>2
  DEF SwitchSave, TargetMap, NextVersion

LEMMA SwitchProfile_Step ==
  ASSUME SessionInv, NEW s \in Streams, SwitchProfile(s)
  PROVE  StepOf(s)
<1>g. stream[s].pc = "profiling"
  BY DEF SwitchProfile, At
<1>t. Before(s)
  BY SessionInv_Before
<1>1. ASSUME lastMap' = stream[s].to,
             Fine,
             Show(s),
             UNCHANGED <<session, local, where>>
      PROVE  StepOf(s)
  <2> DEFINE k == [Playing EXCEPT !.pc = "showing", !.applied =
                   stream[s].applied]
  <2>1. After(s, k, local[s], session, where, stream[s].to, {})
    BY <1>1, <1>g, <1>t
    DEF After, Before, Stream, Fine, Fault, Playing, Outside, Show
  <2>2. k \in Stream
    BY <1>1, <1>t, PlayingIsStream
    DEF Before, Stream, Steps, Answers, Session
  <2>3. MineAs(k, local[s], session, where, stream[s].to, trouble \cup {})
    BY <1>1, <1>g, <1>t
    DEF Before, MineAs, SessionOf, PlaceOf, PresentAt, Fit, Quiet, Calm,
      Stream, Session, Enters, Serves, Settled, Moves, Playing, Outside
  <2>4. Allowed(s, k, local[s], session, where, stream[s].to, {})
    BY <1>g, <1>t, <2>2, <2>3
    DEF Allowed, Before, Stream, Session, Troubles, Busy, Enters, Serves,
      Settled, Moves, Playing, Outside
  <2> HIDE DEF k
  <2>5. QED
    BY <1>g, <2>1, <2>4, Stepped DEF Busy, Enters, Serves, Settled, Moves
<1>2. ASSUME UNCHANGED lastMap,
             Fault({"unsaved"}),
             Show(s),
             UNCHANGED <<session, local, where>>
      PROVE  StepOf(s)
  <2> DEFINE k == [Playing EXCEPT !.pc = "showing", !.applied =
                   stream[s].applied]
  <2>1. After(s, k, local[s], session, where, lastMap, {"unsaved"})
    BY <1>2, <1>g, <1>t
    DEF After, Before, Stream, Fine, Fault, Playing, Outside, Show
  <2>2. k \in Stream
    BY <1>2, <1>t, PlayingIsStream
    DEF Before, Stream, Steps, Answers, Session
  <2>3. MineAs(k, local[s], session, where, lastMap, trouble \cup {"unsaved"})
    BY <1>2, <1>g, <1>t
    DEF Before, MineAs, SessionOf, PlaceOf, PresentAt, Fit, Quiet, Calm,
      Stream, Session, Enters, Serves, Settled, Moves, Playing, Outside
  <2>4. Allowed(s, k, local[s], session, where, lastMap, {"unsaved"})
    BY <1>g, <1>t, <2>2, <2>3
    DEF Allowed, Before, Stream, Session, Troubles, Busy, Enters, Serves,
      Settled, Moves, Playing, Outside
  <2> HIDE DEF k
  <2>5. QED
    BY <1>g, <2>1, <2>4, Stepped DEF Busy, Enters, Serves, Settled, Moves
<1>3. QED
  BY <1>1, <1>2
  DEF SwitchProfile

\* The stream ends without a Logout.
LEMMA Close_Step ==
  ASSUME SessionInv, NEW s \in Streams, stream[s].pc = "playing", CloseStream(s),
         UNCHANGED <<session, local, where, lastMap>>,
         NEW doubts \in SUBSET Troubles,
         faults' \in {faults, faults + 1}, trouble' = trouble \cup doubts
  PROVE  StepOf(s)
<1>t. Before(s)
  BY SessionInv_Before
<1> DEFINE k == [Outside EXCEPT !.pc = "closing"]
<1>1. After(s, k, local[s], session, where, lastMap, doubts)
  BY <1>t DEF After, Before, Stream, CloseStream
<1>2. k \in Stream /\ k.pc = "closing"
  BY PlayingIsStream DEF Stream, Steps
<1> HIDE DEF k
<1>3. MineAs(k, local[s], session, where, lastMap, trouble \cup doubts)
  BY <1>2 DEF MineAs, SessionOf, PlaceOf, PresentAt, Fit, Enters, Serves, Settled,
    Moves
<1>4. Calm(trouble \cup doubts) => where \subseteq {lastMap}
  BY <1>t DEF Before, MineAs, PlaceOf, Calm, Settled
<1>5. Allowed(s, k, local[s], session, where, lastMap, doubts)
  BY <1>t, <1>2, <1>3, <1>4 DEF Allowed, Before
<1>6. QED
  BY <1>1, <1>5, Stepped DEF Busy, Serves, Settled

LEMMA LogoutAgain_Step ==
  ASSUME SessionInv, NEW s \in Streams, LogoutAgain(s)
  PROVE  StepOf(s)
<1>1. /\ stream[s].pc = "playing" /\ CloseStream(s)
      /\ UNCHANGED <<session, local, where, lastMap>>
      /\ faults' \in {faults, faults + 1} /\ trouble' = trouble \cup {}
  BY DEF LogoutAgain, At, Fine
<1>2. {} \in SUBSET Troubles
  OBVIOUS
<1>3. QED
  BY <1>1, <1>2, Close_Step

LEMMA LogoutLoad_Step ==
  ASSUME SessionInv, NEW s \in Streams, LogoutLoad(s)
  PROVE  StepOf(s)
<1>g. stream[s].pc = "playing"
  BY DEF LogoutLoad, At
<1>t. Before(s)
  BY SessionInv_Before
<1>1. ASSUME CloseStream(s), Fine \/ Unread,
             UNCHANGED <<session, local, where, lastMap>>
      PROVE  StepOf(s)
  <2>1. PICK doubts \in {{}, {"unread"}} :
          faults' \in {faults, faults + 1} /\ trouble' = trouble \cup doubts
    BY <1>1 DEF Fine, Unread, Fault
  <2>2. doubts \in SUBSET Troubles
    BY <2>1 DEF Troubles
  <2>3. QED
    BY <1>1, <1>g, <2>1, <2>2, Close_Step
<1>2. ASSUME session # NoSession,
             stream' = [stream EXCEPT ![s].pc = "leaving", ![s].from = session.map],
             Fine,
             UNCHANGED <<session, local, where, lastMap>>
      PROVE  StepOf(s)
  <2> DEFINE k == [stream[s] EXCEPT !.pc = "leaving", !.from = session.map]
  <2>1. After(s, k, local[s], session, where, lastMap, {})
    BY <1>2, <1>g, <1>t
    DEF After, Before, Stream, Fine, Fault
  <2>2. k \in Stream
    BY <1>2, <1>t
    DEF Before, Stream, Steps, Answers, Session
  <2>3. MineAs(k, local[s], session, where, lastMap, trouble \cup {})
    BY <1>2, <1>g, <1>t
    DEF Before, MineAs, SessionOf, PlaceOf, PresentAt, Fit, Quiet, Calm,
      Stream, Session, Enters, Serves, Settled, Moves
  <2>4. Allowed(s, k, local[s], session, where, lastMap, {})
    BY <1>g, <1>t, <2>2, <2>3
    DEF Allowed, Before, Stream, Session, Troubles, Busy, Enters, Serves,
      Settled, Moves
  <2> HIDE DEF k
  <2>5. QED
    BY <1>g, <2>1, <2>4, Stepped DEF Busy, Enters, Serves, Settled, Moves
<1>3. QED
  BY <1>1, <1>2
  DEF LogoutLoad

LEMMA LogoutRemove_Step ==
  ASSUME SessionInv, NEW s \in Streams, LogoutRemove(s)
  PROVE  StepOf(s)
<1>g. stream[s].pc = "leaving"
  BY DEF LogoutRemove, At
<1>t. Before(s)
  BY SessionInv_Before
<1>1. ASSUME Done(where \ {stream[s].from}),
             Goto(s, "logout"),
             UNCHANGED <<session, local, lastMap>>
      PROVE  StepOf(s)
  <2> DEFINE k == [stream[s] EXCEPT !.pc = "logout"]
  <2>1. After(s, k, local[s], session, where \ {stream[s].from}, lastMap, {})
    BY <1>1, <1>g, <1>t
    DEF After, Before, Stream, Fine, Fault, Done, Goto
  <2>2. k \in Stream
    BY <1>1, <1>t
    DEF Before, Stream, Steps, Answers, Session
  <2>3. MineAs(k, local[s], session, where \ {stream[s].from}, lastMap, trouble \cup {})
    BY <1>1, <1>g, <1>t
    DEF Before, MineAs, SessionOf, PlaceOf, PresentAt, Fit, Quiet, Calm,
      Stream, Session, Enters, Serves, Settled, Moves
  <2>4. Allowed(s, k, local[s], session, where \ {stream[s].from}, lastMap, {})
    BY <1>g, <1>t, <2>2, <2>3
    DEF Allowed, Before, Stream, Session, Troubles, Busy, Enters, Serves,
      Settled, Moves
  <2> HIDE DEF k
  <2>5. QED
    BY <1>g, <2>1, <2>4, Stepped DEF Busy, Enters, Serves, Settled, Moves
<1>2. ASSUME Done(where \ {stream[s].from}),
             Goto(s, "deleting"),
             UNCHANGED <<session, local, lastMap>>
      PROVE  StepOf(s)
  <2> DEFINE k == [stream[s] EXCEPT !.pc = "deleting"]
  <2>1. After(s, k, local[s], session, where \ {stream[s].from}, lastMap, {})
    BY <1>2, <1>g, <1>t
    DEF After, Before, Stream, Fine, Fault, Done, Goto
  <2>2. k \in Stream
    BY <1>2, <1>t
    DEF Before, Stream, Steps, Answers, Session
  <2>3. MineAs(k, local[s], session, where \ {stream[s].from}, lastMap, trouble \cup {})
    BY <1>2, <1>g, <1>t
    DEF Before, MineAs, SessionOf, PlaceOf, PresentAt, Fit, Quiet, Calm,
      Stream, Session, Enters, Serves, Settled, Moves
  <2>4. Allowed(s, k, local[s], session, where \ {stream[s].from}, lastMap, {})
    BY <1>g, <1>t, <2>2, <2>3
    DEF Allowed, Before, Stream, Session, Troubles, Busy, Enters, Serves,
      Settled, Moves
  <2> HIDE DEF k
  <2>5. QED
    BY <1>g, <2>1, <2>4, Stepped DEF Busy, Enters, Serves, Settled, Moves
<1>3. ASSUME Refused({}),
             Goto(s, "deleting"),
             UNCHANGED <<session, local, lastMap>>
      PROVE  StepOf(s)
  <2> DEFINE k == [stream[s] EXCEPT !.pc = "deleting"]
  <2>1. After(s, k, local[s], session, where, lastMap, {})
    BY <1>3, <1>g, <1>t
    DEF After, Before, Stream, Fine, Fault, Refused, Goto
  <2>2. k \in Stream
    BY <1>3, <1>t
    DEF Before, Stream, Steps, Answers, Session
  <2>3. MineAs(k, local[s], session, where, lastMap, trouble \cup {})
    BY <1>3, <1>g, <1>t
    DEF Before, MineAs, SessionOf, PlaceOf, PresentAt, Fit, Quiet, Calm,
      Stream, Session, Enters, Serves, Settled, Moves
  <2>4. Allowed(s, k, local[s], session, where, lastMap, {})
    BY <1>g, <1>t, <2>2, <2>3
    DEF Allowed, Before, Stream, Session, Troubles, Busy, Enters, Serves,
      Settled, Moves
  <2> HIDE DEF k
  <2>5. QED
    BY <1>g, <2>1, <2>4, Stepped DEF Busy, Enters, Serves, Settled, Moves
<1>4. ASSUME AnswerLost(where \ {stream[s].from}, {}),
             Goto(s, "deleting"),
             UNCHANGED <<session, local, lastMap>>
      PROVE  StepOf(s)
  <2> DEFINE k == [stream[s] EXCEPT !.pc = "deleting"]
  <2>1. After(s, k, local[s], session, where \ {stream[s].from}, lastMap, {})
    BY <1>4, <1>g, <1>t
    DEF After, Before, Stream, Fine, Fault, AnswerLost, Goto
  <2>2. k \in Stream
    BY <1>4, <1>t
    DEF Before, Stream, Steps, Answers, Session
  <2>3. MineAs(k, local[s], session, where \ {stream[s].from}, lastMap, trouble \cup {})
    BY <1>4, <1>g, <1>t
    DEF Before, MineAs, SessionOf, PlaceOf, PresentAt, Fit, Quiet, Calm,
      Stream, Session, Enters, Serves, Settled, Moves
  <2>4. Allowed(s, k, local[s], session, where \ {stream[s].from}, lastMap, {})
    BY <1>g, <1>t, <2>2, <2>3
    DEF Allowed, Before, Stream, Session, Troubles, Busy, Enters, Serves,
      Settled, Moves
  <2> HIDE DEF k
  <2>5. QED
    BY <1>g, <2>1, <2>4, Stepped DEF Busy, Enters, Serves, Settled, Moves
<1>5. QED
  BY <1>1, <1>2, <1>3, <1>4
  DEF LogoutRemove

LEMMA LogoutProfile_Step ==
  ASSUME SessionInv, NEW s \in Streams, LogoutProfile(s)
  PROVE  StepOf(s)
<1>g. stream[s].pc = "logout"
  BY DEF LogoutProfile, At
<1>t. Before(s)
  BY SessionInv_Before
<1>1. ASSUME lastMap' = stream[s].from,
             Fine,
             Goto(s, "deleting"),
             UNCHANGED <<session, local, where>>
      PROVE  StepOf(s)
  <2> DEFINE k == [stream[s] EXCEPT !.pc = "deleting"]
  <2>1. After(s, k, local[s], session, where, stream[s].from, {})
    BY <1>1, <1>g, <1>t
    DEF After, Before, Stream, Fine, Fault, Goto
  <2>2. k \in Stream
    BY <1>1, <1>t
    DEF Before, Stream, Steps, Answers, Session
  <2>3. MineAs(k, local[s], session, where, stream[s].from, trouble \cup {})
    BY <1>1, <1>g, <1>t
    DEF Before, MineAs, SessionOf, PlaceOf, PresentAt, Fit, Quiet, Calm,
      Stream, Session, Enters, Serves, Settled, Moves
  <2>4. Allowed(s, k, local[s], session, where, stream[s].from, {})
    BY <1>g, <1>t, <2>2, <2>3
    DEF Allowed, Before, Stream, Session, Troubles, Busy, Enters, Serves,
      Settled, Moves
  <2> HIDE DEF k
  <2>5. QED
    BY <1>g, <2>1, <2>4, Stepped DEF Busy, Enters, Serves, Settled, Moves
<1>2. ASSUME UNCHANGED lastMap,
             Fault({}),
             Goto(s, "deleting"),
             UNCHANGED <<session, local, where>>
      PROVE  StepOf(s)
  <2> DEFINE k == [stream[s] EXCEPT !.pc = "deleting"]
  <2>1. After(s, k, local[s], session, where, lastMap, {})
    BY <1>2, <1>g, <1>t
    DEF After, Before, Stream, Fine, Fault, Goto
  <2>2. k \in Stream
    BY <1>2, <1>t
    DEF Before, Stream, Steps, Answers, Session
  <2>3. MineAs(k, local[s], session, where, lastMap, trouble \cup {})
    BY <1>2, <1>g, <1>t
    DEF Before, MineAs, SessionOf, PlaceOf, PresentAt, Fit, Quiet, Calm,
      Stream, Session, Enters, Serves, Settled, Moves
  <2>4. Allowed(s, k, local[s], session, where, lastMap, {})
    BY <1>g, <1>t, <2>2, <2>3
    DEF Allowed, Before, Stream, Session, Troubles, Busy, Enters, Serves,
      Settled, Moves
  <2> HIDE DEF k
  <2>5. QED
    BY <1>g, <2>1, <2>4, Stepped DEF Busy, Enters, Serves, Settled, Moves
<1>3. QED
  BY <1>1, <1>2
  DEF LogoutProfile

LEMMA LogoutDelete_Step ==
  ASSUME SessionInv, NEW s \in Streams, LogoutDelete(s)
  PROVE  StepOf(s)
<1>g. stream[s].pc = "deleting"
  BY DEF LogoutDelete, At
<1>t. Before(s)
  BY SessionInv_Before
<1>1. ASSUME session' = NoSession,
             Fine,
             local' = [local EXCEPT ![s] = NoSession],
             CloseStream(s),
             UNCHANGED <<where, lastMap>>
      PROVE  StepOf(s)
  <2> DEFINE k == [Outside EXCEPT !.pc = "closing"]
  <2>1. After(s, k, NoSession, NoSession, where, lastMap, {})
    BY <1>1, <1>g, <1>t
    DEF After, Before, Stream, Fine, Fault, Playing, Outside, CloseStream
  <2>2. k \in Stream
    BY <1>1, <1>t, PlayingIsStream
    DEF Before, Stream, Steps, Answers, Session
  <2>3. MineAs(k, NoSession, NoSession, where, lastMap, trouble \cup {})
    BY <1>1, <1>g, <1>t
    DEF Before, MineAs, SessionOf, PlaceOf, PresentAt, Fit, Quiet, Calm,
      Stream, Session, Enters, Serves, Settled, Moves, Playing, Outside
  <2>4. Allowed(s, k, NoSession, NoSession, where, lastMap, {})
    BY <1>g, <1>t, <2>2, <2>3
    DEF Allowed, Before, Stream, Session, Troubles, Busy, Enters, Serves,
      Settled, Moves, MineAs, PlaceOf, Calm, Playing, Outside
  <2> HIDE DEF k
  <2>5. QED
    BY <1>g, <2>1, <2>4, Stepped DEF Busy, Enters, Serves, Settled, Moves
<1>2. ASSUME UNCHANGED session,
             Fault({"unsaved"}),
             local' = [local EXCEPT ![s] = NoSession],
             CloseStream(s),
             UNCHANGED <<where, lastMap>>
      PROVE  StepOf(s)
  <2> DEFINE k == [Outside EXCEPT !.pc = "closing"]
  <2>1. After(s, k, NoSession, session, where, lastMap, {"unsaved"})
    BY <1>2, <1>g, <1>t
    DEF After, Before, Stream, Fine, Fault, Playing, Outside, CloseStream
  <2>2. k \in Stream
    BY <1>2, <1>t, PlayingIsStream
    DEF Before, Stream, Steps, Answers, Session
  <2>3. MineAs(k, NoSession, session, where, lastMap, trouble \cup {"unsaved"})
    BY <1>2, <1>g, <1>t
    DEF Before, MineAs, SessionOf, PlaceOf, PresentAt, Fit, Quiet, Calm,
      Stream, Session, Enters, Serves, Settled, Moves, Playing, Outside
  <2>4. Allowed(s, k, NoSession, session, where, lastMap, {"unsaved"})
    BY <1>g, <1>t, <2>2, <2>3
    DEF Allowed, Before, Stream, Session, Troubles, Busy, Enters, Serves,
      Settled, Moves, MineAs, PlaceOf, Calm, Playing, Outside
  <2> HIDE DEF k
  <2>5. QED
    BY <1>g, <2>1, <2>4, Stepped DEF Busy, Enters, Serves, Settled, Moves
<1>3. ASSUME session' \in {session, NoSession},
             AnswerTo(s, TRUE, MapError("Unknown")),
             Fault({"unsaved"}),
             local' = [local EXCEPT ![s] = NoSession],
             UNCHANGED <<where, lastMap>>
      PROVE  StepOf(s)
  <2>1. ~Quiet(trouble \cup {"unsaved"}) /\ {"unsaved"} \in SUBSET Troubles
    BY DEF Quiet, Troubles
  <2>2. AnswerTo(s, TRUE, "COMMAND_REJECTED") /\ "COMMAND_REJECTED" \in Answers
    BY <1>3, MapErrorValues DEF Answers
  <2>3. faults' \in {faults, faults + 1} /\ trouble' = trouble \cup {"unsaved"}
    BY <1>3 DEF Fault
  <2>4. stream[s].pc \in Busy
    BY <1>g DEF Busy, Serves, Settled
  <2>5. QED
    BY <1>3, <2>1, <2>2, <2>3, <2>4, AnswerUnquiet
<1>4. QED
  BY <1>1, <1>2, <1>3
  DEF LogoutDelete

-----------------------------------------------------------------------------
(* The steps of a stream that is not busy, and of the coordinator.         *)

\* Whoever passes the check of Login is alone: a stream that serves has a
\* session, and one that is about to save its own makes an overlap.
LEMMA LoginPassed_Step ==
  ASSUME SessionInv, NEW s \in Streams, stream[s].pc = "checking",
         session = NoSession, Goto(s, "adding"),
         NEW doubts \in SUBSET {"overlap", "staleProfile"},
         trouble' = trouble \cup doubts,
         (\E r \in Streams \ {s} : stream[r].pc \in Enters) => "overlap" \in doubts,
         stream[s].to # lastMap => "staleProfile" \in doubts,
         UNCHANGED <<session, local, where, lastMap, faults>>
  PROVE  StepOf(s)
<1> DEFINE k == [stream[s] EXCEPT !.pc = "adding"]
<1>2. CoreTypeOK /\ Before(s)
  BY SessionInv_Before DEF SessionInv
<1>3. k \in Stream /\ k.pc = "adding" /\ k.to = stream[s].to
  BY <1>2 DEF Before, Stream, Steps
<1>4. /\ stream'[s] = k /\ local'[s] = local[s]
      /\ \A r \in Streams \ {s} : stream'[r] = stream[r] /\ local'[r] = local[r]
  BY <1>2 DEF CoreTypeOK, Goto
<1>5. CoreTypeOK'
  <2>1. stream' = [stream EXCEPT ![s] = k]
    BY <1>2 DEF CoreTypeOK, Goto
  <2> HIDE DEF k
  <2>2. QED
    BY <1>2, <1>3, <2>1 DEF CoreTypeOK, Troubles
<1> HIDE DEF k
<1>6. /\ trouble \subseteq trouble'
      /\ Quiet(trouble') => \A r \in Streams \ {s} : stream[r].pc \notin Enters
  BY DEF Quiet
<1>7. Calm(trouble') => where \subseteq {lastMap} /\ k.to = lastMap
  <2>1. SUFFICES ASSUME Calm(trouble')
                 PROVE  where \subseteq {lastMap} /\ k.to = lastMap
    OBVIOUS
  <2>2. Quiet(trouble') /\ Quiet(trouble) /\ Calm(trouble)
    BY <1>6, <2>1 DEF Quiet, Calm
  <2>3. \A r \in Streams : stream[r].pc \notin Serves
    BY <2>2 DEF SessionInv, Mine, MineAs, SessionOf
  <2>4. \A r \in Streams : stream[r].pc \notin Busy
    BY <1>6, <2>2, <2>3 DEF Busy, Enters
  <2>5. "staleProfile" \notin doubts
    BY <2>1 DEF Calm
  <2>6. QED
    BY <1>3, <2>2, <2>4, <2>5 DEF SessionInv, GhostInv
<1>8. MineAs(k, local[s], session, where, lastMap, trouble')
  BY <1>3, <1>7 DEF MineAs, SessionOf, PlaceOf, PresentAt, Fit, Enters,
    Serves, Settled, Moves
<1>9. Mine(s)'
  BY <1>4, <1>8 DEF Mine
<1>10. stream[s].pc \notin Busy
  BY DEF Busy, Enters, Serves, Settled, Moves
<1>11. QED
  BY <1>4, <1>5, <1>6, <1>9, <1>10 DEF StepOf

\* A stream that was not busy and is not yet.
LEMMA Idle_Step ==
  ASSUME SessionInv, NEW s \in Streams, NEW k \in Stream,
         stream[s].pc \in {"out", "checking", "failed", "closing"},
         k.pc \in {"out", "checking"},
         stream' = [stream EXCEPT ![s] = k],
         UNCHANGED <<session, local, where, lastMap, faults, trouble>>
  PROVE  StepOf(s)
<1>2. CoreTypeOK
  BY DEF SessionInv
<1>3. /\ stream'[s] = k
      /\ \A r \in Streams \ {s} : stream'[r] = stream[r] /\ local'[r] = local[r]
  BY <1>2 DEF CoreTypeOK
<1>4. CoreTypeOK'
  BY <1>2 DEF CoreTypeOK
<1>5. Mine(s)'
  BY <1>3 DEF Mine, MineAs, SessionOf, PlaceOf, PresentAt, Fit, Enters, Serves,
    Settled, Moves
<1>6. stream[s].pc \notin Busy /\ stream'[s].pc \notin Busy
  BY <1>3 DEF Busy, Enters, Serves, Settled, Moves
<1>7. QED
  BY <1>3, <1>4, <1>5, <1>6 DEF StepOf

LEMMA LoginCheck_Step ==
  ASSUME SessionInv, NEW s \in Streams, LoginCheck(s)
  PROVE  StepOf(s)
<1>g. stream[s].pc = "checking"
  BY DEF LoginCheck, At
<1>t. CoreTypeOK /\ Before(s)
  BY SessionInv_Before DEF SessionInv
<1>1. CASE session = NoSession
  <2> DEFINE d == (IF \E r \in Streams \ {s} : stream[r].pc \in {"adding", "saving"}
                   THEN {"overlap"} ELSE {})
                  \cup (IF stream[s].to # LoginMap THEN {"staleProfile"} ELSE {})
  <2>1. /\ Goto(s, "adding") /\ trouble' = trouble \cup d
        /\ UNCHANGED <<session, local, where, lastMap, faults>>
    BY <1>1 DEF LoginCheck, Unread
  <2>2. /\ d \in SUBSET {"overlap", "staleProfile"}
        /\ (\E r \in Streams \ {s} : stream[r].pc \in Enters) => "overlap" \in d
        /\ stream[s].to # lastMap => "staleProfile" \in d
    BY DEF Enters, LoginMap
  <2> HIDE DEF d
  <2>3. QED
    BY <1>1, <1>g, <2>1, <2>2, LoginPassed_Step
<1>2. ASSUME Unread, Goto(s, "adding"), UNCHANGED <<session, local, where, lastMap>>
      PROVE  StepOf(s)
  <2> DEFINE k == [stream[s] EXCEPT !.pc = "adding"]
  <2>1. k \in Stream /\ Fit(k)
    BY <1>g, <1>t DEF Before, Stream, Steps, Fit, Moves
  <2>2. After(s, k, local[s], session, where, lastMap, {"unread"})
    BY <1>2, <1>g, <1>t DEF After, Before, Stream, Unread, Fault, Goto
  <2>3. ~Quiet(trouble \cup {"unread"}) /\ {"unread"} \in SUBSET Troubles
    BY DEF Quiet, Troubles
  <2> HIDE DEF k
  <2>4. QED
    BY <1>t, <2>1, <2>2, <2>3, Unquiet DEF Before
<1>3. ASSUME stream' = [stream EXCEPT ![s] = Outside], Fine,
             UNCHANGED <<session, local, where, lastMap>>
      PROVE  StepOf(s)
  <2>1. Outside \in Stream /\ Outside.pc = "out"
    BY PlayingIsStream DEF Outside
  <2>2. QED
    BY <1>3, <1>g, <2>1, Idle_Step DEF Fine
<1>4. QED
  BY <1>1, <1>2, <1>3 DEF LoginCheck

LEMMA Authenticate_Step ==
  ASSUME SessionInv, NEW s \in Streams, Authenticate(s)
  PROVE  StepOf(s)
<1> DEFINE k == [Outside EXCEPT !.pc = "checking", !.to = lastMap]
<1>1. k \in Stream /\ k.pc = "checking"
  BY PlayingIsStream DEF Stream, Steps, SessionInv, CoreTypeOK
<1>2. /\ stream[s].pc = "out" /\ stream' = [stream EXCEPT ![s] = k]
      /\ UNCHANGED <<session, local, where, lastMap, faults, trouble>>
  BY DEF Authenticate, At, LoginMap, Fine
<1> HIDE DEF k
<1>3. QED
  BY <1>1, <1>2, Idle_Step

\* A stream is over, or the player tries again.
LEMMA Rest_Step ==
  ASSUME SessionInv, NEW s \in Streams, Retry(s) \/ StreamOver(s)
  PROVE  StepOf(s)
<1>1. /\ stream[s].pc \in {"failed", "closing"}
      /\ stream' = [stream EXCEPT ![s] = Outside]
      /\ UNCHANGED <<session, local, where, lastMap, faults, trouble>>
  BY DEF Retry, StreamOver, At, Fine
<1>2. Outside \in Stream /\ Outside.pc = "out"
  BY PlayingIsStream DEF Outside
<1>3. QED
  BY <1>1, <1>2, Idle_Step

\* In quiet times only a stream that is closing can be without a copy of the
\* session.
LEMMA Refill_Step ==
  ASSUME SessionInv, NEW s \in Streams, Refill(s)
  PROVE  StepOf(s)
<1>1. /\ stream[s].pc \notin {"out", "checking", "adding", "saving", "failed"}
      /\ local[s] = NoSession
      /\ local' = [local EXCEPT ![s] = session]
      /\ UNCHANGED <<session, where, lastMap, stream, faults, trouble>>
  BY DEF Refill, Fine
<1>2. CoreTypeOK /\ Mine(s) /\ Before(s)
  BY SessionInv_Before DEF SessionInv
<1>3. CASE stream[s].pc \in Busy
  <2>1. ~Quiet(trouble)
    BY <1>1, <1>2, <1>3 DEF Mine, MineAs, SessionOf, Busy, Enters
  <2>2. ~Quiet(trouble \cup {}) /\ Fit(stream[s])
    BY <1>2, <2>1 DEF Mine, MineAs
  <2>3. stream = [stream EXCEPT ![s] = stream[s]]
    BY <1>2 DEF CoreTypeOK
  <2>4. After(s, stream[s], session, session, where, lastMap, {})
    BY <1>1, <2>3 DEF After
  <2>5. QED
    BY <1>2, <2>2, <2>4, Unquiet DEF Before
<1>4. CASE stream[s].pc \notin Busy
  <2>1. \A r \in Streams \ {s} : stream'[r] = stream[r] /\ local'[r] = local[r]
    BY <1>1, <1>2 DEF CoreTypeOK
  <2>2. CoreTypeOK'
    BY <1>1, <1>2 DEF CoreTypeOK
  <2>3. stream'[s] = stream[s]
    BY <1>1
  <2>4. Mine(s)'
    BY <1>1, <1>2, <1>4, <2>3 DEF Mine, MineAs, SessionOf, PlaceOf, PresentAt, Busy,
      Enters, Serves, Settled, Moves
  <2>5. QED
    BY <1>1, <1>4, <2>1, <2>2, <2>3, <2>4 DEF StepOf
<1>5. QED
  BY <1>3, <1>4

\* A migration only counts the version of the session up.
LEMMA MigrateSession_Inv ==
  ASSUME SessionInv, MigrateSession
  PROVE  SessionInv'
<1>1. /\ session # NoSession /\ session.version < MaxVersion
      /\ session' = [session EXCEPT !.version = @ + 1]
      /\ UNCHANGED <<local, where, lastMap, stream, faults, trouble>>
  BY DEF MigrateSession, Fine
<1>2. CoreTypeOK
  BY DEF SessionInv
<1>3. session \in Session /\ MaxVersion \in Nat
  BY <1>1, <1>2, SessionBoundAssumption DEF CoreTypeOK
<1>4. /\ session' \in Session /\ session'.map = session.map
      /\ session'.version = session.version + 1
  BY <1>1, <1>3 DEF Session
<1>5. session' # NoSession
  BY <1>4, SessionIsEntry
<1>6. CoreTypeOK'
  BY <1>1, <1>2, <1>4 DEF CoreTypeOK
<1>7. ASSUME NEW s \in Streams
      PROVE  Mine(s)'
  <2>1. Mine(s) /\ local[s] \in Session \cup {NoSession}
    BY <1>2 DEF SessionInv, CoreTypeOK
  <2>2. Quiet(trouble) /\ stream[s].pc \in Serves => local[s] \in Session
    BY <2>1 DEF Mine, MineAs, SessionOf
  <2>3. Quiet(trouble) => SessionOf(stream[s], local[s], session', where)
    BY <1>1, <1>3, <1>4, <1>5, <2>1, <2>2 DEF Mine, MineAs, SessionOf, Session
  <2>4. Calm(trouble) => PlaceOf(stream[s], local[s], session', where, lastMap)
    BY <1>4, <2>1 DEF Mine, MineAs, PlaceOf
  <2>5. QED
    BY <1>1, <2>1, <2>3, <2>4 DEF Mine, MineAs
<1>8. AloneInv' /\ GhostInv'
  BY <1>1 DEF SessionInv, AloneInv, GhostInv
<1>9. QED
  BY <1>6, <1>7, <1>8 DEF SessionInv

-----------------------------------------------------------------------------
(* The theorems.                                                           *)

LEMMA SessionInit_Inv ==
  SessionInit => SessionInv
<1> SUFFICES ASSUME SessionInit
             PROVE  SessionInv
  OBVIOUS
<1>1. CoreTypeOK
  BY PlayingIsStream, SessionMapAssumption DEF SessionInit, CoreTypeOK
<1>2. \A s \in Streams : stream[s] = Outside
  BY DEF SessionInit
<1>3. \A s \in Streams : stream[s].pc = "out"
  BY <1>2 DEF Outside
<1>4. \A s \in Streams : Mine(s)
  BY <1>3 DEF Mine, MineAs, SessionOf, PlaceOf, PresentAt, Fit, Enters, Serves,
    Settled, Moves
<1>5. AloneInv
  BY <1>3 DEF AloneInv, Busy, Enters, Serves, Settled, Moves
<1>6. GhostInv
  BY DEF SessionInit, GhostInv
<1>7. QED
  BY <1>1, <1>4, <1>5, <1>6 DEF SessionInv

\* Every step is one of a stream, or a migration.
LEMMA SessionNext_Step ==
  SessionInv /\ [SessionNext]_sessionVars =>
      (\E s \in Streams : StepOf(s)) \/ MigrateSession \/ UNCHANGED sessionVars
<1> SUFFICES ASSUME SessionInv, [SessionNext]_sessionVars
             PROVE  \/ \E s \in Streams : StepOf(s)
                    \/ MigrateSession \/ UNCHANGED sessionVars
  OBVIOUS
<1>1. ASSUME NEW s \in Streams, LoginStep(s) \/ Retry(s) \/ Refill(s)
      PROVE  StepOf(s)
  BY <1>1, Authenticate_Step, LoginCheck_Step, LoginAdd_Step, LoginSave_Step, LoginEnter_Step,
     Rest_Step, Refill_Step DEF LoginStep
<1>2. ASSUME NEW s \in Streams, CommandStart(s) \/ CommandStep(s)
      PROVE  StepOf(s)
  BY <1>2, CommandStart_Step, CommandApplied_Step, CommandTurnedDown_Step,
     CommandRefused_Step, CommandTimesOut_Step, CommandUnanswered_Step,
     CommandAccepted_Step, CommandShow_Step, Answered_Step DEF CommandStep
<1>3. ASSUME NEW s \in Streams, \E target \in Maps : SwitchStart(s, target)
      PROVE  StepOf(s)
  BY <1>3, SwitchStart_Step
<1>4. ASSUME NEW s \in Streams, SwitchStep(s)
      PROVE  StepOf(s)
  BY <1>4, SwitchRemove_Step, SwitchArrive_Step, SwitchRollback_Step,
     SwitchConfirm_Step, SwitchLoad_Step, SwitchSave_Step, SwitchProfile_Step
  DEF SwitchStep
<1>5. ASSUME NEW s \in Streams, LogoutStep(s)
      PROVE  StepOf(s)
  BY <1>5, LogoutLoad_Step, LogoutAgain_Step, LogoutRemove_Step, LogoutProfile_Step,
     LogoutDelete_Step, Rest_Step DEF LogoutStep
<1>6. QED
  BY <1>1, <1>2, <1>3, <1>4, <1>5 DEF SessionNext

LEMMA SessionNext_Inv ==
  SessionInv /\ [SessionNext]_sessionVars => SessionInv'
<1> SUFFICES ASSUME SessionInv, [SessionNext]_sessionVars
             PROVE  SessionInv'
  OBVIOUS
<1>1. ASSUME NEW s \in Streams, StepOf(s)
      PROVE  SessionInv'
  BY <1>1, StepOf_Inv
<1>2. CASE UNCHANGED sessionVars
  <2>1. UNCHANGED <<session, local, where, lastMap, stream, faults, trouble>>
    BY <1>2 DEF sessionVars
  <2>2. QED
    BY <2>1 DEF SessionInv, CoreTypeOK, Mine, AloneInv, GhostInv
<1>3. QED
  BY <1>1, <1>2, MigrateSession_Inv, SessionNext_Step

LEMMA SessionInvariant ==
  SessionSpec => []SessionInv
  BY SessionInit_Inv, SessionNext_Inv, PTL DEF SessionSpec

\* Whoever is troubled stays so.
LEMMA TroubleGrows ==
  SessionInv /\ [SessionNext]_sessionVars => trouble \subseteq trouble'
<1> SUFFICES ASSUME SessionInv, [SessionNext]_sessionVars
             PROVE  trouble \subseteq trouble'
  OBVIOUS
<1>1. CASE \E s \in Streams : StepOf(s)
  BY <1>1 DEF StepOf
<1>2. CASE MigrateSession \/ UNCHANGED sessionVars
  BY <1>2 DEF MigrateSession, Fine, sessionVars
<1>3. QED
  BY <1>1, <1>2, SessionNext_Step

\* Where a gateway's copy of the session comes from.
LEMMA LocalChanges ==
  ASSUME SessionInv, [SessionNext]_sessionVars, NEW s \in Streams,
         local[s] # NoSession, local'[s] # NoSession, stream[s].pc # "saving",
         local'[s] # local[s]
  PROVE  SwitchSave(s)
<1>1. local \in [Streams -> Session \cup {NoSession}]
  BY DEF SessionInv, CoreTypeOK
<1>2. ASSUME NEW r \in Streams, \/ LoginStep(r) \/ Retry(r) \/ Refill(r)
                                \/ LogoutStep(r)
      PROVE  local'[s] = local[s]
  BY <1>1, <1>2 DEF LoginStep, LogoutStep, Authenticate, LoginCheck, LoginAdd,
    LoginSave, LoginEnter, Retry, Refill, LogoutLoad, LogoutAgain, LogoutRemove,
    LogoutProfile, LogoutDelete, StreamOver, At
<1>3. ASSUME NEW r \in Streams, \/ CommandStart(r) \/ CommandStep(r)
                                \/ \E target \in Maps : SwitchStart(r, target)
      PROVE  local'[s] = local[s]
  BY <1>1, <1>3 DEF Routed, Unrouted, Copy, CommandStep, CommandStart,
    CommandApplied, CommandTurnedDown, CommandRefused, CommandTimesOut,
    CommandUnanswered, CommandAccepted, CommandShow, Answered, SwitchStart
<1>4. ASSUME NEW r \in Streams, SwitchStep(r)
      PROVE  local'[s] = local[s] \/ SwitchSave(s)
  <2>1. CASE SwitchSave(r)
    BY <1>1, <2>1 DEF SwitchSave
  <2>2. QED
    BY <1>4, <2>1 DEF SwitchStep, SwitchRemove, SwitchArrive, SwitchRollback,
      SwitchConfirm, SwitchLoad, SwitchProfile
<1>5. CASE MigrateSession \/ UNCHANGED sessionVars
  BY <1>5 DEF MigrateSession, sessionVars
<1>6. QED
  BY <1>2, <1>3, <1>4, <1>5 DEF SessionNext

\* A stream whose logoutOnce is used up has not ended yet.
SpentInv ==
    /\ spent \in SUBSET Streams
    /\ \A s \in spent : stream[s].pc \in (Serves \ {"entering"}) \cup {"closing"}

\* A stream is serving the player and its login is over.
Goes == Serves \ {"entering"}

\* The stream of s goes on serving the player; the others do not move.
StillServes(s) ==
    /\ \A r \in Streams \ {s} : stream'[r] = stream[r]
    /\ stream'[s].pc \in Goes

LEMMA Answer_Serves ==
  ASSUME CoreTypeOK, NEW s \in Streams
  PROVE  /\ \A a, b : AnswerTo(s, a, b) => StillServes(s)
         /\ \A err : Fails(s, err) => StillServes(s)
         /\ \A b : Answer(s, b) => StillServes(s)
         /\ Show(s) => StillServes(s)
         /\ \A p \in Goes : Goto(s, p) => StillServes(s)
         /\ \A q : (stream' = [stream EXCEPT ![s] = q] /\ q.pc \in Goes) => StillServes(s)
<1>t. stream \in [Streams -> Stream] /\ stream[s] \in Stream
  BY DEF CoreTypeOK
<1>s. \A q : (stream' = [stream EXCEPT ![s] = q] /\ q.pc \in Goes) => StillServes(s)
  BY <1>t DEF StillServes
<1>a. \A a, b : AnswerTo(s, a, b) => StillServes(s)
  <2> TAKE a, b
  <2> DEFINE q == [Playing EXCEPT !.pc = "answering", !.applied = a, !.answer = b]
  <2>1. q.pc = "answering"
    BY PlayingIsStream DEF Stream
  <2>2. q.pc \in Goes
    BY <2>1 DEF Goes, Serves, Settled
  <2> HIDE DEF q
  <2>3. AnswerTo(s, a, b) => stream' = [stream EXCEPT ![s] = q]
    BY DEF AnswerTo, q
  <2>4. QED
    BY <2>2, <2>3, <1>s
<1>b. Show(s) => StillServes(s)
  <2> DEFINE q == [Playing EXCEPT !.pc = "showing", !.applied = stream[s].applied]
  <2>1. q.pc = "showing"
    BY PlayingIsStream DEF Stream
  <2>2. q.pc \in Goes
    BY <2>1 DEF Goes, Serves, Settled
  <2> HIDE DEF q
  <2>3. Show(s) => stream' = [stream EXCEPT ![s] = q]
    BY DEF Show, q
  <2>4. QED
    BY <2>2, <2>3, <1>s
<1>c. \A p \in Goes : Goto(s, p) => StillServes(s)
  BY <1>t DEF Goto, StillServes, Stream
<1>d. QED
  BY <1>s, <1>a, <1>b, <1>c DEF Fails, Answer

LEMMA Calls_Serve ==
  ASSUME CoreTypeOK, NEW s \in Streams,
         \/ CommandStart(s) \/ CommandStep(s)
         \/ (\E target \in Maps : SwitchStart(s, target))
         \/ SwitchStep(s)
  PROVE  StillServes(s)
<1>t. stream \in [Streams -> Stream] /\ stream[s] \in Stream /\ Playing \in Stream
  BY PlayingIsStream DEF CoreTypeOK
<1>v. {"calling", "accepted", "playing", "removing", "arriving", "confirming",
       "rollback", "loading", "resaving", "profiling"} \subseteq Goes
  BY DEF Goes, Serves, Settled, Moves
<1>1. ASSUME CommandStart(s)
      PROVE  StillServes(s)
  <2> DEFINE q == [Playing EXCEPT !.pc = "calling", !.from = Copy(s).map]
  <2>1. q.pc \in Goes
    BY <1>t, <1>v DEF Stream
  <2> HIDE DEF q
  <2>2. \/ stream' = [stream EXCEPT ![s] = q]
        \/ Fails(s, "offline") \/ Fails(s, "noRoute")
    BY <1>1 DEF CommandStart, Routed, Unrouted, q
  <2>3. QED
    BY <2>1, <2>2, Answer_Serves
<1>2. ASSUME NEW target \in Maps, SwitchStart(s, target)
      PROVE  StillServes(s)
  <2> DEFINE q == [Playing EXCEPT !.pc = "removing", !.from = Copy(s).map, !.to = target]
  <2>1. q.pc \in Goes
    BY <1>t, <1>v DEF Stream
  <2> HIDE DEF q
  <2>2. \/ stream' = [stream EXCEPT ![s] = q]
        \/ Fails(s, "offline") \/ Fails(s, "noRoute") \/ Fails(s, "rejected")
    BY <1>2 DEF SwitchStart, Routed, Unrouted, q
  <2>3. QED
    BY <2>1, <2>2, Answer_Serves
<1>3. ASSUME CommandStep(s)
      PROVE  StillServes(s)
  <2>1. CASE CommandApplied(s)
    BY <2>1, <1>t, <1>v DEF CommandApplied, StillServes, Stream
  <2>2. CASE Answered(s)
    <3>1. Playing.pc \in Goes
      BY <1>v DEF Playing, Outside
    <3>2. QED
      BY <2>2, <3>1, Answer_Serves DEF Answered
  <2>3. CASE CommandShow(s)
    BY <2>3, Answer_Serves DEF CommandShow, Routed
  <2>4. CASE \/ CommandTurnedDown(s) \/ CommandRefused(s)
           \/ CommandTimesOut(s) \/ CommandUnanswered(s) \/ CommandAccepted(s)
    BY <2>4, Answer_Serves
    DEF CommandTurnedDown, CommandRefused, CommandTimesOut, CommandUnanswered,
      CommandAccepted
  <2>5. QED
    BY <1>3, <2>1, <2>2, <2>3, <2>4 DEF CommandStep
<1>4. ASSUME SwitchStep(s)
      PROVE  StillServes(s)
  <2>1. CASE SwitchRemove(s)
    BY <2>1, <1>v, Answer_Serves DEF SwitchRemove
  <2>2. CASE SwitchArrive(s)
    BY <2>2, <1>t, <1>v DEF SwitchArrive, StillServes, Stream
  <2>3. CASE SwitchRollback(s) \/ SwitchConfirm(s)
    BY <2>3, <1>v, Answer_Serves DEF SwitchRollback, SwitchConfirm
  <2>4. CASE SwitchLoad(s)
    BY <2>4, <1>t, <1>v DEF SwitchLoad, Goto, StillServes, Stream
  <2>5. CASE SwitchSave(s) \/ SwitchProfile(s)
    BY <2>5, <1>v, Answer_Serves DEF SwitchSave, SwitchProfile
  <2>6. QED
    BY <1>4, <2>1, <2>2, <2>3, <2>4, <2>5 DEF SwitchStep
<1>5. QED
  BY <1>1, <1>2, <1>3, <1>4

LEMMA Calls_Save ==
  ASSUME NEW s \in Streams,
         \/ CommandStart(s) \/ CommandStep(s)
         \/ (\E target \in Maps : SwitchStart(s, target))
         \/ SwitchStep(s)
  PROVE  spent' = spent /\ (session' = session \/ SwitchSave(s))
<1>1. CASE CommandStart(s) \/ \E target \in Maps : SwitchStart(s, target)
  BY <1>1 DEF CommandStart, SwitchStart
<1>2. CASE CommandStep(s)
  BY <1>2 DEF CommandStep, CommandApplied, CommandTurnedDown, CommandRefused,
    CommandTimesOut, CommandUnanswered, CommandAccepted, CommandShow, Answered
<1>3. CASE SwitchStep(s)
  BY <1>3 DEF SwitchStep, SwitchRemove, SwitchArrive, SwitchRollback, SwitchConfirm,
    SwitchLoad, SwitchProfile
<1>4. QED
  BY <1>1, <1>2, <1>3

LEMMA SpentInv_Next ==
  ASSUME SessionInv, SpentInv, [SessionNext]_sessionVars
  PROVE  SpentInv'
<1>t. /\ CoreTypeOK /\ stream \in [Streams -> Stream]
      /\ \A s \in Streams : stream[s] \in Stream
  BY DEF SessionInv, CoreTypeOK
<1>1. ASSUME NEW s \in Streams, LoginStep(s) \/ Retry(s)
      PROVE  SpentInv'
  <2>1. /\ spent' = spent
        /\ stream[s].pc \in {"out", "checking", "adding", "saving", "entering", "failed"}
    BY <1>1 DEF LoginStep, Authenticate, LoginCheck, LoginAdd, LoginSave, LoginEnter,
      Retry, At
  <2>2. s \notin spent
    BY <2>1 DEF SpentInv, Serves, Settled, Moves
  <2>3. \A r \in Streams \ {s} : stream'[r] = stream[r]
    BY <1>1, <1>t DEF LoginStep, Authenticate, LoginCheck, LoginAdd, LoginSave,
      LoginEnter, Retry, Goto
  <2>4. QED
    BY <2>1, <2>2, <2>3 DEF SpentInv
<1>2. ASSUME NEW s \in Streams,
             \/ CommandStart(s) \/ CommandStep(s)
             \/ (\E target \in Maps : SwitchStart(s, target))
             \/ SwitchStep(s)
      PROVE  SpentInv'
  <2>1. StillServes(s) /\ spent' = spent
    BY <1>2, <1>t, Calls_Serve, Calls_Save
  <2>2. QED
    BY <2>1 DEF SpentInv, StillServes, Goes
<1>3. ASSUME NEW s \in Streams, LogoutStep(s), ~StreamOver(s)
      PROVE  SpentInv'
  <2>1. /\ \A r \in Streams \ {s} : stream'[r] = stream[r]
        /\ stream'[s].pc \in {"closing", "leaving", "logout", "deleting", "answering"}
    <3>1. Outside \in Stream /\ Playing \in Stream
      BY PlayingIsStream
    <3>2. CASE LogoutDelete(s)
      BY <1>t, <3>1, <3>2 DEF LogoutDelete, CloseStream, AnswerTo, Stream
    <3>3. CASE LogoutLoad(s) \/ LogoutAgain(s)
      BY <1>t, <3>1, <3>3 DEF LogoutLoad, LogoutAgain, CloseStream, Stream
    <3>4. CASE LogoutRemove(s) \/ LogoutProfile(s)
      BY <1>t, <3>4 DEF LogoutRemove, LogoutProfile, Goto, Stream
    <3>5. QED
      BY <1>3, <3>2, <3>3, <3>4 DEF LogoutStep
  <2>2. spent' \in {spent, spent \cup {s}}
    BY <1>3 DEF LogoutStep, LogoutLoad, LogoutAgain, LogoutRemove, LogoutProfile,
      LogoutDelete
  <2>3. QED
    BY <2>1, <2>2 DEF SpentInv, Serves, Settled, Moves
<1>4. ASSUME NEW s \in Streams, StreamOver(s)
      PROVE  SpentInv'
  <2>1. (\A r \in Streams \ {s} : stream'[r] = stream[r]) /\ spent' = spent \ {s}
    BY <1>4, <1>t DEF StreamOver
  <2>2. QED
    BY <2>1 DEF SpentInv
<1>5. CASE MigrateSession \/ (\E s \in Streams : Refill(s)) \/ UNCHANGED sessionVars
  <2>1. spent' = spent /\ stream' = stream
    BY <1>5 DEF MigrateSession, Refill, sessionVars
  <2>2. QED
    BY <2>1 DEF SpentInv
<1>6. QED
  BY <1>1, <1>2, <1>3, <1>4, <1>5 DEF SessionNext

LEMMA SpentInvariant ==
  SessionSpec => []SpentInv
<1>1. SessionInit => SpentInv
  BY DEF SessionInit, SpentInv
<1>2. QED
  BY <1>1, SessionInvariant, SpentInv_Next, PTL DEF SessionSpec

(***************************************************************************)
(* The session, its copies, the worlds, the profile and the streams keep   *)
(* their types.                                                            *)
(***************************************************************************)
THEOREM SessionTypeCorrect ==
  SessionSpec => []SessionTypeOK
<1>1. SessionInv /\ SpentInv => SessionTypeOK
  BY DEF SessionInv, CoreTypeOK, SpentInv, SessionTypeOK
<1>2. QED
  BY <1>1, SessionInvariant, SpentInvariant, PTL

(***************************************************************************)
(* However many streams a player has, he is in one world at most, unless   *)
(* logins overlapped or used an outdated profile, a switch arrived without *)
(* saying so, or Redis failed to read or write: a ghost that a failed      *)
(* logout leaves (cluster.go, Logout) is where LastMap leads the next      *)
(* login.                                                                  *)
(***************************************************************************)
THEOREM OnePlaceTheorem ==
  SessionSpec => []OnePlace
<1>1. ASSUME SessionInv, Calm(trouble)
      PROVE  \E m : where \subseteq {m}
  <2>1. CASE \A s \in Streams : stream[s].pc \notin Busy
    BY <1>1, <2>1 DEF SessionInv, GhostInv
  <2>2. ASSUME NEW s \in Streams, stream[s].pc \in Busy
        PROVE  \E m : where \subseteq {m}
    <3>1. PlaceOf(stream[s], local[s], session, where, lastMap)
      BY <1>1 DEF SessionInv, Mine, MineAs
    <3>2. QED
      BY <2>2, <3>1 DEF PlaceOf, Busy, Serves
  <2>3. QED
    BY <2>1, <2>2
<1>2. ASSUME NEW m, where \subseteq {m}
      PROVE  Cardinality(where) <= 1
  <2>1. IsFiniteSet({m}) /\ Cardinality({m}) = 1
    BY FS_Singleton
  <2>2. where \in SUBSET {m}
    BY <1>2
  <2>3. QED
    BY <2>1, <2>2, FS_Subset
<1>3. SessionInv => OnePlace
  BY <1>1, <1>2 DEF OnePlace, Calm
<1>4. QED
  BY <1>3, SessionInvariant, PTL

(***************************************************************************)
(* As long as nothing has gone wrong but refused calls, a player who is    *)
(* between commands is found where his session and the gateway's copy say. *)
(***************************************************************************)
THEOREM SessionFindsPlayerTheorem ==
  SessionSpec => []SessionFindsPlayer
<1>1. SessionInv => SessionFindsPlayer
  <2>1. SUFFICES ASSUME SessionInv, trouble = {}, NEW s \in Streams, At(s, "playing")
                 PROVE  /\ session # NoSession /\ local[s] # NoSession
                        /\ session.map \in where
                        /\ local[s].map = session.map
    BY DEF SessionFindsPlayer
  <2>2. Mine(s) /\ stream[s].pc = "playing"
    BY <2>1 DEF SessionInv, At
  <2>3. Quiet(trouble) /\ Calm(trouble)
    BY <2>1 DEF Quiet, Calm
  <2>4. QED
    BY <2>1, <2>2, <2>3 DEF Mine, MineAs, SessionOf, PlaceOf, PresentAt, Serves,
      Settled
<1>2. QED
  BY <1>1, SessionInvariant, PTL

(***************************************************************************)
(* What the answer to a command says is what happened to it                *)
(* (gateway_errors.go:47): accepted only if it was carried out, rejected   *)
(* or stale only if it was not, while no second stream interferes and no   *)
(* blow at the boss was left unanswered by Redis.                          *)
(***************************************************************************)
THEOREM AnswerTellsOutcomeTheorem ==
  SessionSpec => []AnswerTellsOutcome
<1>1. SessionInv => AnswerTellsOutcome
  <2>1. SUFFICES ASSUME SessionInv, NEW s \in Streams, At(s, "answering")
                 PROVE  /\ stream[s].answer = "accepted" => stream[s].applied
                        /\ stream[s].answer \in {"STALE_ROUTE", "COMMAND_REJECTED"}
                              => \/ ~stream[s].applied
                                 \/ {"overlap", "lostBlow", "unread", "unsaved"}
                                       \cap trouble # {}
    BY DEF AnswerTellsOutcome
  <2>2. Mine(s) /\ stream[s].pc = "answering"
    BY <2>1 DEF SessionInv, At
  <2>3. stream[s].answer = "accepted" => stream[s].applied = TRUE
    BY <2>2 DEF Mine, MineAs, Fit
  <2>4. /\ Quiet(trouble) /\ "lostBlow" \notin trouble
        /\ stream[s].answer \in {"STALE_ROUTE", "COMMAND_REJECTED"}
        => stream[s].applied = FALSE
    BY <2>2 DEF Mine, MineAs
  <2>5. QED
    BY <2>3, <2>4 DEF Quiet
<1>2. QED
  BY <1>1, SessionInvariant, PTL

(***************************************************************************)
(* As long as a gateway serves the player, its copy of the session comes   *)
(* to name another map only with a higher version (stream_sender.go:126):  *)
(* SwitchMap counts up from what Redis holds, which is never behind the    *)
(* copy, whatever migrations come in between.                              *)
(***************************************************************************)
THEOREM SessionVersionOrdersMapsTheorem ==
  SessionSpec => SessionVersionOrdersMaps
<1>1. ASSUME SessionInv, [SessionNext]_sessionVars,
             trouble' \cap {"overlap", "unread", "unsaved"} = {},
             NEW s \in Streams, local[s] # NoSession, local'[s] # NoSession,
             stream[s].pc # "saving", local'[s].map # local[s].map
      PROVE  local'[s].version > local[s].version
  <2>1. local \in [Streams -> Session \cup {NoSession}] /\ Mine(s)
    BY <1>1 DEF SessionInv, CoreTypeOK
  <2>2. local'[s] # local[s]
    BY <1>1
  <2>3. SwitchSave(s)
    BY <1>1, <2>1, <2>2, LocalChanges
  <2>4. /\ stream[s].pc = "resaving"
        /\ local' = [local EXCEPT ![s] = [map |-> stream[s].to,
                                          version |-> stream[s].loaded + 1]]
    BY <2>3 DEF SwitchSave, At, TargetMap, NextVersion
  <2>5. local'[s].version = stream[s].loaded + 1
    BY <2>1, <2>4
  <2>6. Quiet(trouble)
    BY <1>1, TroubleGrows DEF Quiet
  <2>7. local[s].version <= stream[s].loaded
    BY <2>1, <2>4, <2>6 DEF Mine, MineAs, SessionOf
  <2>8. stream[s].loaded \in Nat /\ local[s].version \in Nat
    BY <1>1, <2>1, SessionBoundAssumption DEF SessionInv, CoreTypeOK, Stream, Session
  <2>9. QED
    BY <2>5, <2>7, <2>8
<1>2. ASSUME SessionInv, [SessionNext]_sessionVars
      PROVE  trouble' \cap {"overlap", "unread", "unsaved"} = {} =>
                \A s \in Streams :
                   (/\ local[s] # NoSession /\ local'[s] # NoSession
                    /\ stream[s].pc # "saving"
                    /\ local'[s].map # local[s].map)
                   => local'[s].version > local[s].version
  BY <1>1, <1>2
<1>3. QED
  BY <1>2, SessionInvariant, PTL DEF SessionSpec, SessionVersionOrdersMaps

-----------------------------------------------------------------------------
(* Whose the session is.                                                   *)

(***************************************************************************)
(* Nothing reserves the player (cluster.go:200): a login looks for a       *)
(* session and saves one later.  Yet two streams handle the player at once *)
(* only after two logins overlapped, or after Redis failed to read or to   *)
(* write a session, or a profile (cluster.go:170, store.go:701).           *)
(***************************************************************************)
THEOREM OneStreamAtATimeTheorem == SessionSpec => []AloneInv
<1>1. SessionInv => AloneInv
  BY DEF SessionInv
<1>2. QED
  BY <1>1, SessionInvariant, PTL

\* Somebody will log the session out.
SessionServed ==
    session # NoSession => \E s \in Streams : stream[s].pc \in Serves /\ s \notin spent

(***************************************************************************)
(* A session that some stream serves is left to itself only by a login     *)
(* whose first snapshot fails, by a Logout in which Redis fails, and by a  *)
(* stream that goes on after such a Logout and then switches maps.         *)
(***************************************************************************)
OnlyFailuresOrphan ==
    [][SessionServed =>
          \/ SessionServed'
          \/ \E s \in Streams : At(s, "entering") /\ At(s, "failed")'
          \/ \E s \in Streams : (LogoutLoad(s) \/ LogoutDelete(s)) /\ faults' # faults
          \/ \E s \in spent : SwitchSave(s)]_sessionVars

\* What a step of s does to the streams and to the session.
GoesOn(s) ==
    /\ \A r \in Streams \ {s} : stream'[r] = stream[r] /\ (r \in spent' => r \in spent)
    /\ session = NoSession /\ session' # NoSession =>
          \/ stream'[s].pc \in Serves /\ s \notin spent'
          \/ s \in spent /\ SwitchSave(s)
    /\ stream[s].pc \in Serves /\ s \notin spent =>
          \/ stream'[s].pc \in Serves /\ s \notin spent'
          \/ session' = NoSession
          \/ (LogoutLoad(s) \/ LogoutDelete(s)) /\ faults' # faults
          \/ At(s, "entering") /\ At(s, "failed")'

LEMMA Streams_GoOn ==
  ASSUME CoreTypeOK, SpentInv, NEW s \in Streams,
         \/ LoginStep(s) \/ Retry(s) \/ CommandStart(s) \/ CommandStep(s)
         \/ (\E target \in Maps : SwitchStart(s, target))
         \/ SwitchStep(s) \/ LogoutStep(s) \/ Refill(s)
  PROVE  GoesOn(s)
<1>t. stream \in [Streams -> Stream] /\ stream[s] \in Stream /\ faults \in Nat
  BY DEF CoreTypeOK
<1>o. Outside.pc = "out" /\ Playing.pc = "playing"
  BY DEF Outside, Playing
<1>e. \A q \in Stream : \A p : [q EXCEPT !.pc = p].pc = p
  BY DEF Stream
<1>1. ASSUME LoginStep(s) \/ Retry(s)
      PROVE  GoesOn(s)
  <2>1. /\ spent' = spent
        /\ stream[s].pc \in {"out", "checking", "adding", "saving", "entering", "failed"}
    BY <1>1 DEF LoginStep, Authenticate, LoginCheck, LoginAdd, LoginSave, LoginEnter,
      Retry, At
  <2>2. s \notin spent
    BY <2>1 DEF SpentInv, Serves, Settled, Moves
  <2>3. CASE Authenticate(s) \/ LoginCheck(s) \/ LoginAdd(s) \/ Retry(s)
    <3>1. session' = session /\ \A r \in Streams \ {s} : stream'[r] = stream[r]
      BY <1>t, <2>3 DEF Authenticate, LoginCheck, LoginAdd, Retry, Goto
    <3>2. stream[s].pc \notin Serves
      BY <2>3 DEF Authenticate, LoginCheck, LoginAdd, Retry, At, Serves, Settled, Moves
    <3>3. QED
      BY <2>1, <3>1, <3>2 DEF GoesOn
  <2>4. CASE LoginSave(s) \/ LoginEnter(s)
    BY <1>t, <1>o, <1>e, <2>1, <2>2, <2>4 DEF LoginSave, LoginEnter, GoesOn, At, Goto,
      Stream, Serves, Settled
  <2>5. QED
    BY <1>1, <2>3, <2>4 DEF LoginStep
<1>2. ASSUME \/ CommandStart(s) \/ CommandStep(s)
             \/ (\E target \in Maps : SwitchStart(s, target))
             \/ SwitchStep(s)
      PROVE  GoesOn(s)
  <2>1. StillServes(s) /\ spent' = spent /\ (session' = session \/ SwitchSave(s))
    BY <1>2, Calls_Serve, Calls_Save
  <2>2. QED
    BY <2>1 DEF StillServes, Goes, GoesOn
<1>3. ASSUME LogoutStep(s)
      PROVE  GoesOn(s)
  <2>1. CASE LogoutLoad(s) \/ LogoutAgain(s)
    BY <1>t, <1>e, <1>o, <2>1
    DEF LogoutLoad, LogoutAgain, CloseStream, Unread, Fault, Stream, GoesOn, Serves,
      Settled
  <2>2. CASE LogoutRemove(s) \/ LogoutProfile(s)
    <3>1. /\ spent' = spent /\ session' = session
          /\ Goto(s, "logout") \/ Goto(s, "deleting")
      BY <2>2 DEF LogoutRemove, LogoutProfile
    <3>2. \A r \in Streams \ {s} : stream'[r] = stream[r]
      BY <1>t, <3>1 DEF Goto
    <3>3. stream'[s].pc \in {"logout", "deleting"}
      BY <1>t, <1>e, <3>1 DEF Goto
    <3>4. QED
      BY <3>1, <3>2, <3>3 DEF GoesOn, Serves, Settled
  <2>3. CASE LogoutDelete(s)
    <3>1. /\ \A r \in Streams \ {s} : stream'[r] = stream[r]
          /\ \A r \in Streams \ {s} : r \in spent' => r \in spent
      BY <1>t, <2>3 DEF LogoutDelete, CloseStream, AnswerTo
    <3>2. session' = NoSession \/ session' = session
      BY <2>3 DEF LogoutDelete
    <3>3. session' = NoSession \/ faults' = faults + 1
      BY <2>3 DEF LogoutDelete, Fault
    <3>4. QED
      BY <1>t, <2>3, <3>1, <3>2, <3>3 DEF GoesOn
  <2>4. CASE StreamOver(s)
    BY <1>t, <2>4 DEF StreamOver, At, GoesOn, Serves, Settled, Moves
  <2>5. QED
    BY <1>3, <2>1, <2>2, <2>3, <2>4 DEF LogoutStep
<1>4. ASSUME Refill(s)
      PROVE  GoesOn(s)
  BY <1>4 DEF Refill, GoesOn
<1>5. QED
  BY <1>1, <1>2, <1>3, <1>4

(***************************************************************************)
(* cluster.go:500, gateway_handlers.go: a login that finds a session is    *)
(* refused, so a session that no stream will log out keeps the player out. *)
(* Refused and unanswered calls, switches that were rolled back, failed    *)
(* removals and overlapping logins leave none behind.  Three things do: a  *)
(* login that fails at its first snapshot (FailedLoginCanBeRetried); a     *)
(* Logout in which Redis fails to read or delete the session               *)
(* (cluster.go:210, 235), since logoutOnce allows no second one; and a     *)
(* stream that survived such a Logout and then switches maps.              *)
(***************************************************************************)
THEOREM OnlyFailuresOrphanTheorem == SessionSpec => OnlyFailuresOrphan
<1>1. SessionInv /\ SpentInv /\ [SessionNext]_sessionVars =>
        (SessionServed =>
          \/ SessionServed'
          \/ \E s \in Streams : At(s, "entering") /\ At(s, "failed")'
          \/ \E s \in Streams : (LogoutLoad(s) \/ LogoutDelete(s)) /\ faults' # faults
          \/ \E s \in spent : SwitchSave(s))
  <2> SUFFICES ASSUME SessionInv, SpentInv, [SessionNext]_sessionVars, SessionServed,
                      ~\E s \in Streams : At(s, "entering") /\ At(s, "failed")',
                      ~\E s \in Streams : /\ LogoutLoad(s) \/ LogoutDelete(s)
                                          /\ faults' # faults,
                      ~\E s \in spent : SwitchSave(s),
                      session' # NoSession
               PROVE  \E s \in Streams : stream'[s].pc \in Serves /\ s \notin spent'
    BY DEF SessionServed
  <2>1. ASSUME NEW s \in Streams, GoesOn(s)
        PROVE  \E r \in Streams : stream'[r].pc \in Serves /\ r \notin spent'
    <3>1. CASE session = NoSession
      BY <2>1, <3>1 DEF GoesOn
    <3>2. CASE session # NoSession
      <4>1. PICK r \in Streams : stream[r].pc \in Serves /\ r \notin spent
        BY <3>2 DEF SessionServed
      <4>2. CASE r = s
        BY <2>1, <4>1, <4>2 DEF GoesOn
      <4>3. CASE r # s
        BY <2>1, <4>1, <4>3 DEF GoesOn
      <4>4. QED
        BY <4>2, <4>3
    <3>3. QED
      BY <3>1, <3>2
  <2>2. CASE MigrateSession \/ UNCHANGED sessionVars
    BY <2>2 DEF MigrateSession, sessionVars, SessionServed
  <2>3. CoreTypeOK
    BY DEF SessionInv
  <2>4. QED
    BY <2>1, <2>2, <2>3, Streams_GoOn DEF SessionNext
<1>2. QED
  BY <1>1, SessionInvariant, SpentInvariant, PTL DEF SessionSpec, OnlyFailuresOrphan
=============================================================================
