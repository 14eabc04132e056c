--------------------------- MODULE PlayerSessions ---------------------------
(***************************************************************************)
(* One player and the gateways: Login, the commands, SwitchMap and Logout  *)
(* of cluster/cluster.go, as the streams of                                *)
(* cmd/gateway/gateway_handlers.go call them, and the answers the player   *)
(* gets.  Each stream runs on a gateway of its own and handles one command *)
(* at a time.                                                              *)
(*                                                                         *)
(* Where the player is stands in four places that no transaction joins:    *)
(* the worlds of the nodes, the session in Redis, the gateway's local copy *)
(* of it and the profile in the database.  The nodes' side of an RPC is    *)
(* reduced to its outcome: done, refused (stale route, draining, gone), or *)
(* done with the answer lost.  Calls to Redis may fail too: the code       *)
(* ignores lost writes, and takes a session it cannot read for none        *)
(* (storage/store.go:701).                                                 *)
(***************************************************************************)
EXTENDS Naturals, FiniteSets

CONSTANTS
    Streams,       \* GameStreams of the player, each on its own gateway
    Maps,
    DefaultMapID,
    NoSession,     \* no entry
    MaxVersion,    \* bound on session versions
    MaxFaults      \* bound on refused calls, lost answers, failed reads and writes

ASSUME SessionMapAssumption == DefaultMapID \in Maps

ASSUME SessionBoundAssumption == MaxVersion \in Nat \ {0} /\ MaxFaults \in Nat

ASSUME NoSessionFreshAssumption == NoSession \notin [map : Maps, version : Nat]

VARIABLES
    session,       \* global_sessions: map and version, or NoSession
    local,         \* local[s]: localSessions of the stream's gateway
    where,         \* the maps whose world holds the player
    lastMap,       \* profile.LastMap
    stream,        \* stream[s]: where the calls of stream s are
    spent,         \* open streams whose logoutOnce is used up
    faults,        \* number of faults so far
    trouble        \* history: what has gone wrong so far

sessionVars == <<session, local, where, lastMap, stream, spent, faults, trouble>>

Session == [map : Maps, version : 1..MaxVersion]

Steps == {"out", "checking", "adding", "saving", "entering", "failed", "playing",
          "calling", "accepted", "removing", "arriving", "rollback",
          "confirming", "loading", "resaving", "profiling", "showing",
          "answering", "leaving", "logout", "deleting", "closing"}

\* What the client is told: CommandResult, or an ErrorResponse with its code.
Answers == {"none", "accepted", "STALE_ROUTE", "ROUTE_NOT_READY",
            "COMMAND_REJECTED"}

\* applied: the node has done what the command asks for.
Stream == [pc : Steps, from : Maps, to : Maps, loaded : 0..MaxVersion,
           applied : BOOLEAN, answer : Answers]

Troubles == {"overlap", "staleProfile", "unannounced", "lostPlayer", "lostBlow",
             "unread", "unsaved"}

\* The type invariant of the player's whereabouts.
SessionTypeOK ==
    /\ session \in Session \cup {NoSession}
    /\ local \in [Streams -> Session \cup {NoSession}]
    /\ where \in SUBSET Maps
    /\ lastMap \in Maps
    /\ stream \in [Streams -> Stream]
    /\ spent \in SUBSET Streams
    /\ faults \in Nat
    /\ trouble \in SUBSET Troubles

Outside == [pc |-> "out", from |-> DefaultMapID, to |-> DefaultMapID,
            loaded |-> 0, applied |-> FALSE, answer |-> "none"]

Playing == [Outside EXCEPT !.pc = "playing"]

SessionInit ==
    /\ session = NoSession
    /\ local = [s \in Streams |-> NoSession]
    /\ where = {}
    /\ lastMap = DefaultMapID
    /\ stream = [s \in Streams |-> Outside]
    /\ spent = {}
    /\ faults = 0
    /\ trouble = {}

-----------------------------------------------------------------------------
At(s, step) == stream[s].pc = step

Goto(s, step) == stream' = [stream EXCEPT ![s].pc = step]

Fine == UNCHANGED <<faults, trouble>>

\* A fault, and what it puts in doubt.
Fault(doubts) ==
    /\ faults < MaxFaults
    /\ faults' = faults + 1
    /\ trouble' = trouble \cup doubts

\* The node's AddPlayer or RemovePlayer changes its world to w and answers.
Done(w) == where' = w /\ Fine

Refused(doubts) == UNCHANGED where /\ Fault(doubts)

AnswerLost(w, doubts) == where' = w /\ Fault(doubts)

\* LoadGlobalSession fails, and says that there is no session.
Unread == session # NoSession /\ Fault({"unread"})

-----------------------------------------------------------------------------
(* Login.                                                                  *)

\* Mutant: every login starts on the default map.
DefaultLoginMap == DefaultMapID

LoginMap == lastMap

\* Authenticate reads the profile.
Authenticate(s) ==
    /\ At(s, "out")
    /\ stream' = [stream EXCEPT ![s] = [Outside EXCEPT !.pc = "checking",
                                                       !.to = LoginMap]]
    /\ Fine
    /\ UNCHANGED <<session, local, where, lastMap>>

\* The check for a session.  Nothing is reserved: another login may pass the
\* same check before this one saves its session; and the profile may have been
\* saved again since it was read.
LoginCheck(s) ==
    /\ At(s, "checking")
    /\ \/ /\ session = NoSession
          /\ Goto(s, "adding")
          /\ trouble' = trouble
                \cup (IF \E r \in Streams \ {s} : stream[r].pc \in {"adding", "saving"}
                      THEN {"overlap"} ELSE {})
                \cup (IF stream[s].to # LoginMap THEN {"staleProfile"} ELSE {})
          /\ UNCHANGED faults
       \/ Unread /\ Goto(s, "adding")
       \/ session # NoSession /\ stream' = [stream EXCEPT ![s] = Outside] /\ Fine
    /\ UNCHANGED <<session, local, where, lastMap>>

\* AddPlayer on the owner; a failure ends the login.
LoginAdd(s) ==
    /\ At(s, "adding")
    /\ \/ Done(where \cup {stream[s].to}) /\ Goto(s, "saving")
       \/ Refused({}) /\ Goto(s, "out")
       \/ AnswerLost(where \cup {stream[s].to}, {}) /\ Goto(s, "out")
    /\ UNCHANGED <<session, local, lastMap>>

FirstVersion == 1

\* SaveGlobalSession, whose error is ignored, and the local copy.
LoginSave(s) ==
    LET new == [map |-> stream[s].to, version |-> FirstVersion]
    IN  /\ At(s, "saving")
        /\ \/ session' = new /\ Fine
           \/ UNCHANGED session /\ Fault({"unsaved"})
        /\ local' = [local EXCEPT ![s] = new]
        /\ Goto(s, "entering")
        /\ UNCHANGED <<where, lastMap>>

\* The first SnapshotFor.  If it fails, Login fails and GameStream returns
\* the error without a Logout.
LoginEnter(s) ==
    /\ At(s, "entering")
    /\ \/ stream' = [stream EXCEPT ![s] = Playing] /\ Fine
       \/ Goto(s, "failed") /\ Fault({})
    /\ UNCHANGED <<session, local, where, lastMap>>

\* The player tries again on a new stream.
Retry(s) ==
    /\ At(s, "failed")
    /\ stream' = [stream EXCEPT ![s] = Outside]
    /\ Fine
    /\ UNCHANGED <<session, local, where, lastMap, spent>>

-----------------------------------------------------------------------------
(* Commands and their answers.                                             *)

\* Mutant: a command whose deadline passed is taken for one that was refused.
TimeoutIsRefusal(err) ==
    CASE err \in {"FailedPrecondition", "DeadlineExceeded"} -> "STALE_ROUTE"
      [] err \in {"Unavailable", "noRoute", "syncing"} -> "ROUTE_NOT_READY"
      [] OTHER -> "COMMAND_REJECTED"

\* mapError for commands.  The errors stand for the gRPC codes and the words
\* of the messages it looks for; what it does not know is a rejection.
MapError(err) ==
    CASE err = "FailedPrecondition" -> "STALE_ROUTE"
      [] err \in {"Unavailable", "DeadlineExceeded", "noRoute", "syncing"}
            -> "ROUTE_NOT_READY"
      [] OTHER -> "COMMAND_REJECTED"

\* Why a call was not carried out: the node is not the owner, has another
\* epoch or drains (grpcAuthorityError), or was not reached.
Refusals == {"FailedPrecondition", "Unavailable"}

\* The handler's call ends and its answer is queued.
AnswerTo(s, applied, answer) ==
    stream' = [stream EXCEPT ![s] = [Playing EXCEPT
                 !.pc = "answering", !.applied = applied, !.answer = answer]]

Answer(s, answer) == AnswerTo(s, stream[s].applied, answer)

\* All that is left to do is to show the result.
Show(s) ==
    stream' = [stream EXCEPT ![s] = [Playing EXCEPT
                 !.pc = "showing", !.applied = stream[s].applied]]

Fails(s, err) == Answer(s, MapError(err))

\* sessionNode: the gateway's copy of the session, loaded if there is none.
Copy(s) == IF local[s] # NoSession THEN local[s] ELSE session

Routed(s, rest) ==
    IF Copy(s) = NoSession
    THEN Fails(s, "offline") /\ UNCHANGED local
    ELSE local' = [local EXCEPT ![s] = Copy(s)] /\ rest

\* There is no copy, and the session cannot be read.
Unrouted(s) ==
    /\ local[s] = NoSession /\ Unread
    /\ Fails(s, "offline") /\ UNCHANGED local

\* Move, Attack, Heal, BuyItem and AttackBoss take their route.
CommandStart(s) ==
    /\ At(s, "playing")
    /\ \/ /\ Routed(s, stream' = [stream EXCEPT
                ![s] = [Playing EXCEPT !.pc = "calling", !.from = Copy(s).map]])
          /\ Fine
       \/ Routed(s, Fails(s, "noRoute")) /\ Fault({})
       \/ Unrouted(s)
    /\ UNCHANGED <<session, where, lastMap, spent>>

\* The node carries the command out and says so.
CommandApplied(s) ==
    /\ At(s, "calling")
    /\ stream[s].from \in where
    /\ stream' = [stream EXCEPT ![s].pc = "accepted", ![s].applied = TRUE]
    /\ Fine
    /\ UNCHANGED <<session, local, where, lastMap>>

\* The node's world of the map, if there is one, does not hold the player.
CommandTurnedDown(s) ==
    /\ At(s, "calling")
    /\ stream[s].from \notin where
    /\ Fails(s, "rejected")
    /\ Fine
    /\ UNCHANGED <<session, local, where, lastMap>>

\* The node refuses, is not reached, or gets an error from Redis before it has
\* struck the boss.
CommandRefused(s) ==
    /\ At(s, "calling")
    /\ \E err \in Refusals \cup {"Unknown"} : Fails(s, err)
    /\ Fault({})
    /\ UNCHANGED <<session, local, where, lastMap>>

\* The node carries the command out, and the answer misses the deadline.
CommandTimesOut(s) ==
    /\ At(s, "calling")
    /\ stream[s].from \in where
    /\ AnswerTo(s, TRUE, MapError("DeadlineExceeded"))
    /\ Fault({})
    /\ UNCHANGED <<session, local, where, lastMap>>

\* AttackBoss: the script has struck the boss, and Redis does not answer.  The
\* node returns the error as it is.
CommandUnanswered(s) ==
    /\ At(s, "calling")
    /\ stream[s].from \in where
    /\ AnswerTo(s, TRUE, MapError("Unknown"))
    /\ Fault({"lostBlow"})
    /\ UNCHANGED <<session, local, where, lastMap>>

\* Move is answered at once, the others with a snapshot; BuyItem saves the
\* profile first, with the map of the gateway's copy, and ignores the error.
CommandAccepted(s) ==
    /\ At(s, "accepted")
    /\ \/ Answer(s, "accepted") /\ UNCHANGED lastMap /\ Fine
       \/ Show(s) /\ UNCHANGED lastMap /\ Fine
       \/ Show(s) /\ lastMap' = stream[s].from /\ Fine
       \/ Show(s) /\ UNCHANGED lastMap /\ Fault({"unsaved"})
    /\ UNCHANGED <<session, local, where>>

\* SnapshotFor at the end of a command; the copy is there since its start.
CommandShow(s) ==
    /\ At(s, "showing")
    /\ \/ Routed(s, Answer(s, "accepted")) /\ Fine
       \/ \E err \in {"noRoute", "syncing"} : Routed(s, Fails(s, err)) /\ Fault({})
    /\ UNCHANGED <<session, where, lastMap>>

\* EnqueueControl; the handler takes the next command.
Answered(s) ==
    /\ At(s, "answering")
    /\ stream' = [stream EXCEPT ![s] = Playing]
    /\ Fine
    /\ UNCHANGED <<session, local, where, lastMap>>

-----------------------------------------------------------------------------
(* SwitchMap.                                                              *)

\* sessionNode, Profile on the source and the route to the target.
SwitchStart(s, target) ==
    /\ At(s, "playing")
    /\ \/ /\ Routed(s, IF Copy(s).map \in where
                THEN stream' = [stream EXCEPT
                       ![s] = [Playing EXCEPT !.pc = "removing",
                                              !.from = Copy(s).map, !.to = target]]
                ELSE Fails(s, "rejected"))
          /\ Fine
       \/ Routed(s, Fails(s, "noRoute")) /\ Fault({})
       \/ Unrouted(s)
    /\ Copy(s) # NoSession => Copy(s).version < MaxVersion
    /\ UNCHANGED <<session, where, lastMap, spent>>

SwitchRemove(s) ==
    LET from == stream[s].from
    IN  /\ At(s, "removing")
        /\ \/ /\ Done(where \ {from})
              /\ IF from \in where THEN Goto(s, "arriving") ELSE Fails(s, "rejected")
           \/ \E err \in Refusals : Refused({}) /\ Fails(s, err)
           \/ /\ AnswerLost(where \ {from}, {"lostPlayer"})
              /\ Fails(s, "DeadlineExceeded")
        /\ UNCHANGED <<session, local, lastMap>>

\* AddPlayer on the target; the error is kept for the answer.
SwitchArrive(s) ==
    LET to == stream[s].to
        Arrives(pc, applied, answer) ==
            stream' = [stream EXCEPT ![s].pc = pc, ![s].applied = applied,
                                     ![s].answer = answer]
    IN  /\ At(s, "arriving")
        /\ \/ Done(where \cup {to}) /\ Arrives("confirming", TRUE, "none")
           \/ \E err \in Refusals :
                 Refused({}) /\ Arrives("rollback", FALSE, MapError(err))
           \/ /\ AnswerLost(where \cup {to}, {"unannounced"})
              /\ Arrives("rollback", TRUE, MapError("DeadlineExceeded"))
        /\ UNCHANGED <<session, local, lastMap>>

\* Put the player back; if that fails too, nothing more is done.
SwitchRollback(s) ==
    LET from == stream[s].from
    IN  /\ At(s, "rollback")
        /\ \/ Done(where \cup {from})
           \/ Refused({"lostPlayer"})
           \/ AnswerLost(where \cup {from}, {})
        /\ Answer(s, stream[s].answer)
        /\ UNCHANGED <<session, local, lastMap>>

\* Read the profile back from the target.  If that fails the command ends,
\* with the player on the target and the session on the source.
SwitchConfirm(s) ==
    /\ At(s, "confirming")
    /\ \/ stream[s].to \in where /\ Goto(s, "loading") /\ Fine
       \/ stream[s].to \notin where /\ Fails(s, "rejected") /\ Fine
       \/ Fails(s, "Unavailable") /\ Fault({"unannounced"})
    /\ UNCHANGED <<session, local, where, lastMap>>

\* LoadGlobalSession; a session that is missing, or cannot be read, is left as
\* it is, and the switch goes on.
SwitchLoad(s) ==
    /\ At(s, "loading")
    /\ \/ session = NoSession /\ Goto(s, "profiling") /\ Fine
       \/ /\ session # NoSession
          /\ stream' = [stream EXCEPT ![s].pc = "resaving",
                                      ![s].loaded = session.version]
          /\ Fine
       \/ Unread /\ Goto(s, "profiling")
    /\ UNCHANGED <<session, local, where, lastMap>>

\* Mutant: the session keeps its version.
SameVersion(v) == v

NextVersion(v) == v + 1

\* Mutant: the session keeps its map.
SourceMap(k) == k.from

TargetMap(k) == k.to

SwitchSave(s) ==
    LET k == stream[s]
        new == [map |-> TargetMap(k), version |-> NextVersion(k.loaded)]
    IN  /\ At(s, "resaving")
        /\ k.loaded < MaxVersion
        /\ \/ session' = new /\ Fine
           \/ UNCHANGED session /\ Fault({"unsaved"})
        /\ local' = [local EXCEPT ![s] = new]
        /\ Goto(s, "profiling")
        /\ UNCHANGED <<where, lastMap>>

\* SaveProfile; its error is ignored as well.
SwitchProfile(s) ==
    /\ At(s, "profiling")
    /\ \/ lastMap' = stream[s].to /\ Fine
       \/ UNCHANGED lastMap /\ Fault({"unsaved"})
    /\ Show(s)
    /\ UNCHANGED <<session, local, where>>

-----------------------------------------------------------------------------
(* Logout, once per stream, on command or when it ends for another reason. *)

CloseStream(s) == stream' = [stream EXCEPT ![s] = [Outside EXCEPT !.pc = "closing"]]

\* LoadGlobalSession finds none, or cannot read it: nothing is done, the local
\* copy stays.
LogoutLoad(s) ==
    /\ At(s, "playing")
    /\ s \notin spent
    /\ \/ session = NoSession /\ CloseStream(s) /\ Fine
       \/ /\ session # NoSession
          /\ stream' = [stream EXCEPT ![s].pc = "leaving", ![s].from = session.map]
          /\ Fine
       \/ Unread /\ CloseStream(s)
    /\ UNCHANGED <<session, local, where, lastMap, spent>>

\* logoutOnce is used up: the stream ends without another Logout.
LogoutAgain(s) ==
    /\ At(s, "playing")
    /\ s \in spent
    /\ CloseStream(s)
    /\ Fine
    /\ UNCHANGED <<session, local, where, lastMap, spent>>

\* RemovePlayer on the owner of the session's map; an error is only logged.
LogoutRemove(s) ==
    LET from == stream[s].from
    IN  /\ At(s, "leaving")
        /\ \/ /\ Done(where \ {from})
              /\ Goto(s, IF from \in where THEN "logout" ELSE "deleting")
           \/ Refused({}) /\ Goto(s, "deleting")
           \/ AnswerLost(where \ {from}, {}) /\ Goto(s, "deleting")
        /\ UNCHANGED <<session, local, lastMap, spent>>

\* SaveProfile of the removed player.
LogoutProfile(s) ==
    /\ At(s, "logout")
    /\ \/ lastMap' = stream[s].from /\ Fine
       \/ UNCHANGED lastMap /\ Fault({})
    /\ Goto(s, "deleting")
    /\ UNCHANGED <<session, local, where, spent>>

\* DeleteGlobalSession, whose error is ignored, the local copy, and then
\* DeleteHotSession, whose error is not: it is the answer to a Logout command,
\* and the stream stays open.
LogoutDelete(s) ==
    /\ At(s, "deleting")
    /\ \/ session' = NoSession /\ CloseStream(s) /\ Fine /\ UNCHANGED spent
       \/ UNCHANGED <<session, spent>> /\ CloseStream(s) /\ Fault({"unsaved"})
       \/ /\ session' \in {session, NoSession}
          /\ AnswerTo(s, TRUE, MapError("Unknown"))
          /\ spent' = spent \cup {s}
          /\ Fault({"unsaved"})
    /\ local' = [local EXCEPT ![s] = NoSession]
    /\ UNCHANGED <<where, lastMap>>

\* The stream's state pump may still run, and sessionNode refills the local
\* copy from Redis.
Refill(s) ==
    /\ stream[s].pc \notin {"out", "checking", "adding", "saving", "failed"}
    /\ local[s] = NoSession
    /\ session # NoSession
    /\ local' = [local EXCEPT ![s] = session]
    /\ Fine
    /\ UNCHANGED <<session, where, lastMap, stream, spent>>

StreamOver(s) ==
    /\ At(s, "closing")
    /\ stream' = [stream EXCEPT ![s] = Outside]
    /\ spent' = spent \ {s}
    /\ Fine
    /\ UNCHANGED <<session, local, where, lastMap>>

-----------------------------------------------------------------------------
\* Environment: a failover's commit counts the version of a session up.
MigrateSession ==
    /\ session # NoSession
    /\ session.version < MaxVersion
    /\ session' = [session EXCEPT !.version = @ + 1]
    /\ Fine
    /\ UNCHANGED <<local, where, lastMap, stream, spent>>

LoginStep(s) ==
    /\ \/ Authenticate(s) \/ LoginCheck(s) \/ LoginAdd(s) \/ LoginSave(s)
       \/ LoginEnter(s)
    /\ UNCHANGED spent

CommandStep(s) ==
    /\ \/ CommandApplied(s) \/ CommandTurnedDown(s) \/ CommandRefused(s)
       \/ CommandTimesOut(s) \/ CommandUnanswered(s) \/ CommandAccepted(s)
       \/ CommandShow(s) \/ Answered(s)
    /\ UNCHANGED spent

SwitchStep(s) ==
    /\ \/ SwitchRemove(s) \/ SwitchArrive(s) \/ SwitchRollback(s)
       \/ SwitchConfirm(s) \/ SwitchLoad(s) \/ SwitchSave(s) \/ SwitchProfile(s)
    /\ UNCHANGED spent

LogoutStep(s) ==
    \/ LogoutLoad(s) \/ LogoutAgain(s) \/ LogoutRemove(s) \/ LogoutProfile(s)
    \/ LogoutDelete(s) \/ StreamOver(s)

SessionNext ==
    \/ \E s \in Streams :
          \/ LoginStep(s) \/ Retry(s)
          \/ CommandStart(s) \/ CommandStep(s)
          \/ \E target \in Maps : SwitchStart(s, target)
          \/ SwitchStep(s) \/ LogoutStep(s)
          \/ Refill(s)
    \/ MigrateSession

\* Fairness: calls return, players leave and try again.
SessionFairness ==
    \A s \in Streams :
        /\ WF_sessionVars(LoginStep(s))
        /\ WF_sessionVars(CommandStep(s) \/ SwitchStep(s))
        /\ SF_sessionVars(LogoutLoad(s) \/ LogoutAgain(s))
        /\ WF_sessionVars(LogoutStep(s))
        /\ WF_sessionVars(Retry(s))

SessionSpec == SessionInit /\ [][SessionNext]_sessionVars

FairSessionSpec == SessionSpec /\ SessionFairness

-----------------------------------------------------------------------------
(***************************************************************************)
(* The player is in one world at most: refused calls, failed logouts,      *)
(* lost answers of logins and removals leave a ghost only where the next   *)
(* login puts the player anyway.  Not covered, and listed as hazards:      *)
(* overlapping logins, a login with a profile that was read before another *)
(* stream saved it, a switch whose arrival is done but not answered or not *)
(* confirmed, and sessions that Redis could not read or write.             *)
(***************************************************************************)
OnePlace ==
    trouble \cap {"overlap", "staleProfile", "unannounced", "unread", "unsaved"} = {}
        => Cardinality(where) <= 1

(***************************************************************************)
(* Between commands, the session in Redis, the gateway's copy and the      *)
(* world that holds the player name the same map, also after a switch that *)
(* was refused and rolled back.                                            *)
(***************************************************************************)
SessionFindsPlayer ==
    trouble = {} =>
        \A s \in Streams : At(s, "playing") =>
            /\ session # NoSession /\ local[s] # NoSession
            /\ session.map \in where
            /\ local[s].map = session.map

(***************************************************************************)
(* gateway_errors.go:47: what a command's answer says is what happened to  *)
(* it.  A command that is answered with a result was handled by the node;  *)
(* one that is answered as rejected or as sent to a stale route was not.   *)
(* ROUTE_NOT_READY leaves it open.  Left out are a second stream of the    *)
(* player (overlapping logins, a session that was not read or not saved)   *)
(* which takes the player away before a switch is confirmed, and a blow at *)
(* the boss that Redis did not answer (node.go:541): it is answered as     *)
(* rejected.                                                               *)
(***************************************************************************)
AnswerTellsOutcome ==
    \A s \in Streams : At(s, "answering") =>
        /\ stream[s].answer = "accepted" => stream[s].applied
        /\ stream[s].answer \in {"STALE_ROUTE", "COMMAND_REJECTED"}
              => \/ ~stream[s].applied
                 \/ {"overlap", "lostBlow", "unread", "unsaved"} \cap trouble # {}

(***************************************************************************)
(* The order the stream's clients rely on (stream_sender.go:126): as long  *)
(* as a gateway serves the player, a frame of another map carries a higher *)
(* session version, whatever migrations come in between; unless logins     *)
(* overlapped or the session was not read or not saved, since a second     *)
(* login starts with version 1 again.                                      *)
(***************************************************************************)
SessionVersionOrdersMaps ==
    [][trouble' \cap {"overlap", "unread", "unsaved"} = {} =>
          \A s \in Streams :
             (/\ local[s] # NoSession /\ local'[s] # NoSession
              /\ stream[s].pc # "saving"
              /\ local'[s].map # local[s].map)
             => local'[s].version > local[s].version]_sessionVars

(***************************************************************************)
(* cluster.go:500: a login that fails because the map is still being       *)
(* synchronised asks the player to wait a moment, and gateway_errors.go:75 *)
(* marks the error as retryable.  So after a failed login the player can   *)
(* log in some time later.                                                 *)
(***************************************************************************)
FailedLoginCanBeRetried ==
    \A s \in Streams : At(s, "failed") ~> session = NoSession
=============================================================================
