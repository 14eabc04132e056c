-------------------------- MODULE MCPlayerSessions --------------------------
(***************************************************************************)
(* TLC instance of PlayerSessions: the streams are interchangeable.        *)
(***************************************************************************)
EXTENDS PlayerSessions, TLC

MCSymmetry == Permutations(Streams)

\* A second stream that was let in is followed until the last fault and the
\* last version.
MCBound ==
    {"overlap", "unread"} \cap trouble # {} =>
        /\ faults < MaxFaults
        /\ session # NoSession => session.version < MaxVersion
=============================================================================
