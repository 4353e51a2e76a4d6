--------------------------- MODULE MCAvailability ---------------------------
(* What must go on for ever, for TLC: syncs with every peer that is up, and a *)
(* daemon that serves its directory.  They share no state, so a behaviour     *)
(* follows one of them.                                                       *)
EXTENDS PeerManager, Daemon

CONSTANTS p1, p2, p3

VARIABLE part

\* p3 is a later binary.
TwoFormats(p) == IF p = p3 THEN 8 ELSE 7

MCInit ==
    /\ PeerInit /\ DaemonInit
    /\ part \in {"peers", "daemons"}
    /\ part = "daemons" => mode = 0

MCNext ==
    \/ part = "peers" /\ PeerNext /\ UNCHANGED <<daemonVars, part>>
    \/ part = "daemons" /\ DaemonNext /\ UNCHANGED <<peerVars, part>>

MCSpec ==
    /\ MCInit
    /\ [][MCNext]_<<peerVars, daemonVars, part>>
    /\ \/ part = "peers" /\ PeerFairness
       \/ part = "daemons" /\ DaemonFairness

\* SyncedAgain, of the behaviours that follow the peers: one that is up for good is
\* synced with again and again, whatever its back-off and pooled connection were.
PeersSyncedAgain == part = "peers" => SyncedAgain

\* ServedAgain, of the behaviours that follow the daemons: a data directory is
\* served again and again, whatever a killed daemon has left in it.
DirectoryServedAgain == part = "daemons" => ServedAgain
=============================================================================
