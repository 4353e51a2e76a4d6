-------------------------------- MODULE Daemon --------------------------------
(***************************************************************************)
(* Daemon processes on one host that are given the same data directory:    *)
(* how `jkaind run' (node/src/cli/run.rs) takes it, serves and leaves it,  *)
(* with the format stamp (node/src/format.rs), the lock (node/src/lock.rs) *)
(* and the control socket (node/src/control.rs).                           *)
(*                                                                         *)
(* A process may be killed at any step: the operating system releases its  *)
(* lock and its port, and its files stay.  What is in the stores is in     *)
(* Durability; the requests on a control connection are in Control.        *)
(***************************************************************************)
EXTENDS Integers, FiniteSets

CONSTANTS
    Process,      \* the daemons that are started on the directory
    FormatOf(_),  \* CURRENT_FORMAT of the binary of a process
    None,
    MaxKills      \* bound: kills

ASSUME DaemonAssumption ==
    /\ None \notin Process
    /\ \A p \in Process : FormatOf(p) \notin {None, 0}
    /\ MaxKills \in Nat

VARIABLES
    at,           \* at[p]: how far run_node or run_until_shutdown of p has come
    stop,         \* stop[p]: the stop flag, set by a signal
    format,        \* FORMAT_VERSION: None, Empty or a format
    holder,       \* who holds the lock of the directory
    port,         \* who has bound the gossip port
    socket,       \* the listener that the file of the control socket leads to
    data,         \* the format of what is in the stores
    stamps,       \* history: the formats that were ever written to FORMAT_VERSION
    kills

daemonVars == <<at, stop, format, holder, port, socket, data, stamps, kills>>

Empty == 0   \* the stamp file has been created and not written

DaemonInit ==
    /\ at = [p \in Process |-> "off"] /\ stop = [p \in Process |-> FALSE]
    /\ format = None /\ holder = None /\ port = None /\ socket = None /\ data = None
    /\ stamps = {} /\ kills = 0

Go(p, place) == at' = [at EXCEPT ![p] = place]

\* The process ends: its lock and its port are free again.
Ends(p) ==
    /\ Go(p, "off")
    /\ stop' = [stop EXCEPT ![p] = FALSE]
    /\ holder' = IF holder = p THEN None ELSE holder
    /\ port' = IF port = p THEN None ELSE port

------------------------------------------------------------------------------
\* run_node, up to the data directory: what can fail before it is in Provisioning.
Start(p) ==
    /\ at[p] = "off" /\ Go(p, "check")
    /\ UNCHANGED <<stop, format, holder, port, socket, data, stamps, kills>>

\* A variant that takes any stamp for one of its own format.
CheckFormatUnread(p) ==
    /\ at[p] = "check"
    /\ Go(p, IF format = None THEN "create" ELSE "lock")
    /\ UNCHANGED <<stop, format, holder, port, socket, data, stamps, kills>>

\* check_or_init_data_dir: a stamp that is there must be this binary's ...
CheckFormat(p) ==
    /\ at[p] = "check"
    /\ \/ format = FormatOf(p) /\ Go(p, "lock") /\ UNCHANGED <<stop, holder, port>>
       \/ format = None /\ Go(p, "create") /\ UNCHANGED <<stop, holder, port>>
       \/ format \notin {None, FormatOf(p)} /\ Ends(p)
    /\ UNCHANGED <<format, socket, data, stamps, kills>>

\* ... and if there was none, fs::write creates the file, or truncates the one that
\* another process has created since ...
CreateStamp(p) ==
    /\ at[p] = "create" /\ Go(p, "stamp")
    /\ format' = Empty
    /\ UNCHANGED <<stop, holder, port, socket, data, stamps, kills>>

\* ... and then writes to it.
StampFormat(p) ==
    /\ at[p] = "stamp" /\ Go(p, "lock")
    /\ format' = FormatOf(p) /\ stamps' = stamps \cup {FormatOf(p)}
    /\ UNCHANGED <<stop, holder, port, socket, data, kills>>

\* acquire_data_dir_lock: who does not get the lock at once gives up.
AcquireLock(p) ==
    /\ at[p] = "lock"
    /\ \/ holder = None /\ holder' = p /\ Go(p, "open") /\ UNCHANGED <<stop, port>>
       \/ holder # None /\ Ends(p)
    /\ UNCHANGED <<format, socket, data, stamps, kills>>

\* Storage, EventLog and StateDb are opened; restart recovery that refuses what
\* it finds ends the process.
OpenStores(p) ==
    /\ at[p] = "open"
    /\ data' = IF data = None THEN FormatOf(p) ELSE data
    /\ \/ Go(p, "bind") /\ UNCHANGED <<stop, holder, port>>
       \/ Ends(p)
    /\ UNCHANGED <<format, socket, stamps, kills>>

\* The gossip and the reconnect listener.
BindPorts(p) ==
    /\ at[p] = "bind"
    /\ \/ port = None /\ port' = p /\ Go(p, "socket") /\ UNCHANGED <<stop, holder>>
       \/ port # None /\ Ends(p)
    /\ UNCHANGED <<format, socket, data, stamps, kills>>

\* control::bind replaces a file that a killed process has left.
TakesSocket(p) == socket' = p

\* A variant that takes any socket file for that of a running daemon.
BindSocketOnce(p) ==
    /\ at[p] = "socket"
    /\ \/ socket = None /\ TakesSocket(p) /\ Go(p, "serve") /\ UNCHANGED <<stop, holder, port>>
       \/ socket # None /\ Ends(p) /\ UNCHANGED socket
    /\ UNCHANGED <<format, data, stamps, kills>>

\* The control socket; the tasks of run_until_shutdown start.
BindSocket(p) ==
    /\ at[p] = "socket"
    /\ TakesSocket(p) /\ Go(p, "serve")
    /\ UNCHANGED <<stop, format, holder, port, data, stamps, kills>>

\* wait_for_shutdown_signal.
Signal(p) ==
    /\ at[p] = "serve" /\ stop' = [stop EXCEPT ![p] = TRUE]
    /\ UNCHANGED <<at, format, holder, port, socket, data, stamps, kills>>

\* run_until_stopped returns after the sync round in flight, and the listeners are
\* closed: driver and accept loops read the flag at each turn.
Drain(p) ==
    /\ at[p] = "serve" /\ stop[p] /\ Go(p, "drained")
    /\ port' = None
    /\ UNCHANGED <<stop, format, holder, socket, data, stamps, kills>>

\* A variant that gives up the directory before it removes its socket.
FlushStreamsUnlocked(p) ==
    /\ at[p] = "drained" /\ Go(p, "flushed")
    /\ holder' = None
    /\ UNCHANGED <<stop, format, port, socket, data, stamps, kills>>

\* flush_streams, for at most five seconds.
FlushStreams(p) ==
    /\ at[p] = "drained" /\ Go(p, "flushed")
    /\ UNCHANGED <<stop, format, holder, port, socket, data, stamps, kills>>

\* The control task is aborted and the socket file removed, whatever it leads to ...
RemoveSocket(p) ==
    /\ at[p] = "flushed" /\ Go(p, "removed")
    /\ socket' = None
    /\ UNCHANGED <<stop, format, holder, port, data, stamps, kills>>

\* ... and the lock goes with run_node's frame.
Exit(p) ==
    /\ at[p] = "removed" /\ Ends(p)
    /\ UNCHANGED <<format, socket, data, stamps, kills>>

Kill(p) ==
    /\ at[p] # "off" /\ kills < MaxKills /\ kills' = kills + 1
    /\ Ends(p)
    /\ UNCHANGED <<format, socket, data, stamps>>

Works(p) ==
    \/ Start(p) \/ CheckFormat(p) \/ CreateStamp(p) \/ StampFormat(p) \/ AcquireLock(p)
    \/ BindPorts(p) \/ BindSocket(p) \/ Drain(p) \/ FlushStreams(p) \/ RemoveSocket(p) \/ Exit(p)
    \/ OpenStores(p)

DaemonNext == \E p \in Process : Works(p) \/ Signal(p) \/ Kill(p)

DaemonSpec == DaemonInit /\ [][DaemonNext]_daemonVars

\* A process that runs makes its steps, and the supervisor starts it again when
\* it has ended; what is in the stores is not refused for ever.
DaemonFairness ==
    \A p \in Process :
        WF_daemonVars(Works(p)) /\ SF_daemonVars(OpenStores(p) /\ at'[p] = "bind")

------------------------------------------------------------------------------
\* A daemon that serves can be reached: from its bind until it leaves, the socket
\* file leads to it, whatever the others on the directory do that start, give
\* up, leave or were killed.
SocketReaches == \A p \in Process : at[p] \in {"serve", "drained", "flushed"} => socket = p

\* format.rs: "the node refuses to run against an incompatible data directory".
\* The stores are only ever open in a process whose binary has their format --
\* unless binaries of two formats raced for the stamp of a new directory, which is
\* checked before the lock is taken.
FormatKept ==
    (\A f, g \in stamps : f = g)
        => \A p \in Process : at[p] \in {"bind", "socket", "serve"} => FormatOf(p) = data

\* Whatever a kill has left behind, lock file, stamp, socket file or stores, the
\* directory is served again and again -- unless it fell between the two halves
\* of the first stamp, after which every start is refused.
ServedAgain == []<>(\E p \in Process : at[p] = "serve") \/ <>[](format = Empty)
=============================================================================
