---------------------------- MODULE MCOperations ----------------------------
(* A running node and what surrounds it, for TLC: the sync driver, the stores, *)
(* the control socket and the provisioning commands.  They share no state     *)
(* here, so a behaviour follows one of them.                                  *)
EXTENDS SyncDriver, Durability, Control, Provisioning

CONSTANTS Followed,      \* bound: the mishaps after which a behaviour is followed
          h1, h2

VARIABLE part

\* Up to a few peers, one sync with each of them in a tick.
AllAtOnce(n) == n

\* Bounds: with one peer, its events and a reconnect; with two, more payloads,
\* one of which finds the queue full.
OneThenThree(n) == IF n = 1 THEN 1 ELSE 3
Two(n) == 2
TwoThenNone(n) == IF n = 1 THEN 2 ELSE 0
OneThenNone(n) == IF n = 1 THEN 1 ELSE 0

\* After any other mishap the stores are followed no further; without a
\* checkpoint, up to the next start.
Explored == mishaps \subseteq Followed \/ (mishaps = {"young"} /\ ~up)

\* Lines that are blank, no text, too long, at the limit, or that lack their end.
Inputs ==
    {<<"put", "\n", " ", "\n", "status", "\n">>,
     <<"put", "put", "put", "put", "\n">>,
     <<" ", "hex", "\n", "peers", "\n", "put">>,
     <<"put", "\n", "latin1", "\n", "put", "\n">>,
     <<"put", "put", "\n", "put", "\n">>}

TwoHosts == <<h1, h2>>

MCInit ==
    /\ Init /\ StoreInit /\ ControlInit /\ ProvisioningInit
    /\ part \in {"driver", "stores", "control", "provisioning"}
    /\ part # "driver" => \A c \in Clusters : Cardinality(peers) <= Cardinality(c)
    /\ part # "control" => \A c \in Client : inbox[c] = <<"put", "put", "\n", "put", "\n">>

MCNext ==
    \/ part = "driver" /\ Next /\ UNCHANGED <<storeVars, controlVars, provisioningVars, part>>
    \/ part = "stores" /\ StoreNext /\ UNCHANGED <<vars, controlVars, provisioningVars, part>>
    \/ part = "control" /\ ControlNext /\ UNCHANGED <<vars, storeVars, provisioningVars, part>>
    \/ part = "provisioning" /\ ProvisioningNext /\ UNCHANGED <<vars, storeVars, controlVars, part>>

MCSpec == MCInit /\ [][MCNext]_<<vars, storeVars, controlVars, provisioningVars, part>>
=============================================================================
