----------------------------- MODULE Provisioning -----------------------------
(***************************************************************************)
(* How a cluster gets its keys: `jkaind deploy genesis' and `keygen'       *)
(* (node/src/cli/deploy.rs), `init' (init.rs), `member init' (member.rs),  *)
(* `add-member' (client.rs), and what `run' (run.rs, restart.rs) checks of *)
(* the files it is given.                                                  *)
(*                                                                         *)
(* An operator runs one command at a time.  It may fail at each of its     *)
(* steps -- ssh is lost before or after the remote command took effect,    *)
(* the disk is full, the operator interrupts it -- and can be run again.   *)
(* A seed and its BLS key are drawn together and named by one number; the  *)
(* TLS pin follows from the seed.  A cluster.toml is the key number of     *)
(* each host: addresses, and the hex of its keys, are left out.            *)
(***************************************************************************)
EXTENDS Integers, Sequences

CONSTANTS
    Order,    \* the hosts, as the --member arguments list them
    MaxKeys   \* bound: key pairs that are drawn

VARIABLES
    disk,      \* disk[h]: the files of a host: secret, bls, cluster.toml and checkpoints
    enabled,   \* the hosts whose unit is enabled
    running,   \* running[h]: what its daemon has loaded, or NoFile
    kit,       \* the output directory of `init'
    public,    \* cluster.toml in the output directory of `deploy'
    newcomer,  \* the files of a member to be added, what was printed, and what was submitted
    job,       \* the command in progress, and how far it has come
    drawn      \* the key pairs drawn so far

provisioningVars == <<disk, enabled, running, kit, public, newcomer, job, drawn>>

Host == {Order[i] : i \in DOMAIN Order}

\* At least one member is given, and none of them twice (parse_genesis_args).
ASSUME ProvisioningAssumption ==
    /\ Order \in Seq(Host) /\ Order # <<>>
    /\ \A i, j \in DOMAIN Order : Order[i] = Order[j] => i = j
    /\ MaxKeys \in Nat

NoFile == <<>>
NoJob == [step |-> "none", at |-> 0, keys |-> <<>>, force |-> FALSE]

ProvisioningInit ==
    /\ disk = [h \in Host |-> [secret |-> 0, bls |-> 0, cluster |-> NoFile, checkpoints |-> NoFile]]
    /\ kit = [secret |-> [h \in Host |-> 0], bls |-> [h \in Host |-> 0], cluster |-> NoFile]
    /\ enabled = {} /\ running = [h \in Host |-> NoFile] /\ public = NoFile
    /\ newcomer = [secret |-> 0, bls |-> 0, cluster |-> NoFile, printed |-> 0, admitted |-> 0]
    /\ job = NoJob /\ drawn = 0

\* A command starts, ends, fails, and goes from one host to the next.
Begin(step) ==
    /\ job = NoJob
    /\ \E force \in BOOLEAN : job' = [step |-> step, at |-> 1, keys |-> <<>>, force |-> force]

Fails == job # NoJob /\ job' = NoJob

Onward(keys, then) ==
    job' = IF job.at < Len(Order) THEN [job EXCEPT !.at = @ + 1, !.keys = keys]
           ELSE [job EXCEPT !.at = 1, !.keys = keys, !.step = then]

\* generate_member_material, and the same in init and in member init.
Draws == drawn < MaxKeys /\ drawn' = drawn + 1

\* cluster.toml, from the keys collected in the order of the hosts.
Assembled(keys) == [h \in Host |-> keys[CHOOSE i \in DOMAIN Order : Order[i] = h]]

------------------------------------------------------------------------------
\* What write_secret_file, called for the seed and then for the BLS key, can leave
\* of the pair: each file is replaced by a rename.
Renamed(secret, bls, key) == {<<secret, bls>>, <<key, bls>>, <<key, key>>}

\* The same for write_secret_bytes, which removes the file and creates it again.
Recreated(secret, bls, key) == Renamed(secret, bls, key) \cup {<<0, bls>>, <<key, 0>>}

\* A variant that hands the operator's --force on to keygen.
KeygenRemoteForced ==
    LET h == Order[job.at]
        d == disk[h]
    IN /\ job.step = "keygen"
       /\ job.force \/ (d.secret = 0 /\ d.bls = 0 /\ d.checkpoints = NoFile)
       /\ Draws
       /\ disk' = [disk EXCEPT ![h].secret = drawn', ![h].bls = drawn']
       /\ Onward(Append(job.keys, drawn'), "assemble")
       /\ UNCHANGED <<enabled, running, kit, public, newcomer>>

\* keygen, on the host and without --force: it replaces neither secret.
Keygen(d) == d.secret = 0 /\ d.bls = 0

\* install_binary, prepare_host, and keygen_remote with keygen on the host.  --force
\* lifts the checks of keygen_remote, and is not handed on.
KeygenRemote ==
    LET h == Order[job.at]
        d == disk[h]
        checked == job.force \/ (d.secret = 0 /\ d.bls = 0 /\ d.checkpoints = NoFile)
    IN /\ job.step = "keygen"
       /\ \/ ~(checked /\ Keygen(d)) /\ Fails /\ UNCHANGED <<disk, drawn>>
          \/ /\ checked /\ Keygen(d)
             /\ Draws
             /\ \E left \in Renamed(d.secret, d.bls, drawn') :
                   /\ disk' = [disk EXCEPT ![h].secret = left[1], ![h].bls = left[2]]
                   /\ \/ Fails
                      \/ left = <<drawn', drawn'>> /\ Onward(Append(job.keys, drawn'), "assemble")
       /\ UNCHANGED <<enabled, running, kit, public, newcomer>>

\* assemble_config.
AssembleConfig ==
    /\ job.step = "assemble"
    /\ public' = Assembled(job.keys)
    /\ job' = [job EXCEPT !.step = "push"]
    /\ UNCHANGED <<disk, enabled, running, kit, newcomer, drawn>>

\* push_config and install_service: the copy in the output directory goes to every
\* host, and its unit is written, before any is started.
PushConfig ==
    /\ job.step = "push"
    /\ disk' = [disk EXCEPT ![Order[job.at]].cluster = public]
    /\ \/ Onward(job.keys, "start")
       \/ Fails
    /\ UNCHANGED <<enabled, running, kit, public, newcomer, drawn>>

\* start_service: `systemctl enable --now' starts a unit, and leaves one that runs alone.
StartService ==
    /\ job.step = "start"
    /\ enabled' = enabled \cup {Order[job.at]}
    /\ \/ Onward(job.keys, "health")
       \/ Fails
    /\ UNCHANGED <<disk, running, kit, public, newcomer, drawn>>

\* await_cluster_healthy: each host has answered, or the deadline has passed.
AwaitClusterHealthy ==
    /\ job.step = "health"
    /\ \/ running[Order[job.at]] # NoFile /\ Onward(job.keys, "done")
       \/ Fails
    /\ UNCHANGED <<disk, enabled, running, kit, public, newcomer, drawn>>

\* print_summary.
DeployEnds ==
    /\ job.step = "done" /\ job' = NoJob
    /\ UNCHANGED <<disk, enabled, running, kit, public, newcomer, drawn>>

------------------------------------------------------------------------------
\* init, of one member: both secrets are drawn and written.
InitMember ==
    LET h == Order[job.at]
    IN /\ job.step = "init"
       /\ \/ ~job.force /\ (kit.secret[h] # 0 \/ kit.bls[h] # 0)
             /\ Fails /\ UNCHANGED <<kit, drawn>>
          \/ /\ job.force \/ (kit.secret[h] = 0 /\ kit.bls[h] = 0)
             /\ Draws
             /\ \E left \in Recreated(kit.secret[h], kit.bls[h], drawn') :
                   /\ kit' = [kit EXCEPT !.secret[h] = left[1], !.bls[h] = left[2]]
                   /\ \/ Fails
                      \/ left = <<drawn', drawn'>> /\ Onward(Append(job.keys, drawn'), "kit")
       /\ UNCHANGED <<disk, enabled, running, public, newcomer>>

\* init, its last step: cluster.toml of all members.
InitConfig ==
    /\ job.step = "kit"
    /\ kit' = [kit EXCEPT !.cluster = Assembled(job.keys)] /\ job' = NoJob
    /\ UNCHANGED <<disk, enabled, running, public, newcomer, drawn>>

\* "copy to VPS": the operator copies a member's files, finished or not, and starts
\* its unit -- once no host has a secret of an earlier genesis any more.
CopyToHost(h) ==
    /\ job = NoJob /\ h \notin enabled
    /\ kit.secret[h] # 0 /\ kit.bls[h] # 0 /\ kit.cluster # NoFile
    /\ \A g \in Host : disk[g].secret \in {0, kit.secret[g]}
    /\ disk' = [disk EXCEPT ![h].secret = kit.secret[h], ![h].bls = kit.bls[h], ![h].cluster = kit.cluster]
    /\ enabled' = enabled \cup {h}
    /\ UNCHANGED <<running, kit, public, newcomer, job, drawn>>

------------------------------------------------------------------------------
\* member init, its checks: the genesis config is there and, unless forced, no secret
\* is.  Nobody forces it any more once the member has been submitted.
MemberInit ==
    /\ job.step = "member"
    /\ {public, kit.cluster} # {NoFile} /\ newcomer.admitted = 0
    /\ \/ ~job.force /\ (newcomer.secret # 0 \/ newcomer.bls # 0) /\ Fails /\ UNCHANGED <<newcomer, drawn>>
       \/ /\ job.force \/ (newcomer.secret = 0 /\ newcomer.bls = 0)
          /\ Draws
          /\ newcomer' = [newcomer EXCEPT !.printed = 0]
          /\ job' = [job EXCEPT !.step = "write", !.keys = <<drawn'>>]
    /\ UNCHANGED <<disk, enabled, running, kit, public>>

\* A variant that submits the new member before its secrets are on the disk.
MemberWritesAfter ==
    LET key == job.keys[1]
    IN /\ job.step = "write"
       /\ \E left \in Recreated(newcomer.secret, newcomer.bls, key), submits \in BOOLEAN :
             /\ newcomer' = [newcomer EXCEPT !.secret = left[1], !.bls = left[2], !.printed = key,
                                             !.admitted = IF submits THEN key ELSE 0]
             /\ Fails
       /\ UNCHANGED <<disk, enabled, running, kit, public, drawn>>

\* member init, from the secrets on: they are written, then cluster-<id>.toml, then
\* the command for add-member is printed, and with --socket the operation submitted.
MemberWrites ==
    LET key == job.keys[1]
    IN /\ job.step = "write"
       /\ \E left \in Recreated(newcomer.secret, newcomer.bls, key), saved, submits \in BOOLEAN,
             genesis \in {public, kit.cluster} \ {NoFile} :
             /\ left # <<key, key>> => ~saved
             /\ ~saved => ~submits
             /\ newcomer' = [newcomer EXCEPT !.secret = left[1], !.bls = left[2],
                                             !.cluster = IF saved THEN genesis ELSE @,
                                             !.printed = IF saved THEN key ELSE 0,
                                             !.admitted = IF submits THEN key ELSE 0]
             /\ Fails
       /\ UNCHANGED <<disk, enabled, running, kit, public, drawn>>

\* add-member --bls-secret, with the keys that were printed: the BLS secret must derive
\* the BLS key.
AddMember ==
    /\ job = NoJob /\ newcomer.printed # 0 /\ newcomer.admitted = 0
    /\ newcomer.bls = newcomer.printed
    /\ newcomer' = [newcomer EXCEPT !.admitted = newcomer.printed]
    /\ UNCHANGED <<disk, enabled, running, kit, public, job, drawn>>

------------------------------------------------------------------------------
\* to_cluster_config: no two members have a key in common.
ToClusterConfig(cluster) == \A g, h \in Host : cluster[g] = cluster[h] => g = h

\* run_node: the secrets must derive the keys that cluster.toml has for the host.
IdentityMatches(h, d) == d.cluster # NoFile /\ d.secret = d.cluster[h] /\ d.bls = d.cluster[h]

\* check_own_key: so must those in the roster of a checkpoint that is restored.
CheckOwnKey(h, d) == d.checkpoints # NoFile => d.checkpoints[h] = d.secret

\* The unit that render_unit writes: it is started whenever its daemon does not run,
\* after a crash or a reboot too.
Supervised(h) == h \in enabled /\ running[h] = NoFile

\* run, and the checks of run_node on its files.
Run(h) ==
    LET d == disk[h]
    IN /\ Supervised(h)
       /\ IdentityMatches(h, d) /\ ToClusterConfig(d.cluster) /\ CheckOwnKey(h, d)
       /\ running' = [running EXCEPT ![h] = [cluster |-> d.cluster, restored |-> d.checkpoints]]
       /\ UNCHANGED <<disk, enabled, kit, public, newcomer, job, drawn>>

\* All of them together sign a checkpoint, and one has stored it.
StoreCheckpoint(h) ==
    /\ \A g \in Host : running[g] # NoFile
    /\ \A g \in Host : running[g].cluster = running[h].cluster
    /\ disk' = [disk EXCEPT ![h].checkpoints = running[h].cluster]
    /\ UNCHANGED <<enabled, running, kit, public, newcomer, job, drawn>>

CrashDaemon(h) ==
    /\ running[h] # NoFile /\ running' = [running EXCEPT ![h] = NoFile]
    /\ UNCHANGED <<disk, enabled, kit, public, newcomer, job, drawn>>

\* The operator stops a unit, and may then remove its secrets or its data.
Disable(h) ==
    /\ job = NoJob /\ h \in enabled
    /\ enabled' = enabled \ {h} /\ running' = [running EXCEPT ![h] = NoFile]
    /\ UNCHANGED <<disk, kit, public, newcomer, job, drawn>>

RemoveSecrets(h) ==
    /\ job = NoJob /\ h \notin enabled
    /\ disk' = [disk EXCEPT ![h].secret = 0, ![h].bls = 0]
    /\ UNCHANGED <<enabled, running, kit, public, newcomer, job, drawn>>

WipeData(h) ==
    /\ job = NoJob /\ h \notin enabled
    /\ disk' = [disk EXCEPT ![h].checkpoints = NoFile]
    /\ UNCHANGED <<enabled, running, kit, public, newcomer, job, drawn>>

ProvisioningNext ==
    \/ /\ \E step \in {"keygen", "init", "member"} : Begin(step)
       /\ UNCHANGED <<disk, enabled, running, kit, public, newcomer, drawn>>
    \/ Fails /\ UNCHANGED <<disk, enabled, running, kit, public, newcomer, drawn>>
    \/ KeygenRemote \/ AssembleConfig \/ PushConfig \/ StartService \/ AwaitClusterHealthy \/ DeployEnds
    \/ InitMember \/ InitConfig
    \/ MemberInit \/ MemberWrites \/ AddMember
    \/ \E h \in Host :
          \/ CopyToHost(h) \/ Run(h) \/ StoreCheckpoint(h) \/ CrashDaemon(h)
          \/ Disable(h) \/ RemoveSecrets(h) \/ WipeData(h)

------------------------------------------------------------------------------
\* deploy.rs: --force must not "silently conflict"; restart.rs: a foreign checkpoint
\* would "silently stall consensus".  Whatever command was interrupted where, and
\* run again how, the daemons that run have loaded one and the same cluster.toml,
\* and restored nothing but checkpoints of that cluster.
OneGenesis ==
    \A g, h \in Host : running[g] # NoFile /\ running[h] # NoFile =>
        /\ running[g].cluster = running[h].cluster
        /\ running[g].restored \in {NoFile, running[g].cluster}

\* The key with which a cluster admits a member is one whose secrets the member has,
\* wherever member init was interrupted before: they are written first.
AdmittedKeyKept ==
    newcomer.admitted # 0 => newcomer.secret = newcomer.admitted /\ newcomer.bls = newcomer.admitted
=============================================================================
