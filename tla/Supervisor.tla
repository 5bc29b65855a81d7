------------------------------- MODULE Supervisor -------------------------------
(***************************************************************************)
(* DockerWorkerSupervisor (crates/dispatcher/src/lib.rs): the task that    *)
(* every five seconds walks over the replicas of the managed queues and    *)
(* brings the container of each to its configuration.  Every call to the   *)
(* Docker daemon is one action, and between two of them the daemon's state *)
(* may change: a container stops or is removed by hand, a container that   *)
(* is not labelled as Maqistor's takes a name, an image tag is moved.      *)
(*                                                                         *)
(* An env entry or a bind mount of a container is a "setting": ensure      *)
(* treats both the same way.  The settings an image brings along are left  *)
(* out, ensure only asks whether the wanted ones are there.                *)
(***************************************************************************)
EXTENDS Integers, Sequences

CONSTANTS
    QueueOrder,   \* the managed queues, in the order of the configuration
    Sanitized,    \* container_name's form of each queue name
    Configs,      \* the configurations the server is started with
    Tags, Images, Settings,
    None,         \* no image, no container
    Registry,     \* the image a pull of a tag brings
    MaxEdits,     \* bound: changes made to the daemon by hand
    MaxFaults,    \* bound: Docker calls answered with an error
    MaxRestarts   \* bound: restarts of the server

Container == [image: Images, settings: SUBSET Settings, managed: BOOLEAN, running: BOOLEAN]
Queues == {QueueOrder[i] : i \in DOMAIN QueueOrder}

\* What AppConfig::validate accepts: queue names are unique and replicas
\* positive.  Nothing is asked of the names container_name makes of them.
ASSUME ConfigAssumption ==
    /\ \A i, j \in DOMAIN QueueOrder : QueueOrder[i] = QueueOrder[j] => i = j
    /\ QueueOrder \in Seq(Queues) /\ Len(QueueOrder) > 0
    /\ Configs \subseteq [Queues -> [tag: Tags, settings: SUBSET Settings,
                                     replicas: Nat \ {0}]]
    /\ Registry \in [Tags -> Images] /\ None \notin Images \cup Container
    /\ MaxEdits \in Nat /\ MaxFaults \in Nat /\ MaxRestarts \in Nat

VARIABLES
    config,      \* the configuration of the running process
    cache,       \* desired_images
    at,          \* the replica the pass is at: index of its queue, ordinal
    step,        \* what the pass does next for it, or "sleep"
    containers,  \* the daemon's containers by name
    local,       \* the daemon's images by tag
    missing,     \* history: the names this process removed a container of, and
                 \* which have had none since
    moved,       \* history: a tag this process had resolved was moved
    edits, faults, restarts

memory == <<config, cache>>
history == <<missing, moved>>
bounds == <<edits, faults, restarts>>
vars == <<memory, at, step, containers, local, history, bounds>>

\* The replicas of the current configuration, and their order in a pass.
Replicas == UNION {{[i |-> i, ordinal |-> n - 1] : n \in 1..config[QueueOrder[i]].replicas} :
                     i \in DOMAIN QueueOrder}
Precedes(p, r) == p.i < r.i \/ (p.i = r.i /\ p.ordinal <= r.ordinal)

Desired(p) == config[QueueOrder[p.i]]

\* container_name
Name(p) == <<Sanitized[QueueOrder[p.i]], p.ordinal>>
Names ==
    {Sanitized[q] : q \in Queues}
      \X UNION {UNION {0..(c[q].replicas - 1) : q \in Queues} : c \in Configs}

Init ==
    /\ config \in Configs
    /\ cache = [t \in Tags |-> None] /\ local = [t \in Tags |-> None]
    /\ containers = [n \in Names |-> None]
    /\ at = [i |-> 1, ordinal |-> 0] /\ step = "sleep"
    /\ missing = {} /\ moved = FALSE
    /\ edits = 0 /\ faults = 0 /\ restarts = 0

Fault ==
    /\ faults < MaxFaults
    /\ faults' = faults + 1
    /\ UNCHANGED <<edits, restarts>>

\* A call is answered with an error, by its nature or for no visible reason.
Errs(rejected) == (rejected /\ UNCHANGED bounds) \/ Fault

-----------------------------------------------------------------------------
(***************************************************************************)
(* spawn and reconcile                                                     *)
(***************************************************************************)
\* The pass is over.
Sleep == step' = "sleep" /\ at' = [i |-> 1, ordinal |-> 0]

\* ensure has returned Ok: the next replica.
Advance ==
    LET more == at.ordinal + 1 < Desired(at).replicas IN
    IF ~more /\ at.i = Len(QueueOrder) THEN Sleep
    ELSE /\ at' = IF more THEN [at EXCEPT !.ordinal = @ + 1]
                          ELSE [i |-> at.i + 1, ordinal |-> 0]
         /\ step' = "resolve"

\* Mutant of EnsureFailed: reconcile goes on with the next replica.
EnsureFailedGoesOn == Advance

\* ensure has returned an error, which ends the pass.
EnsureFailed == Sleep

BeginPass ==
    /\ step = "sleep"
    /\ step' = "resolve"
    /\ UNCHANGED <<memory, at, containers, local, history, bounds>>

-----------------------------------------------------------------------------
(***************************************************************************)
(* resolve_image_id                                                        *)
(***************************************************************************)
Tag == Desired(at).tag

Resolved ==
    /\ cache' = [cache EXCEPT ![Tag] = local[Tag]]
    /\ step' = "inspect"
    /\ UNCHANGED at

\* The cached id, or the id of the local image; otherwise the image is pulled.
ResolveImage ==
    /\ step = "resolve"
    /\ \/ /\ cache[Tag] # None
          /\ step' = "inspect"
          /\ UNCHANGED <<cache, at, bounds>>
       \/ /\ cache[Tag] = None /\ local[Tag] # None
          /\ Resolved
          /\ UNCHANGED bounds
       \/ /\ cache[Tag] = None
          /\ Errs(local[Tag] = None)
          /\ step' = "pull"
          /\ UNCHANGED <<cache, at>>
    /\ UNCHANGED <<config, containers, local, history>>

Pull ==
    /\ step = "pull"
    /\ \/ /\ local' = [local EXCEPT ![Tag] = Registry[Tag]]
          /\ step' = "pulled"
          /\ UNCHANGED <<at, bounds>>
       \/ Fault /\ EnsureFailed /\ UNCHANGED local
    /\ UNCHANGED <<memory, containers, history>>

InspectPulled ==
    /\ step = "pulled"
    /\ \/ Resolved /\ UNCHANGED bounds
       \/ Fault /\ EnsureFailed /\ UNCHANGED cache
    /\ UNCHANGED <<config, containers, local, history>>

-----------------------------------------------------------------------------
(***************************************************************************)
(* ensure                                                                  *)
(***************************************************************************)
\* Mutant of Drifted: a changed image is not noticed.
DriftedSettings(c, p) == ~(Desired(p).settings \subseteq c.settings)

\* Mutant of Drifted: a setting that is no longer wanted counts as well.
DriftedExact(c, p) ==
    c.image # cache[Desired(p).tag] \/ Desired(p).settings # c.settings

\* need_update
Drifted(c, p) ==
    c.image # cache[Desired(p).tag] \/ ~(Desired(p).settings \subseteq c.settings)

\* An error of the call is taken for a missing container.
InspectContainer ==
    LET found == containers[Name(at)] IN
    /\ step = "inspect"
    /\ \/ /\ found # None
          /\ IF Drifted(found, at) /\ ~found.managed THEN EnsureFailed
             ELSE /\ step' = IF Drifted(found, at) THEN "remove" ELSE "start_found"
                  /\ UNCHANGED at
          /\ UNCHANGED bounds
       \/ /\ Errs(found = None)
          /\ step' = "create"
          /\ UNCHANGED at
    /\ UNCHANGED <<memory, containers, local, history>>

\* The result of starting a container that was found is ignored.
StartFound ==
    /\ step = "start_found"
    /\ \/ /\ containers' = IF containers[Name(at)] = None THEN containers
                           ELSE [containers EXCEPT ![Name(at)].running = TRUE]
          /\ UNCHANGED bounds
       \/ Fault /\ UNCHANGED containers
    /\ Advance
    /\ UNCHANGED <<memory, local, history>>

\* By name, forced.
Remove ==
    /\ step = "remove"
    /\ \/ /\ containers[Name(at)] # None
          /\ containers' = [containers EXCEPT ![Name(at)] = None]
          /\ missing' = missing \cup {Name(at)}
          /\ step' = "create"
          /\ UNCHANGED <<at, bounds>>
       \/ /\ Errs(containers[Name(at)] = None)
          /\ EnsureFailed
          /\ UNCHANGED <<containers, missing>>
    /\ UNCHANGED <<memory, local, moved>>

\* From the tag, whatever image it names now; the name must be free.  The daemon
\* is taken to report env and mounts as it was given them.
Create ==
    /\ step = "create"
    /\ \/ /\ containers[Name(at)] = None /\ local[Tag] # None
          /\ containers' = [containers EXCEPT ![Name(at)] =
                              [image |-> local[Tag], settings |-> Desired(at).settings,
                               managed |-> TRUE, running |-> FALSE]]
          /\ missing' = missing \ {Name(at)}
          /\ step' = "start"
          /\ UNCHANGED <<at, bounds>>
       \/ /\ Errs(containers[Name(at)] # None)
          /\ EnsureFailed
          /\ UNCHANGED <<containers, missing>>
    /\ UNCHANGED <<memory, local, moved>>

Start ==
    /\ step = "start"
    /\ \/ /\ containers[Name(at)] # None
          /\ containers' = [containers EXCEPT ![Name(at)].running = TRUE]
          /\ Advance
          /\ UNCHANGED bounds
       \/ /\ Errs(containers[Name(at)] = None)
          /\ EnsureFailed
          /\ UNCHANGED containers
    /\ UNCHANGED <<memory, local, history>>

-----------------------------------------------------------------------------
(***************************************************************************)
(* The world around                                                        *)
(***************************************************************************)
Edit ==
    /\ edits < MaxEdits
    /\ edits' = edits + 1
    /\ UNCHANGED <<memory, at, step, faults, restarts>>

\* A container exits, is removed, or its name is taken by another one.
EditContainer(n) ==
    /\ Edit
    /\ \/ /\ containers[n] # None /\ containers[n].running
          /\ containers' = [containers EXCEPT ![n].running = FALSE]
       \/ /\ containers[n] # None
          /\ containers' = [containers EXCEPT ![n] = None]
       \/ /\ containers[n] = None
          /\ \E image \in Images :
               containers' = [containers EXCEPT ![n] =
                 [image |-> image, settings |-> {}, managed |-> FALSE, running |-> TRUE]]
    /\ missing' = missing \ {n}
    /\ UNCHANGED <<local, moved>>

\* A tag is moved to another image.
MoveTag(t) ==
    /\ Edit
    /\ \E image \in Images \ {local[t]} : local' = [local EXCEPT ![t] = image]
    /\ moved' = (moved \/ cache[t] # None)
    /\ UNCHANGED <<containers, missing>>

\* The server is started again, with the same or another configuration.
Restart ==
    /\ restarts < MaxRestarts
    /\ restarts' = restarts + 1
    /\ config' \in Configs
    /\ cache' = [t \in Tags |-> None]
    /\ Sleep
    /\ missing' = {} /\ moved' = FALSE
    /\ UNCHANGED <<containers, local, edits, faults>>

Supervise ==
    \/ BeginPass
    \/ ResolveImage
    \/ Pull
    \/ InspectPulled
    \/ InspectContainer
    \/ StartFound
    \/ Remove
    \/ Create
    \/ Start

Next ==
    \/ Supervise
    \/ \E n \in Names : EditContainer(n)
    \/ \E t \in Tags : MoveTag(t)
    \/ Restart

Spec == Init /\ [][Next]_vars

\* The task is polled, and the daemon answers every call.
FairSpec == Spec /\ WF_vars(Supervise)

-----------------------------------------------------------------------------
(***************************************************************************)
(* Properties                                                              *)
(***************************************************************************)
\* A process never leaves two replicas without the containers it removed, whatever
\* Docker calls fail, in however many passes, and whatever is put in place, taken
\* away or stopped by hand between the calls: an error of ensure ends the pass,
\* and the next one comes to the replica that is missing before it comes to any
\* other that is to be replaced.  It does not hold once a tag that the process
\* has resolved is moved.
OneMissingAtATime == ~moved => \A m, n \in missing : m = n

\* The container of a replica is there, as configured, and running.
AsConfigured(p) ==
    LET c == containers[Name(p)] IN
    /\ c # None
    /\ c.image = local[Desired(p).tag]
    /\ Desired(p).settings \subseteq c.settings
    /\ c.running

\* A container that is not Maqistor's and not as configured holds the name of
\* this replica or of one before it: ensure fails there and ends the pass.
Obstructed(p) ==
    \E r \in Replicas :
        /\ Precedes(r, p)
        /\ containers[Name(r)] # None
        /\ ~containers[Name(r)].managed /\ Drifted(containers[Name(r)], r)

\* The process has resolved the tag of a replica, and the tag was moved since.
Moved(p) == cache[Desired(p).tag] \notin {None, local[Desired(p).tag]}

\* The container of a replica is as configured, and nothing that was read before
\* it became so is about to be acted on.
Settled(p) ==
    /\ AsConfigured(p) /\ ~Moved(p)
    /\ ~(step = "remove" /\ Name(at) = Name(p))
    /\ ~(step = "pull" /\ Tag = Desired(p).tag)

\* A container that is as configured is left alone by every later pass, whatever
\* errors ensure meets on the way, unless somebody changes the daemon's state or
\* the server is restarted.  One error is excepted: resolve_image_id takes it
\* for a missing image and pulls, which may move the tag.
LeftAlone ==
    [][\A p \in Replicas :
         Settled(p) /\ UNCHANGED <<edits, restarts>> => Settled(p)' \/ step' = "pull"]_vars

\* Once the changes, errors and restarts are over, every replica ends up with
\* a running container of its configured image, env and mounts that is left
\* alone from then on, unless its name is obstructed or its tag was moved
\* under the running process.
Converges ==
    <>[](\A p \in Replicas : AsConfigured(p) \/ Obstructed(p) \/ Moved(p))
=============================================================================
