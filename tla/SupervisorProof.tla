--------------------------- MODULE SupervisorProof ---------------------------
(***************************************************************************)
(* Theorems about Supervisor, for any number of queues, replicas, images   *)
(* and configurations, and of changes by hand, errors and restarts.        *)
(***************************************************************************)
EXTENDS Supervisor, TLAPS

Steps == {"sleep", "resolve", "pull", "pulled", "inspect", "start_found", "remove",
          "create", "start"}

TypeInv ==
    /\ config \in Configs
    /\ cache \in [Tags -> Images \cup {None}] /\ local \in [Tags -> Images \cup {None}]
    /\ containers \in [Names -> Container \cup {None}]
    /\ at \in Replicas /\ step \in Steps
    /\ edits \in Nat /\ restarts \in Nat

\* The image of a replica is known before its container is looked at.
ImageKnown ==
    /\ step = "pulled" => local[Tag] # None
    /\ step \in {"inspect", "start_found", "remove", "create", "start"} => cache[Tag] # None

\* An image is pulled only while its id is not known.
Unresolved == step \in {"pull", "pulled"} => cache[Tag] = None

SupervisorInv == TypeInv /\ ImageKnown /\ Unresolved

-----------------------------------------------------------------------------
(***************************************************************************)
(* Replicas and their names                                                *)
(***************************************************************************)
ReplicasOf(c) ==
    UNION {{[i |-> i, ordinal |-> n - 1] : n \in 1..c[QueueOrder[i]].replicas} :
             i \in DOMAIN QueueOrder}

LEMMA ReplicasNow == Replicas = ReplicasOf(config) /\ Replicas' = ReplicasOf(config')
BY Zenon DEF Replicas, ReplicasOf

LEMMA ReplicaIs ==
    ASSUME NEW c, NEW p
    PROVE  p \in ReplicasOf(c) <=>
             \E i \in DOMAIN QueueOrder : \E n \in 1..c[QueueOrder[i]].replicas :
                p = [i |-> i, ordinal |-> n - 1]
BY DEF ReplicasOf

LEMMA EntryTypes ==
    ASSUME NEW c \in Configs, NEW i \in DOMAIN QueueOrder
    PROVE  /\ QueueOrder[i] \in Queues
           /\ c[QueueOrder[i]] \in [tag: Tags, settings: SUBSET Settings, replicas: Nat \ {0}]
<1>1. QueueOrder[i] \in Queues
    BY Zenon DEF Queues
<1>2. c \in [Queues -> [tag: Tags, settings: SUBSET Settings, replicas: Nat \ {0}]]
    BY Zenon, ConfigAssumption
<1> QED BY Zenon, <1>1, <1>2

LEMMA ReplicaMade ==
    ASSUME NEW c \in Configs, NEW i \in DOMAIN QueueOrder, NEW k \in Nat,
           k < c[QueueOrder[i]].replicas
    PROVE  [i |-> i, ordinal |-> k] \in ReplicasOf(c)
<1> DEFINE r == c[QueueOrder[i]].replicas
<1>1. r \in Nat /\ k < r
    BY Zenon, EntryTypes
<1> HIDE DEF r
<1>2. k + 1 \in 1..r /\ (k + 1) - 1 = k
    BY <1>1
<1> QED BY Zenon, <1>2, ReplicaIs DEF r

LEMMA FirstReplica ==
    ASSUME NEW c \in Configs
    PROVE  [i |-> 1, ordinal |-> 0] \in ReplicasOf(c)
<1>1. 1 \in DOMAIN QueueOrder
    BY ConfigAssumption
<1>2. 0 < c[QueueOrder[1]].replicas
    BY <1>1, EntryTypes
<1> QED BY Zenon, <1>1, <1>2, ReplicaMade

\* A replica of the current configuration has a name, an image and settings.
LEMMA ReplicaFacts ==
    ASSUME config \in Configs, NEW p \in Replicas
    PROVE  /\ p.i \in DOMAIN QueueOrder /\ p.ordinal \in Nat
           /\ p = [i |-> p.i, ordinal |-> p.ordinal]
           /\ Desired(p).replicas \in Nat /\ p.ordinal < Desired(p).replicas
           /\ Desired(p).tag \in Tags /\ Desired(p).settings \in SUBSET Settings
           /\ Name(p) \in Names
<1>0. PICK i \in DOMAIN QueueOrder : \E n \in 1..config[QueueOrder[i]].replicas :
        p = [i |-> i, ordinal |-> n - 1]
    BY Zenon, ReplicaIs DEF Replicas, ReplicasOf
<1>1. PICK n \in 1..config[QueueOrder[i]].replicas : p = [i |-> i, ordinal |-> n - 1]
    BY Zenon, <1>0
<1>2. p.i = i /\ p.ordinal = n - 1
    BY Zenon, <1>1
<1>3. /\ QueueOrder[i] \in Queues
      /\ config[QueueOrder[i]] \in [tag: Tags, settings: SUBSET Settings, replicas: Nat \ {0}]
    BY Zenon, EntryTypes
<1>4. Desired(p) = config[QueueOrder[i]]
    BY Zenon, <1>2 DEF Desired
<1>5. p.ordinal \in UNION {UNION {0..(c[q].replicas - 1) : q \in Queues} : c \in Configs}
    <2>1. p.ordinal \in 0..(config[QueueOrder[i]].replicas - 1)
        BY <1>1, <1>2, <1>3
    <2>2. p.ordinal \in UNION {0..(config[q].replicas - 1) : q \in Queues}
        BY Zenon, <1>3, <2>1
    <2> QED BY ZenonT(40), <2>2
<1>6. Name(p) \in Names
    BY Zenon, <1>2, <1>3, <1>5 DEF Name, Names
<1> QED BY <1>1, <1>2, <1>3, <1>4, <1>6

\* container_name keeps the queues apart.
NamesDistinct == \A q, u \in Queues : Sanitized[q] = Sanitized[u] => q = u

\* container_name tells replicas apart if it tells queues apart.
LEMMA OwnName ==
    ASSUME config \in Configs, NEW p \in Replicas, NEW r \in Replicas, Name(p) = Name(r),
           NamesDistinct
    PROVE  p = r
<1>1. Sanitized[QueueOrder[p.i]] = Sanitized[QueueOrder[r.i]] /\ p.ordinal = r.ordinal
    BY Zenon DEF Name
<1>2. /\ p.i \in DOMAIN QueueOrder /\ r.i \in DOMAIN QueueOrder
      /\ p = [i |-> p.i, ordinal |-> p.ordinal] /\ r = [i |-> r.i, ordinal |-> r.ordinal]
    BY Zenon, ReplicaFacts
<1>3. QueueOrder[p.i] \in Queues /\ QueueOrder[r.i] \in Queues
    BY Zenon, <1>2 DEF Queues
<1>4. p.i = r.i
    <2>1. QueueOrder[p.i] = QueueOrder[r.i]
        BY Zenon, <1>1, <1>3 DEF NamesDistinct
    <2>2. \A i, j \in DOMAIN QueueOrder : QueueOrder[i] = QueueOrder[j] => i = j
        BY Zenon, ConfigAssumption
    <2> QED BY Zenon, <1>2, <2>1, <2>2
<1> QED BY Zenon, <1>1, <1>2, <1>4

\* Where a pass begins, and where it goes after a replica.
LEMMA NextPlace ==
    ASSUME config \in Configs, at \in Replicas, UNCHANGED config, Sleep \/ Advance
    PROVE  at' \in Replicas' /\ step' \in {"sleep", "resolve"}
<1>1. Replicas' = ReplicasOf(config) /\ Replicas = ReplicasOf(config)
    BY Zenon, ReplicasNow
<1>2. CASE Sleep
    BY Zenon, <1>1, <1>2, FirstReplica DEF Sleep
<1>3. CASE Advance /\ ~Sleep
    <2>1. /\ at.i \in DOMAIN QueueOrder /\ at.ordinal \in Nat
          /\ at = [i |-> at.i, ordinal |-> at.ordinal]
        BY Zenon, ReplicaFacts
    <2>2. CASE at.ordinal + 1 < Desired(at).replicas
        <3>1. at' = [i |-> at.i, ordinal |-> at.ordinal + 1] /\ step' = "resolve"
            BY Zenon, <1>3, <2>1, <2>2 DEF Advance
        <3>2. at.ordinal + 1 \in Nat /\ at.ordinal + 1 < config[QueueOrder[at.i]].replicas
            BY <2>1, <2>2 DEF Desired
        <3> QED BY Zenon, <1>1, <2>1, <3>1, <3>2, ReplicaMade
    <2>3. CASE ~(at.ordinal + 1 < Desired(at).replicas)
        <3>1. at' = [i |-> at.i + 1, ordinal |-> 0] /\ step' = "resolve" /\ at.i # Len(QueueOrder)
            BY Zenon, <1>3, <2>3 DEF Advance
        <3>2. at.i + 1 \in DOMAIN QueueOrder
            BY <2>1, <3>1, ConfigAssumption
        <3>3. 0 < config[QueueOrder[at.i + 1]].replicas
            BY <3>2, EntryTypes
        <3> QED BY Zenon, <1>1, <3>1, <3>2, <3>3, ReplicaMade
    <2> QED BY Zenon, <2>2, <2>3
<1> QED BY Zenon, <1>2, <1>3

-----------------------------------------------------------------------------
(***************************************************************************)
(* The invariant                                                           *)
(***************************************************************************)
LEMMA SupervisorInit == Init => SupervisorInv
<1> SUFFICES ASSUME Init PROVE SupervisorInv
    BY Zenon
<1>1. at \in Replicas
    BY Zenon, FirstReplica, ReplicasNow DEF Init
<1>2. TypeInv
    BY Zenon, <1>1 DEF Init, TypeInv, Steps
<1> QED BY Zenon, <1>2 DEF Init, SupervisorInv, ImageKnown, Unresolved

\* What the actions find at the replica of the pass.
LEMMA HereFacts ==
    ASSUME TypeInv
    PROVE  /\ Name(at) \in Names /\ Tag \in Tags /\ Desired(at).settings \in SUBSET Settings
           /\ containers[Name(at)] \in Container \cup {None}
           /\ local[Tag] \in Images \cup {None} /\ cache[Tag] \in Images \cup {None}
<1>1. Name(at) \in Names /\ Tag \in Tags /\ Desired(at).settings \in SUBSET Settings
    BY Zenon, ReplicaFacts DEF TypeInv, Tag
<1> QED BY Zenon, <1>1 DEF TypeInv

\* The steps that only move the pass.
LEMMA PassTypes ==
    ASSUME TypeInv, UNCHANGED <<config, edits, restarts>>,
           at' = at \/ Sleep \/ Advance, step' \in Steps,
           cache' \in [Tags -> Images \cup {None}], local' \in [Tags -> Images \cup {None}],
           containers' \in [Names -> Container \cup {None}]
    PROVE  TypeInv'
<1>1. at' \in Replicas'
    <2>1. CASE at' = at
        BY Zenon, <2>1, ReplicasNow DEF TypeInv
    <2>2. CASE Sleep \/ Advance
        BY Zenon, <2>2, NextPlace DEF TypeInv
    <2> QED BY Zenon, <2>1, <2>2
<1> QED BY Zenon, <1>1 DEF TypeInv

\* The steps after which nothing has been resolved.
LEMMA Forgets ==
    ASSUME step' \in {"sleep", "resolve"}
    PROVE  ImageKnown' /\ Unresolved'
BY Zenon DEF ImageKnown, Unresolved

LEMMA ResolveKeeps ==
    ASSUME SupervisorInv, BeginPass \/ ResolveImage \/ Pull \/ InspectPulled
    PROVE  SupervisorInv'
<1>0. /\ TypeInv /\ ImageKnown
      /\ cache \in [Tags -> Images \cup {None}] /\ local \in [Tags -> Images \cup {None}]
      /\ containers \in [Names -> Container \cup {None}]
    BY Zenon DEF SupervisorInv, TypeInv
<1>1. Tag \in Tags /\ local[Tag] \in Images \cup {None}
    BY Zenon, <1>0, HereFacts
<1>2. CASE BeginPass
    <2>1. step' = "resolve" /\ UNCHANGED <<config, cache, at, containers, local, edits, restarts>>
        BY Zenon, <1>2 DEF BeginPass, memory, bounds
    <2>2. TypeInv'
        BY Zenon, <1>0, <2>1, PassTypes DEF Steps
    <2> QED BY Zenon, <2>1, <2>2, Forgets DEF SupervisorInv
<1>3. ASSUME UNCHANGED <<config, at, containers, local, edits, restarts>>, step' = "inspect",
             \/ cache' = cache /\ cache[Tag] # None
             \/ cache' = [cache EXCEPT ![Tag] = local[Tag]] /\ local[Tag] # None
      PROVE  SupervisorInv'
    <2>1. cache' \in [Tags -> Images \cup {None}] /\ cache'[Tag] # None
        BY Zenon, <1>0, <1>1, <1>3
    <2>2. TypeInv'
        BY Zenon, <1>0, <1>3, <2>1, PassTypes DEF Steps
    <2>3. Tag' = Tag
        BY Zenon, <1>3 DEF Tag, Desired
    <2>4. ImageKnown' /\ Unresolved'
        BY Zenon, <1>3, <2>1, <2>3 DEF ImageKnown, Unresolved
    <2> QED BY Zenon, <2>2, <2>4 DEF SupervisorInv
<1>4. CASE ResolveImage
    <2>1. /\ UNCHANGED <<config, containers, local, edits, restarts, at>>
          /\ \/ step' = "inspect" /\ cache' = cache /\ cache[Tag] # None
             \/ /\ step' = "inspect" /\ local[Tag] # None
                /\ cache' = [cache EXCEPT ![Tag] = local[Tag]]
             \/ step' = "pull" /\ cache' = cache /\ cache[Tag] = None
        BY Zenon, <1>4 DEF ResolveImage, Resolved, Errs, Fault, bounds
    <2>2. CASE step' = "pull" /\ cache' = cache /\ cache[Tag] = None
        <3>1. TypeInv'
            BY Zenon, <1>0, <2>1, <2>2, PassTypes DEF Steps
        <3>2. Tag' = Tag
            BY Zenon, <2>1 DEF Tag, Desired
        <3> QED BY Zenon, <2>2, <3>1, <3>2 DEF SupervisorInv, ImageKnown, Unresolved
    <2> QED BY Zenon, <1>3, <2>1, <2>2
<1>5. CASE Pull
    <2>1. /\ UNCHANGED <<config, cache, containers, edits, restarts>> /\ step = "pull"
          /\ \/ /\ step' = "pulled" /\ UNCHANGED at
                /\ local' = [local EXCEPT ![Tag] = Registry[Tag]]
             \/ Sleep /\ UNCHANGED local
        BY Zenon, <1>5 DEF Pull, EnsureFailed, Fault, memory, bounds
    <2>2. CASE step' = "pulled" /\ UNCHANGED at /\ local' = [local EXCEPT ![Tag] = Registry[Tag]]
        <3>1. Registry[Tag] \in Images /\ Registry[Tag] # None
            <4>1. Registry \in [Tags -> Images] /\ None \notin Images
                BY Zenon, ConfigAssumption
            <4> QED BY Zenon, <1>1, <4>1
        <3>2. local' \in [Tags -> Images \cup {None}] /\ local'[Tag] # None
            BY Zenon, <1>0, <1>1, <2>2, <3>1
        <3>3. TypeInv'
            BY Zenon, <1>0, <2>1, <2>2, <3>2, PassTypes DEF Steps
        <3>4. Tag' = Tag
            BY Zenon, <2>1, <2>2 DEF Tag, Desired
        <3> QED BY Zenon, <2>1, <2>2, <3>2, <3>3, <3>4
                DEF SupervisorInv, ImageKnown, Unresolved
    <2>3. CASE Sleep /\ UNCHANGED local
        <3>1. step' = "sleep"
            BY Zenon, <2>3 DEF Sleep
        <3>2. TypeInv'
            BY Zenon, <1>0, <2>1, <2>3, <3>1, PassTypes DEF Steps
        <3> QED BY Zenon, <3>1, <3>2, Forgets DEF SupervisorInv
    <2> QED BY Zenon, <2>1, <2>2, <2>3
<1>6. CASE InspectPulled
    <2>1. /\ UNCHANGED <<config, containers, local, edits, restarts>> /\ step = "pulled"
          /\ \/ /\ step' = "inspect" /\ UNCHANGED at
                /\ cache' = [cache EXCEPT ![Tag] = local[Tag]]
             \/ Sleep /\ UNCHANGED cache
        BY Zenon, <1>6 DEF InspectPulled, Resolved, EnsureFailed, Fault, bounds
    <2>2. local[Tag] # None
        BY Zenon, <1>0, <2>1 DEF ImageKnown
    <2>3. CASE Sleep /\ UNCHANGED cache
        <3>1. step' = "sleep"
            BY Zenon, <2>3 DEF Sleep
        <3>2. TypeInv'
            BY Zenon, <1>0, <2>1, <2>3, <3>1, PassTypes DEF Steps
        <3> QED BY Zenon, <3>1, <3>2, Forgets DEF SupervisorInv
    <2> QED BY Zenon, <1>3, <2>1, <2>2, <2>3
<1> QED BY Zenon, <1>2, <1>4, <1>5, <1>6

LEMMA InspectKeeps ==
    ASSUME SupervisorInv, InspectContainer
    PROVE  SupervisorInv'
<1> DEFINE found == containers[Name(at)]
<1>0. /\ TypeInv /\ cache \in [Tags -> Images \cup {None}]
      /\ local \in [Tags -> Images \cup {None}]
      /\ containers \in [Names -> Container \cup {None}]
    BY Zenon DEF SupervisorInv, TypeInv
<1>1. cache[Tag] # None /\ found \in Container \cup {None}
    BY Zenon, <1>0, HereFacts DEF SupervisorInv, ImageKnown, InspectContainer
<1>2. /\ UNCHANGED <<config, cache, containers, local, edits, restarts>>
      /\ \/ Sleep
         \/ UNCHANGED at /\ step' \in {"remove", "start_found", "create"}
    BY Zenon DEF InspectContainer, EnsureFailed, Errs, Fault, memory, bounds
<1> HIDE DEF found
<1>3. CASE Sleep
    <2>1. step' = "sleep"
        BY Zenon, <1>3 DEF Sleep
    <2>2. TypeInv'
        BY Zenon, <1>0, <1>2, <1>3, <2>1, PassTypes DEF Steps
    <2> QED BY Zenon, <2>1, <2>2, Forgets DEF SupervisorInv
<1>4. CASE ~Sleep
    <2>1. step' \in Steps /\ step' \in {"remove", "start_found", "create"} /\ UNCHANGED at
        BY Zenon, <1>2, <1>4 DEF Steps
    <2>2. TypeInv'
        BY Zenon, <1>0, <1>2, <2>1, PassTypes
    <2>3. Tag' = Tag
        BY Zenon, <1>2, <2>1 DEF Tag, Desired
    <2>4. ImageKnown' /\ Unresolved'
        BY Zenon, <1>1, <1>2, <2>1, <2>3 DEF ImageKnown, Unresolved
    <2> QED BY Zenon, <2>2, <2>4 DEF SupervisorInv
<1> QED BY Zenon, <1>3, <1>4

LEMMA EnsureKeeps ==
    ASSUME SupervisorInv, StartFound \/ Remove \/ Create \/ Start
    PROVE  SupervisorInv'
<1> DEFINE name == Name(at)
           found == containers[name]
<1>0. /\ TypeInv /\ cache \in [Tags -> Images \cup {None}]
      /\ local \in [Tags -> Images \cup {None}]
      /\ containers \in [Names -> Container \cup {None}]
    BY Zenon DEF SupervisorInv, TypeInv
<1>1. /\ name \in Names /\ found \in Container \cup {None} /\ local[Tag] \in Images \cup {None}
      /\ Desired(at).settings \in SUBSET Settings
    BY Zenon, <1>0, HereFacts
<1>2. /\ UNCHANGED <<config, cache, local, edits, restarts>>
      /\ \/ UNCHANGED containers
         \/ found # None /\ containers' = [containers EXCEPT ![name].running = TRUE]
         \/ found # None /\ containers' = [containers EXCEPT ![name] = None]
         \/ /\ local[Tag] # None
            /\ containers' = [containers EXCEPT ![name] =
                                [image |-> local[Tag], settings |-> Desired(at).settings,
                                 managed |-> TRUE, running |-> FALSE]]
      /\ \/ Sleep \/ Advance
         \/ UNCHANGED at /\ step' \in {"create", "start"} /\ step \in {"create", "remove"}
    <2>1. CASE StartFound
        BY Zenon, <2>1 DEF StartFound, Fault, memory, bounds
    <2>2. CASE Remove
        BY Zenon, <2>2 DEF Remove, EnsureFailed, Errs, Fault, memory, bounds
    <2>3. CASE Create
        BY Zenon, <2>3 DEF Create, EnsureFailed, Errs, Fault, memory, bounds
    <2>4. CASE Start
        BY Zenon, <2>4 DEF Start, EnsureFailed, Errs, Fault, memory, bounds
    <2> QED BY Zenon, <2>1, <2>2, <2>3, <2>4
<1>3. containers' \in [Names -> Container \cup {None}]
    <2> HIDE DEF name
    <2>1. ASSUME NEW c \in Container \cup {None}, containers' = [containers EXCEPT ![name] = c]
          PROVE  containers' \in [Names -> Container \cup {None}]
        BY Zenon, <1>0, <1>1, <2>1
    <2>2. CASE found # None /\ containers' = [containers EXCEPT ![name].running = TRUE]
        <3>1. [found EXCEPT !.running = TRUE] \in Container
            BY Zenon, <1>1, <2>2 DEF Container
        <3>2. containers' = [containers EXCEPT ![name] = [found EXCEPT !.running = TRUE]]
            BY Zenon, <2>2
        <3> QED BY Zenon, <2>1, <3>1, <3>2
    <2>3. CASE /\ local[Tag] # None
               /\ containers' = [containers EXCEPT ![name] =
                                   [image |-> local[Tag], settings |-> Desired(at).settings,
                                    managed |-> TRUE, running |-> FALSE]]
        <3>1. [image |-> local[Tag], settings |-> Desired(at).settings,
               managed |-> TRUE, running |-> FALSE] \in Container
            BY Zenon, <1>1, <2>3 DEF Container
        <3> QED BY Zenon, <2>1, <2>3, <3>1
    <2> QED BY Zenon, <1>0, <1>2, <2>1, <2>2, <2>3
<1> HIDE DEF name, found
<1>4. CASE Sleep \/ Advance
    <2>1. step' \in {"sleep", "resolve"}
        BY Zenon, <1>0, <1>2, <1>4, NextPlace DEF TypeInv
    <2>2. TypeInv'
        BY Zenon, <1>0, <1>2, <1>3, <1>4, <2>1, PassTypes DEF Steps
    <2> QED BY Zenon, <2>1, <2>2, Forgets DEF SupervisorInv
<1>5. CASE UNCHANGED at /\ step' \in {"create", "start"} /\ step \in {"create", "remove"}
    <2>1. TypeInv'
        BY Zenon, <1>0, <1>2, <1>3, <1>5, PassTypes DEF Steps
    <2>2. Tag' = Tag
        BY Zenon, <1>2, <1>5 DEF Tag, Desired
    <2>3. cache[Tag] # None
        BY Zenon, <1>5 DEF SupervisorInv, ImageKnown
    <2> QED BY Zenon, <1>2, <1>5, <2>1, <2>2, <2>3 DEF SupervisorInv, ImageKnown, Unresolved
<1> QED BY Zenon, <1>2, <1>4, <1>5

LEMMA WorldKeeps ==
    ASSUME SupervisorInv,
           (\E n \in Names : EditContainer(n)) \/ (\E t \in Tags : MoveTag(t)) \/ Restart
    PROVE  SupervisorInv'
<1>0. /\ TypeInv /\ ImageKnown /\ Unresolved
      /\ cache \in [Tags -> Images \cup {None}] /\ local \in [Tags -> Images \cup {None}]
      /\ containers \in [Names -> Container \cup {None}]
      /\ edits \in Nat /\ restarts \in Nat
    BY Zenon DEF SupervisorInv, TypeInv
<1>1. ASSUME NEW n \in Names, EditContainer(n) PROVE SupervisorInv'
    <2> DEFINE found == containers[n]
    <2>1. /\ UNCHANGED <<config, cache, at, step, restarts, local>> /\ edits' = edits + 1
          /\ \/ found # None /\ containers' = [containers EXCEPT ![n].running = FALSE]
             \/ containers' = [containers EXCEPT ![n] = None]
             \/ \E image \in Images : containers' = [containers EXCEPT ![n] =
                  [image |-> image, settings |-> {}, managed |-> FALSE, running |-> TRUE]]
        BY Zenon, <1>1 DEF EditContainer, Edit, memory
    <2>2. containers' \in [Names -> Container \cup {None}]
        <3>1. ASSUME NEW c \in Container \cup {None}, containers' = [containers EXCEPT ![n] = c]
              PROVE  containers' \in [Names -> Container \cup {None}]
            BY Zenon, <1>0, <3>1
        <3>2. CASE found # None /\ containers' = [containers EXCEPT ![n].running = FALSE]
            <4>1. [found EXCEPT !.running = FALSE] \in Container
                BY Zenon, <1>0, <3>2 DEF Container
            <4>2. containers' = [containers EXCEPT ![n] = [found EXCEPT !.running = FALSE]]
                BY Zenon, <3>2
            <4> QED BY Zenon, <3>1, <4>1, <4>2
        <3>3. ASSUME NEW image \in Images, containers' = [containers EXCEPT ![n] =
                  [image |-> image, settings |-> {}, managed |-> FALSE, running |-> TRUE]]
              PROVE  containers' \in [Names -> Container \cup {None}]
            <4>1. [image |-> image, settings |-> {}, managed |-> FALSE, running |-> TRUE]
                    \in Container
                BY Zenon DEF Container
            <4> QED BY Zenon, <3>1, <3>3, <4>1
        <3> QED BY Zenon, <2>1, <3>1, <3>2, <3>3
    <2>3. edits' \in Nat
        BY <1>0, <2>1
    <2>4. TypeInv'
        BY Zenon, <1>0, <2>1, <2>2, <2>3, ReplicasNow DEF TypeInv
    <2>5. ImageKnown' /\ Unresolved'
        BY Zenon, <1>0, <2>1 DEF ImageKnown, Unresolved, Tag, Desired
    <2> QED BY Zenon, <2>4, <2>5 DEF SupervisorInv
<1>2. ASSUME NEW t \in Tags, MoveTag(t) PROVE SupervisorInv'
    <2>1. /\ UNCHANGED <<config, cache, at, step, restarts, containers>>
          /\ edits' = edits + 1
          /\ \E image \in Images : local' = [local EXCEPT ![t] = image]
        BY Zenon, <1>2 DEF MoveTag, Edit, memory
    <2>2. local' \in [Tags -> Images \cup {None}] /\ \A u \in Tags : local[u] # None => local'[u] # None
        BY Zenon, <1>0, <2>1, ConfigAssumption
    <2>3. edits' \in Nat
        BY <1>0, <2>1
    <2>4. TypeInv'
        BY Zenon, <1>0, <2>1, <2>2, <2>3, ReplicasNow DEF TypeInv
    <2>5. Tag \in Tags /\ Tag' = Tag
        BY Zenon, <1>0, <2>1, HereFacts DEF Tag, Desired
    <2>6. ImageKnown'
        BY Zenon, <1>0, <2>1, <2>2, <2>5 DEF ImageKnown
    <2>7. Unresolved'
        BY Zenon, <1>0, <2>1, <2>5 DEF Unresolved
    <2> QED BY Zenon, <2>4, <2>6, <2>7 DEF SupervisorInv
<1>3. CASE Restart
    <2>1. /\ config' \in Configs /\ cache' = [t \in Tags |-> None] /\ Sleep
          /\ UNCHANGED <<containers, local, edits>> /\ restarts' = restarts + 1
        BY Zenon, <1>3 DEF Restart
    <2>2. at' \in Replicas' /\ step' = "sleep"
        BY Zenon, <2>1, FirstReplica, ReplicasNow DEF Sleep
    <2>3. restarts' \in Nat /\ cache' \in [Tags -> Images \cup {None}] /\ step' \in Steps
        BY <1>0, <2>1, <2>2 DEF Steps
    <2>4. TypeInv'
        BY Zenon, <1>0, <2>1, <2>2, <2>3 DEF TypeInv
    <2> QED BY Zenon, <2>2, <2>4, Forgets DEF SupervisorInv
<1> QED BY Zenon, <1>1, <1>2, <1>3

LEMMA SupervisorNext == SupervisorInv /\ [Next]_vars => SupervisorInv'
<1> SUFFICES ASSUME SupervisorInv, [Next]_vars PROVE SupervisorInv'
    BY Zenon
<1>1. CASE Supervise
    BY Zenon, <1>1, ResolveKeeps, InspectKeeps, EnsureKeeps DEF Supervise
<1>2. CASE UNCHANGED vars
    <2>1. UNCHANGED <<config, cache, at, step, containers, local, edits, restarts>>
        BY Zenon, <1>2 DEF vars, memory, bounds
    <2>2. TypeInv'
        BY Zenon, <2>1, ReplicasNow DEF SupervisorInv, TypeInv
    <2>3. ImageKnown' /\ Unresolved'
        BY Zenon, <2>1 DEF SupervisorInv, ImageKnown, Unresolved, Tag, Desired
    <2> QED BY Zenon, <2>2, <2>3 DEF SupervisorInv
<1> QED BY Zenon, <1>1, <1>2, WorldKeeps DEF Next

LEMMA SupervisorInvariant == Spec => []SupervisorInv
BY SupervisorInit, SupervisorNext, PTL DEF Spec

-----------------------------------------------------------------------------
(***************************************************************************)
(* One replica is missing at a time                                        *)
(*                                                                         *)
(* While no resolved tag is moved, what a pass has been over needs no      *)
(* replacement any more, in this pass or in a later one: an image id stays *)
(* cached, what is created has it, and what is put in place by hand is not *)
(* Maqistor's.  So a pass finds nothing to remove before it comes to the   *)
(* name it once freed and could not fill.                                  *)
(***************************************************************************)
Before(p, r) == p.i < r.i \/ (p.i = r.i /\ p.ordinal < r.ordinal)

\* ensure would not remove the container of this replica.
Clean(r) ==
    /\ cache[Desired(r).tag] # None
    /\ \/ containers[Name(r)] = None
       \/ ~containers[Name(r)].managed
       \/ ~Drifted(containers[Name(r)], r)

CleanBefore(p) == \A r \in Replicas : Before(r, p) => Clean(r)

CacheCurrent == \A t \in Tags : cache[t] \in {None, local[t]}

\* A missing name belongs to a replica that the pass has yet to come to, and
\* there is nothing to replace before it.
MissingAhead ==
    \A n \in missing :
        /\ containers[n] = None
        /\ \E p \in Replicas : Name(p) = n /\ ~Before(p, at) /\ CleanBefore(p)

HereDone == step \in {"start_found", "start"} => Clean(at) /\ Name(at) \notin missing
RemovesFirst == step = "remove" => missing = {}
OneMissing == \A m, n \in missing : m = n

Rolling ==
    /\ CacheCurrent /\ CleanBefore(at) /\ MissingAhead /\ HereDone /\ RemovesFirst
    /\ OneMissing

RollingInv == ~moved => Rolling

LEMMA BeforeTotal ==
    ASSUME config \in Configs, NEW p \in Replicas, NEW r \in Replicas
    PROVE  /\ ~Before(p, r) /\ ~Before(r, p) => p = r
           /\ ~Before(p, p)
<1>0. /\ p.i \in DOMAIN QueueOrder /\ p.ordinal \in Nat
      /\ p = [i |-> p.i, ordinal |-> p.ordinal]
      /\ r.i \in DOMAIN QueueOrder /\ r.ordinal \in Nat
      /\ r = [i |-> r.i, ordinal |-> r.ordinal]
    BY Zenon, ReplicaFacts
<1>1. p.i \in Nat /\ p.i >= 1 /\ r.i \in Nat
    BY <1>0, ConfigAssumption
<1>2. ASSUME ~Before(p, r), ~Before(r, p) PROVE p = r
    <2>1. p.i = r.i /\ p.ordinal = r.ordinal
        BY <1>0, <1>1, <1>2 DEF Before
    <2> QED BY Zenon, <1>0, <2>1
<1>3. ~Before(p, p)
    BY <1>0, <1>1 DEF Before
<1> QED BY Zenon, <1>2, <1>3

LEMMA NoneBefore ==
    ASSUME NEW c \in Configs, NEW p \in ReplicasOf(c)
    PROVE  ~Before(p, [i |-> 1, ordinal |-> 0])
<1>1. PICK i \in DOMAIN QueueOrder : \E n \in 1..c[QueueOrder[i]].replicas :
        p = [i |-> i, ordinal |-> n - 1]
    BY Zenon, ReplicaIs
<1>2. PICK n \in 1..c[QueueOrder[i]].replicas : p = [i |-> i, ordinal |-> n - 1]
    BY Zenon, <1>1
<1>3. p.i = i /\ p.ordinal = n - 1
    BY Zenon, <1>2
<1>4. i \in Nat /\ i >= 1 /\ n \in Nat /\ n >= 1
    BY ConfigAssumption, EntryTypes
<1> QED BY <1>3, <1>4 DEF Before

\* The replicas before the next place of the pass.
LEMMA PlaceBefore ==
    ASSUME config \in Configs, at \in Replicas, NEW p \in Replicas, Before(p, at'),
           at' = at \/ Sleep \/ Advance
    PROVE  ~Sleep /\ (at' = at => Before(p, at)) /\ (Before(p, at) \/ p = at)
<1>0. /\ p.i \in DOMAIN QueueOrder /\ p.ordinal \in Nat
      /\ p = [i |-> p.i, ordinal |-> p.ordinal]
      /\ Desired(p).replicas \in Nat /\ p.ordinal < Desired(p).replicas
      /\ at.i \in DOMAIN QueueOrder /\ at.ordinal \in Nat
      /\ at = [i |-> at.i, ordinal |-> at.ordinal]
    BY Zenon, ReplicaFacts
<1>1. p.i \in Nat /\ p.i >= 1 /\ at.i \in Nat
    BY <1>0, ConfigAssumption
<1>2. at' = at => Before(p, at)
    BY Zenon
<1>3. ~Sleep
    BY Zenon, NoneBefore, ReplicasNow DEF Sleep
<1>4. CASE Advance
    <2>1. CASE at.ordinal + 1 < Desired(at).replicas
        <3>1. at'.i = at.i /\ at'.ordinal = at.ordinal + 1
            BY Zenon, <1>0, <1>3, <1>4, <2>1 DEF Advance
        <3>2. p.i < at.i \/ (p.i = at.i /\ (p.ordinal < at.ordinal \/ p.ordinal = at.ordinal))
            BY <1>0, <1>1, <3>1 DEF Before
        <3> QED BY Zenon, <1>0, <1>3, <1>2, <3>2 DEF Before
    <2>2. CASE ~(at.ordinal + 1 < Desired(at).replicas)
        <3>0. at' = [i |-> at.i + 1, ordinal |-> 0]
            BY Zenon, <1>3, <1>4, <2>2 DEF Advance
        <3>1. at'.i = at.i + 1 /\ at'.ordinal = 0
            BY Zenon, <3>0
        <3>2. p.i < at.i \/ p.i = at.i
            BY <1>0, <1>1, <3>1 DEF Before
        <3>3. ASSUME p.i = at.i PROVE p.ordinal < at.ordinal \/ p.ordinal = at.ordinal
            <4>1. Desired(p).replicas = Desired(at).replicas
                BY Zenon, <3>3 DEF Desired
            <4> DEFINE k == p.ordinal
                       m == at.ordinal
                       l == Desired(p).replicas
            <4>2. k \in Nat /\ m \in Nat /\ l \in Nat /\ k < l /\ ~(m + 1 < l)
                BY Zenon, <1>0, <2>2, <4>1
            <4> HIDE DEF k, m, l
            <4>3. k < m \/ k = m
                BY <4>2
            <4> QED BY Zenon, <4>3 DEF k, m
        <3> QED BY Zenon, <1>0, <1>3, <1>2, <3>2, <3>3 DEF Before
    <2> QED BY Zenon, <2>1, <2>2
<1> QED BY Zenon, <1>3, <1>4, <1>2

\* A container that ensure would not remove stays one, whatever happens to it but
\* for its creation.
Unspoilt(n) ==
    \/ containers'[n] = containers[n]
    \/ containers'[n] = None
    \/ ~containers'[n].managed
    \/ /\ containers[n] # None
       /\ containers'[n].image = containers[n].image
       /\ containers'[n].settings = containers[n].settings
       /\ containers'[n].managed = containers[n].managed

LEMMA CleanKept ==
    ASSUME NEW r, Clean(r), UNCHANGED config, Unspoilt(Name(r)),
           cache'[Desired(r).tag] = cache[Desired(r).tag]
    PROVE  Clean(r)'
<1>1. Desired(r)' = Desired(r)
    BY Zenon DEF Desired
<1>2. cache'[Desired(r)'.tag] # None
    BY Zenon, <1>1 DEF Clean
<1>3. /\ Drifted(containers[Name(r)], r)' <=>
           \/ containers'[Name(r)].image # cache[Desired(r).tag]
           \/ ~(Desired(r).settings \subseteq containers'[Name(r)].settings)
    BY Zenon, <1>1 DEF Drifted
<1>4. \/ containers'[Name(r)] = None \/ ~containers'[Name(r)].managed
      \/ ~Drifted(containers[Name(r)], r)'
    BY Zenon, <1>3 DEF Clean, Unspoilt, Drifted
<1> QED BY Zenon, <1>2, <1>4 DEF Clean

\* The steps that free no name.
LEMMA RollingKept ==
    ASSUME TypeInv, Rolling, UNCHANGED config,
           at' = at \/ Sleep \/ (Advance /\ Clean(at) /\ Name(at) \notin missing),
           \A r \in Replicas : Clean(r) => Clean(r)',
           missing' \subseteq missing, \A n \in missing' : containers'[n] = None,
           CacheCurrent', HereDone', RemovesFirst'
    PROVE  Rolling'
<1>0. config \in Configs /\ at \in Replicas /\ Replicas' = Replicas
    BY Zenon, ReplicasNow DEF TypeInv
<1>1. CleanBefore(at)'
    <2> SUFFICES ASSUME NEW r \in Replicas, Before(r, at') PROVE Clean(r)'
        BY Zenon, <1>0 DEF CleanBefore
    <2>1. /\ ~Sleep /\ (at' = at => Before(r, at))
          /\ Before(r, at) \/ r = at
        BY Zenon, <1>0, PlaceBefore
    <2> QED BY Zenon, <2>1 DEF Rolling, CleanBefore
<1>2. MissingAhead'
    <2> SUFFICES ASSUME NEW n \in missing'
                 PROVE  \E p \in Replicas : /\ Name(p) = n /\ ~Before(p, at')
                                            /\ \A r \in Replicas : Before(r, p) => Clean(r)'
        BY Zenon, <1>0 DEF MissingAhead, CleanBefore, Name
    <2>1. PICK p \in Replicas : Name(p) = n /\ ~Before(p, at) /\ CleanBefore(p)
        BY Zenon DEF Rolling, MissingAhead
    <2>2. ~Before(p, at')
        BY Zenon, <1>0, <2>1, PlaceBefore
    <2> QED BY Zenon, <2>1, <2>2 DEF CleanBefore
<1>3. OneMissing'
    BY Zenon DEF Rolling, OneMissing
<1> QED BY Zenon, <1>1, <1>2, <1>3 DEF Rolling

LEMMA ResolveRolls ==
    ASSUME SupervisorInv, Rolling, BeginPass \/ ResolveImage \/ Pull \/ InspectPulled
    PROVE  Rolling'
<1>0. /\ TypeInv /\ Unresolved /\ config \in Configs
      /\ cache \in [Tags -> Images \cup {None}] /\ local \in [Tags -> Images \cup {None}]
    BY Zenon DEF SupervisorInv, TypeInv
<1>1. Tag \in Tags
    BY Zenon, <1>0, HereFacts
<1>2. /\ UNCHANGED <<config, containers, missing>>
      /\ at' = at \/ Sleep
      /\ step' \in {"resolve", "inspect", "pull", "pulled", "sleep"}
      /\ \/ UNCHANGED <<cache, local>>
         \/ /\ cache[Tag] = None /\ cache' = [cache EXCEPT ![Tag] = local[Tag]]
            /\ UNCHANGED local
         \/ /\ cache[Tag] = None /\ local' = [local EXCEPT ![Tag] = Registry[Tag]]
            /\ UNCHANGED cache
    <2>1. CASE BeginPass
        BY Zenon, <2>1 DEF BeginPass, memory, history
    <2>2. CASE ResolveImage
        BY Zenon, <2>2 DEF ResolveImage, Resolved, history
    <2>3. CASE Pull
        BY Zenon, <1>0, <2>3 DEF Pull, Unresolved, EnsureFailed, Sleep, memory, history
    <2>4. CASE InspectPulled
        BY Zenon, <1>0, <2>4 DEF InspectPulled, Resolved, Unresolved, EnsureFailed, Sleep,
                                 history
    <2> QED BY Zenon, <2>1, <2>2, <2>3, <2>4
<1>3. ASSUME NEW t \in Tags, cache[t] # None PROVE cache'[t] = cache[t]
    BY Zenon, <1>0, <1>1, <1>2, <1>3
<1>4. ASSUME NEW r \in Replicas, Clean(r) PROVE Clean(r)'
    <2>1. Desired(r).tag \in Tags /\ cache[Desired(r).tag] # None
        BY Zenon, <1>0, <1>4, ReplicaFacts DEF Clean
    <2> QED BY Zenon, <1>2, <1>3, <1>4, <2>1, CleanKept DEF Unspoilt
<1>5. CacheCurrent'
    <2> SUFFICES ASSUME NEW t \in Tags PROVE cache'[t] \in {None, local'[t]}
        BY Zenon DEF CacheCurrent
    <2>1. cache[t] \in {None, local[t]}
        BY Zenon DEF Rolling, CacheCurrent
    <2>2. CASE t = Tag
        BY Zenon, <1>0, <1>1, <1>2, <2>1, <2>2
    <2>3. CASE t # Tag
        BY Zenon, <1>0, <1>1, <1>2, <2>1, <2>3
    <2> QED BY Zenon, <2>2, <2>3
<1>6. HereDone' /\ RemovesFirst'
    <2>1. step' \notin {"start_found", "start"} /\ step' # "remove"
        BY Zenon, <1>2
    <2> QED BY Zenon, <2>1 DEF HereDone, RemovesFirst
<1>7. \A n \in missing' : containers'[n] = None
    BY Zenon, <1>2 DEF Rolling, MissingAhead
<1> QED BY Zenon, <1>0, <1>2, <1>4, <1>5, <1>6, <1>7, RollingKept

\* Nothing is found to be removed before the name that is missing.
LEMMA InspectRolls ==
    ASSUME SupervisorInv, Rolling, InspectContainer
    PROVE  Rolling'
<1> DEFINE found == containers[Name(at)]
<1>0. /\ TypeInv /\ ImageKnown /\ config \in Configs /\ at \in Replicas
    BY Zenon DEF SupervisorInv, TypeInv
<1>1. cache[Tag] # None
    BY Zenon, <1>0 DEF ImageKnown, InspectContainer
<1>2. /\ UNCHANGED <<config, cache, containers, local, missing>>
      /\ \/ Sleep
         \/ at' = at /\ step' = "create"
         \/ /\ at' = at /\ step' = "remove"
            /\ found # None /\ found.managed /\ Drifted(found, at)
         \/ at' = at /\ step' = "start_found" /\ found # None /\ ~Drifted(found, at)
    BY Zenon DEF InspectContainer, EnsureFailed, memory, history
<1>3. \A r \in Replicas : Clean(r) => Clean(r)'
    BY Zenon, <1>2, CleanKept DEF Unspoilt
<1>4. CacheCurrent'
    BY Zenon, <1>2 DEF Rolling, CacheCurrent
<1>5. \A n \in missing' : containers'[n] = None
    BY Zenon, <1>2 DEF Rolling, MissingAhead
<1>6. HereDone'
    <2> SUFFICES ASSUME step' \in {"start_found", "start"}
                 PROVE  Clean(at)' /\ Name(at)' \notin missing'
        BY Zenon DEF HereDone
    <2>1. at' = at /\ found # None /\ ~Drifted(found, at)
        BY Zenon, <1>2 DEF Sleep
    <2>2. Clean(at)
        BY Zenon, <1>1, <2>1 DEF Clean, Tag
    <2>3. Clean(at)'
        BY Zenon, <1>2, <2>1, <2>2 DEF Clean, Drifted, Desired, Name
    <2>4. Name(at) \notin missing
        BY Zenon, <2>1 DEF Rolling, MissingAhead
    <2> QED BY Zenon, <1>2, <2>1, <2>3, <2>4 DEF Name
<1>7. RemovesFirst'
    <2> SUFFICES ASSUME step' = "remove", NEW n \in missing PROVE FALSE
        BY Zenon, <1>2 DEF RemovesFirst
    <2>1. found # None /\ found.managed /\ Drifted(found, at)
        BY Zenon, <1>2 DEF Sleep
    <2>2. ~Clean(at)
        BY Zenon, <2>1 DEF Clean
    <2>3. PICK p \in Replicas : Name(p) = n /\ ~Before(p, at) /\ CleanBefore(p)
        BY Zenon DEF Rolling, MissingAhead
    <2>4. containers[n] = None
        BY Zenon DEF Rolling, MissingAhead
    <2>5. ~Before(at, p)
        BY Zenon, <1>0, <2>2, <2>3 DEF CleanBefore
    <2>6. p = at
        BY Zenon, <1>0, <2>3, <2>5, BeforeTotal
    <2> QED BY Zenon, <2>1, <2>3, <2>4, <2>6
<1> QED BY Zenon, <1>0, <1>2, <1>3, <1>4, <1>5, <1>6, <1>7, RollingKept

LEMMA StartRolls ==
    ASSUME SupervisorInv, Rolling, StartFound \/ Start
    PROVE  Rolling'
<1>0. /\ TypeInv /\ config \in Configs /\ at \in Replicas
      /\ containers \in [Names -> Container \cup {None}]
    BY Zenon DEF SupervisorInv, TypeInv
<1>1. /\ UNCHANGED <<config, cache, local, missing>>
      /\ step \in {"start_found", "start"}
      /\ Sleep \/ Advance
      /\ \/ UNCHANGED containers
         \/ /\ containers[Name(at)] # None
            /\ containers' = [containers EXCEPT ![Name(at)].running = TRUE]
    BY Zenon DEF StartFound, Start, EnsureFailed, memory, history
<1>2. Clean(at) /\ Name(at) \notin missing
    BY Zenon, <1>1 DEF Rolling, HereDone
<1>3. ASSUME NEW n \in Names PROVE Unspoilt(n)
    <2>1. CASE UNCHANGED containers
        BY Zenon, <2>1 DEF Unspoilt
    <2>2. CASE /\ containers[Name(at)] # None /\ n = Name(at)
               /\ containers' = [containers EXCEPT ![Name(at)].running = TRUE]
        <3>1. containers'[n] = [containers[n] EXCEPT !.running = TRUE]
            BY Zenon, <1>0, <1>3, <2>2
        <3>2. containers[n] \in Container /\ containers[n] # None
            BY Zenon, <1>0, <1>3, <2>2
        <3>3. /\ containers'[n].image = containers[n].image
              /\ containers'[n].settings = containers[n].settings
              /\ containers'[n].managed = containers[n].managed
            BY <3>1, <3>2 DEF Container
        <3> QED BY Zenon, <3>2, <3>3 DEF Unspoilt
    <2>3. CASE /\ n # Name(at)
               /\ containers' = [containers EXCEPT ![Name(at)].running = TRUE]
        <3>1. containers'[n] = containers[n]
            BY Zenon, <1>0, <1>3, <2>3
        <3> QED BY Zenon, <3>1 DEF Unspoilt
    <2> QED BY Zenon, <1>1, <2>1, <2>2, <2>3
<1>4. ASSUME NEW r \in Replicas, Clean(r) PROVE Clean(r)'
    <2>1. Name(r) \in Names
        BY Zenon, <1>0, ReplicaFacts
    <2>2. Unspoilt(Name(r))
        BY Zenon, <1>3, <2>1
    <2> QED BY Zenon, <1>1, <1>4, <2>2, CleanKept
<1>5. CacheCurrent'
    BY Zenon, <1>1 DEF Rolling, CacheCurrent
<1>6. step' \in {"sleep", "resolve"}
    BY Zenon, <1>1 DEF Sleep, Advance
<1>7. HereDone' /\ RemovesFirst'
    <2>1. step' \notin {"start_found", "start"} /\ step' # "remove"
        BY Zenon, <1>6
    <2> QED BY Zenon, <2>1 DEF HereDone, RemovesFirst
<1>8. ASSUME NEW n \in missing' PROVE containers'[n] = None
    <2>1. n \in missing /\ containers[n] = None
        BY Zenon, <1>1, <1>8 DEF Rolling, MissingAhead
    <2>2. n # Name(at)
        BY Zenon, <1>2, <2>1
    <2>3. n \in Names
        <3>1. PICK p \in Replicas : Name(p) = n
            BY Zenon, <2>1 DEF Rolling, MissingAhead
        <3> QED BY Zenon, <1>0, <3>1, ReplicaFacts
    <2> QED BY Zenon, <1>0, <1>1, <2>1, <2>2, <2>3
<1> QED BY Zenon, <1>0, <1>1, <1>2, <1>4, <1>5, <1>7, <1>8, RollingKept

\* A name is freed only while none is missing.
LEMMA RemoveRolls ==
    ASSUME SupervisorInv, Rolling, Remove
    PROVE  Rolling'
<1>0. /\ TypeInv /\ config \in Configs /\ at \in Replicas
      /\ containers \in [Names -> Container \cup {None}]
    BY Zenon DEF SupervisorInv, TypeInv
<1>1. /\ UNCHANGED <<config, cache, local>> /\ missing = {}
      /\ \/ Sleep /\ UNCHANGED <<containers, missing>>
         \/ /\ at' = at /\ step' = "create" /\ missing' = {Name(at)}
            /\ containers' = [containers EXCEPT ![Name(at)] = None]
    BY Zenon DEF Remove, EnsureFailed, Rolling, RemovesFirst, memory
<1>2. ASSUME NEW r \in Replicas, Clean(r) PROVE Clean(r)'
    <2>1. Name(r) \in Names
        BY Zenon, <1>0, ReplicaFacts
    <2>2. Unspoilt(Name(r))
        BY Zenon, <1>0, <1>1, <2>1 DEF Unspoilt
    <2> QED BY Zenon, <1>1, <1>2, <2>2, CleanKept
<1>3. CacheCurrent'
    BY Zenon, <1>1 DEF Rolling, CacheCurrent
<1>4. step' \in {"sleep", "create"}
    BY Zenon, <1>1 DEF Sleep
<1>5. HereDone' /\ RemovesFirst'
    <2>1. step' \notin {"start_found", "start"} /\ step' # "remove"
        BY Zenon, <1>4
    <2> QED BY Zenon, <2>1 DEF HereDone, RemovesFirst
<1>6. CASE Sleep /\ UNCHANGED <<containers, missing>>
    BY Zenon, <1>0, <1>1, <1>2, <1>3, <1>5, <1>6, RollingKept
<1>7. CASE /\ at' = at /\ missing' = {Name(at)}
           /\ containers' = [containers EXCEPT ![Name(at)] = None]
    <2>1. Replicas' = Replicas
        BY Zenon, <1>1, ReplicasNow
    <2>2. PICK p \in Replicas : p = at
        BY Zenon, <1>0
    <2>3. \A r \in Replicas : Before(r, p) => Clean(r)'
        BY Zenon, <1>2, <2>2 DEF Rolling, CleanBefore
    <2>4. CleanBefore(at)'
        BY Zenon, <1>7, <2>1, <2>2, <2>3 DEF CleanBefore
    <2>5. containers'[Name(p)] = None
        BY Zenon, <1>0, <1>7, <2>2, ReplicaFacts
    <2>6. ~Before(p, at')
        BY Zenon, <1>0, <1>7, <2>2, BeforeTotal
    <2>7. missing' = {Name(p)}
        BY Zenon, <1>7, <2>2
    <2>8. MissingAhead'
        <3> SUFFICES ASSUME NEW n \in missing'
                     PROVE  /\ containers'[n] = None
                            /\ \E x \in Replicas :
                                  /\ Name(x) = n /\ ~Before(x, at')
                                  /\ \A r \in Replicas : Before(r, x) => Clean(r)'
            BY Zenon, <2>1 DEF MissingAhead, CleanBefore, Name
        <3> QED BY Zenon, <2>3, <2>5, <2>6, <2>7
    <2>9. OneMissing'
        BY Zenon, <2>7 DEF OneMissing
    <2> QED BY Zenon, <1>3, <1>5, <2>4, <2>8, <2>9 DEF Rolling
<1> QED BY Zenon, <1>1, <1>6, <1>7

\* What is created has the cached image.
LEMMA CreateRolls ==
    ASSUME SupervisorInv, Rolling, NamesDistinct, Create
    PROVE  Rolling'
<1>0. /\ TypeInv /\ config \in Configs /\ at \in Replicas
      /\ containers \in [Names -> Container \cup {None}]
    BY Zenon DEF SupervisorInv, TypeInv
<1>1. CASE /\ UNCHANGED <<config, cache, local, containers, missing>> /\ Sleep
    <2>1. \A r \in Replicas : Clean(r) => Clean(r)'
        BY Zenon, <1>1, CleanKept DEF Unspoilt
    <2>2. CacheCurrent' /\ \A n \in missing' : containers'[n] = None
        BY Zenon, <1>1 DEF Rolling, CacheCurrent, MissingAhead
    <2>3. HereDone' /\ RemovesFirst'
        BY Zenon, <1>1 DEF HereDone, RemovesFirst, Sleep
    <2> QED BY Zenon, <1>0, <1>1, <2>1, <2>2, <2>3, RollingKept
<1> DEFINE made == [image |-> local[Tag], settings |-> Desired(at).settings,
                    managed |-> TRUE, running |-> FALSE]
<1>2. CASE /\ UNCHANGED <<config, cache, local, at>> /\ step = "create" /\ step' = "start"
           /\ containers' = [containers EXCEPT ![Name(at)] = made]
           /\ missing' = missing \ {Name(at)}
    <2>1. Tag \in Tags /\ cache[Tag] # None /\ Name(at) \in Names
        BY Zenon, <1>0, <1>2, ReplicaFacts DEF Tag, SupervisorInv, ImageKnown
    <2>2. cache[Tag] = local[Tag]
        BY Zenon, <2>1 DEF Rolling, CacheCurrent
    <2>3. containers'[Name(at)] = made
        BY Zenon, <1>0, <1>2, <2>1
    <2>4. made.image = cache[Desired(at).tag] /\ made.settings = Desired(at).settings
        BY Zenon, <2>2 DEF Tag
    <2> HIDE DEF made
    <2>5. PICK p \in Replicas : p = at
        BY Zenon, <1>0
    <2>6. Clean(p)'
        <3>1. Desired(p)' = Desired(p)
            BY Zenon, <1>2 DEF Desired
        <3>2. ~Drifted(containers[Name(p)], p)'
            BY Zenon, <1>2, <2>3, <2>4, <2>5, <3>1 DEF Drifted
        <3>3. cache'[Desired(p)'.tag] # None
            BY Zenon, <1>2, <2>1, <2>5, <3>1 DEF Tag
        <3> QED BY Zenon, <3>2, <3>3 DEF Clean
    <2>7. ASSUME NEW r \in Replicas, Clean(r) PROVE Clean(r)'
        <3>1. CASE r = p
            BY Zenon, <2>6, <3>1
        <3>2. CASE r # p
            <4>1. Name(r) # Name(at) /\ Name(r) \in Names
                BY Zenon, <1>0, <2>5, <3>2, OwnName, ReplicaFacts
            <4>2. containers'[Name(r)] = containers[Name(r)]
                BY Zenon, <1>0, <1>2, <4>1
            <4> QED BY Zenon, <1>2, <2>7, <4>2, CleanKept DEF Unspoilt
        <3> QED BY Zenon, <3>1, <3>2
    <2>8. ASSUME NEW n \in missing' PROVE containers'[n] = None
        <3>1. n \in missing /\ containers[n] = None /\ n # Name(at)
            BY Zenon, <1>2, <2>8 DEF Rolling, MissingAhead
        <3>2. PICK x \in Replicas : Name(x) = n
            BY Zenon, <3>1 DEF Rolling, MissingAhead
        <3>3. n \in Names
            BY Zenon, <1>0, <3>2, ReplicaFacts
        <3> QED BY Zenon, <1>0, <1>2, <3>1, <3>3
    <2>9. CacheCurrent'
        BY Zenon, <1>2 DEF Rolling, CacheCurrent
    <2>10. RemovesFirst'
        BY Zenon, <1>2 DEF RemovesFirst
    <2>11. HereDone'
        <3>1. Clean(at)'
            BY Zenon, <1>2, <2>5, <2>6
        <3>2. Name(at)' \notin missing'
            BY Zenon, <1>2 DEF Name
        <3> QED BY Zenon, <3>1, <3>2 DEF HereDone
    <2>12. missing' \subseteq missing
        BY Zenon, <1>2
    <2> QED BY Zenon, <1>0, <1>2, <2>7, <2>8, <2>9, <2>10, <2>11, <2>12, RollingKept
<1> QED BY Zenon, <1>1, <1>2 DEF Create, EnsureFailed, memory

\* What is put in place by hand is not Maqistor's.
LEMMA EditRolls ==
    ASSUME SupervisorInv, Rolling, NEW n \in Names, EditContainer(n)
    PROVE  Rolling'
<1>0. /\ TypeInv /\ config \in Configs /\ at \in Replicas
      /\ containers \in [Names -> Container \cup {None}]
    BY Zenon DEF SupervisorInv, TypeInv
<1>1. /\ UNCHANGED <<config, cache, at, step, local>> /\ missing' = missing \ {n}
      /\ \/ /\ containers[n] # None
            /\ containers' = [containers EXCEPT ![n].running = FALSE]
         \/ containers' = [containers EXCEPT ![n] = None]
         \/ \E image \in Images :
               containers' = [containers EXCEPT ![n] =
                 [image |-> image, settings |-> {}, managed |-> FALSE, running |-> TRUE]]
    BY Zenon DEF EditContainer, Edit, memory
<1>2. ASSUME NEW m \in Names, m # n PROVE containers'[m] = containers[m]
    BY Zenon, <1>0, <1>1, <1>2
<1>3. Unspoilt(n)
    <2>1. CASE /\ containers[n] # None
               /\ containers' = [containers EXCEPT ![n].running = FALSE]
        <3>1. containers'[n] = [containers[n] EXCEPT !.running = FALSE]
            BY Zenon, <1>0, <2>1
        <3>2. containers[n] \in Container
            BY Zenon, <1>0, <2>1
        <3>3. /\ containers'[n].image = containers[n].image
              /\ containers'[n].settings = containers[n].settings
              /\ containers'[n].managed = containers[n].managed
            BY <3>1, <3>2 DEF Container
        <3> QED BY Zenon, <2>1, <3>3 DEF Unspoilt
    <2>2. CASE containers' = [containers EXCEPT ![n] = None]
        BY Zenon, <1>0, <2>2 DEF Unspoilt
    <2>3. CASE \E image \in Images :
                 containers' = [containers EXCEPT ![n] =
                   [image |-> image, settings |-> {}, managed |-> FALSE, running |-> TRUE]]
        <3>1. PICK image \in Images :
                containers'[n] =
                   [image |-> image, settings |-> {}, managed |-> FALSE, running |-> TRUE]
            BY Zenon, <1>0, <2>3
        <3>2. ~containers'[n].managed
            BY <3>1
        <3> QED BY Zenon, <3>2 DEF Unspoilt
    <2> QED BY Zenon, <1>1, <2>1, <2>2, <2>3
<1>4. ASSUME NEW r \in Replicas, Clean(r) PROVE Clean(r)'
    <2>1. Name(r) \in Names
        BY Zenon, <1>0, ReplicaFacts
    <2>2. Unspoilt(Name(r))
        BY Zenon, <1>2, <1>3, <2>1 DEF Unspoilt
    <2> QED BY Zenon, <1>1, <1>4, <2>2, CleanKept
<1>5. ASSUME NEW m \in missing' PROVE containers'[m] = None
    <2>1. m \in missing /\ containers[m] = None /\ m # n
        BY Zenon, <1>1, <1>5 DEF Rolling, MissingAhead
    <2>2. PICK p \in Replicas : Name(p) = m
        BY Zenon, <2>1 DEF Rolling, MissingAhead
    <2>3. m \in Names
        BY Zenon, <1>0, <2>2, ReplicaFacts
    <2> QED BY Zenon, <1>2, <2>1, <2>3
<1>6. CacheCurrent'
    BY Zenon, <1>1 DEF Rolling, CacheCurrent
<1>7. missing' \subseteq missing
    BY Zenon, <1>1
<1>8. RemovesFirst'
    BY Zenon, <1>1, <1>7 DEF Rolling, RemovesFirst
<1>9. HereDone'
    <2> SUFFICES ASSUME step \in {"start_found", "start"}
                 PROVE  Clean(at)' /\ Name(at)' \notin missing'
        BY Zenon, <1>1 DEF HereDone
    <2>1. Clean(at) /\ Name(at) \notin missing
        BY Zenon DEF Rolling, HereDone
    <2>2. PICK p \in Replicas : p = at
        BY Zenon, <1>0
    <2>3. Clean(at)'
        BY Zenon, <1>1, <1>4, <2>1, <2>2
    <2> QED BY Zenon, <1>1, <1>7, <2>1, <2>3 DEF Name
<1> QED BY Zenon, <1>0, <1>1, <1>4, <1>5, <1>6, <1>7, <1>8, <1>9, RollingKept

LEMMA RollingNext ==
    ASSUME SupervisorInv, RollingInv, NamesDistinct, [Next]_vars
    PROVE  RollingInv'
<1> SUFFICES ASSUME ~moved' PROVE Rolling'
    BY Zenon DEF RollingInv
<1>0. /\ TypeInv /\ config \in Configs /\ at \in Replicas
      /\ local \in [Tags -> Images \cup {None}]
    BY Zenon DEF SupervisorInv, TypeInv
<1>1. CASE Supervise
    <2>1. moved' = moved
        BY Zenon, <1>1 DEF Supervise, BeginPass, ResolveImage, Pull, InspectPulled,
           InspectContainer, StartFound, Remove, Create, Start, history
    <2>2. Rolling
        BY Zenon, <2>1 DEF RollingInv
    <2> QED BY Zenon, <1>1, <2>2, ResolveRolls, InspectRolls, StartRolls, RemoveRolls,
               CreateRolls DEF Supervise
<1>2. CASE \E n \in Names : EditContainer(n)
    <2>1. PICK n \in Names : EditContainer(n)
        BY Zenon, <1>2
    <2>2. Rolling
        BY Zenon, <2>1 DEF RollingInv, EditContainer
    <2> QED BY Zenon, <2>1, <2>2, EditRolls
<1>3. CASE \E t \in Tags : MoveTag(t)
    <2>1. PICK t \in Tags : MoveTag(t)
        BY Zenon, <1>3
    <2>2. /\ UNCHANGED <<config, cache, at, step, containers, missing>>
          /\ cache[t] = None /\ Rolling
          /\ \E image \in Images : local' = [local EXCEPT ![t] = image]
        BY Zenon, <2>1 DEF MoveTag, Edit, RollingInv, memory
    <2>3. CacheCurrent'
        <3> SUFFICES ASSUME NEW u \in Tags PROVE cache'[u] \in {None, local'[u]}
            BY Zenon DEF CacheCurrent
        <3>1. cache[u] \in {None, local[u]}
            BY Zenon, <2>2 DEF Rolling, CacheCurrent
        <3>2. CASE u = t
            BY Zenon, <2>2, <3>2
        <3>3. CASE u # t
            BY Zenon, <1>0, <2>2, <3>1, <3>3
        <3> QED BY Zenon, <3>2, <3>3
    <2>4. \A r \in Replicas : Clean(r) => Clean(r)'
        BY Zenon, <2>2, CleanKept DEF Unspoilt
    <2>5. HereDone'
        <3> SUFFICES ASSUME step \in {"start_found", "start"}
                     PROVE  Clean(at)' /\ Name(at)' \notin missing'
            BY Zenon, <2>2 DEF HereDone
        <3>1. Clean(at) /\ Name(at) \notin missing
            BY Zenon, <2>2 DEF Rolling, HereDone
        <3>2. PICK p \in Replicas : p = at
            BY Zenon, <1>0
        <3>3. Clean(at)'
            BY Zenon, <2>2, <2>4, <3>1, <3>2
        <3> QED BY Zenon, <2>2, <3>1, <3>3 DEF Name
    <2>6. RemovesFirst' /\ \A n \in missing' : containers'[n] = None
        BY Zenon, <2>2 DEF Rolling, RemovesFirst, MissingAhead
    <2> QED BY Zenon, <1>0, <2>2, <2>3, <2>4, <2>5, <2>6, RollingKept
<1>4. CASE Restart
    <2>1. /\ config' \in Configs /\ cache' = [t \in Tags |-> None] /\ missing' = {}
          /\ step' = "sleep" /\ at' = [i |-> 1, ordinal |-> 0]
        BY Zenon, <1>4 DEF Restart, Sleep
    <2>2. CleanBefore(at)'
        <3> SUFFICES ASSUME NEW r \in Replicas' PROVE ~Before(r, at')
            BY Zenon DEF CleanBefore
        <3> QED BY Zenon, <2>1, NoneBefore, ReplicasNow
    <2>3. CacheCurrent' /\ MissingAhead' /\ HereDone' /\ RemovesFirst' /\ OneMissing'
        BY Zenon, <2>1 DEF CacheCurrent, MissingAhead, HereDone, RemovesFirst, OneMissing
    <2> QED BY Zenon, <2>2, <2>3 DEF Rolling
<1>5. CASE UNCHANGED vars
    <2>1. UNCHANGED <<config, cache, at, step, containers, local, missing, moved>>
        BY Zenon, <1>5 DEF vars, memory, history
    <2>2. Rolling
        BY Zenon, <2>1 DEF RollingInv
    <2>3. \A r \in Replicas : Clean(r) => Clean(r)'
        BY Zenon, <2>1, CleanKept DEF Unspoilt
    <2>4. HereDone'
        BY Zenon, <2>1, <2>2 DEF Rolling, HereDone, Clean, Drifted, Desired, Name
    <2>5. CacheCurrent' /\ RemovesFirst' /\ \A n \in missing' : containers'[n] = None
        BY Zenon, <2>1, <2>2 DEF Rolling, CacheCurrent, RemovesFirst, MissingAhead
    <2> QED BY Zenon, <1>0, <2>1, <2>2, <2>3, <2>4, <2>5, RollingKept
<1> QED BY Zenon, <1>1, <1>2, <1>3, <1>4, <1>5 DEF Next

\* A process never leaves two replicas without the containers it removed
\* (OneMissingAtATime), in however many passes and whatever Docker calls fail: at
\* most one replica of all the managed queues is down for its replacement.  If
\* container_name gave two queues the same names, each would replace the
\* containers of the other, and the names would say nothing of the replicas.
THEOREM ReplacedOneByOne == NamesDistinct => (Spec => []OneMissingAtATime)
<1> SUFFICES ASSUME NamesDistinct PROVE Spec => []OneMissingAtATime
    OBVIOUS
<1>1. Init => RollingInv
    <2> SUFFICES ASSUME Init PROVE Rolling
        BY Zenon DEF RollingInv
    <2>1. /\ config \in Configs /\ cache = [t \in Tags |-> None] /\ missing = {}
          /\ step = "sleep" /\ at = [i |-> 1, ordinal |-> 0]
        BY Zenon DEF Init
    <2>2. CleanBefore(at)
        BY Zenon, <2>1, NoneBefore, ReplicasNow DEF CleanBefore
    <2> QED BY Zenon, <2>1, <2>2 DEF Rolling, CacheCurrent, MissingAhead, HereDone,
               RemovesFirst, OneMissing
<1>2. SupervisorInv /\ RollingInv /\ [Next]_vars => RollingInv'
    BY Zenon, RollingNext
<1>3. RollingInv => OneMissingAtATime
    BY Zenon DEF RollingInv, Rolling, OneMissing, OneMissingAtATime
<1> QED BY <1>1, <1>2, <1>3, SupervisorInvariant, PTL DEF Spec

-----------------------------------------------------------------------------
(***************************************************************************)
(* A container that is as configured stays                                 *)
(***************************************************************************)
LEMMA SettledKept ==
    ASSUME NEW p, Settled(p), UNCHANGED config,
           \/ containers'[Name(p)] = containers[Name(p)]
           \/ /\ containers'[Name(p)] = [containers[Name(p)] EXCEPT !.running = TRUE]
              /\ containers[Name(p)] \in Container,
           containers'[Name(p)] # None,
           local'[Desired(p).tag] = local[Desired(p).tag],
           \/ cache'[Desired(p).tag] = cache[Desired(p).tag]
           \/ cache'[Desired(p).tag] = local[Desired(p).tag],
           step' # "pull", step' = "remove" => Name(at)' # Name(p)
    PROVE  Settled(p)'
<1>1. Desired(p)' = Desired(p)
    BY Zenon DEF Desired
<1>2. /\ containers'[Name(p)].image = containers[Name(p)].image
      /\ containers'[Name(p)].settings = containers[Name(p)].settings
      /\ containers'[Name(p)].running
    BY Zenon DEF Container, Settled, AsConfigured
<1>3. AsConfigured(p)'
    BY Zenon, <1>1, <1>2 DEF AsConfigured, Settled
<1>4. ~Moved(p)'
    BY Zenon, <1>1 DEF Moved, Settled
<1> QED BY Zenon, <1>3, <1>4 DEF Settled

LEMMA SettledNext ==
    ASSUME SupervisorInv, NamesDistinct, [Next]_vars, UNCHANGED <<edits, restarts>>,
           NEW p \in Replicas, Settled(p)
    PROVE  Settled(p)' \/ step' = "pull"
<1> DEFINE n == Name(p)
           tag == Desired(p).tag
           c == containers[n]
<1>0. /\ TypeInv /\ ImageKnown /\ config \in Configs /\ at \in Replicas
      /\ cache \in [Tags -> Images \cup {None}] /\ local \in [Tags -> Images \cup {None}]
      /\ containers \in [Names -> Container \cup {None}]
      /\ edits \in Nat /\ restarts \in Nat
    BY Zenon DEF SupervisorInv, TypeInv
<1>1. n \in Names /\ tag \in Tags
    BY Zenon, <1>0, ReplicaFacts
<1>2. Name(at) \in Names /\ Tag \in Tags
    BY Zenon, <1>0, HereFacts
<1>3. /\ c # None /\ c.image = local[tag] /\ Desired(p).settings \subseteq c.settings
      /\ cache[tag] \in {None, local[tag]}
      /\ ~(step = "remove" /\ Name(at) = n) /\ ~(step = "pull" /\ Tag = tag)
    BY Zenon DEF Settled, AsConfigured, Moved
<1>4. c \in Container
    BY Zenon, <1>0, <1>1, <1>3
<1>5. ~Restart /\ ~Edit
    <2>1. edits' # edits + 1 /\ restarts' # restarts + 1
        BY <1>0
    <2> QED BY Zenon, <2>1 DEF Restart, Edit
<1>a. Supervise \/ UNCHANGED vars
    BY Zenon, <1>5 DEF Next, EditContainer, MoveTag
<1>6. UNCHANGED config
    <2>1. CASE BeginPass \/ Pull \/ InspectContainer \/ StartFound \/ Remove \/ Create \/ Start
        <3>1. UNCHANGED memory
            BY Zenon, <2>1 DEF BeginPass, Pull, InspectContainer, StartFound, Remove, Create, Start
        <3> QED BY Zenon, <3>1 DEF memory
    <2>2. CASE ResolveImage \/ InspectPulled
        BY Zenon, <2>2 DEF ResolveImage, InspectPulled
    <2>3. CASE UNCHANGED vars
        BY Zenon, <2>3 DEF vars, memory
    <2> QED BY Zenon, <1>a, <2>1, <2>2, <2>3 DEF Supervise
\* The daemon's state is left as it is.
<1>7. ASSUME UNCHANGED containers, UNCHANGED local,
             cache'[tag] = cache[tag] \/ cache'[tag] = local[tag],
             step' # "pull", step' = "remove" => Name(at)' # n
      PROVE  Settled(p)'
    BY Zenon, <1>3, <1>6, <1>7, SettledKept
<1>8. CASE BeginPass \/ ResolveImage \/ InspectPulled
    <2>1. /\ UNCHANGED containers /\ UNCHANGED local
          /\ cache' = cache \/ cache' = [cache EXCEPT ![Tag] = local[Tag]]
          /\ step' \in {"resolve", "inspect", "pull", "sleep"}
        BY Zenon, <1>8 DEF BeginPass, ResolveImage, InspectPulled, Resolved, EnsureFailed, Sleep, memory
    <2>2. cache'[tag] = cache[tag] \/ cache'[tag] = local[tag]
        BY Zenon, <1>0, <1>1, <1>2, <2>1
    <2> QED BY Zenon, <1>7, <2>1, <2>2
<1>9. CASE Pull
    <2>1. /\ UNCHANGED <<containers, cache>> /\ step = "pull" /\ step' \in {"pulled", "sleep"}
          /\ local' = local \/ local' = [local EXCEPT ![Tag] = Registry[Tag]]
        BY Zenon, <1>9 DEF Pull, EnsureFailed, Sleep, memory
    <2>2. local'[tag] = local[tag]
        BY Zenon, <1>0, <1>1, <1>2, <1>3, <2>1
    <2>3. step' # "pull" /\ step' # "remove"
        BY Zenon, <2>1
    <2> QED BY Zenon, <1>3, <1>6, <2>1, <2>2, <2>3, SettledKept
<1>10. CASE InspectContainer
    <2>1. /\ UNCHANGED <<containers, local, cache>> /\ step = "inspect"
          /\ \/ step' \in {"sleep", "start_found", "create"}
             \/ step' = "remove" /\ at' = at /\ Drifted(containers[Name(at)], at)
        BY Zenon, <1>10 DEF InspectContainer, EnsureFailed, Sleep, memory
    <2>2. step' = "remove" => Name(at)' # n
        <3> SUFFICES ASSUME step' = "remove", Name(at)' = n PROVE FALSE
            BY Zenon
        <3>1. at' = at /\ Drifted(containers[Name(at)], at)
            BY Zenon, <2>1
        <3>2. Name(at) = Name(p)
            BY Zenon, <3>1 DEF Name
        <3>3. at = p
            BY Zenon, <1>0, <3>2, OwnName
        <3>4. cache[tag] # None
            BY Zenon, <1>0, <2>1, <3>3 DEF ImageKnown, Tag
        <3>5. cache[tag] = local[tag]
            BY Zenon, <1>3, <3>4
        <3> QED BY Zenon, <1>3, <3>1, <3>3, <3>5 DEF Drifted
    <2> QED BY Zenon, <1>7, <2>1, <2>2
<1>11. CASE StartFound \/ Start
    <2>1. /\ UNCHANGED <<local, cache>>
          /\ \/ containers' = containers
             \/ /\ containers[Name(at)] # None
                /\ containers' = [containers EXCEPT ![Name(at)].running = TRUE]
          /\ Sleep \/ Advance
        BY Zenon, <1>11 DEF StartFound, Start, EnsureFailed, memory
    <2>2. step' \in {"sleep", "resolve"}
        BY Zenon, <1>0, <1>6, <2>1, NextPlace
    <2>3. containers'[n] = c \/ containers'[n] = [c EXCEPT !.running = TRUE]
        BY Zenon, <1>0, <1>1, <1>2, <2>1
    <2>4. [c EXCEPT !.running = TRUE] # None
        <3>1. [c EXCEPT !.running = TRUE] \in Container
            BY Zenon, <1>4 DEF Container
        <3> QED BY Zenon, <3>1, ConfigAssumption
    <2>5. step' # "pull" /\ step' # "remove"
        BY Zenon, <2>2
    <2> QED BY Zenon, <1>3, <1>4, <1>6, <2>1, <2>3, <2>4, <2>5, SettledKept
<1>12. CASE Remove \/ Create
    <2>1. /\ UNCHANGED <<local, cache>> /\ step' \in {"create", "start", "sleep"}
          /\ \/ containers' = containers
             \/ /\ step = "remove" \/ containers[Name(at)] = None
                /\ \E r : containers' = [containers EXCEPT ![Name(at)] = r]
        BY Zenon, <1>12 DEF Remove, Create, EnsureFailed, Sleep, memory
    <2>2. containers'[n] = c
        BY Zenon, <1>0, <1>1, <1>2, <1>3, <2>1
    <2>3. step' # "pull" /\ step' # "remove"
        BY Zenon, <2>1
    <2> QED BY Zenon, <1>3, <1>6, <2>1, <2>2, <2>3, SettledKept
<1>13. CASE UNCHANGED vars
    <2>1. UNCHANGED <<config, cache, at, step, containers, local>>
        BY Zenon, <1>13 DEF vars, memory
    <2>2. step' = "remove" => Name(at)' # n
        BY Zenon, <1>3, <2>1 DEF Name
    <2> QED BY Zenon, <1>7, <2>1, <2>2
<1> QED BY Zenon, <1>a, <1>8, <1>9, <1>10, <1>11, <1>12, <1>13 DEF Supervise

\* A container that is as configured is left alone by every later pass, whatever
\* errors ensure meets but one of resolve_image_id, provided that container_name
\* keeps the managed queues apart, which nothing in the configuration enforces.
THEOREM ConfiguredStays == NamesDistinct => (Spec => LeftAlone)
<1> SUFFICES ASSUME NamesDistinct PROVE Spec => LeftAlone
    BY Zenon
<1> DEFINE A == \A p \in Replicas :
        Settled(p) /\ UNCHANGED <<edits, restarts>> => Settled(p)' \/ step' = "pull"
<1>1. SupervisorInv /\ [Next]_vars => A
    BY Zenon, SettledNext
<1>2. SupervisorInv /\ [Next]_vars => [A]_vars
    BY Zenon, <1>1
<1> QED BY <1>2, SupervisorInvariant, PTL DEF Spec, LeftAlone
=============================================================================
