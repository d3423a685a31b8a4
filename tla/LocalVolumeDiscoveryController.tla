------------------- MODULE LocalVolumeDiscoveryController -------------------
(***************************************************************************)
(* The operator side of discovery: ReconcileLocalVolumeDiscovery.Reconcile *)
(* and syncDiskPvConfigMap of pkg/controller/localvolumediscovery.         *)
(*                                                                         *)
(* controller-runtime feeds Reconcile from a work queue of request names   *)
(* (a set: a queued name is not queued twice) with one worker, so a        *)
(* Reconcile call is one step.  The client reads from informer caches and  *)
(* writes to the API server: the PVs the controller lists (pvCache) and    *)
(* the ConfigMap it reads (cmCache) lag the API (pvs, cm), and an update   *)
(* sent with a ConfigMap read from a cache that has not yet seen the last  *)
(* write carries an old resourceVersion and is refused.  Watch events are  *)
(* queued when the informer delivers them.  The cluster (PVs, the          *)
(* DaemonSet status, the LocalVolumeDiscovery object) is the environment.  *)
(***************************************************************************)
EXTENDS Naturals, Sequences, FiniteSets, DiskPVMap

CONSTANTS
    LVDName,        \* the request name of the LocalVolumeDiscovery object
    LocalPVNamed,   \* PVs whose name contains "local-pv"
    PVNode,         \* PVNode[p]: the kubernetes.io/hostname label of p
    PVClass,        \* PVClass[p]: p.Spec.StorageClassName
    PVPath,         \* PVPath[p]: p.Spec.Local.Path
    ByLocalProvisioner, \* PVs whose provisioned-by names local-volume-provisioner
    DaemonStates,   \* <<desired, ready>> counts the DaemonSet status can show
    CMInit,         \* the ConfigMap device-pv-map when the operator starts
    Faults,         \* calls that may fail: "get", "list", "ds", "dsget",
                    \* "status", "pvlist", "cmget", "write"
    NilData,        \* a DiskPVMap whose Data is a nil Go map
    NoLVD           \* the LocalVolumeDiscovery object does not exist

ASSUME ControllerAssumption ==
    /\ LVDName \notin PVNames
    /\ LocalPVNamed \subseteq PVNames
    /\ ByLocalProvisioner \subseteq PVNames
    /\ PVNode \in [PVNames -> Nodes]
    /\ PVClass \in [PVNames -> StorageClasses]
    /\ PVPath \in [PVNames -> Links]
    /\ DaemonStates \subseteq Nat \X Nat
    /\ Faults \subseteq {"get", "list", "ds", "dsget", "status", "pvlist",
                         "cmget", "write"}

VARIABLES
    queue,     \* the work queue: request names waiting for Reconcile
    lvd,       \* NoLVD, or Status.Conditions[0].Message of the object
    ds,        \* (environment) <<DesiredNumberScheduled, NumberReady>>
    pvs,       \* (environment) the PersistentVolumes in the API server
    pvCache,   \* the PVs in the controller's informer cache
    cm,        \* the ConfigMap device-pv-map in the API server
    cmCache,   \* the ConfigMap in the controller's informer cache
    cmStale    \* the cache has not yet seen the last write of cm

vars == <<queue, lvd, ds, pvs, pvCache, cm, cmCache, cmStale>>

Requests == {LVDName} \cup PVNames

\* The condition messages updateDiscoveryStatus writes.
NoCondition  == <<"none", 0, 0>>
DSFailedMsg  == <<"dsfailed", 0, 0>>
NoDaemonsMsg == <<"nodaemons", 0, 0>>

Messages ==
    {NoCondition, DSFailedMsg, NoDaemonsMsg}
    \cup {<<"running", r, d>> : <<d, r>> \in DaemonStates}
    \cup {<<"available", d, r>> : <<d, r>> \in DaemonStates}

-----------------------------------------------------------------------------
(***************************************************************************)
(* syncDiskPvConfigMap                                                     *)
(***************************************************************************)
\* The orders in which a List can return the PVs of S (the cache keeps
\* them in a Go map, so each List may return them in a different order).
Orders(S) ==
    {f \in [1..Cardinality(S) -> S] : \A i, j \in DOMAIN f : i # j => f[i] # f[j]}

\* The loop over pvList.Items building lastDiskPvMap.
BuildMap(order) ==
    LET f[i \in 0..Len(order)] ==
          IF i = 0 THEN NewDiskPVMap
          ELSE LET pv == order[i]
               IN  IF /\ pv \in ByLocalProvisioner
                      /\ ~Contains(f[i - 1], PVNode[pv], pv)
                   THEN Add(f[i - 1], PVNode[pv], pv, PVClass[pv], PVPath[pv])
                   ELSE f[i - 1]
    IN  f[Len(order)]

\* ToDiskPVMapObj of a stored value that parses ("" gives a nil Data).
StoredMap(blob) == IF blob = EmptyBlob THEN NilData ELSE ParsedDiskPVMap(blob)

\* Write the map: cm changes, and the cache has not seen it yet.
WriteMap(m) ==
    /\ cm' = Yaml(m)
    /\ cmStale' = TRUE

\* Mutant: a sync that creates the ConfigMap but never updates it.
SyncCreateOnly(fail) ==
    \E order \in Orders(IF "pvlist" \in fail THEN {} ELSE pvCache) :
        IF cmCache = Absent /\ cm = Absent /\ {"cmget", "write"} \cap fail = {}
        THEN WriteMap(BuildMap(order)) ELSE UNCHANGED <<cm, cmStale>>

\* One syncDiskPvConfigMap with the calls in fail failing.  A failed List
\* leaves pvList empty and the sync goes on with it.
SyncDiskPvConfigMap(fail) ==
    \E order \in Orders(IF "pvlist" \in fail THEN {} ELSE pvCache) :
      LET last == BuildMap(order) IN
        \/ /\ "cmget" \in fail
           \* Get fails otherwise than NotFound: Update of the empty object
           \* it left in cm is refused (it has no name).
           /\ UNCHANGED <<cm, cmStale>>
        \/ /\ "cmget" \notin fail
           /\ cmCache = Absent
           \* Create; refused when the ConfigMap exists already.
           /\ IF cm = Absent /\ "write" \notin fail
              THEN WriteMap(last) ELSE UNCHANGED <<cm, cmStale>>
        \/ /\ "cmget" \notin fail
           /\ cmCache = CorruptBlob
           /\ UNCHANGED <<cm, cmStale>>
        \/ /\ "cmget" \notin fail
           /\ cmCache \notin {Absent, CorruptBlob}
           /\ IF DiskPVMapEqual(last, StoredMap(cmCache))
              THEN UNCHANGED <<cm, cmStale>>
              \* Update: refused on a stale resourceVersion, only logged.
              ELSE IF ~cmStale /\ "write" \notin fail
              THEN WriteMap(last) ELSE UNCHANGED <<cm, cmStale>>

-----------------------------------------------------------------------------
(***************************************************************************)
(* Reconcile                                                               *)
(***************************************************************************)
\* updateDiscoveryStatus: a write only when the message changes; the write
\* is an update event of the watched object, which queues LVDName.
StatusWrites(cur, msg, fail) ==
    IF cur = msg THEN "same" ELSE IF "status" \in fail THEN "failed" ELSE "written"

\* The last step of Reconcile: the request is done or queued again, with
\* the events of the status write that happened on the way.
Finish(r, requeue, written) ==
    queue' = (IF requeue THEN queue ELSE queue \ {r})
             \cup (IF written THEN {LVDName} ELSE {})

\* Mutant: the progressing message with its counts swapped.
StatusMessageSwapped(d, rd) ==
    IF d = 0 THEN NoDaemonsMsg
    ELSE IF d # rd THEN <<"running", d, rd>>
    ELSE <<"available", d, rd>>

\* The message Reconcile writes for desired daemons d and ready ones rd:
\* "no discovery daemons...", "running rd out of d..." or "successfully
\* running d out of rd...".
StatusMessage(d, rd) ==
    IF d = 0 THEN NoDaemonsMsg
    ELSE IF d # rd THEN <<"running", rd, d>>
    ELSE <<"available", d, rd>>

\* Reconcile(r) with the calls in fail failing, from getDaemonSetStatus
\* on; lvd0 is the status as CreateOrUpdateDaemonset's error path left it
\* and written0 whether that path wrote it.
ReconcileFound(r, fail, lvd0, written0) ==
    LET d == ds[1]
        rd == ds[2]
        msg == StatusMessage(d, rd)
        st == StatusWrites(lvd0, msg, fail)
    IN
    \/ /\ "dsget" \in fail
       /\ lvd' = lvd0
       /\ Finish(r, TRUE, written0)
       /\ UNCHANGED <<cm, cmStale>>
    \/ /\ "dsget" \notin fail
       /\ lvd' = IF st = "written" THEN msg ELSE lvd0
       /\ IF st = "failed" \/ d = 0 \/ d # rd
          THEN /\ Finish(r, TRUE, written0 \/ st = "written")
               /\ UNCHANGED <<cm, cmStale>>
          ELSE /\ Finish(r, FALSE, written0 \/ st = "written")
               /\ SyncDiskPvConfigMap(fail)

\* The instance was found: CreateOrUpdateDaemonset, then the rest.
ReconcileInstance(r, fail) ==
    \/ /\ "ds" \notin fail
       /\ ReconcileFound(r, fail, lvd, FALSE)
    \/ /\ "ds" \in fail
       /\ LET st == StatusWrites(lvd, DSFailedMsg, fail)
          IN  \/ /\ st = "failed"
                 /\ Finish(r, TRUE, FALSE)
                 /\ UNCHANGED <<lvd, cm, cmStale>>
              \/ /\ st # "failed"
                 /\ ReconcileFound(r, fail, DSFailedMsg, st = "written")

ReconcileWith(r, fail) ==
    /\ r \in queue
    /\ \/ /\ "get" \in fail
          /\ Finish(r, TRUE, FALSE)
          /\ UNCHANGED <<lvd, cm, cmStale>>
       \/ /\ "get" \notin fail
          /\ r = LVDName
          /\ IF lvd = NoLVD
             THEN Finish(r, FALSE, FALSE) /\ UNCHANGED <<lvd, cm, cmStale>>
             ELSE ReconcileInstance(r, fail)
       \/ /\ "get" \notin fail
          /\ r # LVDName
          \* NotFound: a PV request falls back to the listed instance.
          /\ IF r \notin LocalPVNamed
             THEN Finish(r, FALSE, FALSE) /\ UNCHANGED <<lvd, cm, cmStale>>
             ELSE IF "list" \in fail
             THEN Finish(r, TRUE, FALSE) /\ UNCHANGED <<lvd, cm, cmStale>>
             ELSE IF lvd = NoLVD
             THEN Finish(r, FALSE, FALSE) /\ UNCHANGED <<lvd, cm, cmStale>>
             ELSE ReconcileInstance(r, fail)
    /\ UNCHANGED <<ds, pvs, pvCache, cmCache>>

Reconcile(r) == \E fail \in SUBSET Faults : ReconcileWith(r, fail)

-----------------------------------------------------------------------------
(***************************************************************************)
(* The cluster and the informers.                                          *)
(***************************************************************************)
Init ==
    /\ lvd \in {NoLVD, NoCondition}
    /\ queue = IF lvd = NoLVD THEN {} ELSE {LVDName}
    /\ ds \in DaemonStates
    /\ pvs \in SUBSET PVNames
    /\ pvCache = pvs
    /\ cm \in CMInit
    /\ cmCache = cm
    /\ cmStale = FALSE

\* The user creates the LocalVolumeDiscovery object.
CreateLVD ==
    /\ lvd = NoLVD
    /\ lvd' = NoCondition
    /\ queue' = queue \cup {LVDName}
    /\ UNCHANGED <<ds, pvs, pvCache, cm, cmCache, cmStale>>

\* The DaemonSet's status changes; its owner is queued.
DaemonSetChange(v) ==
    /\ v \in DaemonStates /\ v # ds
    /\ ds' = v
    /\ queue' = queue \cup {LVDName}
    /\ UNCHANGED <<lvd, pvs, pvCache, cm, cmCache, cmStale>>

\* The local provisioner creates a PV, or a PV is deleted.
PVChange(p) ==
    /\ pvs' = IF p \in pvs THEN pvs \ {p} ELSE pvs \cup {p}
    /\ UNCHANGED <<queue, lvd, ds, pvCache, cm, cmCache, cmStale>>

\* The PV informer delivers the event for p: the cache follows the API
\* and the handler queues the PV's name.
PVInformer(p) ==
    /\ (p \in pvs) # (p \in pvCache)
    /\ pvCache' = IF p \in pvs THEN pvCache \cup {p} ELSE pvCache \ {p}
    /\ queue' = queue \cup {p}
    /\ UNCHANGED <<lvd, ds, pvs, cm, cmCache, cmStale>>

\* The ConfigMap informer catches up (the controller does not watch it).
CMInformer ==
    /\ cmStale \/ cmCache # cm
    /\ cmCache' = cm
    /\ cmStale' = FALSE
    /\ UNCHANGED <<queue, lvd, ds, pvs, pvCache, cm>>

\* The informers' periodic resync (SyncPeriod) replays every cached
\* object as an update event: every cached PV and the LVD are queued.
Resync ==
    /\ queue' = queue \cup pvCache \cup (IF lvd = NoLVD THEN {} ELSE {LVDName})
    /\ UNCHANGED <<lvd, ds, pvs, pvCache, cm, cmCache, cmStale>>

EnvStep ==
    \/ CreateLVD
    \/ \E v \in DaemonStates : DaemonSetChange(v)
    \/ \E p \in PVNames : PVChange(p)

Next ==
    \/ \E r \in Requests : Reconcile(r)
    \/ \E p \in PVNames : PVInformer(p)
    \/ CMInformer
    \/ Resync
    \/ EnvStep

\* A Reconcile in which no call fails: API errors are transient.
HealthyReconcile(r) == ReconcileWith(r, {})

\* The worker takes every queued request and API errors are transient;
\* informers deliver every event.  FairSpec also has the resync;
\* FairSpecNoResync shows what happens before the resync period ends.
BaseFairness ==
    /\ \A r \in Requests : SF_vars(HealthyReconcile(r))
    /\ \A p \in PVNames : WF_vars(PVInformer(p))
    /\ WF_vars(CMInformer)

Spec == Init /\ [][Next]_vars

FairSpec == Spec /\ BaseFairness /\ WF_vars(Resync)

FairSpecNoResync == Spec /\ BaseFairness

-----------------------------------------------------------------------------
(***************************************************************************)
(* Properties.                                                             *)
(***************************************************************************)
\* A ConfigMap value: the one found at start, or one the sync wrote.
StoredBlob(b) ==
    \/ b \in CMInit
    \/ b = Yaml(ParsedDiskPVMap(b)) /\ IsDiskPVMap(ParsedDiskPVMap(b))

TypeOK ==
    /\ queue \subseteq Requests
    /\ lvd \in {NoLVD} \cup Messages
    /\ ds \in DaemonStates
    /\ pvs \subseteq PVNames /\ pvCache \subseteq PVNames
    /\ StoredBlob(cm) /\ StoredBlob(cmCache)
    /\ cmStale \in BOOLEAN

\* The entries of a map: node and value, order forgotten.
Entries(m) == UNION {{<<n, m[n][i]>> : i \in 1..Len(m[n])} : n \in DOMAIN m}

\* The entries the PVs of S should give: one per PV of the local provisioner.
PVEntries(S) ==
    {<<PVNode[p], [PVName |-> p, StorageClassName |-> PVClass[p],
                   DevicePath |-> PVPath[p]]>> : p \in S \cap ByLocalProvisioner}

\* Every ConfigMap write of syncDiskPvConfigMap (create or update) stores
\* exactly one entry for each PV of the local provisioner the controller's
\* cache holds, under the PV's node: no bound PV is left out, none is
\* listed twice, none is invented.
WrittenMapMatchesCache ==
    [][cm' # cm => /\ Entries(ParsedDiskPVMap(cm')) = PVEntries(pvCache)
                   /\ \A n \in DOMAIN ParsedDiskPVMap(cm') :
                        Len(ParsedDiskPVMap(cm')[n])
                          = Cardinality({p \in pvCache \cap ByLocalProvisioner :
                                           PVNode[p] = n})]_vars

\* The ConfigMap holds one entry per PV of the local provisioner.
MapCurrent ==
    /\ cm \notin {Absent, EmptyBlob, CorruptBlob}
    /\ Entries(ParsedDiskPVMap(cm)) = PVEntries(pvs)

DaemonsReady == ds[1] # 0 /\ ds[1] = ds[2]

\* Once the cluster stops changing with the discovery daemons all ready,
\* the ConfigMap keeps coming back to listing exactly the bound PVs,
\* whatever fails on the way (a failed List that wipes it, a failed Get
\* or write, a write refused for a stale resourceVersion).
MapEventuallyCurrent ==
    (<>[][~EnvStep]_vars) => []<>(lvd # NoLVD /\ DaemonsReady => MapCurrent)

\* syncDiskPvConfigMap writes only when the stored map differs from the
\* one it built (the write-only-on-change policy of the design).
NoSpuriousWrite ==
    [][cm' # cm /\ cm \notin {Absent, EmptyBlob, CorruptBlob}
         => Entries(ParsedDiskPVMap(cm')) # Entries(ParsedDiskPVMap(cm))]_vars
====
