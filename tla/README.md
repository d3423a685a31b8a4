# TLA+ models of local-storage-operator's device discovery

This directory has TLA+ models of the device discovery of the local storage
operator. Each model is checked with TLC on small instances, and TLAPS proves
two theorems about the discovery agent.

## The system

Discovery has two processes. They share one ConfigMap, `device-pv-map`.

* **Discovery agent** (`pkg/diskmaker/discovery/discovery.go`). One agent runs
  per node, in a DaemonSet. `Start` ensures the LocalVolumeDiscoveryResult CR
  exists and scans once. It then loops on a `select` over SIGTERM, a 5 s timer
  and a udev notification channel.
* **A scan** (`discoverDevices`) does these steps in order:
  1. It runs lsblk and drops what `ignoreDevices` rejects.
  2. It builds the DiscoveredDevice list with `getDeviceStatus`.
  3. It reads the ConfigMap (`getDevicePVMap`) and marks a device NotAvailable
     when its symlink under `/mnt/local-storage/` is bound to a PV on this node.
  4. It writes the result's status when the list differs from the last one held
     in memory (`disks`).
* **Events.** Each event goes through `EventReporter.Report`
  (`pkg/diskmaker/event_reporter.go`). It deduplicates events for the life of
  the process.
* **Controller** (`pkg/controller/localvolumediscovery`). `Reconcile` runs for
  requests queued by three watches: the LocalVolumeDiscovery object, its
  DaemonSet, and PersistentVolumes. It does these steps in order:
  1. It creates or updates the DaemonSet.
  2. It reads the DaemonSet status and writes a condition message when the
     message changed.
  3. When every desired daemon is ready, it runs `syncDiskPvConfigMap`. That
     function lists the PVs, builds the map node → [PV, storage class, symlink]
     for the PVs of the local provisioner, and creates or updates the ConfigMap
     when the map differs.
* **Map** (`disk_pv_mapper.go`). The map type and its YAML encoding are shared
  by both processes.

## Modules

| Module | Models |
|---|---|
| `DiskPVMap` | `disk_pv_mapper.go`. A map is a function from node to a sequence of `[PVName, StorageClassName, DevicePath]` records. `Add` appends. `GetDevicePVMap` returns the first match. `Yaml`/`ParsedDiskPVMap` wrap a map in a blob and unwrap it. `CorruptBlob` is a value that does not parse, and `EmptyBlob` is the empty string. |
| `DeviceClassifier` | `ignoreDevices`, `getDeviceStatus` and `parseDeviceType`, over the lsblk columns they read. `GetReadOnly`/`HasChildren` are not under src/. Their outcomes (parse error, glob error) are field values. The `canOpenExclusively` probe is an input that can be ok, busy or err. |
| `DeviceDiscovery` | The agent. See below. |
| `LocalVolumeDiscoveryController` | The controller. See below. |
| `MCDeviceDiscovery`, `MCLocalVolumeDiscoveryController` | The TLC instances. |
| `DeviceDiscoveryProofs` | The TLAPS proofs. |

**DeviceDiscovery.** The variables are:
- `pc`: where `Start` is. One of stopped, starting, first scan, or running the loop.
- `udev`: the udev channel's state.
- `disks`: the field of the same name.
- `reported`: the reporter's key set.
- `result`: the published status.
- The environment: `devs` (the lsblk row of each device), `probe` and `cm`.

A scan is one step. The loop is single-threaded and never suspends mid-scan. The
outcomes of `discoverDevices` are one disjunct each: `ScanListFails`,
`ScanPVMapFails`, `ScanPanics`, `ScanNoChange`, `ScanUpdateFails` and
`ScanPublishes`.

`FirstDiscovery`, `ProbeTick` and `UdevTrigger` are the three places that call
it. `UdevDisabled` and `Shutdown` are the other `select` cases. `MonitorCloses`
is the udev goroutine ending.

`Restart` is the DaemonSet restarting the container. The new process starts with
fresh memory (`NewDeviceDiscovery`), and the CR and the ConfigMap persist.

`Faults` says which calls may fail: lsblk, the ConfigMap read, the status write,
and ensuring the CR. Devices, probes and the ConfigMap change at any time.

**LocalVolumeDiscoveryController.** The variables are:
- `queue`: the work queue, a set with one worker.
- `lvd`: NoLVD, or the condition message.
- `ds`: desired and ready daemons.
- `pvs`/`pvCache`: the API server and the informer cache.
- `cm`/`cmCache`: the same, for the ConfigMap.
- `cmStale`: the cache has not seen the last write, so an Update carries an old
  resourceVersion and is refused.

`Reconcile(r)` is one step with a chosen set of failing calls. Its
sub-operators follow the code's branches in order:
- `ReconcileWith`: Get, NotFound, the local-pv fallback, List.
- `ReconcileInstance`: the CreateOrUpdateDaemonset error path.
- `ReconcileFound`: getDaemonSetStatus, the three messages, the sync.
- `SyncDiskPvConfigMap`: List, build, Get, Create, parse, DeepEqual, Update.

A List returns the PVs in any order (`Orders`), because the cache is a Go map.
A status write queues the LVD again, since it is an update event.

The environment steps are `CreateLVD`, `DaemonSetChange` and `PVChange`. The
informer steps are `PVInformer`, `CMInformer` and `Resync`, the periodic
SyncPeriod resync.

## Properties and runs

| Run | Checks | Shows |
|---|---|---|
| discovery_safety | `TypeOK`, `PublishedStatusSound` | The agent's state stays well typed and raises only the events of `EventKeys` (`TypeOK`). Every status write publishes a list that is sound for the node and ConfigMap the scan read (`SoundList`, the data model's invariant of the design). Faults: lsblk, update, ensure. |
| discovery_live | `StatusEventuallyCurrent` | When the node and ConfigMap stop changing, `result` keeps returning to what a clean scan gives. Faults: lsblk, cmread, ensure, with restarts. |
| discovery_stale | the same (violation) | A failed status write is never retried (disks was already replaced). |
| discovery_cmread | `PublishedStatusSound` (violation) | A failed ConfigMap Get drops every binding, so a bound device is published with no PV. |
| discovery_noid | `PublishedStatusSound` (violation) | A device without a by-id link is looked up by "", so its binding is never found. |
| discovery_symlinks | `PublishedStatusSound` (violation) | Only the first symlink is looked up, so a binding through a later one is missed. |
| controller_safety | `TypeOK`, `WrittenMapMatchesCache` | The queue, the stored blobs and the status messages stay well typed (`TypeOK`). Every ConfigMap write has exactly one entry per cached local PV, under its node. Faults: get, ds, status, cmget, write. |
| controller_live | `MapEventuallyCurrent` | When the cluster is quiet with daemons ready, the ConfigMap keeps returning to the bound PVs. Faults: pvlist, list, dsget, cmget, write. |
| controller_pvlist | `WrittenMapMatchesCache` (violation) | A failed List writes an empty map. |
| controller_spurious | `NoSpuriousWrite` (violation) | List order causes writes of an unchanged map. |
| controller_noresync | `MapEventuallyCurrent` (violation) | Without the resync, a refused Create/Update is never retried. |
| controller_corrupt | `MapEventuallyCurrent` (violation) | A ConfigMap that does not parse is never repaired. |

The findings in `PROJECT.json` give the code line behind each violation. In the
traces of `discovery_cmread`, `discovery_noid` and `discovery_symlinks` the
device's probe fails, so the device is published Unknown rather than Available.
In each, what breaks `SoundList` is the same: the device is published with no
PersistentVolume although the map binds it on this node.

**Bounds.**

*Discovery runs.* These use one device, `d1`. It can be:
- blank;
- formatted;
- an EFI partition;
- read-only;
- unplugged.

Its probe can be ok, busy or err. There are two nodes and two links. The
ConfigMap can be:
- absent;
- corrupt;
- binding `d1`'s link on this node;
- binding it on the other node;
- binding it behind another entry.

This covers every branch of `ignoreDevices` and `getDeviceStatus`, binding
versus non-binding, and the search past a non-matching entry. Two devices add
only symmetric copies.

*Controller runs.* These use two or three PVs on one node. They have:
- a PV that is not local-pv named;
- a PV that is not from the local provisioner;
- a set of DaemonSet states that includes 0 desired, not ready and ready;
- an initial ConfigMap that is absent, empty, corrupt or an old map.

Two local PVs are the least that exposes List order. The passing runs reach
10^4 to 2*10^5 distinct states, and each finishes in under 3 minutes. The
violation runs stop at their first counterexample.

**Fairness.**

*Agent.* `Restart` is weakly fair, because the DaemonSet restarts the container.
A fault-free start and scan (`HealthyFirst`, `HealthyTick`) is strongly fair,
because API and lsblk failures are transient. The 5 s timer fires forever while
the loop runs, so a fault-free scan is enabled infinitely often.

*Controller.* A fault-free `Reconcile(r)` is strongly fair, because the queue
retries with backoff and the errors are transient. The informers are weakly fair,
because they deliver every event. `FairSpec` adds weak fairness on `Resync`,
because controller-runtime resyncs informers every SyncPeriod (10 h by default).
`FairSpecNoResync` drops it to show what happens within a period.

Nothing forces SIGTERM or environment changes. Both liveness properties are
conditioned on the environment becoming quiet (`<>[][~EnvStep]_vars`). Faults
may recur forever, which is why the conclusions are `[]<>`.

## Mutants

Each property of a passing run is broken by one plausible code change. The
change replaces a mapped definition:

| Property | Definition | Mutant | What the mutant does |
|---|---|---|---|
| `TypeOK` (agent) | `EnsureResultFails` | `EnsureResultFailsSuccessEvent` | Reports the failure as a Normal event. |
| `PublishedStatusSound` | `IgnoreDevices` | `IgnoreDevicesNoRO` | Drops the read-only test. |
| `StatusEventuallyCurrent` | `ReadPVMap` | `ReadPVMapNotFound` | Reads the wrong ConfigMap. |
| `TypeOK` (controller) | `StatusMessage` | `StatusMessageSwapped` | Swaps the counts. |
| `WrittenMapMatchesCache` | `Add` | `AddOverwrite` | Replaces instead of appending. |
| `MapEventuallyCurrent` | `SyncDiskPvConfigMap` | `SyncCreateOnly` | Never updates. |

## Proofs (DeviceDiscoveryProofs)

* `TypeCorrect`: `Spec => []TypeOK`, for all values of the constants that
  satisfy `DiscoveryAssumption`. The proof rests on these lemmas:
  - `GetDevicePVMap` returns NoValue or an entry of the node's sequence. The
    least index comes from `WFMin` and the well-foundedness of `<` on Nat.
  - `ScanList`, `CrossReference` and `GetDiscoverdDevices` are well typed.
  - The maps a scan can read are well typed (`MapsReadType`).

  Each action then preserves each conjunct.
* `PublishedStatusSoundThm`: `Spec => PublishedStatusSound`, under
  `BindingFound`. `BindingFound` means three things:
  - ConfigMap reads do not fail otherwise than NotFound;
  - every device has a by-id link;
  - every device has at most one symlink.

  The argument:
  - Only `ScanPublishes` changes `result`, and it writes `ScanList(m)` for an
    `m` in `MapsRead` (`ResultWrittenByScan`).
  - Under `BindingFound`, `m` is the stored map.
  - Under the single-symlink condition, `CrossReference` finds the first entry
    of the node's sequence whose DevicePath is that symlink. So the bound set
    `Bindings(cm, d)` is nonempty exactly when the lookup returns a value, and
    the value is in it (`ScanEntry`, `ScanListSound`).
  - `DeviceStatusSound` gives the remaining clauses from `getDeviceStatus`.

  No strengthening of the invariant is needed, since this is an action property
  whose primed state is computed from the unprimed one. `TypeOK` is the only
  invariant it rests on.

The assumptions of `BindingFound` are exactly what the violation runs
`discovery_cmread`, `discovery_noid` and `discovery_symlinks` show to be
necessary.

**TLC only.** These results are model-checked but not proved:
- The liveness properties: TLAPS does not handle fairness and ENABLED here.
- The controller's properties. `BuildMap` is a recursive function over List
  orders, and its correctness for every input needs induction over data, which
  these provers cannot instantiate.

## Not modelled

* **DaemonSet contents.** The mutate function, the volumes and the owner refs
  are not modelled. Only success or failure of `CreateOrUpdateDaemonset`
  matters to the properties.
* **Other code.** The metrics exporter, the manifests, the binaries' wiring and
  the API mock are not modelled.
* **Node naming.** The hostname label and `MY_NODE_NAME` are one node
  namespace. A mismatch between them is a hazard listed in PROJECT.json.

## Plan for later work

1. A composed module in which the agent reads the `cm` the controller writes.
2. An abstract specification of the map ("the ConfigMap lists the bound PVs")
   with the controller as a refinement.
3. A TypeOK proof for the controller.
