# TLA+ models of the microceph charm

This directory holds TLA+ models of the microceph charm in `src/src`, the TLC
configurations that check them, and `PROJECT.json`. `PROJECT.json` lists the
components, the runs, the mutants, the map from each definition to the source
lines it models, the findings and the hazards.

## The system

The charm is a Juju operator. Juju dispatches one hook at a time to a unit. A
hook runs to completion, and `StoredState` is committed only if the hook
succeeds.

A handler may call `event.defer()`. The ops framework then re-emits the
deferred event at the start of the next dispatch, and update-status makes that
dispatch periodic. A hook that raises is in error, and Juju retries it before
dispatching anything else. Inside `ops_sunbeam.guard` an exception is turned
into a Blocked status, and the hook then completes normally.

| Part | Source | State | Operations |
|---|---|---|---|
| StorageHandler | `storage.py` | StoredState `osd_data` (OSD number → storage name, in insertion order); cache `last_osd_devices`, `last_wipe_osd`, `last_encrypt_osd` | storage-attached, storage-detaching, config-changed (osd-devices), add-osd action, list-disks action (read only) |
| Device flag parser | `device_flags.py` | none | `parse_device_add_flags` |
| Pure helpers | `charm.py`, `ceph_csi.py` | none | `_lookup_system_interfaces` and `get_ceph_info_from_configs` (the ceph-public-address), `_get_pool_name_map` and `_get_cephfs_pools` (the pools a ceph-csi key is granted) |
| microceph CLI | not in this repository (`microceph` module) | the cluster's OSDs: number and device, on every host | disk add (by path, batch, match), disk remove (with and without force), disk list (all hosts or host only) |
| Charm lifecycle | `charm.py` | snap installed, cluster member, leader ready, peers joined | install, stop, config-changed → bootstrap / join, `ready_for_service` |
| Remote clusters | `microceph_remote.py` | the config site-name, each site's app databag in the remote relation, imported remotes | remote joined / changed / departed, peers changed; custom reconcile, update and departed events |
| ceph-csi, adopt-ceph, rgw | `ceph_csi.py`, `microceph_adopt_ceph.py`, `ceph_rgw.py` | relation data | relation handlers |
| cluster client | `clusterclient.py` | none | HTTP requests on the microcluster socket |
| terraform helper | `terraform/charm/add_osds.py` | none | runs add-osd on every unit |

**Wiring.** In this snapshot, `get_relation_handlers` (charm.py:141-165)
builds only the peers, ceph and radosgw handlers. The ceph-csi, remote,
adopt-ceph and rgw handlers are built nowhere in `src/`. The ceph-csi
integration test deploys and relates ceph-csi, so that handler is wired in
the charm as deployed. Nothing wires the remote handler. The models of
ceph-csi and of the remote integration, and the remote_departed_wedge
finding, therefore assume that these handlers are wired as their modules
intend: each registered for its relation on the leader unit.

### How the storage parts interact

Three drivers write the same OSD index and call the same CLI:
- the Juju storage events (attach and detach);
- the declarative `osd-devices` option, applied on config-changed;
- the operator's add-osd action.

They interact in the following ways:
- **Attach.** Pruning drops every entry whose OSD number the full disk list no
  longer reports. The handler then batch-adds each attached storage for which
  `_get_osd_id` is falsy. Finally it saves, for each of those storages, every
  local OSD whose lsblk device name occurs inside the storage's location.
- **Detach.** The handler removes the indexed OSD. On the safety error
  ("need at least 3 OSDs") it forces the removal and blocks. Any other
  CalledProcessError is swallowed.
- **Config-changed.** The handler resets the cache when `osd-devices` is
  empty, and defers until the cluster is ready. Invalid flags block. An
  unchanged (expression, flags) pair is skipped. Otherwise it runs the match
  add, and caches the configuration on success or on "no devices matched".
- **add-osd.** The action adds one spec after another and never touches the
  index.
- **Outside the charm.** The operator may remove OSDs with the microceph CLI,
  and other hosts add OSDs. Ceph gives each new OSD the lowest free id, so ids
  are reused, across hosts too.

### How the ceph-csi provider works

`ceph_csi.py` serves Kubernetes clusters that run ceph-csi. On the leader:
- **relation-joined and relation-changed** defer until `ready_for_service()`
  holds and the cluster has an OSD. Then the handler emits
  `ceph_csi_connected` in the same hook.
- **`ceph_csi_connected`** runs `_service_relation`:
  1. it parses the remote application's `workloads` field (a JSON list, a
     JSON string, or text separated by commas or semicolons), defaulting to
     `{"rbd"}`;
  2. it creates the `rbd.<app>` pool;
  3. for cephfs, it checks that there are enough MDS daemons (and returns
     False if not), then creates the `<app>` volume unless
     `fs volume ls` lists it;
  4. it gets or creates the cephx key `client.csi-<app>`;
  5. it merges `user_id`, `user_key`, `rbd_pool` and `cephfs_fs_name` into
     the local application databag.

  A False result defers the event.
- **relation-departed** emits `ceph_csi_departed`, which removes the key.
  A failure of the removal is logged and swallowed.
- **peers changes** defer until there is an OSD. They then emit
  `ceph_csi_reconcile`, which serves every relation in turn and defers at the
  first that returns False.

A hook that raises loses its databag writes, but the pools, volumes and keys
it made stay in Ceph.

### How the remote integration works

`microceph_remote.py` links two MicroCeph sites through a "remote" relation.
On the leader of each site:
- **remote joined and changed** (`_on_changed`, in the guard) defer and
  block until the config `site-name` is set. Then they publish the site name
  and, through the custom update event, an export token; once the other
  site's name and token are in its databag, the custom reconcile event
  imports the other cluster.
- **remote departed** emits the custom departed event, whose handler
  removes the other cluster's record.
- **peers changed and departed** emit the update event when `site-name`
  is set, so that a changed monitor set is re-published.

As written, every read and write of the databags uses a
`RemoteRelationDataKeys` member as its key, not its string value, and the
update and departed events are emitted with the hook event where a
relation is expected. No read finds anything, so the reconcile is never
reached.

### What must hold, and the hard behaviours

- The index has one entry per storage.
- Each live entry names the OSD on that storage's own device, so that the
  detach handler removes the right OSD.
- The cache never claims an expression was applied when its devices were not
  enrolled.
- The batch add receives only untracked storages.
- A detach leaves no OSD on the departing device.
- Every event is eventually handled.

The hard parts are the following:
- interleavings of the three drivers with operator removals;
- id reuse;
- calls that fail part-way or time out after taking effect;
- deferral before bootstrap;
- failed-hook retries.

For ceph-csi, the following must hold:
- the key published to an application is valid while it has units
  (checked in csi_unit_departure, with two units: with one unit, a
  revocation always comes after the last unit left);
- every pool and volume a databag names exists;
- no key is left once the relation is gone;
- every request the cluster can meet is eventually served.

The hard parts are the following:
- per-unit departed hooks;
- deferred events that outlive their relation;
- a reconcile loop that fails part-way.

For the leader's lifecycle, the following must hold:
- the leader flag is set only on a bootstrapped, configured cluster;
- the leader ends up ready, unless a command fails for a reason the charm
  cannot recover from, or the unit is removed.
- a completed stop hook has taken the host out of the cluster.

The hard parts are the following:
- `bootstrap_cluster` defers and *returns*, so `configure_app_leader` goes on
  to mark the node joined and to configure Ceph (charm.py:233);
- a bootstrap that times out after making the cluster;
- a `TimeoutExpired` whose `stderr` is None, for which the `in` test raises
  TypeError (charm.py:269).

## Modules

- **`DeviceFlags.tla`** models `parse_device_add_flags`.
  - A flag string is a sequence of symbols: `Comma`, `Space` and flag words
    of mixed case, with `Lower` defined on the words.
  - `Split`, `Strip` and `LowerSeq` model `str.split(",")`, `str.strip()` and
    `str.lower()`.
  - `ParseTokens` is the loop.
  - `RefParse` is a reference definition written from comma positions
    instead of recursion.
  - The module's only variable is the input string.
- **`HostAddress.tla`** models `_lookup_system_interfaces` and
  `get_ceph_info_from_configs` (charm.py).
  - A host is the sequence of its interfaces in netifaces order, each with
    its `inet` and `inet6` address lists. `mon_hosts` is a list of addresses.
  - The code walks the flattened lists (`FlattenSeq`, `SelectSeq`).
    `RefPublicAddress` instead picks the least matching position
    <<interface, family, index>> in lexicographic order.
  - The variables `host` and `mon` are the input.
- **`CephfsPools.tla`** models `_get_pool_name_map` and `_get_cephfs_pools`
  (ceph_csi.py).
  - The JSON of `osd pool ls detail` is a sequence of `[pool_id, pool_name]`
    records. The JSON of `fs get` is reduced to its mdsmap, whose
    `data_pools` or `metadata_pool` may be missing, or which may be missing
    itself.
  - `RefGrantedPools` names the volume's pool ids through the cluster's
    naming, or gives the default names when there are none.
  - The variables `poolList` and `fsInfo` are the input. They are always a
    consistent cluster state: every id the mdsmap names is listed.
- **`Storage.tla`** models StorageHandler together with the cluster it
  drives, the Juju dispatch around it and the environment. The `Flags`
  instance of `DeviceFlags` parses the `device-add-flags` option.
  - **State.**
    - `osd_data` and the three cache fields are the StoredState.
    - `cluster` is the set of `[osd, dev]` records that the disk list reports.
    - `attached` is storage-list.
    - `ready` is `ready_for_service()`.
    - `osd_devices` and `device_add_flags` are the options.
    - `pending`, `deferred` and `errored` are the hook queue.
    - `failures` and `loops` are bounds.
    - `enrolled` is a history variable used by `CacheSound`: the host disks
      that ever held an OSD.
  - **Actions.**
    - `Dispatch(e)` runs the handler of a pending event. While a hook is in
      error only that hook may run.
    - `_on_osd_standalone_attached`, `_on_storage_detaching` and
      `_on_config_changed_osd_devices` are each one step. A step includes
      every CLI call the handler makes, with each outcome the call can have:
      success, CalledProcessError, or TimeoutExpired either before or after
      the command took effect. Failing outcomes are bounded by `MaxFailures`.
    - `_add_osd_action` is one spec of the action.
    - The environment actions are `Bootstrap`, `AttachStorage`,
      `RequestDetach`, `ChangeConfig`, `OperatorRemove` (when
      `OperatorRemovals`) and `RemoteAdd`.
  - **Device names.** Each name is a character sequence, and the code's
    `name in disk_path` is `DevName[d] \in SubSeqs(Path(...))`.
  - **Spec-modelled parts.** The microceph module is not in the repository.
    `Available`, `AddOsd`, `AddDisks`, `PartlyAdded` and `RemoveOsd` are
    therefore written from spec.md and Ceph's lowest-free-id rule.
- **`OsdIndex.tla`** is the abstract specification of the index (spec.md
  §4.5): a function from storage to OSD number or `None`, beside the cluster.
  In one step the cluster may change, and each entry may do one of three
  things:
  - stay as it is;
  - be recorded as an OSD that the cluster now has on the storage's own
    device;
  - be forgotten once its OSD is gone.

  Every entry whose number the cluster reports must name the storage's OSD.
  `Storage` instantiates it with `index <- [s \in Storages |-> _get_osd_id(s)]`.
  That is the index as the handlers read it: the first entry per storage, in
  insertion order. `RefinesOsdIndex == Abs!Spec` is checked as a PROPERTY.
  The refinement adds two things to `IndexSound`:
  - an entry is never dropped while its OSD is alive;
  - an entry never moves to an OSD on another device.
- **`MCPure.tla`** checks the three pure helpers in one run. Each initial
  state gives one helper its input and leaves the other inputs idle, so the
  input sets add up instead of multiplying.
- **`MCStorage.tla`** gives the constants:
  - two Juju storages, on vdb and vdc;
  - a spare host disk, vdd;
  - a loop device;
  - optionally one disk on another host;
  - the expression "hdd", which selects vdd and vdb.

- **`CephCSI.tla`** models the ceph-csi provider (`ceph_csi.py`) with the
  Juju dispatch around it and the environment.
  - **State.**
    - `pools`, `volumes` and `keys` are what Ceph holds. `keys` maps each
      client to a key generation, where 0 means no key.
    - `issued` counts the keys ever created per client, so that a re-created
      key differs from a revoked one.
    - `published` is the local databag of each relation.
    - `rel`, `units` and `workloads` are each relation's phase
      (absent, live, removing after remove-relation, gone after
      relation-broken), its remote units and its request.
    - `ready`, `hasOsds` and `mds` are `ready_for_service()`,
      `get_osd_count() > 0` and the MDS daemon count.
    - `pending`, `deferred`, `errored` and `failures` are the hook queue and
      the bound on failing calls.
  - **Actions.** `Dispatch(e)` runs the whole hook of a pending event,
    custom events it emits included:
    - `_on_relation_changed`, which leads to `_on_ceph_csi_connected`;
    - `_on_relation_departed`, which leads to `_on_ceph_csi_departed`;
    - `_on_ceph_peers`, which leads to `_on_ceph_csi_reconcile`.

    `_service_relation` yields the sequence of worlds after each Ceph call.
    A raising call leaves any prefix of them in Ceph, with the databag
    restored (`Raised`). `ReconcileLoop` is the loop over the relations, in
    `RelOrder`. The environment actions are `Bootstrap`, `AddOsds`,
    `AddMds`, `Relate`, `ChangeWorkloads`, `UnitDepart`, `Unrelate`,
    `RelationBroken` and `PeersChange`.
  - **Parsing.** The `workloads` text is a sequence of symbols.
    `JsonLoads` gives its decoding. `_parse_workloads` reuses
    `Split`, `Strip` and `LowerSeq` from `DeviceFlags`. `WorkloadsOf` holds
    the parse of every value the field can take.
  - **Assumptions.** These concern code outside the repository:
    - `ceph.get_named_key` returns the client's existing key, or creates one.
    - In a relation-departed hook the relation still has its app.
    - A relation-changed hook already queued runs before remove-relation's
      departed hooks; only a deferred one outlives the relation.
    - The configuration options are integers or unset.
    - The unit is the leader.
    - Deferred events are re-emitted in any order. Ops keeps them in order,
      so this is an over-approximation.
- **`MCCephCSI.tla`** gives one or two applications (`k8s`, `k8s-b`), each
  with one or two units. Their `workloads` field takes the values unset,
  `cephfs`, `rbd; CephFS` and the JSON list `["rbd", "CephFS"]`. One active
  MDS per volume is required, and at most one daemon is added.

- **`Lifecycle.tla`** models the leader unit in `charm.py`.
  - **State.** `installed`, `daemonUp` (the control socket exists),
    `member` (`is_cluster_member`), `configured` (the two `ceph config set`
    calls took effect), `leaderReady` (`is_leader_ready()`), `joined`,
    `blocked` (the guard's status), the hook queue `pending`, `deferred`,
    `errored`, a bound `failures`, and `stopped`.
  - **Actions.** `Dispatch(e)` runs `_on_install`, `configure_app_leader`
    (config-changed and the peers callback both reach `configure_charm`) or
    `_on_stop`, whose forced removal succeeds, fails after taking effect
    or fails without it (`RemoveOutcomes`). `bootstrap_cluster` and
    `configure_ceph` are sets of outcomes (the membership after the call,
    and ok, defer or raise), so that
    `configure_app_leader` chains them as the code does: a deferral returns
    and the handler goes on; a raise sets Blocked and ends the hook. The
    environment is `DaemonStart` (snapd), `ConfigChange` and `RequestStop`.
  - **Assumptions.** `configure_ceph` fails without a cluster; the upgrade
    branch and the new-node branch of `configure_app_leader` are left out
    (the channel never changes; no other unit joins).
- **`MicroCephRemote.tla`** models the hooks of `MicroCephRemote` at two
  sites, each the leader of its application.
  - **State.** `siteName` (the config), `rel` (the relation: absent, live,
    gone), `bag` (each site's app databag), and the hook queue `pending`,
    `deferred`, `errored` of each unit.
  - **Actions.** `Dispatch(s, e)` runs `_on_changed`, `_on_departed` or
    `_on_peer_updated`. `Get` and `Update` are the databag lookup and write
    by an Enum member: the lookup finds nothing among string keys, and the
    write either raises or lands under a key that is not the member's value
    (`StoredAs`). What the emitted events do is folded into the hook that
    emits them: the AttributeError in `_on_updated` ends `_on_changed`
    under the guard, and the one in the departed handler fails the departed
    hook. The environment is `ConfigSet`, `Relate`, `Unrelate` (once) and
    `PeerChange`.
  - **Assumptions.** The write's two outcomes cover the ops versions: ops
    refuses a non-string key, or it turns it into another string. A
    deferred changed event on a gone relation raises at its first data
    access, as in `CephCSI`. Non-leader units return at once and are not
    modelled.
- **`MicroCephCharm.tla`** composes `Lifecycle` (by `INSTANCE`) with
  `CephCSI` (by `EXTENDS`) in one unit: one hook queue, where a hook in
  error of either part is run again before any hook of the other, and no
  hook runs once the unit is stopped. `CephCSI`'s `ready` is set to
  `ready_for_service` at every lifecycle step, and OSDs are added only to a
  member. `MCMicroCephCharm.tla` gives the ceph-csi constants of one
  application.

The following assumptions are made, and the ops_sunbeam library is not in the
repository:
- The guard is assumed to catch every exception, setting Blocked, so that the
  hook completes. This is ops_sunbeam's `handle_exception` default.
- A `_clean_stale_osd_data` failure at the start of the attach handler runs
  outside the guard, so it fails the hook and the hook is retried.

## Runs

The following runs are expected to pass:

| Run | cfg | Properties | Bounds | Shows |
|---|---|---|---|---|
| pure_helpers | MCPure.cfg | ParseMatchesReference, AddressMatchesReference, CephfsPoolsMatchReference | every flag string of ≤ 5 symbols over {",", " ", wipe:osd, WIPE:OSD, encrypt:osd, Encrypt:OSD, bogus}; every host of ≤ 2 interfaces with ≤ 2 IPv4 and ≤ 1 IPv6 address each (from 2 + 2) and every monitor set; every subset of 3 pools, listed in any order, with every mdsmap over them | the parser equals the reference (case and space insensitive, empty tokens skipped, first unknown token reported); the published address is the first monitor address in interface order, IPv4 before IPv6; a ceph-csi key is granted exactly the volume's data and metadata pools, or the defaults |
| storage_core | MCStorage.cfg | TypeOK, CacheSound | 2 storages, vdd, no loop, no remote, 1 failing call, 3 flag inputs | a failed match call is never cached |
| storage_no_drift | MCStorageRemote.cfg | StorageHasOneOsd, IndexSound, RefinesOsdIndex | as core plus 1 loop OSD and a remote disk; no failures, no operator removals; 2 flag inputs | the index stays one-to-one and right while ids are handed out across hosts and loop files, and implements `OsdIndex` |
| storage_liveness | MCStorageLive.cfg | EventsHandled | 1 storage, operator removals, 1 failing call | deferral and retries end |
| csi_core | MCCephCSI.cfg | PublishedResourcesExist | 2 apps of 1 unit, 3 request values, unit departures, remove-relation, 1 failing call | every pool or volume a databag names exists, through partial failures of the service and of the reconcile loop |
| charm_liveness | MCMicroCephCharm.cfg | CharmTypeOK, LeaderReadyAfterBootstrap, StoppedUnitLeftCluster, LeaderEventuallyReady, ServedEventually | 1 app, 4 request values incl. the JSON list, 1 failing call in each part, unit removal | the leader flag is never set before bootstrap although the bootstrap deferral lets the handler go on; the leader ends up ready; every request the cluster can meet is eventually served, readiness now coming from the lifecycle hooks; a completed stop hook leaves no member behind, whichever way the forced removal failed |

The following runs are expected to find a violation. Each one is a finding in
`PROJECT.json`:

| Run | cfg | Property | What TLC finds |
|---|---|---|---|
| falsy_zero | MCStorageFalsyZero.cfg | BatchOnlyUntracked | a storage tracked as osd.0 is enrolled again (storage.py:103) |
| index_drift | MCStorageDrift.cfg | IndexSound | osd.0 removed by the operator, id 0 reused by add-osd for vdd: the index still maps the storage to osd.0, and its detach would remove vdd's OSD (storage.py:394) |
| detach_swallow | MCStorageDetach.cfg | DetachRemovesTrackedOsd | with `MinOsds = 0` (a cluster large enough that the safety check never refuses), the removal fails, the CalledProcessError is swallowed, and the detach completes with the OSD still present, contrary to spec.md §4.4 step 4 (storage.py:126) |
| csi_unit_departure | MCCephCSIDepart.cfg | KeyValidWhileUnits | one unit of a two-unit ceph-csi app departs, and its departed hook revokes the key the other unit uses (ceph_csi.py:110, 366) |
| csi_key_leak | MCCephCSILeak.cfg | NoKeyAfterRelationRemoved | a connected event deferred for lack of MDS daemons is re-emitted between the last departed hook and relation-broken. It re-creates the key, which nothing removes, contrary to test_remove_relation (ceph_csi.py:351) |
| remote_departed_wedge | MCMicroCephRemote.cfg | NoHookStuckInError | the sites relate, the relation is removed, and the remote-departed hook fails on every retry: the departed event is emitted with the hook event as its relation (microceph_remote.py:107) |

Every property of a passing run has a mutant in `PROJECT.json`: a plausible bug
in the mapped code that TLC finds under that run's cfg.

### Why the bounds suffice

Two storages are enough for the batch, for name overlap between two devices,
and for one storage's entry surviving while another's device takes its id.
One spare host disk lets the match expression and add-osd compete with the
storages. A loop device and a remote disk make ids be handed out by other
paths. One failing call reaches every error path of every handler:
- the prune;
- the batch;
- a later save;
- the removal;
- the forced removal;
- the match.

The runs split these sources of state so that each one finishes within
minutes.

For ceph-csi, the bounds are chosen as follows:
- **Two applications** let the reconcile loop serve one relation and then
  fail or defer on the next.
- **Two units** are the least for which a departure leaves a unit behind.
- **The request values** cover:
  - the default;
  - rbd alone;
  - cephfs alone;
  - both, written as text and as JSON, so that a request can both grow and
    shrink.
- **A single MDS daemon** is enough: the cluster can lack one and then gain
  one.
- **One failing call** reaches every prefix of the service's calls.

For the lifecycle, one failing command reaches each raise of install,
bootstrap, configure_ceph and stop, and the bootstrap that times out after
taking effect; the daemon may start before or after the first configure hook,
which is what makes the deferral happen or not.

The liveness run has one application: with two, TLC does not finish within
the time a run is given.

For the pure helpers, the bounds are chosen as follows:
- **Hosts.** Two interfaces, each with two IPv4 addresses and one IPv6
  address, drawn from two of each. This is the least that lets a monitor
  address on the second interface lose to one on the first, an IPv6 address
  lose to an IPv4 address on the same interface, and a second IPv4 address
  lose to the first. The monitor lists are every subset of the four
  addresses.
- **Pools.** Three pools, in every listing order. The mdsmaps name up to two
  data pools and a metadata pool among them, or lack either field. This
  reaches the default names, a grant of the metadata pool alone, and a data
  pool listed after another pool.

### Fairness

`Fairness` has two parts:
- weak fairness on `Bootstrap`, because the cluster is eventually
  bootstrapped;
- weak fairness on `Dispatch(e)` for each event, because Juju keeps
  dispatching hooks and update-status re-emits deferred events.

The environment actions are not fair.

In `MicroCephCharm`, `CharmFairness` is weak fairness on each lifecycle and
each ceph-csi hook, and on `DaemonStart`: the snap starts the daemon it
installed. Without that, the deferred configure hook could wait forever, and
nothing in the charm would be at fault.

In `CephCSI`, `Fairness` is weak fairness on `Dispatch(e)` for each event,
for the same reason. `ServedEventually` is stated as leads-to from "live and
meetable" to "served or no longer meetable", because the request and the MDS
count may change again.

## Not modelled, and why

- **Workload status messages.** No property is about them.
- **list-disks.** It changes no state.
- **tenacity retries of storage-get.** They are folded into a single call.
- **Parts of the charm lifecycle.** The non-leader join (`cluster.py`),
  snap-channel upgrades, the set-pool-size action and the channel property
  are not modelled. The TypeError of charm.py:269 is explored as a raising
  bootstrap: under the guard it has the effect of the raise at line 274.
  `Storage` still takes readiness as a flag: so far only `CephCSI` is
  composed with `Lifecycle`.
- **The rest of the remote integration.** `_on_reconcile`, the token
  comparison of `_on_updated`, and the helpers that decode tokens, read
  monitor lists, import and remove remote clusters are not modelled: no
  path of the hooks as written reaches them (see above). The peers hook's
  `self.emit` AttributeError (microceph_remote.py:152) is modelled and
  violates the same property, but only the departed wedge is kept as a run.
- **adopt-ceph.** `AdoptCephRequiresHandler` is not wired into
  `charm.py`, and its bootstrap calls `charm.adopt_cluster`, which
  `charm.py` does not define (microceph_adopt_ceph.py:158): every path ends
  in a Blocked status, which no property reads. A composition with
  `Lifecycle` would show the leader bootstrapping a fresh cluster before the
  adopt data arrives; it is listed as a hazard, not kept as a run.
- **rgw.** `rgw_ready` is a query published by ops_sunbeam's readiness
  handler, whose callers are outside this repository. It tests
  `self.charm.ready_for_service` without calling it (ceph_rgw.py:52), so
  the readiness test is always passed; this is listed as a hazard.
- **A storage behaviour found while modelling, but not kept as a run.**
  The attach handler pairs an OSD with a storage by `name in disk_path`
  (storage.py:364), a substring test: with devices sda and sdaa, the storage
  on sdaa is also recorded for sda's OSD. `StorageHasOneOsd` is violated
  when the devices are named so; the runs kept use vdb, vdc and vdd.
- **Parts of ceph-csi.** The cephx caps, and the pool list passed to
  `get_named_key`, are not part of `CephCSI`'s key. The pool deduction that
  feeds the pool list is checked on its own in `CephfsPools`. Its inputs are
  consistent cluster states. A data pool id missing from `osd pool ls` would
  put None in the set, and `sorted` (line 319) would then raise. Ceph does
  not remove a pool that a volume uses, so this is not explored. Also not
  modelled: the MDS `fs set` commands, the
  `fsid` and `mon_hosts` fields and the status are not modelled, because no
  property is about them. A non-leader unit is not modelled either: its
  handlers return at once.
- **Two ceph-csi behaviours found while modelling, but not kept as runs.**
  - **Stale fields.** Because `update()` merges, a request narrowed from rbd
    and cephfs to rbd alone still publishes `cephfs_fs_name`
    (ceph_csi.py:345). No comment or test says whether it should be cleared.
  - **Dead relations.** A deferred event whose relation is gone raises
    KeyError on every retry, under ops 2.x's Relation for a removed id
    (ceph_csi.py:174). This wedges the unit. It rests on ops behaviour outside
    the repository. The model keeps this step (`RaiseOnDeadRelation`), and
    both are listed as hazards.
- **clusterclient and the terraform helper.** Both are pure I/O.

## Plan for further modules

1. The non-leader join of `Lifecycle`, and a composition with `Storage`.
2. adopt-ceph composed with `Lifecycle`, should the handler be wired
   into the charm.
