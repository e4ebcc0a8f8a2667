------------------------------- MODULE Storage -------------------------------
(***************************************************************************)
(* StorageHandler of the microceph charm (src/src/storage.py): the OSD    *)
(* index kept in StoredState, the osd-devices configuration cache, and    *)
(* the handlers of storage-attached, storage-detaching, config-changed    *)
(* and the add-osd action, against the cluster they drive through the     *)
(* microceph CLI.                                                          *)
(*                                                                         *)
(* Juju dispatches one hook at a time; each handler runs to completion as *)
(* one step.  A handler's step takes every external call it makes, each   *)
(* with the outcomes the call can have (success, CalledProcessError,      *)
(* TimeoutExpired after the command did or did not take effect).          *)
(***************************************************************************)
EXTENDS Naturals, FiniteSets, Sequences, SequencesExt

CONSTANTS
    Storages,     \* Juju storage instances of the osd-standalone directive
    StorageList,  \* the order in which storage-list reports them
    Loc,          \* storage-get location: the block device of each storage
    HostDevs,     \* disks of this host that are not Juju storage
    RemoteDevs,   \* disks of the other cluster members
    LoopDev,      \* the backing device of every loop-file OSD
    DevName,      \* lsblk name of each local device, a sequence of characters
    Exprs,        \* osd-devices DSL expressions
    NoExpr,       \* osd-devices empty or blank
    Match,        \* Match[e]: the devices expression e selects
    FlagInputs,   \* device-add-flags values
    MinOsds,      \* microceph refuses a removal leaving fewer OSDs than this
    MaxFailures,  \* bound on failing outcomes of external calls
    MaxLoops,     \* bound on loop-file OSDs created by add-osd
    OperatorRemovals, \* whether the operator removes OSDs with the CLI
    None

CONSTANTS Comma, Space, Words, Lower(_), WipeOsd, EncryptOsd

ASSUME StorageList \in Seq(Storages) /\ ToSet(StorageList) = Storages
ASSUME IsInjective(Loc)
ASSUME MinOsds \in Nat /\ MaxFailures \in Nat /\ MaxLoops \in Nat

VARIABLES
    (* StoredState of StorageHandler *)
    osd_data,           \* sequence of [osd, disk] in dict insertion order
    last_osd_devices,
    last_wipe_osd,
    last_encrypt_osd,
    (* the cluster and the model around the unit *)
    cluster,            \* configured disks of all hosts: [osd, dev] records
    attached,           \* storages attached to the unit
    ready,              \* ready_for_service() and peers joined
    osd_devices,        \* the osd-devices option, stripped
    device_add_flags,   \* the device-add-flags option
    (* hook dispatch *)
    pending,            \* events not yet handled to completion
    deferred,           \* pending events that a handler deferred
    errored,            \* the hook in error, retried before any other
    (* bounds and history *)
    failures,
    loops,
    enrolled            \* disks of HostDevs that ever had an OSD

storedVars == <<osd_data, last_osd_devices, last_wipe_osd, last_encrypt_osd>>
cacheVars == <<last_osd_devices, last_wipe_osd, last_encrypt_osd>>
envVars == <<cluster, attached, ready, osd_devices, device_add_flags>>
hookVars == <<pending, deferred, errored>>
vars == <<storedVars, envVars, hookVars, failures, loops, enrolled>>

Flags == INSTANCE DeviceFlags WITH input <- device_add_flags, MaxLen <- 0

LocalDevs == HostDevs \cup {Loc[s] : s \in Storages}
AllDevs == LocalDevs \cup RemoteDevs \cup {LoopDev}
OsdIds == 0..(Cardinality(LocalDevs) + Cardinality(RemoteDevs) + MaxLoops - 1)
OsdRec == [osd : OsdIds, dev : AllDevs]
Event == [kind : {"attached", "detaching"}, stor : Storages]
           \cup {[kind |-> "config", stor |-> None]}
Attached(s) == [kind |-> "attached", stor |-> s]
Detaching(s) == [kind |-> "detaching", stor |-> s]
ConfigChanged == [kind |-> "config", stor |-> None]

-----------------------------------------------------------------------------
(***************************************************************************)
(* The cluster as the microceph CLI sees it.                               *)
(***************************************************************************)
Ids(c) == {r.osd : r \in c}
Present == HostDevs \cup {Loc[s] : s \in attached}
IsLocal(r) == r.dev \notin RemoteDevs

(* Whether disk add can take device d: it exists and holds no OSD. *)
Available(c, d) == d = LoopDev \/ (d \in Present /\ \A r \in c : r.dev # d)

(* Ceph gives a new OSD the lowest free id. *)
AddOsd(c, d) == c \cup {[osd |-> Min(OsdIds \ Ids(c)), dev |-> d]}

(* disk add of the paths in order; a device it cannot take is skipped. *)
AddDisks(c, paths) ==
    FoldLeft(LAMBDA acc, d : IF Available(acc, d) THEN AddOsd(acc, d) ELSE acc,
             c, paths)

(* A call that failed or timed out may have added any of its devices. *)
PartlyAdded(c, paths) ==
    {AddDisks(c, SelectSeq(paths, LAMBDA d : d \in D)) : D \in SUBSET ToSet(paths)}

RemoveOsd(c, n) == {r \in c : r.osd # n}

(* The "need at least 3 OSDs" safety check of disk remove. *)
SafetyConflict(c) == Cardinality(c) <= MinOsds

Path(d) == <<"/", "d", "e", "v", "/">> \o DevName[d]

-----------------------------------------------------------------------------
(***************************************************************************)
(* The OSD index and its helpers.                                          *)
(***************************************************************************)

(* _get_osd_id: the first entry for storage s in insertion order. *)
GetOsdIdIn(data, s) ==
    LET i == SelectInSeq(data, LAMBDA r : r.disk = s) IN
    IF i = 0 THEN None ELSE data[i].osd

_get_osd_id(s) == GetOsdIdIn(osd_data, s)

(* Python truthiness of the value returned by _get_osd_id. *)
Truthy(x) == x # None /\ x # 0

(* Mutant: the stored OSD numbers never compare equal to the listed ones *)
(* (a str key against an int), so the prune drops every entry.          *)
_clean_stale_osd_data_all(data, c) == SelectSeq(data, LAMBDA r : FALSE)

(* Mutant: the prune is skipped. *)
_clean_stale_osd_data_skipped(data, c) == data

(* _clean_stale_osd_data: drop entries whose OSD number the full disk list *)
(* no longer reports.                                                      *)
_clean_stale_osd_data(data, c) == SelectSeq(data, LAMBDA r : r.osd \in Ids(c))

(* osd_data[n] = {"disk": s}: overwrite in place or append. *)
PutEntry(data, n, s) ==
    LET i == SelectInSeq(data, LAMBDA r : r.osd = n) IN
    IF i = 0 THEN Append(data, [osd |-> n, disk |-> s])
    ELSE [data EXCEPT ![i].disk = s]

(* Mutant: every local OSD is recorded for the storage, whatever its name. *)
_save_osd_data_any_name(data, c, s) ==
    FoldLeft(LAMBDA acc, r : PutEntry(acc, r.osd, s), data,
             SetToSortSeq({r \in c : IsLocal(r)}, LAMBDA a, b : a.osd < b.osd))

(* _save_osd_data: every local OSD whose device name occurs in the        *)
(* storage's location is recorded for that storage, in disk-list order.   *)
_save_osd_data(data, c, s) ==
    LET local == SetToSortSeq({r \in c : IsLocal(r)}, LAMBDA a, b : a.osd < b.osd)
    IN FoldLeft(LAMBDA acc, r :
                   IF DevName[r.dev] \in SubSeqs(Path(Loc[s]))
                   THEN PutEntry(acc, r.osd, s) ELSE acc,
                data, local)

SaveAll(data, c, disks) ==
    FoldLeft(LAMBDA acc, s : _save_osd_data(acc, c, s), data, disks)

(* Mutant: the cache is reset to None instead of "". *)
_reset_osd_config_cache_none ==
    /\ last_osd_devices' = None
    /\ last_wipe_osd' = FALSE
    /\ last_encrypt_osd' = FALSE

_reset_osd_config_cache ==
    /\ last_osd_devices' = NoExpr
    /\ last_wipe_osd' = FALSE
    /\ last_encrypt_osd' = FALSE

_set_osd_config_cache(m, f) ==
    /\ last_osd_devices' = m
    /\ last_wipe_osd' = f.wipe_osd
    /\ last_encrypt_osd' = f.encrypt_osd

_is_cached_osd_config(m, f) ==
    /\ last_osd_devices = m
    /\ last_wipe_osd = f.wipe_osd
    /\ last_encrypt_osd = f.encrypt_osd

-----------------------------------------------------------------------------
(***************************************************************************)
(* Outcomes and hook completion.                                           *)
(***************************************************************************)

(* A failing outcome of an external call, within the failure bound. *)
Fail == failures < MaxFailures /\ failures' = failures + 1

(* The end of the hook handling e: "done" consumes the event (a detaching *)
(* storage is then gone), "defer" keeps it for a later dispatch, "error"  *)
(* fails the hook so that Juju retries it before anything else.           *)
Finish(e, result) ==
    /\ pending' = IF result = "done" THEN pending \ {e} ELSE pending
    /\ deferred' = IF result = "defer" THEN deferred \cup {e} ELSE deferred \ {e}
    /\ errored' = IF result = "error" THEN e ELSE None
    /\ attached' = IF result = "done" /\ e.kind = "detaching"
                   THEN attached \ {e.stor} ELSE attached

Enrolled(c) == enrolled' = enrolled \cup {r.dev : r \in {x \in c \ cluster : x.dev \in HostDevs}}

-----------------------------------------------------------------------------
(***************************************************************************)
(* _on_osd_standalone_attached.  Pruning runs before the guard, so a      *)
(* failing disk list fails the hook; inside the guard any exception sets  *)
(* Blocked and the hook completes.                                         *)
(***************************************************************************)
(* The enroll list: attached storages, in storage-list order, for which  *)
(* _get_osd_id(storage) is falsy in the pruned index.                      *)
EnrollList(data) ==
    SelectSeq(StorageList, LAMBDA s : s \in attached /\ ~Truthy(GetOsdIdIn(data, s)))

_on_osd_standalone_attached(e) ==
    \/ /\ ~ready
       /\ Finish(e, "defer")
       /\ UNCHANGED <<storedVars, cluster, failures, enrolled>>
    \/ /\ ready
       /\ Fail
       /\ Finish(e, "error")
       /\ UNCHANGED <<storedVars, cluster, enrolled>>
    \/ /\ ready
       /\ LET data   == _clean_stale_osd_data(osd_data, cluster)
              enroll == EnrollList(data)
              paths  == [i \in DOMAIN enroll |-> Loc[enroll[i]]]
          IN /\ \/ /\ cluster' = AddDisks(cluster, paths)
                   /\ \/ /\ osd_data' = SaveAll(data, cluster', enroll)
                         /\ UNCHANGED failures
                      \/ /\ Fail
                         /\ \E k \in 0..(Len(enroll) - 1) :
                               osd_data' = SaveAll(data, cluster', SubSeq(enroll, 1, k))
                \/ /\ Fail
                   /\ cluster' \in PartlyAdded(cluster, paths)
                   /\ osd_data' = data
       /\ Enrolled(cluster')
       /\ Finish(e, "done")
       /\ UNCHANGED cacheVars

(***************************************************************************)
(* _on_storage_detaching with remove_osd.  A CalledProcessError that is  *)
(* not the safety failure is swallowed; the safety failure forces the     *)
(* removal and blocks; TimeoutExpired reaches the guard.  Juju then       *)
(* deprovisions the storage whatever the handler did.                     *)
(***************************************************************************)
Pruned(c) ==
    \/ osd_data' = _clean_stale_osd_data(osd_data, c) /\ UNCHANGED failures
    \/ Fail /\ UNCHANGED osd_data

(* Mutant: the failed removal of an unknown OSD fails the hook. *)
RemoveUnknownOsdPropagated(e, n) ==
    /\ n \notin Ids(cluster)
    /\ UNCHANGED <<osd_data, cluster, failures>>
    /\ Finish(e, "error")

(* remove_disk_cmd of an OSD number the cluster no longer has fails with  *)
(* a CalledProcessError that is not the safety failure: it is swallowed.   *)
RemoveUnknownOsd(e, n) ==
    /\ n \notin Ids(cluster)
    /\ UNCHANGED <<osd_data, cluster, failures>>
    /\ Finish(e, "done")

(* remove_osd(n): the removal succeeds and the index is pruned (the prune *)
(* itself may fail after the removal), or it fails: a CalledProcessError  *)
(* leaves the cluster as it was, a TimeoutExpired may come after the      *)
(* command took effect.  Neither failure prunes.                         *)
RemoveOsdOutcome(n) ==
    \/ /\ cluster' = RemoveOsd(cluster, n)
       /\ Pruned(cluster')
    \/ /\ Fail
       /\ cluster' \in {cluster, RemoveOsd(cluster, n)}
       /\ UNCHANGED osd_data

(* remove_osd(n, force=True) after the safety failure: as above, except   *)
(* that a CalledProcessError of the forced removal still prunes.          *)
ForcedRemoveOutcome(n) ==
    \/ RemoveOsdOutcome(n)
    \/ /\ Fail
       /\ UNCHANGED cluster
       /\ osd_data' = _clean_stale_osd_data(osd_data, cluster)

_on_storage_detaching(e) ==
    LET n == _get_osd_id(e.stor) IN
    /\ UNCHANGED <<cacheVars, enrolled>>
    /\ \/ /\ n = None
          /\ UNCHANGED <<osd_data, cluster, failures>>
          /\ Finish(e, "done")
       \/ /\ n # None
          /\ RemoveUnknownOsd(e, n)
       \/ /\ n \in Ids(cluster)
          /\ Finish(e, "done")
          /\ IF SafetyConflict(cluster)
             THEN ForcedRemoveOutcome(n)
             ELSE RemoveOsdOutcome(n)

(***************************************************************************)
(* _on_config_changed_osd_devices and _apply_osd_config.  A match call    *)
(* that finds no available device reports "no devices matched", which is  *)
(* cached like a success.                                                  *)
(***************************************************************************)
(* Mutant: a failed match call still caches the configuration. *)
_apply_osd_config_cache_failure(m, f) ==
    LET paths == SetToSeq({d \in Match[m] : Available(cluster, d)}) IN
    /\ \/ /\ cluster' = AddDisks(cluster, paths)
          /\ UNCHANGED failures
       \/ /\ Fail
          /\ cluster' \in PartlyAdded(cluster, paths)
    /\ _set_osd_config_cache(m, f)
    /\ Enrolled(cluster')

_apply_osd_config(m, f) ==
    LET paths == SetToSeq({d \in Match[m] : Available(cluster, d)}) IN
    /\ \/ /\ cluster' = AddDisks(cluster, paths)
          /\ _set_osd_config_cache(m, f)
          /\ UNCHANGED failures
       \/ /\ Fail
          /\ cluster' \in PartlyAdded(cluster, paths)
          /\ UNCHANGED cacheVars
    /\ Enrolled(cluster')

_on_config_changed_osd_devices(e) ==
    /\ \/ /\ osd_devices = NoExpr
          /\ _reset_osd_config_cache
          /\ Finish(e, "done")
          /\ UNCHANGED <<cluster, failures, enrolled>>
       \/ /\ osd_devices # NoExpr
          /\ ~ready
          /\ Finish(e, "defer")
          /\ UNCHANGED <<cacheVars, cluster, failures, enrolled>>
       \/ /\ osd_devices # NoExpr
          /\ ready
          /\ Finish(e, "done")
          /\ LET flags == Flags!parse_device_add_flags(device_add_flags) IN
             \/ /\ ~flags.ok
                /\ UNCHANGED <<cacheVars, cluster, failures, enrolled>>
             \/ /\ flags.ok
                /\ _is_cached_osd_config(osd_devices, flags)
                /\ UNCHANGED <<cacheVars, cluster, failures, enrolled>>
             \/ /\ flags.ok
                /\ ~_is_cached_osd_config(osd_devices, flags)
                /\ _apply_osd_config(osd_devices, flags)
    /\ UNCHANGED osd_data

Handle(e) ==
    /\ \/ e.kind = "attached" /\ _on_osd_standalone_attached(e)
       \/ e.kind = "detaching" /\ _on_storage_detaching(e)
       \/ e.kind = "config" /\ _on_config_changed_osd_devices(e)
    /\ UNCHANGED <<ready, osd_devices, device_add_flags, loops>>

(* Juju runs the failed hook again before any other; otherwise any        *)
(* pending event, deferred or new, may be dispatched next.                *)
Dispatch(e) ==
    /\ e \in pending
    /\ errored \in {None, e}
    /\ Handle(e)

(***************************************************************************)
(* _add_osd_action with one spec: a device-id or the loop spec.  Specs of *)
(* one invocation run one after another with nothing in between, so an    *)
(* invocation is a sequence of these steps.  The index is not touched.    *)
(***************************************************************************)
_add_osd_action ==
    /\ errored = None
    /\ \/ /\ ~ready
          /\ UNCHANGED <<cluster, failures, loops, enrolled>>
       \/ /\ ready
          /\ \E d \in LocalDevs \cup {LoopDev} :
                /\ d = LoopDev => loops < MaxLoops
                /\ loops' = IF d = LoopDev THEN loops + 1 ELSE loops
                /\ \/ /\ Available(cluster, d)
                      /\ cluster' = AddOsd(cluster, d)
                      /\ UNCHANGED failures
                   \/ /\ ~Available(cluster, d)
                      /\ UNCHANGED <<cluster, failures>>
                   \/ /\ Available(cluster, d)
                      /\ Fail
                      /\ cluster' \in {cluster, AddOsd(cluster, d)}
          /\ Enrolled(cluster')
    /\ UNCHANGED <<storedVars, attached, ready, osd_devices, device_add_flags, hookVars>>

-----------------------------------------------------------------------------
(***************************************************************************)
(* The environment: bootstrap, Juju storage and configuration changes,    *)
(* the operator removing OSDs with the microceph CLI, other hosts adding  *)
(* OSDs.                                                                   *)
(***************************************************************************)
(* What no environment step touches: the unit's stored state and hooks. *)
UnitUnchanged == UNCHANGED <<storedVars, failures, loops, enrolled, errored>>

Bootstrap ==
    /\ ~ready
    /\ ready' = TRUE
    /\ UNCHANGED <<cluster, attached, osd_devices, device_add_flags, pending, deferred>>
    /\ UnitUnchanged

AttachStorage(s) ==
    /\ s \notin attached
    /\ Detaching(s) \notin pending
    /\ attached' = attached \cup {s}
    /\ pending' = pending \cup {Attached(s)}
    /\ deferred' = deferred \ {Attached(s)}
    /\ UNCHANGED <<cluster, ready, osd_devices, device_add_flags>>
    /\ UnitUnchanged

RequestDetach(s) ==
    /\ s \in attached
    /\ Detaching(s) \notin pending
    /\ Attached(s) \notin pending \ deferred
    /\ pending' = pending \cup {Detaching(s)}
    /\ UNCHANGED <<cluster, attached, ready, osd_devices, device_add_flags, deferred>>
    /\ UnitUnchanged

ChangeConfig ==
    /\ \E m \in Exprs \cup {NoExpr}, f \in FlagInputs :
          /\ <<m, f>> # <<osd_devices, device_add_flags>>
          /\ osd_devices' = m
          /\ device_add_flags' = f
    /\ pending' = pending \cup {ConfigChanged}
    /\ UNCHANGED <<cluster, attached, ready, deferred>>
    /\ UnitUnchanged

OperatorRemove ==
    /\ OperatorRemovals
    /\ \E r \in cluster : cluster' = cluster \ {r}
    /\ UNCHANGED <<attached, ready, osd_devices, device_add_flags, pending, deferred>>
    /\ UnitUnchanged

RemoteAdd ==
    /\ \E d \in RemoteDevs :
          /\ \A r \in cluster : r.dev # d
          /\ cluster' = AddOsd(cluster, d)
    /\ UNCHANGED <<attached, ready, osd_devices, device_add_flags, pending, deferred>>
    /\ UnitUnchanged

Environment ==
    \/ Bootstrap
    \/ \E s \in Storages : AttachStorage(s) \/ RequestDetach(s)
    \/ ChangeConfig
    \/ OperatorRemove
    \/ RemoteAdd

-----------------------------------------------------------------------------
Init ==
    /\ osd_data = <<>>
    /\ last_osd_devices = NoExpr
    /\ last_wipe_osd = FALSE
    /\ last_encrypt_osd = FALSE
    /\ cluster = {}
    /\ attached = {}
    /\ ready = FALSE
    /\ osd_devices = NoExpr
    /\ device_add_flags = <<>>
    /\ pending = {ConfigChanged}
    /\ deferred = {}
    /\ errored = None
    /\ failures = 0
    /\ loops = 0
    /\ enrolled = {}

Next ==
    \/ \E e \in Event : Dispatch(e)
    \/ _add_osd_action
    \/ Environment

(* Juju eventually runs every queued hook and, through update-status,     *)
(* re-emits deferred events; the cluster is eventually bootstrapped.      *)
Fairness ==
    /\ WF_vars(Bootstrap)
    /\ \A e \in Event : WF_vars(Dispatch(e))

Spec == Init /\ [][Next]_vars /\ Fairness

-----------------------------------------------------------------------------
TypeOK ==
    /\ osd_data \in Seq([osd : OsdIds, disk : Storages])
    /\ last_osd_devices \in Exprs \cup {NoExpr}
    /\ last_wipe_osd \in BOOLEAN /\ last_encrypt_osd \in BOOLEAN
    /\ cluster \subseteq OsdRec
    /\ attached \subseteq Storages
    /\ ready \in BOOLEAN
    /\ osd_devices \in Exprs \cup {NoExpr}
    /\ device_add_flags \in FlagInputs
    /\ pending \subseteq Event /\ deferred \subseteq pending
    /\ errored \in pending \cup {None}
    /\ failures \in 0..MaxFailures /\ loops \in 0..MaxLoops
    /\ enrolled \subseteq HostDevs

(* The index never records two OSDs for one storage: _save_osd_data      *)
(* correlates OSDs to a storage by device name, and _get_osd_id returns  *)
(* only the first entry, so a second one would be a disk the detaching   *)
(* handler never removes, or the one it removes instead.                 *)
StorageHasOneOsd ==
    \A i, j \in DOMAIN osd_data : osd_data[i].disk = osd_data[j].disk => i = j

(* Every index entry whose OSD number the cluster reports names the OSD  *)
(* on that storage's device: pruning by number and correlation by name   *)
(* keep the index right through removals, retries and id reuse, so the   *)
(* detaching handler removes the storage's own OSD.                      *)
IndexSound ==
    \A i \in DOMAIN osd_data :
        \A r \in cluster : r.osd = osd_data[i].osd => r.dev = Loc[osd_data[i].disk]

(* When the cache says an expression was applied, every permanent device *)
(* of this host that it selects has been enrolled: the cache is set only *)
(* after a match call that added all of them or found none available.    *)
CacheSound ==
    last_osd_devices # NoExpr => Match[last_osd_devices] \cap HostDevs \subseteq enrolled

(* Whenever a storage-attached hook is about to run, the batch add it    *)
(* would make names only storages that the pruned index does not track   *)
(* (spec: two storages attach, one already present: only the new one     *)
(* appears in the add_by_path call).                                     *)
BatchOnlyUntracked ==
    LET data == _clean_stale_osd_data(osd_data, cluster) IN
    (ready /\ \E s \in Storages : Attached(s) \in pending) =>
        \A s \in attached : GetOsdIdIn(data, s) # None => s \notin ToSet(EnrollList(data))

(* When the detaching handler of a storage whose OSD the index tracks    *)
(* completes, no OSD is left on the storage's device (spec 4.4: any      *)
(* removal failure other than the safety check is fatal and retried).    *)
DetachRemovesTrackedOsd ==
    [][\A s \in attached \ attached' :
          (\E r \in cluster : r.osd = _get_osd_id(s) /\ r.dev = Loc[s])
             => \A r \in cluster' : r.dev # Loc[s]]_vars

(* The index, read as _get_osd_id reads it, implements the abstract OSD  *)
(* index: an entry is recorded only as the OSD the cluster has on the     *)
(* storage's device, dropped only once its OSD is gone, and every live     *)
(* entry names the storage's own OSD.                                      *)
Abs == INSTANCE OsdIndex WITH index <- [s \in Storages |-> _get_osd_id(s)]

RefinesOsdIndex == Abs!Spec

(* Every event the unit receives is eventually handled to completion:    *)
(* deferral and hook retries never keep one pending forever.             *)
EventsHandled == \A e \in Event : e \in pending ~> e \notin pending
=============================================================================
