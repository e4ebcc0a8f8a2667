------------------------------- MODULE CephCSI -------------------------------
(***************************************************************************)
(* The ceph-csi relation of the microceph charm (src/src/ceph_csi.py):    *)
(* CephCSIProvides turns Juju relation and peer events into connected,    *)
(* reconcile and departed events, and CephCSIProvidesHandler serves each  *)
(* related ceph-csi application: an rbd pool, a CephFS volume, a cephx    *)
(* key, and the fields it publishes in the microceph application databag. *)
(*                                                                         *)
(* The unit modelled is the leader.  Juju dispatches one hook at a time;  *)
(* a custom event emitted by a handler runs inside the same hook.  A       *)
(* deferred event is re-emitted by ops at a later dispatch.  A hook that  *)
(* raises is retried before any other, and its relation-data writes are  *)
(* discarded while what it did to Ceph stays.                              *)
(***************************************************************************)
EXTENDS Naturals, FiniteSets, Sequences, SequencesExt

CONSTANTS
    Apps,           \* remote ceph-csi applications
    Units,          \* Units[a]: the units of application a
    RelOrder,       \* the order of model.relations (relation ids)
    WorkloadValues, \* values of the remote "workloads" field, as symbol sequences
    JsonLoads(_),   \* json.loads on each of them: [kind, items]
    ActiveMds,      \* active-mds-per-volume option (an integer or None)
    StandbyMds,     \* standby-mds-per-volume option
    MaxMds,         \* bound on MDS daemons started in the cluster
    MaxFailures,    \* bound on external calls that raise
    UnitDepartures, \* whether single remote units leave a live relation
    Unrelations,    \* whether whole relations are removed
    None

CONSTANTS Comma, Semicolon, Space, Words, Lower(_), Rbd, Cephfs

ASSUME RelOrder \in Seq(Apps) /\ ToSet(RelOrder) = Apps
ASSUME MaxMds \in Nat /\ MaxFailures \in Nat

VARIABLES
    (* the cluster *)
    ready,       \* ready_for_service()
    hasOsds,     \* ceph.get_osd_count() > 0
    mds,         \* MDS daemons reported by mds stat
    pools,       \* applications whose rbd.<app> pool exists
    volumes,     \* applications whose CephFS volume exists
    keys,        \* keys[c]: the cephx key of client c, 0 when none
    issued,      \* issued[c]: keys ever created for client c
    (* the relations *)
    rel,         \* rel[a]: "absent", "live", "removing" or "gone"
    units,       \* units[a]: the remote units still in the relation
    workloads,   \* workloads[a]: the remote application's "workloads" field
    published,   \* published[a]: the microceph application databag
    (* hook dispatch *)
    pending,     \* events not yet handled to completion
    deferred,    \* pending events that a handler deferred
    errored,     \* the event whose hook is in error
    failures

clusterVars == <<ready, hasOsds, mds, pools, volumes, keys, issued>>
relVars == <<rel, units, workloads, published>>
hookVars == <<pending, deferred, errored>>
vars == <<clusterVars, relVars, hookVars, failures>>
worldVars == <<pools, volumes, keys, issued, published>>

Flags == INSTANCE DeviceFlags
         WITH input <- <<>>, MaxLen <- 0, WipeOsd <- None, EncryptOsd <- None

Ev(k, a, u) == [kind |-> k, app |-> a, unit |-> u]
Changed(a) == Ev("changed", a, None)       \* relation-joined / -changed
Departed(a, u) == Ev("departed", a, u)     \* relation-departed of unit u
PeersChanged == Ev("peers", None, None)    \* peers relation-changed / -departed
Connected(a) == Ev("connected", a, None)   \* ceph_csi_connected, deferred
Reconcile == Ev("reconcile", None, None)   \* ceph_csi_reconcile, deferred
Event ==
    {Changed(a) : a \in Apps} \cup {Connected(a) : a \in Apps}
    \cup {Departed(a, u) : a \in Apps, u \in UNION {Units[b] : b \in Apps}}
    \cup {PeersChanged, Reconcile}

Live(a) == rel[a] \in {"live", "removing"}
Relations == {a \in Apps : Live(a)}           \* model.relations["ceph-csi"]

-----------------------------------------------------------------------------
(***************************************************************************)
(* Parsing the request.                                                    *)
(***************************************************************************)
ReplaceSemicolons(v) == [i \in DOMAIN v |-> IF v[i] = Semicolon THEN Comma ELSE v[i]]

_parse_workloads(value) ==
    IF value = None \/ value = <<>> THEN {}
    ELSE LET parsed == JsonLoads(value)
             items == CASE parsed.kind = "list"    -> parsed.items
                        [] parsed.kind = "str"     -> parsed.items
                        [] parsed.kind = "invalid" -> Flags!Split(ReplaceSemicolons(value))
                        [] OTHER                   -> <<>>
         IN {Flags!LowerSeq(Flags!Strip(items[i])) : i \in DOMAIN items} \ {<<>>}

(* The request of every value the field can hold, computed once. *)
WorkloadsOf == [v \in WorkloadValues \cup {None} |->
                  LET parsed == _parse_workloads(v) IN
                  IF parsed # {} THEN parsed ELSE {Rbd}]

_get_workloads(a) == WorkloadsOf[workloads[a]]

(* int(value), with the default for an unset option.  The options are     *)
(* integers or unset, so the ValueError branch is not reached.             *)
_config_int(value, default) == IF value = None THEN default ELSE value

(* The mds stat JSON is abstracted to the number of daemons it reports. *)
_mds_daemon_count == mds

_has_sufficient_mds ==
    LET required == _config_int(ActiveMds, 1) + _config_int(StandbyMds, 0) IN
    required <= 0 \/ _mds_daemon_count >= required

(* Mutant: the client is named after the charm, not the remote app. *)
_format_client_name_app_dropped(user_id) == <<"client.", "csi-">>

_format_client_name(user_id) ==
    IF user_id[1] = "client." THEN user_id ELSE <<"client.">> \o user_id

ClientName(a) == _format_client_name(<<"csi-", a>>)
KeyNames == {ClientName(a) : a \in Apps}

-----------------------------------------------------------------------------
(***************************************************************************)
(* Serving one relation.  The cluster and the databags are gathered in a  *)
(* record so that the reconcile loop can apply one service after another. *)
(***************************************************************************)
World == [pools |-> pools, volumes |-> volumes, keys |-> keys,
          issued |-> issued, published |-> published]

SetWorld(w) ==
    /\ pools' = w.pools
    /\ volumes' = w.volumes
    /\ keys' = w.keys
    /\ issued' = w.issued
    /\ published' = w.published

(* ReplicatedPool(...).create() for rbd.<app>. *)
_ensure_rbd_pool(w, a) == [w EXCEPT !.pools = @ \cup {a}]

(* The volume is created unless fs volume ls lists it; its MDS settings   *)
(* are applied either way.                                                 *)
(* Mutant: the existence check is inverted. *)
_ensure_fs_volume_inverted(w, a) ==
    IF a \notin w.volumes THEN w ELSE [w EXCEPT !.volumes = @ \cup {a}]

_ensure_fs_volume(w, a) ==
    IF a \in w.volumes THEN w ELSE [w EXCEPT !.volumes = @ \cup {a}]

(* _service_relation as the sequence of worlds after each external call   *)
(* that changes the cluster, with its result: FALSE when CephFS is asked  *)
(* for without enough MDS daemons.  get_named_key returns the client's    *)
(* key, creating one when there is none; the databag update merges the   *)
(* new fields into the old ones.                                           *)
ServiceSteps(w, a, wl) ==
    LET client == ClientName(a)
        w1 == IF Rbd \in wl THEN _ensure_rbd_pool(w, a) ELSE w
        w2 == IF Cephfs \in wl THEN _ensure_fs_volume(w1, a) ELSE w1
        w3 == IF w2.keys[client] # 0 THEN w2
              ELSE [w2 EXCEPT !.issued[client] = @ + 1,
                              !.keys[client] = w2.issued[client] + 1]
        w4 == [w3 EXCEPT !.published[a] =
                 [@ EXCEPT !.user_id = client,
                           !.user_key = w3.keys[client],
                           !.rbd_pool = @ \/ Rbd \in wl,
                           !.cephfs_fs_name = @ \/ Cephfs \in wl]]
    IN IF Cephfs \in wl /\ ~_has_sufficient_mds
       THEN [ok |-> FALSE, steps |-> <<w, w1>>]
       ELSE [ok |-> TRUE, steps |-> <<w, w1, w2, w3, w4>>]

_service_relation(w, a) == ServiceSteps(w, a, _get_workloads(a))

ServiceEnd(r) == Last(r.steps)

(* The worlds a raising call may leave: as after any prefix of the calls. *)
Raised(r) ==
    LET calls == IF r.ok THEN 1..(Len(r.steps) - 1) ELSE 1..Len(r.steps) IN
    {r.steps[i] : i \in calls}

(* The for-loop of _on_ceph_csi_reconcile over the relations rels, from   *)
(* world w: every way it can end, "done" after serving all, "defer" at   *)
(* the first relation served with FALSE, "raise" inside any call.         *)
RECURSIVE ReconcileLoop(_, _)
ReconcileLoop(w, rels) ==
    IF rels = <<>> THEN {[w |-> w, result |-> "done"]}
    ELSE LET r == _service_relation(w, Head(rels)) IN
         {[w |-> x, result |-> "raise"] : x \in Raised(r)}
         \cup (IF r.ok THEN ReconcileLoop(ServiceEnd(r), Tail(rels))
               ELSE {[w |-> ServiceEnd(r), result |-> "defer"]})

-----------------------------------------------------------------------------
(***************************************************************************)
(* Hook completion.                                                        *)
(***************************************************************************)
(* The hook handling e succeeds; the custom events in later stay deferred. *)
Complete(e, later) ==
    /\ pending' = (pending \ {e}) \cup later
    /\ deferred' = (deferred \ {e}) \cup later
    /\ errored' = None

Defer(e) ==
    /\ deferred' = deferred \cup {e}
    /\ errored' = None
    /\ UNCHANGED <<pending, worldVars, failures>>

(* An external call raises: the hook fails, its databag writes are lost. *)
Raise(e, w) ==
    /\ failures < MaxFailures
    /\ failures' = failures + 1
    /\ SetWorld([w EXCEPT !.published = published])
    /\ errored' = e
    /\ UNCHANGED <<pending, deferred>>

(* relation.data[relation.app] of a relation that no longer exists: ops   *)
(* gives it no app, and the lookup raises KeyError.                        *)
RaiseOnDeadRelation(e) ==
    /\ errored' = e
    /\ UNCHANGED <<pending, deferred, worldVars, failures>>

-----------------------------------------------------------------------------
(***************************************************************************)
(* Handlers.                                                               *)
(***************************************************************************)
(* _on_ceph_csi_connected within the hook handling e. *)
_on_ceph_csi_connected(e, a) ==
    \/ ~Live(a) /\ RaiseOnDeadRelation(e)
    \/ /\ Live(a)
       /\ LET r == _service_relation(World, a) IN
          \/ /\ SetWorld(ServiceEnd(r))
             /\ Complete(e, IF r.ok THEN {} ELSE {Connected(a)})
             /\ UNCHANGED failures
          \/ \E w \in Raised(r) : Raise(e, w)

(* Mutant: the event is dropped, not deferred, before the cluster is ready. *)
_on_relation_changed_dropped(e) ==
    \/ ~ready /\ Complete(e, {}) /\ UNCHANGED <<worldVars, failures>>
    \/ ready /\ ~hasOsds /\ Defer(e)
    \/ ready /\ hasOsds /\ _on_ceph_csi_connected(e, e.app)

_on_relation_changed(e) ==
    \/ ~ready /\ Defer(e)
    \/ ready /\ ~hasOsds /\ Defer(e)
    \/ ready /\ hasOsds /\ _on_ceph_csi_connected(e, e.app)

(* _on_ceph_csi_departed: the client's key is removed, a failure of the  *)
(* removal is logged and swallowed.                                        *)
_on_ceph_csi_departed(e) ==
    LET client == ClientName(e.app) IN
    \/ /\ keys' = [keys EXCEPT ![client] = 0]
       /\ UNCHANGED failures
    \/ /\ failures < MaxFailures
       /\ failures' = failures + 1
       /\ UNCHANGED keys

(* _on_relation_departed emits ceph_csi_departed, run in the same hook.   *)
(* The relation is still live in a departed hook, so it has an app.       *)
_on_relation_departed(e) ==
    /\ _on_ceph_csi_departed(e)
    /\ Complete(e, {})
    /\ UNCHANGED <<pools, volumes, issued, published>>

_on_ceph_csi_reconcile(e) ==
    \E o \in ReconcileLoop(World, SelectSeq(RelOrder, Live)) :
        \/ o.result = "done" /\ SetWorld(o.w) /\ Complete(e, {}) /\ UNCHANGED failures
        \/ o.result = "defer" /\ SetWorld(o.w) /\ Complete(e, {Reconcile})
           /\ UNCHANGED failures
        \/ o.result = "raise" /\ Raise(e, o.w)

_on_ceph_peers(e) ==
    \/ ~hasOsds /\ Defer(e)
    \/ hasOsds /\ Relations = {} /\ Complete(e, {})
       /\ UNCHANGED <<worldVars, failures>>
    \/ hasOsds /\ Relations # {} /\ _on_ceph_csi_reconcile(e)

Handle(e) ==
    \/ e.kind = "changed" /\ _on_relation_changed(e)
    \/ e.kind = "connected" /\ _on_ceph_csi_connected(e, e.app)
    \/ e.kind = "departed" /\ _on_relation_departed(e)
    \/ e.kind = "peers" /\ _on_ceph_peers(e)
    \/ e.kind = "reconcile" /\ _on_ceph_csi_reconcile(e)

(* Juju runs the failed hook again before any other; otherwise any        *)
(* pending event, deferred or new, may be dispatched next.                *)
Dispatch(e) ==
    /\ e \in pending
    /\ errored \in {None, e}
    /\ Handle(e)
    /\ UNCHANGED <<ready, hasOsds, mds, rel, units, workloads>>

-----------------------------------------------------------------------------
(***************************************************************************)
(* The environment: the cluster coming up, ceph-csi applications relating,*)
(* changing their request, losing units and leaving, and peer changes.    *)
(***************************************************************************)
UnitUnchanged == UNCHANGED <<pools, volumes, keys, issued, published, errored, failures>>

Bootstrap ==
    /\ ~ready
    /\ ready' = TRUE
    /\ UNCHANGED <<hasOsds, mds, relVars, pending, deferred>>
    /\ UnitUnchanged

AddOsds ==
    /\ ~hasOsds
    /\ hasOsds' = TRUE
    /\ UNCHANGED <<ready, mds, relVars, pending, deferred>>
    /\ UnitUnchanged

AddMds ==
    /\ mds < MaxMds
    /\ mds' = mds + 1
    /\ UNCHANGED <<ready, hasOsds, relVars, pending, deferred>>
    /\ UnitUnchanged

(* juju integrate: the application's units join and its request is set. *)
Relate(a) ==
    /\ rel[a] = "absent"
    /\ rel' = [rel EXCEPT ![a] = "live"]
    /\ units' = [units EXCEPT ![a] = Units[a]]
    /\ \E v \in WorkloadValues : workloads' = [workloads EXCEPT ![a] = v]
    /\ pending' = pending \cup {Changed(a)}
    /\ UNCHANGED <<ready, hasOsds, mds, published, deferred>>
    /\ UnitUnchanged

ChangeWorkloads(a) ==
    /\ rel[a] = "live"
    /\ \E v \in WorkloadValues \ {workloads[a]} : workloads' = [workloads EXCEPT ![a] = v]
    /\ pending' = pending \cup {Changed(a)}
    /\ UNCHANGED <<ready, hasOsds, mds, rel, units, published, deferred>>
    /\ UnitUnchanged

(* One remote unit leaves a relation that stays (scale-down). *)
UnitDepart(a, u) ==
    /\ UnitDepartures
    /\ rel[a] = "live"
    /\ u \in units[a]
    /\ units' = [units EXCEPT ![a] = @ \ {u}]
    /\ pending' = pending \cup {Departed(a, u)}
    /\ UNCHANGED <<ready, hasOsds, mds, rel, workloads, published, deferred>>
    /\ UnitUnchanged

(* juju remove-relation: every remote unit departs, then the relation is *)
(* broken.  Juju runs the relation-changed hook already queued first; only *)
(* a deferred one outlives the relation.                                   *)
Unrelate(a) ==
    /\ Unrelations
    /\ rel[a] = "live"
    /\ Changed(a) \in pending => Changed(a) \in deferred
    /\ rel' = [rel EXCEPT ![a] = "removing"]
    /\ units' = [units EXCEPT ![a] = {}]
    /\ pending' = pending \cup {Departed(a, u) : u \in units[a]}
    /\ UNCHANGED <<ready, hasOsds, mds, workloads, published, deferred>>
    /\ UnitUnchanged

(* The relation-broken hook, after every departed hook of the relation;   *)
(* nothing in the charm observes it.                                       *)
RelationBroken(a) ==
    /\ rel[a] = "removing"
    /\ errored = None
    /\ \A u \in Units[a] : Departed(a, u) \notin pending
    /\ rel' = [rel EXCEPT ![a] = "gone"]
    /\ UNCHANGED <<ready, hasOsds, mds, units, workloads, published, pending, deferred>>
    /\ UnitUnchanged

PeersChange ==
    /\ PeersChanged \notin pending
    /\ pending' = pending \cup {PeersChanged}
    /\ UNCHANGED <<ready, hasOsds, mds, relVars, deferred>>
    /\ UnitUnchanged

(* What the remote applications do. *)
RemoteEnvironment ==
    \E a \in Apps :
        \/ Relate(a) \/ ChangeWorkloads(a) \/ Unrelate(a) \/ RelationBroken(a)
        \/ \E u \in Units[a] : UnitDepart(a, u)

Environment ==
    \/ Bootstrap \/ AddOsds \/ AddMds \/ PeersChange
    \/ RemoteEnvironment

-----------------------------------------------------------------------------
NoData == [user_id |-> None, user_key |-> 0, rbd_pool |-> FALSE, cephfs_fs_name |-> FALSE]

Init ==
    /\ ready = FALSE
    /\ hasOsds = FALSE
    /\ mds = 0
    /\ pools = {}
    /\ volumes = {}
    /\ keys = [c \in KeyNames |-> 0]
    /\ issued = [c \in KeyNames |-> 0]
    /\ rel = [a \in Apps |-> "absent"]
    /\ units = [a \in Apps |-> {}]
    /\ workloads = [a \in Apps |-> None]
    /\ published = [a \in Apps |-> NoData]
    /\ pending = {}
    /\ deferred = {}
    /\ errored = None
    /\ failures = 0

Next ==
    \/ \E e \in Event : Dispatch(e)
    \/ Environment

(* Juju eventually runs every queued hook and, through update-status,     *)
(* re-emits deferred events at later dispatches.                           *)
Fairness == \A e \in Event : WF_vars(Dispatch(e))

Spec == Init /\ [][Next]_vars /\ Fairness

-----------------------------------------------------------------------------
(* Each variable holds what the code can put there; in particular every   *)
(* published user_id names the cephx client of that remote application.   *)
TypeOK ==
    /\ ready \in BOOLEAN /\ hasOsds \in BOOLEAN /\ mds \in 0..MaxMds
    /\ pools \subseteq Apps /\ volumes \subseteq Apps
    /\ keys \in [KeyNames -> Nat] /\ issued \in [KeyNames -> Nat]
    /\ rel \in [Apps -> {"absent", "live", "removing", "gone"}]
    /\ \A a \in Apps : units[a] \subseteq Units[a]
    /\ workloads \in [Apps -> WorkloadValues \cup {None}]
    /\ \A a \in Apps :
          published[a] \in [user_id : {<<"client.", "csi-", a>>, None},
                            user_key : Nat, rbd_pool : BOOLEAN,
                            cephfs_fs_name : BOOLEAN]
    /\ pending \subseteq Event /\ deferred \subseteq pending
    /\ errored \in Event \cup {None}
    /\ failures \in 0..MaxFailures

(* While a ceph-csi application still has units on the relation, the key  *)
(* published to it (user_key) is the key Ceph holds for its client: the   *)
(* departed handler must not revoke a key still in use, and a re-created  *)
(* key must be published.                                                  *)
KeyValidWhileUnits ==
    \A a \in Apps :
        (Live(a) /\ units[a] # {} /\ published[a].user_key # 0)
            => keys[published[a].user_id] = published[a].user_key

(* Every pool and CephFS volume named in a databag exists in Ceph, though *)
(* a hook may raise between creating them and publishing, and a failed    *)
(* hook's databag writes are discarded while its Ceph changes stay.       *)
PublishedResourcesExist ==
    \A a \in Apps :
        /\ published[a].rbd_pool => a \in pools
        /\ published[a].cephfs_fs_name => a \in volumes

(* Once a relation is gone, no cephx key of its client is left in Ceph    *)
(* (tests/ceph_csi test_remove_relation).                                  *)
NoKeyAfterRelationRemoved ==
    \A a \in Apps : rel[a] = "gone" => keys[ClientName(a)] = 0

(* Application a is served: a live key is published with every field its  *)
(* request asks for.                                                       *)
Served(a) ==
    LET d == published[a] IN
    /\ d.user_key # 0
    /\ keys[d.user_id] = d.user_key
    /\ Rbd \in _get_workloads(a) => d.rbd_pool
    /\ Cephfs \in _get_workloads(a) => d.cephfs_fs_name

(* The cluster can meet application a's request: it is ready, has OSDs   *)
(* and, when CephFS is asked for, enough MDS daemons.                      *)
CanMeet(a) ==
    /\ ready /\ hasOsds
    /\ Cephfs \in _get_workloads(a) => _has_sufficient_mds

(* A live relation whose request the cluster can meet is eventually       *)
(* served, unless the request changes to one it cannot meet: the          *)
(* deferrals of relation-changed and ceph_csi_connected, the re-emission *)
(* of deferred events and the retries of failed hooks end with the key   *)
(* and the fields published.                                               *)
ServedEventually ==
    \A a \in Apps : Live(a) /\ CanMeet(a) ~> Served(a) \/ ~CanMeet(a)

=============================================================================
