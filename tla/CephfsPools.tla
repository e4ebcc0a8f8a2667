----------------------------- MODULE CephfsPools -----------------------------
(***************************************************************************)
(* The pools a ceph-csi client is granted for a CephFS volume              *)
(* (src/src/ceph_csi.py, _get_pool_name_map and _get_cephfs_pools).         *)
(*                                                                         *)
(* The JSON of "ceph osd pool ls detail" is the sequence of the cluster's *)
(* pools as [pool_id, pool_name]; the JSON of "ceph fs get" is abstracted *)
(* to its mdsmap, which may lack either field.  A missing field or         *)
(* mdsmap is None.                                                         *)
(***************************************************************************)
EXTENDS Naturals, Sequences, SequencesExt

CONSTANTS
    FsName,      \* the volume, named after the ceph-csi application
    PoolIds,     \* pool ids the cluster may hold
    PoolName,    \* PoolName[id]: the name of the pool with that id
    None

(* The names a str() of an id or an f-string give, as tagged values. *)
Str(id) == <<"str", id>>
DefaultPools(fs) == {<<fs, ".data">>, <<fs, ".meta">>}

(* {pool["pool_id"]: pool["pool_name"] for pool in pool_list} *)
_get_pool_name_map(pool_list) ==
    [id \in {pool_list[i].pool_id : i \in DOMAIN pool_list} |->
        pool_list[Max({i \in DOMAIN pool_list : pool_list[i].pool_id = id})].pool_name]

(* dict.get(id, default) *)
MapGet(m, id, default) == IF id \in DOMAIN m THEN m[id] ELSE default

(* Mutant: the metadata pool is left out of the grant. *)
_get_cephfs_pools_no_meta(fs, fs_info, pool_list) ==
    LET mdsmap == fs_info.mdsmap
        m == _get_pool_name_map(pool_list)
        data == IF mdsmap = None \/ mdsmap.data_pools = None THEN {}
                ELSE {MapGet(m, mdsmap.data_pools[i], None) : i \in DOMAIN mdsmap.data_pools}
        pools == data
    IN IF pools # {} THEN pools ELSE DefaultPools(fs)

(* The data pools listed in the mdsmap and its metadata pool, by name; a  *)
(* data pool id missing from the list gives None, a metadata pool id its  *)
(* str(); the volume's default names when the set is empty.               *)
_get_cephfs_pools(fs, fs_info, pool_list) ==
    LET mdsmap == fs_info.mdsmap
        m == _get_pool_name_map(pool_list)
        data == IF mdsmap = None \/ mdsmap.data_pools = None THEN {}
                ELSE {MapGet(m, mdsmap.data_pools[i], None) : i \in DOMAIN mdsmap.data_pools}
        meta == IF mdsmap = None \/ mdsmap.metadata_pool = None THEN {}
                ELSE {MapGet(m, mdsmap.metadata_pool, Str(mdsmap.metadata_pool))}
        pools == data \cup meta
    IN IF pools # {} THEN pools ELSE DefaultPools(fs)

-----------------------------------------------------------------------------
(* Reference: the pools of the volume, named as the cluster names them;   *)
(* its default pool names when the mdsmap names no pool.                  *)
VolumePoolIds(mdsmap) ==
    IF mdsmap = None THEN {}
    ELSE (IF mdsmap.data_pools = None THEN {} ELSE ToSet(mdsmap.data_pools))
         \cup (IF mdsmap.metadata_pool = None THEN {} ELSE {mdsmap.metadata_pool})

RefGrantedPools(fs, fs_info) ==
    IF VolumePoolIds(fs_info.mdsmap) = {} THEN DefaultPools(fs)
    ELSE {PoolName[id] : id \in VolumePoolIds(fs_info.mdsmap)}

-----------------------------------------------------------------------------
(* Every cluster state: a set of pools listed in any order, and a volume  *)
(* whose mdsmap names up to two data pools and a metadata pool among      *)
(* them, or lacks the fields.                                              *)
PoolLists(ids) == {[i \in DOMAIN s |-> [pool_id |-> s[i], pool_name |-> PoolName[s[i]]]] :
                     s \in {t \in BoundedSeq(ids, Cardinality(ids)) :
                              IsInjective(t) /\ ToSet(t) = ids}}

MdsMaps(ids) ==
    {None} \cup [data_pools : {None} \cup {t \in BoundedSeq(ids, 2) : IsInjective(t)},
                 metadata_pool : {None} \cup ids]

VARIABLES poolList, fsInfo

Init ==
    \E ids \in SUBSET PoolIds :
        /\ poolList \in PoolLists(ids)
        /\ fsInfo \in [mdsmap : MdsMaps(ids)]
Next == UNCHANGED <<poolList, fsInfo>>
Spec == Init /\ [][Next]_<<poolList, fsInfo>>

(* The pools granted to a ceph-csi client for its CephFS volume (the     *)
(* pool_list of get_named_key) are exactly the volume's data and metadata *)
(* pools, whatever order "osd pool ls" lists them in and whichever mdsmap *)
(* fields are present, or the volume's default pool names when it names   *)
(* none.                                                                   *)
CephfsPoolsMatchReference ==
    _get_cephfs_pools(FsName, fsInfo, poolList) = RefGrantedPools(FsName, fsInfo)
=============================================================================
