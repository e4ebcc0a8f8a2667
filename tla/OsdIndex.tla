------------------------------- MODULE OsdIndex -------------------------------
(***************************************************************************)
(* What the StorageHandler's OSD index promises (spec.md 4.5), stated      *)
(* without dict order, pruning or name correlation: a partial map from    *)
(* Juju storage to OSD number, beside the cluster's OSDs.                 *)
(*                                                                         *)
(* In one step the cluster may change and, with it, each storage's entry  *)
(* may stay, be recorded as an OSD that the cluster now has on the        *)
(* storage's own device, or be forgotten once its OSD is no longer in the *)
(* cluster.  A recorded OSD number that the cluster reports always names  *)
(* the OSD on that storage's device.                                       *)
(***************************************************************************)
CONSTANTS Storages, Loc, None

VARIABLES index, cluster

Ids(c) == {r.osd : r \in c}

(* The OSD number a storage's entry may take after the step. *)
Allowed(s) ==
    {index[s]}
    \cup {r.osd : r \in {x \in cluster' : x.dev = Loc[s]}}
    \cup (IF index[s] \notin Ids(cluster') THEN {None} ELSE {})

(* Every entry whose number the cluster reports names the OSD on the     *)
(* storage's device.                                                       *)
Sound(ix, c) ==
    \A s \in Storages : \A r \in c : r.osd = ix[s] => r.dev = Loc[s]

Init ==
    /\ index = [s \in Storages |-> None]
    /\ cluster = {}

Step ==
    /\ \A s \in Storages : index'[s] \in Allowed(s)
    /\ Sound(index', cluster')

Spec == Init /\ [][Step]_<<index, cluster>>
=============================================================================
