----------------------------- MODULE MCCephCSI ------------------------------
(***************************************************************************)
(* Two ceph-csi applications, k8s and k8s-b.  Their "workloads" field is  *)
(* unset, the text "cephfs", the text "rbd; CephFS" or the JSON list       *)
(* ["rbd", "CephFS"].  One active MDS daemon per volume is asked for.     *)
(***************************************************************************)
EXTENDS CephCSI

MCUnits == [a \in Apps |-> {a \o "/0"}]
MCUnitsTwo == [a \in Apps |-> {a \o "/0", a \o "/1"}]
MCRelOrder == SetToSeq(Apps)

JsonList == <<"[\"rbd\"", ",", " ", "\"CephFS\"]">>
MCWorkloadValues == {<<"cephfs">>, <<"rbd", ";", " ", "CephFS">>}
MCWorkloadValuesJson == MCWorkloadValues \cup {JsonList}

(* json.loads: only the JSON list decodes; the others raise               *)
(* JSONDecodeError.                                                        *)
MCJsonLoads(v) ==
    IF v = JsonList THEN [kind |-> "list", items |-> <<<<"rbd">>, <<"CephFS">>>>]
    ELSE [kind |-> "invalid", items |-> <<>>]

MCWords == {"rbd", "cephfs", "CephFS", "[\"rbd\"", "\"CephFS\"]"}
MCLower(w) == IF w = "CephFS" THEN "cephfs" ELSE w
MCRbd == <<"rbd">>
MCCephfs == <<"cephfs">>
=============================================================================
