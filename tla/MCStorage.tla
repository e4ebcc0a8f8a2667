----------------------------- MODULE MCStorage ------------------------------
(***************************************************************************)
(* Two Juju storages on vdb and vdc, a spare host disk vdd, one loop file  *)
(* and one disk on another host.  The expression "hdd" selects vdd and    *)
(* the first storage's disk.  No device name occurs inside another path.  *)
(***************************************************************************)
EXTENDS Storage

MCStorageList == SelectSeq(<<"osd-standalone/0", "osd-standalone/1">>,
                           LAMBDA s : s \in Storages)
MCLoc == [s \in Storages |->
            IF s = "osd-standalone/0" THEN "vdb" ELSE "vdc"]
MCDevName == [d \in {"vdb", "vdc", "vdd", "loop0"} |->
                CASE d = "vdb" -> <<"v", "d", "b">>
                  [] d = "vdc" -> <<"v", "d", "c">>
                  [] d = "vdd" -> <<"v", "d", "d">>
                  [] OTHER     -> <<"l", "o", "o", "p", "0">>]
MCMatch == [e \in {"hdd"} |-> {"vdd", "vdb"}]
MCFlagInputs == {<<>>, <<"wipe:osd">>, <<"bogus">>}
MCFlagInputsSmall == {<<>>, <<"bogus">>}
MCWords == {"wipe:osd", "encrypt:osd", "bogus"}
MCLower(w) == w
=============================================================================
