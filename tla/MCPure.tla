------------------------------- MODULE MCPure --------------------------------
(***************************************************************************)
(* The charm's pure helpers, each over every input within its bounds:     *)
(* the device-add-flags parser (DeviceFlags), the public address lookup   *)
(* (HostAddress) and the CephFS pool deduction (CephfsPools).  Each       *)
(* initial state sets the input of one helper and leaves the others at an *)
(* idle value, so that the inputs add up rather than multiply.            *)
(*                                                                         *)
(* Flag words: "wipe:osd", "WIPE:OSD", "encrypt:osd", "Encrypt:OSD",      *)
(* "bogus".  Pools: 1 is k8s.meta, 2 is k8s.data, 3 is rbd.k8s.           *)
(***************************************************************************)
EXTENDS DeviceFlags

CONSTANTS V4Addrs, V6Addrs, MaxIfaces, Key, FsName, PoolIds, None

VARIABLES host, mon, poolList, fsInfo

MCWords == {"wipe:osd", "WIPE:OSD", "encrypt:osd", "Encrypt:OSD", "bogus"}

MCLower(w) ==
    CASE w = "WIPE:OSD"    -> "wipe:osd"
      [] w = "Encrypt:OSD" -> "encrypt:osd"
      [] OTHER             -> w

MCPoolName == [id \in PoolIds |->
                 CASE id = 1 -> "k8s.meta" [] id = 2 -> "k8s.data" [] OTHER -> "rbd.k8s"]

Addr == INSTANCE HostAddress
Pools == INSTANCE CephfsPools WITH PoolName <- MCPoolName

pureVars == <<input, host, mon, poolList, fsInfo>>

FlagsIdle == input = <<>>
AddrIdle == host = <<>> /\ mon = <<>>
PoolsIdle == poolList = <<>> /\ fsInfo = [mdsmap |-> None]

PureInit ==
    \/ Init /\ AddrIdle /\ PoolsIdle
    \/ FlagsIdle /\ Addr!Init /\ PoolsIdle
    \/ FlagsIdle /\ AddrIdle /\ Pools!Init

PureNext == Next /\ Addr!Next /\ Pools!Next

PureSpec == PureInit /\ [][PureNext]_pureVars

(* The properties of the helpers, stated in their modules. *)
AddressMatchesReference == Addr!AddressMatchesReference
CephfsPoolsMatchReference == Pools!CephfsPoolsMatchReference
=============================================================================
