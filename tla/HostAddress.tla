----------------------------- MODULE HostAddress -----------------------------
(***************************************************************************)
(* The address the charm publishes as ceph-public-address                  *)
(* (src/src/charm.py, _lookup_system_interfaces and                        *)
(* get_ceph_info_from_configs).                                            *)
(*                                                                         *)
(* A host is the sequence of its interfaces in the order                   *)
(* netifaces.interfaces() lists them; each interface has its AF_INET and  *)
(* AF_INET6 address lists.  Interface names and the other address         *)
(* families are left out: the code only walks them.  mon_hosts is the     *)
(* list get_mon_public_addresses returns; only membership in it matters.   *)
(***************************************************************************)
EXTENDS Naturals, Sequences, SequencesExt

CONSTANTS
    V4Addrs,     \* IPv4 addresses an interface may carry
    V6Addrs,     \* IPv6 addresses an interface may carry
    MaxIfaces,   \* bound on the interfaces of a host
    Key          \* the key get_named_key returns

NoAddr == ""

(* netifaces.ifaddresses(intf) restricted to the two families read. *)
Family == {"inet", "inet6"}

(* _lookup_system_interfaces: the first address, interface by interface,  *)
(* IPv4 before IPv6, that is in mon_hosts; "" when none is.               *)
(* Mutant: the IPv6 list of an interface is walked before its IPv4 list.  *)
_lookup_system_interfaces_v6_first(mon, h) ==
    IF mon = <<>> THEN NoAddr
    ELSE LET found == SelectSeq(FlattenSeq([i \in DOMAIN h |-> h[i].inet6 \o h[i].inet]),
                                LAMBDA a : a \in ToSet(mon))
         IN IF found = <<>> THEN NoAddr ELSE Head(found)

_lookup_system_interfaces(mon, h) ==
    IF mon = <<>> THEN NoAddr
    ELSE LET found == SelectSeq(FlattenSeq([i \in DOMAIN h |-> h[i].inet \o h[i].inet6]),
                                LAMBDA a : a \in ToSet(mon))
         IN IF found = <<>> THEN NoAddr ELSE Head(found)

(* The data the ceph relation hands out; the key comes from get_named_key. *)
get_ceph_info_from_configs(mon, h) ==
    [auth |-> "cephx",
     ceph_public_address |-> _lookup_system_interfaces(mon, h),
     key |-> Key]

-----------------------------------------------------------------------------
(* Reference: the addresses of the host at positions <<interface, family, *)
(* index>>, ordered interface first, then IPv4 before IPv6, then index.    *)
FamilyRank(f) == IF f = "inet" THEN 1 ELSE 2

Positions(h) ==
    UNION {{<<i, f, k>> : k \in DOMAIN h[i][f]} : i \in DOMAIN h, f \in Family}

AddrAt(h, p) == h[p[1]][p[2]][p[3]]

Earlier(p, q) ==
    \/ p[1] < q[1]
    \/ p[1] = q[1] /\ FamilyRank(p[2]) < FamilyRank(q[2])
    \/ p[1] = q[1] /\ p[2] = q[2] /\ p[3] < q[3]

RefPublicAddress(mon, h) ==
    LET hits == {p \in Positions(h) : AddrAt(h, p) \in ToSet(mon)} IN
    IF hits = {} THEN NoAddr
    ELSE AddrAt(h, CHOOSE p \in hits : \A q \in hits \ {p} : Earlier(p, q))

-----------------------------------------------------------------------------
(* Every host of up to MaxIfaces interfaces, each with up to two IPv4     *)
(* addresses and one IPv6 address, and every monitor list.                *)
Distinct(S, n) == {s \in BoundedSeq(S, n) : IsInjective(s)}

Iface == [inet : Distinct(V4Addrs, 2), inet6 : Distinct(V6Addrs, 1)]

Hosts == UNION {[1..n -> Iface] : n \in 1..MaxIfaces}

MonLists == {SetToSeq(m) : m \in SUBSET (V4Addrs \cup V6Addrs)}

VARIABLES host, mon

Init == host \in Hosts /\ mon \in MonLists
Next == UNCHANGED <<host, mon>>
Spec == Init /\ [][Next]_<<host, mon>>

(* The ceph-public-address handed to ceph clients is this host's first    *)
(* monitor address in netifaces' interface order, IPv4 before IPv6 on     *)
(* each interface, and empty only when no local address is a monitor.     *)
AddressMatchesReference ==
    get_ceph_info_from_configs(mon, host).ceph_public_address
        = RefPublicAddress(mon, host)
=============================================================================
