--------------------------- MODULE MicroCephRemote ---------------------------
(***************************************************************************)
(* The remote integration between two MicroCeph sites                      *)
(* (src/src/microceph_remote.py).  Each site is the leader unit of its    *)
(* application; the two applications share one "remote" relation, and    *)
(* each publishes its app databag in it.                                   *)
(*                                                                         *)
(* The handlers read and write the databags with RemoteRelationDataKeys    *)
(* members as keys, not with their string values, and emit their custom   *)
(* events with the hook event where a relation is expected.  What that    *)
(* does is modelled, not what the code meant:                              *)
(*   - a lookup by a member finds nothing in a databag keyed by strings;   *)
(*   - a write by a member is refused by ops, or stored under a key that  *)
(*     is not the member's value (StoredAs);                               *)
(*   - the custom event built on a hook event raises AttributeError as     *)
(*     soon as it is saved or its relation's data is read.                 *)
(* Lines 132-139, _on_reconcile and the import are therefore never        *)
(* reached and are not modelled.                                           *)
(***************************************************************************)
EXTENDS FiniteSets, TLC

CONSTANTS
    Sites,          \* the two applications, each named after itself
    None,
    SiteNameKey,    \* RemoteRelationDataKeys.site_name
    TokenKey        \* RemoteRelationDataKeys.token

VARIABLES
    siteName,       \* config "site-name" of each site, or None
    rel,            \* the relation: "absent", "live" or "gone"
    bag,            \* each site's app databag in the relation
    pending,        \* hooks Juju has to run at each site, deferred ones included
    deferred,
    errored         \* the hook in error at each site, run again before any other

vars == <<siteName, rel, bag, pending, deferred, errored>>

Changed == "remote-changed"       \* relation-joined and relation-changed
Departed == "remote-departed"
PeersChanged == "peers-changed"   \* peers relation-changed and -departed
Event == {Changed, Departed, PeersChanged}

(* The key a write by member k ends up under: never the member's value.  *)
StoredAs(k) == <<"str", k>>

(* relation.data[app].get(k) *)
Get(b, k) == IF k \in DOMAIN b THEN b[k] ELSE None

(* relation.data[app].update({k: v}), as the set of its outcomes. *)
Update(b, k, v) ==
    {[raised |-> TRUE, bag |-> b],
     [raised |-> FALSE, bag |-> [x \in DOMAIN b \cup {StoredAs(k)} |->
                                   IF x = StoredAs(k) THEN v ELSE b[x]]]}

-----------------------------------------------------------------------------
(* The hook handling e at s ends; it stays pending when it deferred itself; *)
(* a databag it changed gives the other site a relation-changed hook.     *)
HookEnd(s, e, deferIt, changedBag) ==
    /\ pending' = [r \in Sites |->
                     IF r = s THEN (IF deferIt THEN pending[s] ELSE pending[s] \ {e})
                     ELSE IF changedBag THEN pending[r] \cup {Changed}
                     ELSE pending[r]]
    /\ deferred' = [deferred EXCEPT ![s] = IF deferIt THEN @ \cup {e} ELSE @ \ {e}]
    /\ errored' = [errored EXCEPT ![s] = None]

(* The hook handling e at s raises outside the guard: Juju retries it. *)
HookFails(s, e) ==
    /\ errored' = [errored EXCEPT ![s] = e]
    /\ UNCHANGED <<pending, deferred>>

(* MicroCephRemote._on_changed within the guard.  Without a site name    *)
(* the event is deferred and the guard sets Blocked.  Otherwise the site  *)
(* name is written under its member; on a gone relation the data access  *)
(* raises first.  The token lookup then finds nothing, and the update     *)
(* event emitted with the hook event raises AttributeError in _on_updated: *)
(* the guard sets Blocked and the hook completes.                          *)
_on_changed(s) ==
    \/ /\ siteName[s] = None
       /\ HookEnd(s, Changed, TRUE, FALSE)
       /\ UNCHANGED bag
    \/ /\ siteName[s] # None
       /\ \E w \in IF rel = "live" /\ Get(bag[s], SiteNameKey) = None
                   THEN Update(bag[s], SiteNameKey, siteName[s])
                   ELSE {[raised |-> TRUE, bag |-> bag[s]]} :
            /\ Get(w.bag, TokenKey) = None
            /\ bag' = [bag EXCEPT ![s] = w.bag]
            /\ HookEnd(s, Changed, FALSE, w.bag # bag[s])

(* MicroCephRemote._on_departed: the departed event emitted with the hook *)
(* event as its relation raises AttributeError, outside any guard.        *)
_on_departed(s) ==
    /\ HookFails(s, Departed)
    /\ UNCHANGED bag

(* MicroCephRemote._on_peer_updated: with a site name set it calls        *)
(* self.emit, which a framework Object does not have.                      *)
_on_peer_updated(s) ==
    /\ \/ siteName[s] = None /\ HookEnd(s, PeersChanged, FALSE, FALSE)
       \/ siteName[s] # None /\ HookFails(s, PeersChanged)
    /\ UNCHANGED bag

Handle(s, e) ==
    \/ e = Changed /\ _on_changed(s)
    \/ e = Departed /\ _on_departed(s)
    \/ e = PeersChanged /\ _on_peer_updated(s)

Dispatch(s, e) ==
    /\ e \in pending[s]
    /\ errored[s] \in {None, e}
    /\ Handle(s, e)
    /\ UNCHANGED <<siteName, rel>>

-----------------------------------------------------------------------------
(* The operator sets or clears a site name, relates the two sites and     *)
(* removes the relation once; peers come and go.                           *)
ConfigSet(s) ==
    /\ siteName' = [siteName EXCEPT ![s] = IF @ = None THEN s ELSE None]
    /\ UNCHANGED <<rel, bag, pending, deferred, errored>>

Relate ==
    /\ rel = "absent"
    /\ rel' = "live"
    /\ pending' = [s \in Sites |-> pending[s] \cup {Changed}]
    /\ UNCHANGED <<siteName, bag, deferred, errored>>

Unrelate ==
    /\ rel = "live"
    /\ rel' = "gone"
    /\ bag' = [s \in Sites |-> <<>>]
    /\ pending' = [s \in Sites |-> pending[s] \cup {Departed}]
    /\ UNCHANGED <<siteName, deferred, errored>>

PeerChange(s) ==
    /\ pending' = [pending EXCEPT ![s] = @ \cup {PeersChanged}]
    /\ UNCHANGED <<siteName, rel, bag, deferred, errored>>

Init ==
    /\ siteName \in [Sites -> {None} \cup Sites]
    /\ \A s \in Sites : siteName[s] \in {None, s}
    /\ rel = "absent"
    /\ bag = [s \in Sites |-> <<>>]
    /\ pending = [s \in Sites |-> {}]
    /\ deferred = [s \in Sites |-> {}]
    /\ errored = [s \in Sites |-> None]

Next ==
    \/ \E s \in Sites, e \in Event : Dispatch(s, e)
    \/ \E s \in Sites : ConfigSet(s) \/ PeerChange(s)
    \/ Relate \/ Unrelate

(* Juju keeps dispatching the hooks of each unit, retrying one in error,  *)
(* and re-emits deferred events.                                           *)
Fairness == \A s \in Sites, e \in Event : WF_vars(Dispatch(s, e))

Spec == Init /\ [][Next]_vars /\ Fairness

-----------------------------------------------------------------------------
(* No hook of the remote integration stays in error: a hook that raises   *)
(* outside the guard (the departed handler, the peers handler) succeeds   *)
(* on one of Juju's retries.                                               *)
NoHookStuckInError == \A s \in Sites : errored[s] # None ~> errored[s] = None
=============================================================================
