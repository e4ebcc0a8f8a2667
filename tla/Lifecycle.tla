----------------------------- MODULE Lifecycle ------------------------------
(***************************************************************************)
(* The life of the leader unit of the microceph charm (charm.py): the      *)
(* install hook, the configure hooks that bootstrap the cluster, and the  *)
(* stop hook, with the daemon that the snap starts.                        *)
(*                                                                         *)
(* A configure hook (config-changed, or a peers change through the        *)
(* MicroClusterPeerHandler callback) runs configure_charm inside           *)
(* ops_sunbeam's guard: an exception sets a Blocked status and the hook   *)
(* completes, keeping what was done before it and any deferral.  install  *)
(* and stop are not guarded: an exception fails the hook and Juju runs it *)
(* again before any other.                                                  *)
(***************************************************************************)
EXTENDS Naturals

CONSTANTS
    MaxFailures,    \* bound on commands that fail for no reason the model tracks
    Stops,          \* whether the unit may be removed
    None

VARIABLES
    installed,      \* the microceph snap is present
    daemonUp,       \* the daemon's control socket exists
    member,         \* microceph.is_cluster_member(hostname)
    configured,     \* mon_allow_pool_size_one and osd_pool_default_size are set
    leaderReady,    \* is_leader_ready(): the leader flag in the peers app data
    joined,         \* peers.interface.state.joined
    blocked,        \* the guard set a Blocked status
    pending,        \* hooks Juju has to run, deferred ones included
    deferred,       \* deferred events, re-emitted at the next dispatch
    errored,        \* the hook in error, run again before any other
    failures,
    stopped         \* the stop hook completed: the unit is gone

vars == <<installed, daemonUp, member, configured, leaderReady, joined,
          blocked, pending, deferred, errored, failures, stopped>>

Install == "install"
Config == "config"
Stop == "stop"
Event == {Install, Config, Stop}

(* ready_for_service: the snap is installed, this host is a cluster       *)
(* member and the leader has announced that it is ready.                   *)
ready_for_service == installed /\ member /\ leaderReady

-----------------------------------------------------------------------------
(* The hook handling e ends; it stays pending when it deferred itself. *)
HookEnd(e, deferIt) ==
    /\ pending' = IF deferIt THEN pending ELSE pending \ {e}
    /\ deferred' = IF deferIt THEN deferred \cup {e} ELSE deferred \ {e}
    /\ errored' = None

(* The hook handling e raises outside the guard. *)
HookFails(e) ==
    /\ failures < MaxFailures
    /\ failures' = failures + 1
    /\ errored' = e
    /\ UNCHANGED <<pending, deferred>>

(* _on_install: snap install and the ceph alias run with check=True, so   *)
(* either may raise, the snap in place or not; the refresh hold and the    *)
(* interface connection swallow their errors.  Juju queues config-changed *)
(* after a successful install.                                              *)
_on_install ==
    /\ \/ /\ installed' = TRUE
          /\ pending' = (pending \ {Install}) \cup {Config}
          /\ deferred' = deferred
          /\ errored' = None
          /\ UNCHANGED failures
       \/ /\ \E done \in BOOLEAN : installed' = (installed \/ done)
          /\ HookFails(Install)
    /\ UNCHANGED <<daemonUp, member, configured, leaderReady, joined, blocked, stopped>>

(* Mutant: the socket error returns without deferring the event. *)
bootstrap_cluster_no_defer ==
    IF ~daemonUp THEN {[member |-> member, result |-> "ok", failed |-> 0]}
    ELSE IF member THEN {[member |-> TRUE, result |-> "ok", failed |-> 0]}
    ELSE {[member |-> TRUE, result |-> "ok", failed |-> 0]}
         \cup {[member |-> m, result |-> "raise", failed |-> 1] : m \in BOOLEAN}

(* bootstrap_cluster as the set of its outcomes: the membership after it  *)
(* and whether it returned ("ok"), deferred the event and returned         *)
(* ("defer"), or raised.  Without the control socket the command fails    *)
(* with the socket error; on a member it fails with "already exists",     *)
(* which is swallowed; otherwise it succeeds, or fails, or times out      *)
(* after the cluster was made (a TimeoutExpired, whose stderr is None or  *)
(* bytes, raises TypeError at the "in" test: the hook raises either way). *)
bootstrap_cluster ==
    IF ~daemonUp THEN {[member |-> member, result |-> "defer", failed |-> 0]}
    ELSE IF member THEN {[member |-> TRUE, result |-> "ok", failed |-> 0]}
    ELSE {[member |-> TRUE, result |-> "ok", failed |-> 0]}
         \cup {[member |-> m, result |-> "raise", failed |-> 1] : m \in BOOLEAN}

(* configure_ceph on a cluster with or without this member: the two       *)
(* config sets fail when there is no cluster, and may fail anyway.         *)
(* Mutant: a failed config set is logged and not raised. *)
configure_ceph_swallowed(isMember) ==
    {[result |-> "ok", done |-> isMember, failed |-> 0]}
    \cup {[result |-> "ok", done |-> FALSE, failed |-> 1]}

configure_ceph(isMember) ==
    IF isMember
    THEN {[result |-> "ok", done |-> TRUE, failed |-> 0],
          [result |-> "raise", done |-> FALSE, failed |-> 1]}
    ELSE {[result |-> "raise", done |-> FALSE, failed |-> 0]}

(* configure_app_leader within the guard.  A deferral by bootstrap_cluster *)
(* does not stop it: the node is marked joined and configure_ceph runs.   *)
configure_app_leader(e) ==
    \/ /\ leaderReady
       /\ blocked' = FALSE
       /\ HookEnd(e, FALSE)
       /\ UNCHANGED <<member, configured, leaderReady, joined, failures>>
    \/ /\ ~leaderReady
       /\ \E b \in bootstrap_cluster :
            /\ member' = b.member
            /\ IF b.result = "raise"
               THEN /\ failures + b.failed <= MaxFailures
                    /\ failures' = failures + b.failed
                    /\ blocked' = TRUE
                    /\ HookEnd(e, FALSE)
                    /\ UNCHANGED <<configured, leaderReady, joined>>
               ELSE /\ joined' = TRUE
                    /\ \E c \in configure_ceph(b.member) :
                         /\ failures + c.failed <= MaxFailures
                         /\ failures' = failures + c.failed
                         /\ configured' = (configured \/ c.done)
                         /\ leaderReady' = (c.result = "ok")
                         /\ blocked' = (c.result = "raise")
                         /\ HookEnd(e, b.result = "defer")

(* remove_cluster_member(is_force=True) as the set of its outcomes: it    *)
(* succeeds, or fails after the removal took effect, or fails without it. *)
RemoveOutcomes ==
    {[raised |-> FALSE, member |-> FALSE], [raised |-> TRUE, member |-> FALSE],
     [raised |-> TRUE, member |-> member]}

(* Mutant: every error of the forced removal is logged and swallowed. *)
_on_stop_swallowed ==
    /\ \E r \in RemoveOutcomes :
         /\ member' = r.member
         /\ stopped' = TRUE
         /\ HookEnd(Stop, FALSE)
         /\ UNCHANGED failures
    /\ UNCHANGED <<installed, daemonUp, configured, leaderReady, joined, blocked>>

(* _on_stop: the error of the forced removal is raised, failing the hook, *)
(* only while the host is still a member.                                  *)
_on_stop ==
    /\ \E r \in RemoveOutcomes :
         /\ member' = r.member
         /\ IF r.raised /\ r.member
            THEN HookFails(Stop) /\ UNCHANGED stopped
            ELSE stopped' = TRUE /\ HookEnd(Stop, FALSE) /\ UNCHANGED failures
    /\ UNCHANGED <<installed, daemonUp, configured, leaderReady, joined, blocked>>

Handle(e) ==
    \/ e = Install /\ _on_install
    \/ e = Config /\ configure_app_leader(e)
                  /\ UNCHANGED <<installed, daemonUp, stopped>>
    \/ e = Stop /\ _on_stop

Dispatch(e) ==
    /\ e \in pending
    /\ errored \in {None, e}
    /\ ~stopped
    /\ Handle(e)

-----------------------------------------------------------------------------
(* The snap starts the daemon; the operator changes the configuration or *)
(* peers come and go; the unit is removed.                                 *)
DaemonStart ==
    /\ installed /\ ~daemonUp
    /\ daemonUp' = TRUE
    /\ UNCHANGED <<installed, member, configured, leaderReady, joined, blocked,
                   pending, deferred, errored, failures, stopped>>

ConfigChange ==
    /\ ~stopped
    /\ Install \notin pending /\ Config \notin pending
    /\ pending' = pending \cup {Config}
    /\ UNCHANGED <<installed, daemonUp, member, configured, leaderReady, joined,
                   blocked, deferred, errored, failures, stopped>>

RequestStop ==
    /\ Stops /\ ~stopped
    /\ Install \notin pending /\ Stop \notin pending
    /\ pending' = pending \cup {Stop}
    /\ UNCHANGED <<installed, daemonUp, member, configured, leaderReady, joined,
                   blocked, deferred, errored, failures, stopped>>

Environment == DaemonStart \/ ConfigChange \/ RequestStop

Init ==
    /\ installed = FALSE /\ daemonUp = FALSE /\ member = FALSE
    /\ configured = FALSE /\ leaderReady = FALSE /\ joined = FALSE
    /\ blocked = FALSE
    /\ pending = {Install} /\ deferred = {} /\ errored = None
    /\ failures = 0 /\ stopped = FALSE

Next == (\E e \in Event : Dispatch(e)) \/ Environment

(* Juju keeps dispatching hooks and re-emitting deferred events; snapd    *)
(* starts the daemon of an installed snap.                                 *)
Fairness == (\A e \in Event : WF_vars(Dispatch(e))) /\ WF_vars(DaemonStart)

Spec == Init /\ [][Next]_vars /\ Fairness

-----------------------------------------------------------------------------
TypeOK ==
    /\ {installed, daemonUp, member, configured, leaderReady, joined, blocked, stopped}
         \subseteq BOOLEAN
    /\ pending \subseteq Event /\ deferred \subseteq pending
    /\ errored \in Event \cup {None}
    /\ failures \in 0..MaxFailures

(* The leader flag is set only on a bootstrapped, configured cluster,     *)
(* although bootstrap_cluster may defer and return and configure_app_leader *)
(* then goes on to mark the node joined and to set the leader flag: it is *)
(* configure_ceph's raise that keeps an unbootstrapped leader from being  *)
(* announced.                                                              *)
LeaderReadyAfterBootstrap ==
    leaderReady => configured /\ (member \/ stopped)

(* Unless a command fails for a reason the charm cannot recover from, the *)
(* leader ends up ready or removed: the deferral while the daemon is not  *)
(* up brings the configure hook back until the cluster is bootstrapped.   *)
LeaderEventuallyReady == <>(leaderReady \/ stopped \/ failures > 0)

(* A completed stop hook has taken the host out of the cluster, whichever *)
(* way the forced removal failed: its error is swallowed only once         *)
(* is_cluster_member says the host is gone, and no hook runs afterwards.  *)
StoppedUnitLeftCluster == stopped => ~member
=============================================================================
