--------------------------- MODULE MicroCephCharm ---------------------------
(***************************************************************************)
(* The leader unit running both its lifecycle (Lifecycle) and the         *)
(* ceph-csi provider (CephCSI).  They meet in ready_for_service(), which   *)
(* _on_relation_changed asks before serving a relation, and in the one    *)
(* hook queue of the unit: a hook in error is run again before any other, *)
(* whichever component it belongs to, and no hook runs on a removed unit. *)
(* OSDs can only be added to a bootstrapped cluster.                       *)
(*                                                                         *)
(* CephCSI's variable ready is no longer set by its Bootstrap action: each *)
(* lifecycle step sets it to ready_for_service().                          *)
(***************************************************************************)
EXTENDS CephCSI

CONSTANTS LifeMaxFailures, Stops

VARIABLES
    installed, daemonUp, member, configured, leaderReady, joined, blocked,
    lpending, ldeferred, lerrored, lfailures, stopped

lifeVars == <<installed, daemonUp, member, configured, leaderReady, joined,
              blocked, lpending, ldeferred, lerrored, lfailures, stopped>>
charmVars == <<lifeVars, vars>>

Life == INSTANCE Lifecycle
        WITH MaxFailures <- LifeMaxFailures, pending <- lpending,
             deferred <- ldeferred, errored <- lerrored, failures <- lfailures

(* A lifecycle hook, while no ceph-csi hook is in error; ready follows    *)
(* ready_for_service().                                                    *)
LifeStep(e) ==
    /\ errored = None
    /\ Life!Dispatch(e)
    /\ ready' = Life!ready_for_service'
    /\ UNCHANGED <<hasOsds, mds, relVars, worldVars, pending, deferred,
                   errored, failures>>

(* A ceph-csi hook, while no lifecycle hook is in error and the unit is  *)
(* still there.                                                            *)
CSIStep(e) ==
    /\ lerrored = None
    /\ ~stopped
    /\ Dispatch(e)
    /\ UNCHANGED lifeVars

CharmDaemonStart == Life!DaemonStart /\ UNCHANGED vars

CharmEnvironment ==
    \/ CharmDaemonStart
    \/ (Life!ConfigChange \/ Life!RequestStop) /\ UNCHANGED vars
    \/ /\ \/ member /\ AddOsds
          \/ AddMds \/ PeersChange \/ RemoteEnvironment
       /\ UNCHANGED lifeVars

CharmInit == Life!Init /\ Init

CharmNext ==
    \/ \E e \in Life!Event : LifeStep(e)
    \/ \E e \in Event : CSIStep(e)
    \/ CharmEnvironment

(* Juju dispatches every queued hook of either component and re-emits    *)
(* deferred events; snapd starts the daemon.                               *)
CharmFairness ==
    /\ \A e \in Life!Event : WF_charmVars(LifeStep(e))
    /\ \A e \in Event : WF_charmVars(CSIStep(e))
    /\ WF_charmVars(CharmDaemonStart)

CharmSpec == CharmInit /\ [][CharmNext]_charmVars /\ CharmFairness

-----------------------------------------------------------------------------
(* Each variable of either component holds what its code can put there. *)
CharmTypeOK == Life!TypeOK /\ TypeOK

(* The leader is announced only on a bootstrapped and configured cluster, *)
(* although a deferred bootstrap_cluster lets configure_app_leader go on. *)
LeaderReadyAfterBootstrap == Life!LeaderReadyAfterBootstrap

(* The leader ends up ready, removed, or stopped by a failing command.   *)
LeaderEventuallyReady == Life!LeaderEventuallyReady

(* A completed stop hook has taken the host out of the cluster. *)
StoppedUnitLeftCluster == Life!StoppedUnitLeftCluster
=============================================================================
