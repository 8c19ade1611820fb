---------------------------- MODULE StacksCreate ----------------------------
(***************************************************************************)
(* `stacks create`: one command after the other makes a local cluster, or  *)
(* takes the one it finds, and bootstraps GitOps in it.  A command is run  *)
(* again after a failure or an interruption, on what the last one left.    *)
(* With --recreate the Talos provider destroys the cluster first and       *)
(* removes its devices from the Tailscale network in a goroutine, while    *)
(* the new cluster is made: before the root application, whose pods join   *)
(* the network under the same names, that has to be over.                  *)
(*                                                                         *)
(* Of a command there is what it does to the cluster, to kubectl's         *)
(* configuration and to the devices, and whether it fails.                 *)
(***************************************************************************)
EXTENDS Naturals, Sequences, FiniteSets

CONSTANTS
  Workers,     \* the worker nodes of a cluster
  Scenarios    \* the environments a behaviour may run in, with their bounds

EnvKinds ==
  { "phase",      \* a command whose error ends the create fails
    "tolerated",  \* one whose error is ignored fails
    "cleanup",    \* the script that removes Tailscale devices fails
    "destroy",    \* containers survive that were to be removed
    "kubectl",    \* `kubectl config delete-...` fails
    "show",       \* the cluster cannot be looked up
    "interrupt",  \* the user interrupts the command
    "switch" }    \* between two commands the user turns kubectl to another cluster

(* What the command line can leave out. *)
Optional == {"azure", "images", "argoinit", "kubeconfig"}
Options == [recreate : BOOLEAN, strict : BOOLEAN, slo : BOOLEAN,
            size : Nat,                 \* the capacity asked for the workers
            skip : SUBSET Optional]
Scenario == [env : SUBSET EnvKinds, provider : {"kind", "talos"}, runs : Seq(Options), faults : Nat]

ASSUME CreateAssumption ==
  /\ "controlplane" \notin Workers /\ IsFiniteSet(Workers)
  /\ Scenarios \subseteq Scenario

Nodes == Workers \cup {"controlplane"}

Bootstrap == <<"infra", "repos", "snapshot", "images", "argocd", "secret", "await", "root",
               "jwks", "argoinit", "cohorts", "access", "kubeconfig", "finish">>
KindSteps == <<"azure", "probe", "predelete", "delete", "postdelete", "precreate", "auth", "create",
               "patch", "preload">> \o Bootstrap
TalosSteps == <<"azure", "preflight", "predelete", "delete", "forget", "launch", "probe", "precreate",
                "clear", "create", "context", "labels", "capacity">> \o Bootstrap

(* Errors of these are ignored; without --strict-access that of "access" is. *)
Ignored == {"preload", "jwks", "argoinit"}
(* These do nothing but call a command, which talks to kubectl's cluster.  *)
InCluster == {"infra", "repos", "snapshot", "images", "argocd", "secret", "root", "jwks", "argoinit",
              "cohorts", "access", "kubeconfig"}
(* And these need no cluster. *)
OutOfCluster == {"azure", "preflight", "auth", "preload"}

VARIABLES
  scenario,   \* the scenario of this behaviour; it never changes
  run,        \* the number of the command; 0 before the first
  pc,         \* where it is
  failed,     \* the error it will return
  cancelled,  \* its context was cancelled
  performed,  \* history: the phases it has completed
  before,     \* history: the cluster it found
  result,     \* what the last command returned
  cluster,    \* the cluster of this name
  kubectl,    \* the cluster that kubectl talks to
  stranger,   \* history: phases that were run against another cluster
  devices,    \* the clusters of this name with devices in the Tailscale network
  cleanup,    \* the script of the goroutine
  answer,     \* its channel
  waited,     \* its sync.Once and the error it keeps, or that there is no goroutine
  faults

vars == <<scenario, run, pc, failed, cancelled, performed, before, result, cluster, kubectl, stranger,
          devices, cleanup, answer, waited, faults>>
command == <<run, failed, before, result>>
world == <<cluster, kubectl, stranger, devices>>
async == <<cleanup, answer, waited>>

(* The context of kubectl's configuration is that of one cluster, perhaps  *)
(* of a predecessor.                                                       *)
NoCluster == [id |-> 0, nodes |-> {}, size |-> 0, context |-> 0, done |-> {}]

O == scenario.runs[run]
IsTalos == scenario.provider = "talos"

Init ==
  /\ scenario \in Scenarios
  /\ run = 0 /\ pc = "idle" /\ failed = FALSE /\ cancelled = FALSE
  /\ performed = {} /\ before = 0 /\ result = "none"
  /\ cluster = NoCluster /\ kubectl = "none" /\ stranger = {}
  /\ devices = {}
  /\ cleanup = "none" /\ answer = "none" /\ waited = "nil"
  /\ faults = 0

(* A command fails because of the environment, or because its context is   *)
(* cancelled.                                                              *)
Fault(kind) ==
  \/ cancelled /\ UNCHANGED faults
  \/ ~cancelled /\ kind \in scenario.env /\ faults < scenario.faults /\ faults' = faults + 1
Works == ~cancelled /\ UNCHANGED faults

(* The steps of this command line in their order. *)
Skipped ==
  O.skip \cup IF ~IsTalos THEN {}
             ELSE IF O.recreate THEN {"precreate"} ELSE {"predelete", "delete", "forget", "launch"}
(* Those of its provider, without what it leaves out.                      *)
Line == IF IsTalos THEN TalosSteps ELSE KindSteps
Behind(p) == {i \in DOMAIN Line : Line[i] \notin Skipped /\ \E j \in 1 .. (i - 1) : Line[j] = p}
After(p) == Line[CHOOSE i \in Behind(p) : \A j \in Behind(p) : i <= j]
Tolerated(p) == p \in Ignored \/ (p = "access" /\ ~O.strict)

GoTo(p) == pc' = p /\ UNCHANGED failed
Done(p) == GoTo(After(p)) /\ performed' = performed \cup {p}
(* Mutant: the deferred function of createTalosDocker is gone. *)
ReturnAtOnce == pc' = "finish" /\ failed' = TRUE
Return == pc' = "unwind" /\ failed' = TRUE

----------------------------------------------------------------------------
(* The command, and what surrounds it *)

Start ==
  /\ pc = "idle" /\ run < Len(scenario.runs)
  /\ run' = run + 1
  /\ pc' = IF "azure" \in scenario.runs[run + 1].skip
           THEN IF IsTalos THEN "preflight" ELSE "probe" ELSE "azure"
  /\ failed' = FALSE /\ cancelled' = FALSE /\ performed' = {}
  /\ before' = cluster.id /\ result' = "none"
  /\ answer' = "none" /\ waited' = "nil"
  /\ cleanup' = IF cleanup = "running" THEN "running" ELSE "none"
  /\ UNCHANGED <<scenario, world, faults>>

(* The interrupt cancels the context: what runs is killed. *)
Interrupt ==
  /\ pc \notin {"idle", "finish"} /\ ~cancelled
  /\ "interrupt" \in scenario.env /\ faults < scenario.faults
  /\ cancelled' = TRUE /\ faults' = faults + 1
  /\ UNCHANGED <<scenario, pc, performed, command, world, async>>

(* finishReadiness: its error counts only with --enforce-slo. *)
Finish ==
  /\ pc = "finish"
  /\ \/ ~O.slo /\ UNCHANGED <<failed, faults>>
     \/ O.slo /\ Works /\ UNCHANGED failed
     \/ O.slo /\ Fault("phase") /\ failed' = TRUE
  /\ result' = IF failed' THEN "error" ELSE "ok"
  /\ pc' = "idle"
  /\ UNCHANGED <<scenario, run, cancelled, performed, before, world, async>>

(* `kubectl config use-context`, by the user. *)
Switch ==
  /\ pc = "idle" /\ "switch" \in scenario.env
  /\ kubectl' = "other"
  /\ UNCHANGED <<scenario, pc, cancelled, performed, command, cluster, stranger, devices, async, faults>>

OutOfClusterPhase ==
  /\ pc \in OutOfCluster
  /\ Works /\ Done(pc)
  /\ UNCHANGED <<scenario, run, cancelled, before, result, world, async>>

OutOfClusterFails ==
  /\ pc \in OutOfCluster
  /\ Fault(IF Tolerated(pc) THEN "tolerated" ELSE "phase")
  /\ IF Tolerated(pc) THEN GoTo(After(pc)) ELSE Return
  /\ UNCHANGED <<scenario, run, cancelled, performed, before, result, world, async>>

----------------------------------------------------------------------------
(* Tailscale *)

(* The pods of the root application join the network. *)
Join ==
  /\ "root" \in cluster.done /\ cluster.nodes # {}
  /\ cluster.id \notin devices
  /\ devices' = devices \cup {cluster.id}
  /\ UNCHANGED <<scenario, pc, cancelled, performed, command, cluster, kubectl, stranger, async, faults>>

(* The script in the foreground: its error is dropped. *)
CleanDevices ==
  /\ pc \in {"predelete", "postdelete", "precreate"}
  /\ \/ Works /\ devices' = {}
     \/ Fault("cleanup") /\ UNCHANGED devices
  /\ Done(pc)
  /\ UNCHANGED <<scenario, run, cancelled, before, result, cluster, kubectl, stranger, async>>

(* startAsyncReadinessPhase *)
Launch ==
  /\ pc = "launch"
  /\ cleanup' = "running" /\ answer' = "none" /\ waited' = "no"
  /\ Done(pc)
  /\ UNCHANGED <<scenario, run, cancelled, before, result, world, faults>>

CleanupEnds ==
  /\ cleanup = "running"
  /\ \/ Works /\ devices' = {} /\ cleanup' = "ok"
     \/ Fault("cleanup") /\ UNCHANGED devices /\ cleanup' = "failed"
  /\ answer' = cleanup'
  /\ UNCHANGED <<scenario, pc, cancelled, performed, command, cluster, kubectl, stranger, waited>>

(* Mutant: without the sync.Once the channel is read at every wait. *)
ReceiveAnew ==
  \/ waited = "nil" /\ UNCHANGED <<answer, waited>>
  \/ waited # "nil" /\ answer # "none" /\ waited' = answer /\ answer' = "none"

(* The channel is read once. *)
Receive ==
  \/ waited # "no" /\ UNCHANGED <<answer, waited>>
  \/ waited = "no" /\ answer # "none" /\ waited' = answer /\ answer' = "none"

(* Mutant: a failed cleanup is only a warning. *)
AwaitLeniently ==
  /\ pc = "await"
  /\ Receive
  /\ Done(pc)
  /\ UNCHANGED <<scenario, run, cancelled, before, result, world, cleanup, faults>>

(* waitForAsyncTailscaleCleanup before the root application *)
Await ==
  /\ pc = "await"
  /\ Receive
  /\ IF waited' = "failed" /\ O.strict THEN Return /\ UNCHANGED performed ELSE Done(pc)
  /\ UNCHANGED <<scenario, run, cancelled, before, result, world, cleanup, faults>>

(* The deferred function of createTalosDocker: an error waits as well. *)
Unwind ==
  /\ pc = "unwind"
  /\ Receive
  /\ GoTo("finish")
  /\ UNCHANGED <<scenario, run, cancelled, performed, before, result, world, cleanup, faults>>

----------------------------------------------------------------------------
(* The cluster *)

Exists == cluster.nodes # {}

(* Mutant: an existing cluster is bootstrapped at once. *)
ProbeOnly ==
  /\ pc = "probe" /\ Works
  /\ GoTo(CASE ~Exists -> IF IsTalos THEN After("probe") ELSE "precreate"
             [] Exists /\ IsTalos -> "infra"
             [] Exists /\ ~IsTalos -> IF O.recreate THEN "predelete" ELSE "infra")
  /\ UNCHANGED <<scenario, run, cancelled, performed, before, result, world, async>>

Probe ==
  /\ pc = "probe" /\ Works
  /\ GoTo(CASE ~Exists -> IF IsTalos THEN After("probe") ELSE "precreate"
             [] Exists /\ IsTalos -> "context"
             [] Exists /\ ~IsTalos -> IF O.recreate THEN "predelete" ELSE "infra")
  /\ UNCHANGED <<scenario, run, cancelled, performed, before, result, world, async>>

(* An error of `kind get clusters` is returned; one of `talosctl cluster   *)
(* show` means that there is no cluster.                                   *)
ProbeFails ==
  /\ pc = "probe" /\ Fault("show")
  /\ IF IsTalos THEN GoTo(After("probe")) ELSE Return
  /\ UNCHANGED <<scenario, run, cancelled, performed, before, result, world, async>>

(* Mutant: the current context is left to a context that is gone. *)
UnsetNothing(name) == name
Unset(name) == IF name = "this" THEN "none" ELSE name

(* `kind delete cluster` forgets the context first. *)
DeleteKind ==
  /\ pc = "delete" /\ ~IsTalos
  /\ \/ Works /\ cluster' = NoCluster /\ Done(pc)
     \/ /\ Fault("destroy") /\ Return /\ UNCHANGED performed
        /\ \E kept \in (SUBSET cluster.nodes) \ {{}} :
             cluster' = [cluster EXCEPT !.nodes = kept, !.context = 0]
  /\ kubectl' = Unset(kubectl)
  /\ UNCHANGED <<scenario, run, cancelled, before, result, stranger, devices, async>>

(* Containers that `talosctl cluster destroy` leaves are removed one by    *)
(* one, and no error of that is returned.                                  *)
DestroyTalos ==
  /\ pc = "delete" /\ IsTalos
  /\ \/ Works /\ cluster' = [NoCluster EXCEPT !.context = cluster.context]
     \/ /\ Fault("destroy")
        /\ \E kept \in SUBSET cluster.nodes : cluster' = [cluster EXCEPT !.nodes = kept]
  /\ Done(pc)
  /\ UNCHANGED <<scenario, run, cancelled, before, result, kubectl, stranger, devices, async>>

(* Mutant: the context of the old cluster stays. *)
KeepContext ==
  /\ pc \in {"forget", "clear"}
  /\ Done(pc)
  /\ UNCHANGED <<scenario, run, cancelled, before, result, world, async, faults>>

(* cleanupTalosDockerKubeconfig *)
ForgetContext ==
  /\ pc \in {"forget", "clear"}
  /\ \/ Works /\ cluster' = [cluster EXCEPT !.context = 0] /\ kubectl' = Unset(kubectl)
     \/ Fault("kubectl") /\ UNCHANGED <<cluster, kubectl>>
  /\ Done(pc)
  /\ UNCHANGED <<scenario, run, cancelled, before, result, stranger, devices, async>>

Create ==
  /\ pc = "create" /\ Works /\ ~Exists
  /\ cluster' = [id |-> run, nodes |-> Nodes, size |-> O.size, context |-> run, done |-> {}]
  /\ kubectl' = "this"
  /\ Done(pc)
  /\ UNCHANGED <<scenario, run, cancelled, before, result, stranger, devices, async>>

(* talosctl leaves the nodes it has made; kind removes them unless it is   *)
(* killed.  The names of nodes that exist are taken.                       *)
CreateFails ==
  /\ pc = "create"
  /\ \/ Exists /\ UNCHANGED <<cluster, faults>>
     \/ /\ ~Exists /\ Fault("phase")
        /\ \E made \in SUBSET Nodes :
             /\ IsTalos \/ cancelled \/ made = {}
             /\ cluster' = [cluster EXCEPT !.id = run, !.nodes = made, !.size = O.size]
  /\ Return
  /\ UNCHANGED <<scenario, run, cancelled, performed, before, result, kubectl, stranger, devices, async>>

(* What the API server of the cluster needs. *)
Answers == "controlplane" \in cluster.nodes /\ cluster.context = cluster.id

(* The checks of a Talos cluster, new or found: its context, to which      *)
(* kubectl is turned, the labels of its workers, their number and capacity. *)
HasContext == cluster.context # 0
Labels == kubectl = "this" /\ Answers /\ Workers \subseteq cluster.nodes
(* Mutant: a cluster of another capacity is taken. *)
AnyCapacity == kubectl = "this" /\ Answers
HasCapacity == kubectl = "this" /\ Answers /\ cluster.nodes = Nodes /\ cluster.size = O.size

Check ==
  /\ \/ pc = "context" /\ HasContext /\ kubectl' = "this"
     \/ pc = "labels" /\ Labels /\ UNCHANGED kubectl
     \/ pc = "capacity" /\ HasCapacity /\ UNCHANGED kubectl
  /\ Works /\ Done(pc)
  /\ UNCHANGED <<scenario, run, cancelled, before, result, cluster, stranger, devices, async>>

CheckFails ==
  /\ pc \in {"context", "labels", "capacity"}
  /\ \/ Fault("phase")
     \/ /\ \/ pc = "context" /\ ~HasContext
           \/ pc = "labels" /\ ~Labels
           \/ pc = "capacity" /\ ~HasCapacity
        /\ UNCHANGED faults
  /\ Return
  /\ UNCHANGED <<scenario, run, cancelled, performed, before, result, world, async>>

----------------------------------------------------------------------------
(* What runs against the cluster that kubectl talks to *)

Reachable == kubectl = "other" \/ (kubectl = "this" /\ Answers)

Effect(p) ==
  IF kubectl = "this" THEN cluster' = [cluster EXCEPT !.done = @ \cup {p}] /\ UNCHANGED stranger
  ELSE stranger' = stranger \cup {p} /\ UNCHANGED cluster

(* patch_gitea_registry_ip: for the cluster by its name. *)
Patch ==
  /\ pc = "patch" /\ Works
  /\ cluster' = [cluster EXCEPT !.done = @ \cup {"patch"}]
  /\ Done(pc)
  /\ UNCHANGED <<scenario, run, cancelled, before, result, kubectl, stranger, devices, async>>

PatchFails ==
  /\ pc = "patch" /\ Fault("phase")
  /\ Return
  /\ UNCHANGED <<scenario, run, cancelled, performed, before, result, world, async>>

InClusterPhase ==
  /\ pc \in InCluster /\ Works /\ Reachable
  /\ Effect(pc)
  /\ Done(pc)
  /\ UNCHANGED <<scenario, run, cancelled, before, result, kubectl, devices, async>>

(* A command that failed may have had its effect. *)
InClusterFails ==
  /\ pc \in InCluster
  /\ \/ /\ Fault(IF Tolerated(pc) THEN "tolerated" ELSE "phase")
        /\ \/ Reachable /\ ~cancelled /\ Effect(pc)
           \/ UNCHANGED <<cluster, stranger>>
     \/ ~Reachable /\ UNCHANGED <<cluster, stranger, faults>>
  /\ IF Tolerated(pc) THEN GoTo(After(pc)) ELSE Return
  /\ UNCHANGED <<scenario, run, cancelled, performed, before, result, kubectl, devices, async>>

----------------------------------------------------------------------------

Command ==
  \/ Start \/ Finish \/ OutOfClusterPhase \/ OutOfClusterFails
  \/ CleanDevices \/ Launch \/ Await \/ Unwind
  \/ Probe \/ ProbeFails \/ DeleteKind \/ DestroyTalos \/ ForgetContext \/ Create \/ CreateFails
  \/ Check \/ CheckFails \/ Patch \/ PatchFails \/ InClusterPhase \/ InClusterFails

Next == Command \/ CleanupEnds \/ Join \/ Interrupt \/ Switch

Spec == Init /\ [][Next]_vars

(* The command goes on as long as it has something to do, and the script   *)
(* ends: the code gives neither a time limit.                              *)
FairSpec == Spec /\ WF_vars(Command) /\ WF_vars(CleanupEnds)

----------------------------------------------------------------------------
Phases == {KindSteps[i] : i \in DOMAIN KindSteps} \cup {TalosSteps[i] : i \in DOMAIN TalosSteps}
Answers3 == {"none", "ok", "failed"}

TypeOK ==
  /\ scenario \in Scenarios
  /\ run \in 0 .. Len(scenario.runs) /\ pc \in Phases \cup {"idle", "unwind"}
  /\ failed \in BOOLEAN /\ cancelled \in BOOLEAN
  /\ performed \subseteq Phases /\ before \in 0 .. run /\ result \in {"none", "ok", "error"}
  /\ cluster \in [id : 0 .. run, nodes : SUBSET Nodes, size : Nat, context : 0 .. run,
                  done : SUBSET (InCluster \cup {"patch"})]
  /\ kubectl \in {"none", "this", "other"} /\ stranger \subseteq InCluster
  /\ kubectl = "this" => cluster.context # 0
  /\ devices \subseteq 1 .. run
  /\ cleanup \in {"none", "running", "ok", "failed"} /\ answer \in Answers3
  /\ waited \in {"nil", "no", "ok", "failed"}
  /\ faults \in 0 .. scenario.faults

Faultless(kinds) == scenario.env \cap kinds = {}
Succeeded == pc = "idle" /\ result = "ok"

(* Once create has applied the root application, nothing that it or an     *)
(* earlier create started removes the devices of the cluster: the          *)
(* goroutine is waited for before apply-root-app, and on every error.      *)
DevicesStay == [][("root" \in performed /\ "root" \in performed') => devices \subseteq devices']_vars

(* A create that succeeds leaves a cluster in which every phase has been   *)
(* done whose error it returns, by this command or an earlier one that     *)
(* failed or was interrupted half way, on all its nodes and with the       *)
(* capacity asked for.  (The patch of the kind registry is not repeated:   *)
(* it is excepted where it may fail.)                                      *)
Fatal == {p \in InCluster \ O.skip : ~Tolerated(p)}
SuccessIsComplete ==
  Succeeded => /\ IsTalos => cluster.context = cluster.id /\ cluster.size = O.size
               /\ Faultless({"switch"}) \/ IsTalos => cluster.nodes = Nodes /\ Fatal \subseteq cluster.done
               /\ ~IsTalos /\ Faultless({"phase", "interrupt"}) => "patch" \in cluster.done

(* A create with --recreate that succeeds leaves another cluster than it   *)
(* found, although every error of the destruction is ignored: without the  *)
(* old context, which is removed, a cluster that survived is not taken.    *)
RecreateIsFresh ==
  (Succeeded /\ O.recreate /\ Faultless({"kubectl"})) => cluster.id > before

(* With --strict-access a cluster that was recreated has the Tailscale     *)
(* network for itself: no device of its predecessors is left.              *)
StrictIsClean ==
  (Succeeded /\ O.recreate /\ O.strict /\ IsTalos) => devices \subseteq {cluster.id}

(* Nothing is bootstrapped in another cluster, to which kubectl was turned *)
(* between two commands: a Talos cluster that exists is selected first.    *)
OthersUntouched == (IsTalos \/ Faultless({"switch"})) => stranger = {}

(* Every create returns: none waits for an answer of the goroutine that    *)
(* was taken already, whichever phase fails.                               *)
EventuallyReturns == (pc # "idle") ~> (pc = "idle")
=============================================================================
