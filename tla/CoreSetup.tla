------------------------------ MODULE CoreSetup ------------------------------
(***************************************************************************)
(* What `create` does before the applications: the kind cluster, the check *)
(* of the flags against those of an earlier invocation, and the passes of  *)
(* the Localbuild controller.  A pass runs the three installers of the     *)
(* core packages at once and ends with the first error; when all are done, *)
(* and with --dev-password, it changes the passwords of Argo CD and Gitea  *)
(* in the services and then in the secrets that the command shows and      *)
(* works with.                                                             *)
(*                                                                         *)
(* A password is the generated one or "developer", a token a number.  The  *)
(* manifests of a package are applied as one; the services behind them are *)
(* ready some time later.                                                  *)
(***************************************************************************)
EXTENDS Naturals, Sequences

CONSTANT Scenarios  \* the environments a behaviour may run in, with their bounds

Packages == {"nginx", "argocd", "gitea"}

EnvKinds ==
  { "api",        \* a call of the API server fails in an installer
    "slow",       \* the five minutes of the process are over
    "token",      \* Gitea deletes the old token and fails to create another
    "status",     \* the status of the Localbuild is not written
    "login",      \* a call fails before a password is changed
    "rotate",     \* a call or the process fails after it was, before the secret is written
    "read",       \* reading a secret fails otherwise than with NotFound
    "lag",        \* a secret is read from a cache that trails
    "restart",    \* the pod of Gitea restarts
    "argodown",   \* Argo CD stops answering for a while
    "unhealthy",  \* the containers of the cluster stop
    "interrupt",  \* the user stops the command, once it has written the Localbuild
    "early" }     \* or before that

Invocation == [recreate : BOOLEAN,
               flags : Nat \ {0},   \* port, host, protocol, ...
               static : BOOLEAN]    \* --dev-password, which is one of the flags

ASSUME SetupAssumption ==
  \A s \in Scenarios : /\ s.env \subseteq EnvKinds /\ s.faults \in Nat
                       /\ s.runs \in Seq(Invocation) /\ s.runs # <<>>

VARIABLES
  scenario,  \* the scenario of this behaviour; it never changes
  run,       \* the number of the invocation; 0 before the first
  pc,        \* where the command is
  cluster,   \* the kind cluster
  build,     \* the Localbuild: its flags, and which packages its status has
  applied,   \* packages whose manifests are in the cluster
  ready,     \* packages whose pods are available
  secret,    \* the passwords and the token in the secrets
  service,   \* those that Argo CD and Gitea take
  step,      \* where the pass of the Localbuild controller is
  inst,      \* where its installers are
  local,     \* the status in its copy of the Localbuild
  login,     \* the secret as it has read it: a password, and a token
  held,      \* the token it was given
  timer,     \* the channel of time.After
  faults

vars == <<scenario, run, pc, cluster, build, applied, ready, secret, service, step, inst, local, login,
          held, timer, faults>>
world == <<cluster, build, applied, ready, secret, service>>
pass == <<step, inst, local, login, held>>

O == scenario.runs[run]
NoCluster == [id |-> 0, flags |-> 0, healthy |-> FALSE]
NoBuild == [flags |-> 0, static |-> FALSE, status |-> {}]
Blank == [argocd |-> "none", gitea |-> "none", token |-> 0]
Off == [p \in Packages |-> "off"]
NoLogin == [password |-> "none", token |-> 0]

Idle == step = "rest" /\ inst = Off
Rest == step' = "rest" /\ inst' = Off /\ local' = {} /\ login' = NoLogin /\ held' = 0

Init ==
  /\ scenario \in Scenarios
  /\ run = 0 /\ pc = "idle"
  /\ cluster = NoCluster /\ build = NoBuild
  /\ applied = {} /\ ready = {} /\ secret = Blank /\ service = Blank
  /\ step = "rest" /\ inst = Off /\ local = {} /\ login = NoLogin /\ held = 0
  /\ timer = "armed" /\ faults = 0

Fault(kind) ==
  /\ kind \in scenario.env /\ faults < scenario.faults
  /\ faults' = faults + 1

----------------------------------------------------------------------------
(* The command *)

Start ==
  /\ pc \in {"idle", "exited", "failed"} /\ run < Len(scenario.runs)
  /\ run' = run + 1 /\ pc' = "kind" /\ timer' = "armed"
  /\ UNCHANGED <<scenario, world, pass, faults>>

Exists == cluster.id # 0

NewCluster ==
  /\ cluster' = [id |-> run, flags |-> O.flags, healthy |-> TRUE]
  /\ build' = NoBuild /\ applied' = {} /\ ready' = {} /\ secret' = Blank /\ service' = Blank

(* Cluster.Reconcile *)
ReconcileKind ==
  /\ pc = "kind"
  /\ IF Exists /\ ~O.recreate
     THEN /\ pc' = IF cluster.healthy THEN "check" ELSE "failed"
          /\ UNCHANGED world
     ELSE NewCluster /\ pc' = "check"
  /\ UNCHANGED <<scenario, run, pass, timer, faults>>

(* kind removes the nodes that it has made when it fails. *)
KindFails ==
  /\ pc = "kind" /\ ~(Exists /\ ~O.recreate)
  /\ Fault("api")
  /\ \/ UNCHANGED world
     \/ /\ cluster' = NoCluster /\ build' = NoBuild
        /\ applied' = {} /\ ready' = {} /\ secret' = Blank /\ service' = Blank
  /\ pc' = "failed"
  /\ UNCHANGED <<scenario, run, pass, timer>>

(* Mutant: the flags are taken from the command line. *)
AnyFlags == TRUE
Compatible == build.flags = 0 \/ (build.flags = O.flags /\ build.static = O.static)

(* isCompatible, before the controllers start. *)
CheckFlags ==
  /\ pc = "check"
  /\ pc' = IF Compatible THEN "write" ELSE "failed"
  /\ UNCHANGED <<scenario, run, world, pass, timer, faults>>

(* The controllers run already. *)
WriteBuild ==
  /\ pc = "write"
  /\ build' = [build EXCEPT !.flags = O.flags, !.static = O.static]
  /\ pc' = "run"
  /\ UNCHANGED <<scenario, run, cluster, applied, ready, secret, service, pass, timer, faults>>

Rotation == {"argoput", "argoverify", "argopatch", "giteaedit", "giteatoken", "giteapatch"}

(* A fault between the change of a password and that of its secret is one  *)
(* of "rotate".                                                            *)
Undisturbed == step \in Rotation => "rotate" \in scenario.env

(* Mutant: the manager goes on when the command has ended.                 *)
InterruptCommand ==
  /\ pc = "run" /\ Fault("interrupt") /\ Undisturbed
  /\ pc' = "failed"
  /\ UNCHANGED <<scenario, run, world, pass, timer>>

Interrupt ==
  /\ \/ pc \in {"kind", "check", "write"} /\ Fault("early")
     \/ pc = "run" /\ Fault("interrupt")
  /\ Undisturbed
  /\ pc' = "failed"
  /\ Rest
  /\ UNCHANGED <<scenario, run, world, timer>>

----------------------------------------------------------------------------
(* The services *)

(* Gitea sets the password of its administrator whenever its pod starts;   *)
(* Argo CD makes its secret once, and may stop answering after it did.     *)
BecomeReady(p) ==
  /\ p \in applied \ ready /\ cluster.healthy
  /\ ready' = ready \cup {p}
  /\ CASE p = "gitea" -> service' = [service EXCEPT !.gitea = secret.gitea] /\ UNCHANGED secret
       [] p = "argocd" /\ secret.argocd = "none" ->
            /\ secret' = [secret EXCEPT !.argocd = "generated"]
            /\ service' = [service EXCEPT !.argocd = "generated"]
       [] OTHER -> UNCHANGED <<secret, service>>
  /\ UNCHANGED <<scenario, run, pc, cluster, build, applied, pass, timer, faults>>

PodStops(p) ==
  /\ p \in ready
  /\ \/ p = "gitea" /\ Fault("restart") /\ Undisturbed
     \/ p = "argocd" /\ Fault("argodown")
  /\ ready' = ready \ {p}
  /\ UNCHANGED <<scenario, run, pc, cluster, build, applied, secret, service, pass, timer>>

ClusterStops ==
  /\ pc \in {"idle", "exited", "failed"} /\ Exists /\ cluster.healthy
  /\ Fault("unhealthy")
  /\ cluster' = [cluster EXCEPT !.healthy = FALSE]
  /\ UNCHANGED <<scenario, run, pc, build, applied, ready, secret, service, pass, timer>>

(* Mutant: the channel is closed after five minutes. *)
TimerStays == timer = "fired" /\ UNCHANGED timer
(* One value comes of the channel, for whichever installer waits. *)
TakeTimeout == timer = "fired" /\ timer' = "taken"

TimerFires ==
  /\ pc = "run" /\ timer = "armed"
  /\ Fault("slow")
  /\ timer' = "fired"
  /\ UNCHANGED <<scenario, run, pc, world, pass>>

----------------------------------------------------------------------------
(* The installers of a pass *)

BeginPass ==
  /\ pc \in {"write", "run"} /\ build.flags # 0 /\ Idle
  /\ step' = "install"
  /\ inst' = [p \in Packages |-> IF p = "gitea" THEN "read" ELSE "apply"]
  /\ local' = build.status
  /\ UNCHANGED <<scenario, run, pc, world, login, held, timer, faults>>

(* postProcessReconcile writes the status, whatever the pass returns.      *)
Written == build' = [build EXCEPT !.status = local]
EndPass ==
  /\ Rest
  /\ \/ Written /\ UNCHANGED faults
     \/ UNCHANGED build /\ Fault("status")
EndPassFor(kind) == Rest /\ Written /\ Fault(kind)

Fresh == 1 + IF secret.token > service.token THEN secret.token ELSE service.token

(* The first error ends the pass: the context of the other installers is   *)
(* cancelled, and a call they have made may have its effect.               *)
Cancelled(p) ==
  /\ \/ UNCHANGED <<secret, service>>
     \/ p # "gitea" /\ inst["gitea"] = "token" /\ login.password = service.gitea
        /\ \E t \in {0, Fresh} : service' = [service EXCEPT !.token = t] /\ UNCHANGED secret
     \/ p # "gitea" /\ inst["gitea"] = "patch"
        /\ secret' = [secret EXCEPT !.token = held] /\ UNCHANGED service
Stop(p) == EndPass /\ Cancelled(p)

Installing(p, at) == step = "install" /\ inst[p] = at
Proceed(p, at) == inst' = [inst EXCEPT ![p] = at]
Available(p) == local' = local \cup {p}

(* The secret of Gitea, as the client sees it. *)
ReadGitea ==
  /\ Installing("gitea", "read")
  /\ \/ login' = [password |-> secret.gitea, token |-> secret.token] /\ UNCHANGED faults
     \/ Fault("lag") /\ \/ login' = NoLogin
                        \/ login' = [password |-> secret.gitea, token |-> 0]
  /\ Proceed("gitea", "apply")
  /\ UNCHANGED <<scenario, run, pc, world, step, local, held, timer>>

(* Objects that exist are left alone, and so is the secret. *)
Apply(p) ==
  /\ Installing(p, "apply")
  /\ applied' = applied \cup {p}
  /\ secret' = IF p = "gitea" /\ secret.gitea = "none"
               THEN [secret EXCEPT !.gitea = "generated"] ELSE secret
  /\ Proceed(p, IF p = "argocd" THEN "over" ELSE "wait")
  /\ IF p = "argocd" THEN Available(p) ELSE UNCHANGED local
  /\ UNCHANGED <<scenario, run, pc, cluster, build, ready, service, step, login, held, timer, faults>>

(* Until nginx is ready its admission hook may refuse the ingresses. *)
ApplyFails(p) ==
  /\ Installing(p, "apply")
  /\ p # "nginx" /\ "nginx" \in applied \ ready
  /\ Stop(p)
  /\ UNCHANGED <<scenario, run, pc, cluster, applied, ready, timer>>

Wait(p) ==
  /\ Installing(p, "wait") /\ p \in ready
  /\ IF p = "gitea" THEN Proceed(p, "endpoint") /\ UNCHANGED local
     ELSE Proceed(p, "over") /\ Available(p)
  /\ UNCHANGED <<scenario, run, pc, world, step, login, held, timer, faults>>

WaitTimesOut(p) ==
  /\ Installing(p, "wait")
  /\ TakeTimeout
  /\ Stop(p)
  /\ UNCHANGED <<scenario, run, pc, cluster, applied, ready>>

(* An answer other than 200 ends the installer without its status and      *)
(* without an error.                                                       *)
Endpoint ==
  /\ Installing("gitea", "endpoint") /\ "nginx" \in ready
  /\ IF "gitea" \notin ready THEN Proceed("gitea", "over") /\ UNCHANGED local
     ELSE IF login.token # 0 THEN Proceed("gitea", "over") /\ Available("gitea")
     ELSE login.password # "none" /\ Proceed("gitea", "token") /\ UNCHANGED local
  /\ UNCHANGED <<scenario, run, pc, world, step, login, held, timer, faults>>

(* Nothing listens, or the secret was made in this pass and has no fields  *)
(* yet in the copy that is looked at.                                      *)
EndpointFails ==
  /\ Installing("gitea", "endpoint")
  /\ \/ "nginx" \notin ready
     \/ "gitea" \in ready /\ login = NoLogin
  /\ Stop("gitea")
  /\ UNCHANGED <<scenario, run, pc, cluster, applied, ready, timer>>

Answering(p) == {p, "nginx"} \subseteq ready

(* GetGiteaToken: the old token is deleted, another is made. *)
GetToken(password) ==
  /\ Answering("gitea") /\ password = service.gitea
  /\ held' = Fresh /\ service' = [service EXCEPT !.token = held']

Token ==
  /\ Installing("gitea", "token")
  /\ GetToken(login.password)
  /\ Proceed("gitea", "patch")
  /\ UNCHANGED <<scenario, run, pc, cluster, build, applied, ready, secret, step, local, login, timer, faults>>

TokenFails ==
  /\ Installing("gitea", "token")
  /\ \/ /\ ~Answering("gitea") \/ login.password # service.gitea
        /\ EndPass /\ UNCHANGED service
     \/ EndPassFor("token") /\ service' = [service EXCEPT !.token = 0]
  /\ UNCHANGED <<scenario, run, pc, cluster, applied, ready, secret, timer>>

(* Mutant: the status says available before the token is in the secret. *)
PatchTokenLater ==
  /\ Installing("gitea", "patch")
  /\ Proceed("gitea", "over") /\ Available("gitea")
  /\ UNCHANGED <<scenario, run, pc, world, step, login, held, timer, faults>>

PatchToken ==
  /\ Installing("gitea", "patch")
  /\ secret' = [secret EXCEPT !.token = held]
  /\ Proceed("gitea", "over") /\ Available("gitea")
  /\ UNCHANGED <<scenario, run, pc, cluster, build, applied, ready, service, step, login, held, timer, faults>>

(* Any call of the API server in an installer. *)
InstallerFails(p) ==
  /\ step = "install" /\ inst[p] \in {"read", "apply", "wait", "patch"}
  /\ EndPassFor("api") /\ Cancelled(p)
  /\ UNCHANGED <<scenario, run, pc, cluster, applied, ready, timer>>

(* The channel of errors is closed. *)
AllOver ==
  /\ step = "install" /\ \A p \in Packages : inst[p] = "over"
  /\ step' = IF O.static THEN "argosecret" ELSE "apps"
  /\ inst' = Off
  /\ UNCHANGED <<scenario, run, pc, world, local, login, held, timer, faults>>

----------------------------------------------------------------------------
(* --dev-password: the passwords of Argo CD and Gitea.  A step goes on to  *)
(* another, or ends the pass.                                              *)

frame == <<scenario, run, pc, cluster, applied, ready, timer>>

Quit == EndPass /\ UNCHANGED <<secret, service>>
FailBefore(kind) == EndPassFor(kind) /\ UNCHANGED <<secret, service>>
GoTo(next) == step' = next /\ UNCHANGED <<build, inst, local, faults>>
Goes(next) == GoTo(next) /\ UNCHANGED <<secret, service, login, held>>
Reads(password, next) ==
  /\ step' = next /\ login' = [NoLogin EXCEPT !.password = password]
  /\ UNCHANGED <<build, inst, local, secret, service, held>>

(* Mutant: a secret that is not found is dropped like any other error.     *)
NotFoundIsDropped(p, change, skip) ==
  IF secret[p] = "generated" THEN Reads("generated", change) /\ UNCHANGED faults ELSE Goes(skip)

(* extractArgocdInitialAdminSecret, extractGiteaAdminSecret: any error but *)
(* NotFound is dropped, and the password is then empty.                    *)
Extract(p, change, skip) ==
  \/ secret[p] = "none" /\ Quit
  \/ secret[p] = "generated" /\ Reads("generated", change) /\ UNCHANGED faults
  \/ secret[p] = "developer" /\ Goes(skip)
  \/ secret[p] = "developer" /\ Reads("generated", change) /\ Fault("lag")
  \/ secret[p] = "generated" /\ Reads("none", skip) /\ Fault("read")

ArgoSecret ==
  /\ step = "argosecret"
  /\ Extract("argocd", "argologin", "giteasecret")
  /\ UNCHANGED frame

(* Nothing listens: an error.  Any answer but 200: the password is left.   *)
Deaf == "nginx" \notin ready

ArgoLogin ==
  /\ step = "argologin"
  /\ \/ Deaf /\ Quit
     \/ FailBefore("login")
     \/ ~Deaf /\ Goes(IF Answering("argocd") /\ login.password = service.argocd
                      THEN "argoput" ELSE "giteasecret")
  /\ UNCHANGED frame

Renamed(old, p) == [old EXCEPT ![p] = "developer"]

(* The answer of the request is not looked at.                             *)
ArgoPut ==
  /\ step = "argoput"
  /\ \/ Deaf /\ Quit
     \/ ~Deaf /\ ~Answering("argocd") /\ Goes("argoverify")
     \/ /\ Answering("argocd")
        /\ service' = Renamed(service, "argocd")
        /\ \/ GoTo("argoverify") /\ UNCHANGED <<login, held>>
           \/ EndPassFor("rotate")
        /\ UNCHANGED secret
  /\ UNCHANGED frame

ArgoVerify ==
  /\ step = "argoverify"
  /\ \/ Deaf /\ Quit
     \/ FailBefore("rotate")
     \/ ~Deaf /\ Goes(IF Answering("argocd") /\ service.argocd = "developer"
                      THEN "argopatch" ELSE "giteasecret")
  /\ UNCHANGED frame

(* PatchPasswordSecret for Argo CD.                                        *)
ArgoPatch ==
  /\ step = "argopatch"
  /\ \/ /\ secret' = Renamed(secret, "argocd") /\ UNCHANGED <<service, login, held>>
        /\ GoTo("giteasecret")
     \/ FailBefore("rotate")
  /\ UNCHANGED frame

GiteaSecret ==
  /\ step = "giteasecret"
  /\ Extract("gitea", "giteaedit", "apps")
  /\ UNCHANGED frame

GiteaEdit ==
  /\ step = "giteaedit"
  /\ \/ (~Answering("gitea") \/ login.password # service.gitea) /\ Quit
     \/ FailBefore("login")
     \/ /\ Answering("gitea") /\ login.password = service.gitea
        /\ service' = Renamed(service, "gitea")
        /\ \/ GoTo("giteatoken") /\ UNCHANGED <<login, held>>
           \/ EndPassFor("rotate")
        /\ UNCHANGED secret
  /\ UNCHANGED frame

(* PatchPasswordSecret for Gitea: a new token, then both are written.      *)
GiteaToken ==
  /\ step = "giteatoken"
  /\ \/ GetToken("developer") /\ GoTo("giteapatch") /\ UNCHANGED login
     \/ (~Answering("gitea") \/ service.gitea # "developer") /\ EndPass /\ UNCHANGED service
     \/ EndPassFor("rotate") /\ service' \in {service, [service EXCEPT !.token = 0]}
  /\ UNCHANGED secret /\ UNCHANGED frame

(* Mutant: only the token is written.                                      *)
PatchTokenOnly ==
  /\ step = "giteapatch"
  /\ secret' = [secret EXCEPT !.token = held] /\ GoTo("apps")
  /\ UNCHANGED <<service, login, held>> /\ UNCHANGED frame

GiteaPatch ==
  /\ step = "giteapatch"
  /\ \/ /\ secret' = [Renamed(secret, "gitea") EXCEPT !.token = held]
        /\ GoTo("apps") /\ UNCHANGED <<service, login, held>>
     \/ FailBefore("rotate")
  /\ UNCHANGED frame

(* ReconcileArgoAppsWithGitea, as far as it matters here: it fails, or is  *)
(* done, or finds everything synced and ends the command.  For that Argo   *)
(* CD and Gitea answer, and the token is good.                             *)
Apps ==
  /\ step = "apps" /\ Quit
  /\ UNCHANGED frame

Exit ==
  /\ step = "apps" /\ "gitea" \in local
  /\ Answering("argocd") /\ Answering("gitea") /\ secret.token = service.token
  /\ pc' = "exited" /\ Rest
  /\ UNCHANGED <<scenario, run, world, timer, faults>>

----------------------------------------------------------------------------

Command == Start \/ ReconcileKind \/ CheckFlags \/ WriteBuild
Installers ==
  \/ ReadGitea \/ Endpoint \/ EndpointFails \/ Token \/ TokenFails \/ PatchToken
  \/ \E p \in Packages : Apply(p) \/ ApplyFails(p) \/ Wait(p) \/ WaitTimesOut(p) \/ InstallerFails(p)
Passwords ==
  \/ ArgoSecret \/ ArgoLogin \/ ArgoPut \/ ArgoVerify \/ ArgoPatch
  \/ GiteaSecret \/ GiteaEdit \/ GiteaToken \/ GiteaPatch
Pass == BeginPass \/ Installers \/ AllOver \/ Passwords \/ Apps \/ Exit
Environment ==
  \/ KindFails \/ Interrupt \/ ClusterStops \/ TimerFires
  \/ \E p \in Packages : PodStops(p)

Next == Command \/ Pass \/ Environment \/ \E p \in Packages : BecomeReady(p)

Spec == Init /\ [][Next]_vars

(* The command and its passes go on, and a pod that is asked for comes up. *)
(* The installers of a pass run at the same time: none is always overtaken *)
(* by another that fails before it has begun.                              *)
FairSpec ==
  /\ Spec
  /\ WF_vars(Command) /\ WF_vars(Pass)
  /\ \A p \in Packages : WF_vars(BecomeReady(p)) /\ SF_vars(Apply(p))

----------------------------------------------------------------------------

Passwd == {"none", "generated", "developer"}
Creds == [argocd : Passwd, gitea : Passwd, token : Nat]

TypeOK ==
  /\ scenario \in Scenarios
  /\ run \in 0..Len(scenario.runs)
  /\ pc \in {"idle", "kind", "check", "write", "run", "exited", "failed"}
  /\ cluster \in [id : 0..run, flags : Nat, healthy : BOOLEAN]
  /\ build \in [flags : Nat, static : BOOLEAN, status : SUBSET Packages]
  /\ applied \subseteq Packages /\ ready \subseteq applied
  /\ secret \in Creds /\ service \in Creds
  /\ step \in {"rest", "install", "argosecret", "argologin", "giteasecret", "apps"} \cup Rotation
  /\ inst \in [Packages -> {"off", "read", "apply", "wait", "endpoint", "token", "patch", "over"}]
  /\ local \subseteq Packages
  /\ login \in [password : Passwd, token : Nat] /\ held \in Nat
  /\ timer \in {"armed", "fired", "taken"}
  /\ faults \in 0..scenario.faults
  /\ step # "rest" => pc \in {"write", "run"} /\ Exists

Guarded(kinds) == scenario.env \cap kinds = {}

(* A command that runs works with the flags the cluster was made with (its *)
(* ports and host are those of the kind nodes), and one that was not given *)
(* --dev-password never with a service that has it: isCompatible compares  *)
(* with the Localbuild, which the command writes later than the cluster,   *)
(* and the user may have interrupted it in between ("early").              *)
FlagsMatch ==
  pc = "run" => /\ Guarded({"early"}) => cluster.flags = O.flags
                /\ ~O.static => "developer" \notin {service.argocd, service.gitea}

(* The password in the secret, which the command shows to the user and     *)
(* logs in with on its next pass, is the one that the service takes, but   *)
(* for the steps of a pass between the change of the one and of the other; *)
(* whatever passes are cut short, restart or read a stale secret.          *)
PasswordsAgree ==
  Guarded({"rotate", "argodown"}) /\ step \notin Rotation =>
    \A p \in {"argocd", "gitea"} : service[p] \in {"none", secret[p]}

(* Once the status says that Gitea is available its secret has a token,    *)
(* and the token is the one that Gitea takes although every request for    *)
(* one deletes the one before: the controllers push with it.               *)
TokenIsCurrent ==
  /\ "gitea" \in build.status => secret.token # 0
  /\ Guarded({"rotate", "lag"}) /\ step \notin Rotation /\ secret.token # 0
       => secret.token = service.token

(* An invocation with --dev-password that ends by itself has set both      *)
(* passwords ("Set the password "developer" for the admin user of the      *)
(* applications: argocd & gitea."), unless the errors that the pass drops  *)
(* hit it.                                                                 *)
ExitMeansRotated ==
  pc = "exited" /\ O.static /\ Guarded({"read", "argodown", "rotate"}) =>
    /\ secret.argocd = "developer" /\ secret.gitea = "developer"
    /\ service.argocd = "developer" /\ service.gitea = "developer"

Done ==
  /\ build.status = Packages
  /\ O.static => secret.argocd = "developer" /\ secret.gitea = "developer"

(* The controllers of the last invocation install every package, and       *)
(* change the passwords, in spite of the passes that fail: each of them is *)
(* tried again, and the five minutes are over only once.                   *)
EventuallyReady ==
  Guarded({"rotate", "argodown"}) =>
    ((pc = "run" /\ run = Len(scenario.runs)) ~> (pc # "run" \/ Done))

=============================================================================
