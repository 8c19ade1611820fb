-------------------------- MODULE CoreSetupProofs --------------------------
(***************************************************************************)
(* What holds of the clusters, flags and passwords of `create`, for any    *)
(* number of invocations, faults and restarts.                             *)
(*                                                                         *)
(*   TypeCorrect      Spec => []TypeOK                                     *)
(*   RunsWithItsFlags Spec => []FlagsMatch                                 *)
(*   SecretsAreTrue   Spec => []PasswordsAgree                             *)
(*   TokensWork       Spec => []TokenIsCurrent                             *)
(*   ExitIsRotated    Spec => []ExitMeansRotated                           *)
(*                                                                         *)
(* BuildInv relates the Localbuild to the cluster it is in.  FlagsInv      *)
(* follows the flags from the cluster to the Localbuild and back to the    *)
(* next command, StaticInv does so for --dev-password.  AgreeInv follows a *)
(* password from the service to its secret, TokenInv the token of Gitea,   *)
(* and RotatedInv a pass through the changes that it has to make.          *)
(***************************************************************************)
EXTENDS CoreSetup, TLAPS

(* There is a Localbuild only in a cluster, and a pass only with both.     *)
BuildInv ==
  /\ pc # "idle" => run # 0
  /\ pc \in {"check", "write", "run"} => Exists
  /\ build.flags # 0 => Exists
  /\ step # "rest" => build.flags # 0

(* "developer" is the password only where a command has asked for it, and  *)
(* that command, like every other that works here, is in the Localbuild.   *)
StaticInv ==
  /\ pc = "write" => Compatible
  /\ pc = "run" => build.flags = O.flags /\ build.static = O.static
  /\ step \in Rotation \cup {"argosecret", "argologin", "giteasecret"} => O.static
  /\ "developer" \in {secret.argocd, secret.gitea, service.argocd, service.gitea} =>
       build.static /\ build.flags # 0

(* The flags of the Localbuild are those of the cluster; a cluster without *)
(* one was made by this very command.                                      *)
FlagsInv ==
  Guarded({"early"}) =>
    /\ pc \in {"write", "run"} => cluster.flags = O.flags
    /\ pc = "check" /\ build.flags = 0 => cluster.flags = O.flags
    /\ Exists => build.flags \in {0, cluster.flags}
    /\ Exists /\ build.flags = 0 => pc \in {"check", "write"}

(* The pods that a password is changed in stay available until it is in    *)
(* its secret, and in between the service has the new one.                 *)
AgreeInv ==
  Guarded({"rotate", "argodown"}) =>
    /\ step \in {"argoput", "argoverify", "argopatch"} => Answering("argocd")
    /\ step \in {"giteatoken", "giteapatch"} => Answering("gitea")
    /\ IF step \in {"argoverify", "argopatch"} THEN service.argocd = "developer"
       ELSE service.argocd \in {"none", secret.argocd}
    /\ IF step \in {"giteatoken", "giteapatch"} THEN service.gitea = "developer"
       ELSE service.gitea \in {"none", secret.gitea}

(* A token that is shown in a status, or was read, is in the secret.       *)
(* Without the faults of the guard it is the one that Gitea takes, but for *)
(* the time between a new one and its patch; an installer asks for one     *)
(* only while the secret has none.                                         *)
TokenInv ==
  /\ step = "rest" => local = {} /\ login = NoLogin
  /\ "gitea" \in build.status \cup local \/ login.token # 0 => secret.token # 0
  /\ step = "giteapatch" \/ (step = "install" /\ inst["gitea"] = "patch") => held # 0
  /\ Guarded({"rotate", "lag"}) =>
       /\ IF step = "giteapatch" THEN held = service.token ELSE secret.token \in {0, service.token}
       /\ step = "install" /\ inst["gitea"] \in {"apply", "wait", "endpoint", "token"} =>
            login.token = secret.token
       /\ step = "install" /\ inst["gitea"] \in {"token", "patch"} => secret.token = 0
       /\ step = "install" /\ inst["gitea"] = "patch" => held = service.token

(* Without the errors that a pass drops it comes to the password of Gitea  *)
(* only with that of Argo CD changed, and to its end with both.            *)
RotatedInv ==
  Guarded({"read", "argodown", "rotate"}) =>
    /\ secret.argocd # "none" => service.argocd # "none" /\ "argocd" \in ready
    /\ "gitea" \in applied => secret.gitea # "none"
    /\ "gitea" \in ready => service.gitea # "none"
    /\ step = "argologin" => login.password = "generated" /\ secret.argocd # "none"
    /\ step \in {"giteasecret", "giteaedit", "giteatoken", "giteapatch"} \/ (step = "apps" /\ O.static) =>
         secret.argocd = "developer"
    /\ step = "apps" /\ O.static => secret.gitea = "developer"
    /\ pc = "exited" /\ O.static =>
         /\ secret.argocd = "developer" /\ secret.gitea = "developer"
         /\ service.gitea # "none"

IInv == TypeOK /\ BuildInv /\ StaticInv /\ FlagsInv /\ AgreeInv /\ TokenInv /\ RotatedInv

----------------------------------------------------------------------------
(* Types *)

(* The command line of a running command is one of the scenario.           *)
LEMMA CurrentInvocation ==
  ASSUME TypeOK, run # 0
  PROVE  O \in Invocation
BY SetupAssumption DEF TypeOK, O

(* The steps of an installer stay in the pass, and leave alone the command *)
(* and the cluster, the flags of the Localbuild and the passwords, but for *)
(* the one of Gitea that is generated when there is none.                  *)
InstallerEffect ==
  /\ step = "install" /\ step' \in {"install", "rest"}
  /\ UNCHANGED <<scenario, run, pc, cluster, ready>>
  /\ build' \in {build, [build EXCEPT !.status = local]}
  /\ service'.argocd = service.argocd /\ service'.gitea = service.gitea
  /\ secret'.argocd = secret.argocd
  /\ \/ secret'.gitea = secret.gitea
     \/ secret.gitea = "none" /\ secret'.gitea = "generated"
  /\ "gitea" \in applied' \ applied => secret'.gitea # "none"

(* The calls of the installers that a failing one leaves behind change a   *)
(* token at most.                                                          *)
LEMMA CancelledEffect ==
  ASSUME TypeOK, NEW p, Cancelled(p)
  PROVE  /\ secret' \in Creds /\ service' \in Creds
         /\ service'.argocd = service.argocd /\ service'.gitea = service.gitea
         /\ secret'.argocd = secret.argocd /\ secret'.gitea = secret.gitea
BY DEF TypeOK, Cancelled, Creds, Fresh

(* However a pass ends, it leaves the status or writes its own.            *)
LEMMA EndEffect ==
  ASSUME TypeOK, UNCHANGED scenario,
         EndPass \/ \E kind : EndPassFor(kind)
  PROVE  /\ step' = "rest" /\ inst' = Off /\ local' = {} /\ login' = NoLogin /\ held' = 0
         /\ build' \in {build, [build EXCEPT !.status = local]}
         /\ faults' \in 0..scenario'.faults
BY SetupAssumption DEF TypeOK, EndPass, EndPassFor, Rest, Written, Fault

(* Such an end is one of an installer when the passwords stay.             *)
LEMMA InstallerEnds ==
  ASSUME TypeOK, step = "install", step' = "rest",
         inst' = Off, local' = {}, login' = NoLogin, held' = 0,
         build' \in {build, [build EXCEPT !.status = local]},
         faults' \in 0..scenario'.faults,
         secret' \in Creds, service' \in Creds,
         service'.argocd = service.argocd, service'.gitea = service.gitea,
         secret'.argocd = secret.argocd, secret'.gitea = secret.gitea,
         UNCHANGED <<scenario, run, pc, cluster, applied, ready>>,
         timer' \in {"armed", "fired", "taken"}
  PROVE  TypeOK' /\ InstallerEffect
BY DEF TypeOK, InstallerEffect, Off, NoLogin, Passwd, Packages, Rotation, Exists, Creds

(* What an installer leaves is well typed: no token, no status and no step *)
(* but those of the code.                                                  *)
LEMMA InstallersType ==
  ASSUME TypeOK, BuildInv, Installers
  PROVE  TypeOK' /\ InstallerEffect
<1>1. CASE EndpointFails
  BY <1>1, CancelledEffect, EndEffect, InstallerEnds DEF EndpointFails, Stop, Installing, TypeOK
<1>2. CASE TokenFails
  BY <1>2, EndEffect, InstallerEnds, SMTT(20) DEF TokenFails, Installing, TypeOK, Creds
<1>3. ASSUME NEW p \in Packages, ApplyFails(p)
      PROVE  TypeOK' /\ InstallerEffect
  BY <1>3, CancelledEffect, EndEffect, InstallerEnds DEF ApplyFails, Stop, Installing, TypeOK
<1>4. ASSUME NEW p \in Packages, WaitTimesOut(p)
      PROVE  TypeOK' /\ InstallerEffect
  BY <1>4, CancelledEffect, EndEffect, InstallerEnds
     DEF WaitTimesOut, TakeTimeout, Stop, Installing, TypeOK
<1>5. ASSUME NEW p \in Packages, InstallerFails(p)
      PROVE  TypeOK' /\ InstallerEffect
  BY <1>5, CancelledEffect, EndEffect, InstallerEnds DEF InstallerFails, TypeOK
<1> USE SetupAssumption DEF TypeOK, InstallerEffect, Installing, Proceed, Available, Creds, Passwd,
                            Packages, Rotation, Exists
<1>6. CASE ReadGitea
  BY <1>6, SMTT(20) DEF ReadGitea, NoLogin, world, Fault
<1>7. CASE Endpoint
  BY <1>7 DEF Endpoint, world
<1>8. CASE Token
  BY <1>8, SMTT(20) DEF Token, GetToken, Fresh
<1>9. CASE PatchToken
  BY <1>9 DEF PatchToken
<1>10. ASSUME NEW p \in Packages, Apply(p)
       PROVE  TypeOK' /\ InstallerEffect
  BY <1>10 DEF Apply
<1>11. ASSUME NEW p \in Packages, Wait(p)
       PROVE  TypeOK' /\ InstallerEffect
  BY <1>11 DEF Wait, world
<1> QED
  BY <1>1, <1>2, <1>3, <1>4, <1>5, <1>6, <1>7, <1>8, <1>9, <1>10, <1>11 DEF Installers

(* The steps that change passwords stay in the pass or end it, and change  *)
(* one field of the secrets or the services at a time.                     *)
PasswordsEffect ==
  /\ step \in Rotation \cup {"argosecret", "argologin", "giteasecret"}
  /\ step' \in Rotation \cup {"argologin", "giteasecret", "apps", "rest"}
  /\ UNCHANGED <<scenario, run, pc, cluster, applied, ready, timer>>
  /\ build' \in {build, [build EXCEPT !.status = local]}

(* A step of the passwords leaves types as they are.                       *)
LEMMA PasswordsType ==
  ASSUME TypeOK, BuildInv, Passwords
  PROVE  TypeOK' /\ PasswordsEffect
<1> USE SetupAssumption DEF TypeOK, PasswordsEffect, Creds, Passwd, Packages, Rotation, Exists, frame,
        GoTo, Goes, Reads, NoLogin, Renamed
<1>0. ASSUME NEW k, EndPass \/ EndPassFor(k), secret' \in Creds, service' \in Creds,
             step \in Rotation \cup {"argosecret", "argologin", "giteasecret"}, UNCHANGED frame
      PROVE  TypeOK' /\ PasswordsEffect
  BY <1>0, EndEffect, SMTT(20) DEF Off
<1> HIDE SetupAssumption
<1>1. CASE ArgoSecret
  <2>1. CASE Quit
    BY <1>0, <1>1, <2>1 DEF ArgoSecret, Quit
  <2>2. CASE ~Quit
    BY <1>1, <2>2, SetupAssumption, SMTT(20) DEF ArgoSecret, Extract, Fault
  <2> QED BY <2>1, <2>2
<1>2. CASE ArgoLogin
  <2>1. CASE Quit \/ FailBefore("login")
    BY <1>0, <1>2, <2>1 DEF ArgoLogin, Quit, FailBefore
  <2>2. CASE ~(Quit \/ FailBefore("login"))
    BY <1>2, <2>2 DEF ArgoLogin
  <2> QED BY <2>1, <2>2
<1>3. CASE ArgoPut
  <2>1. CASE Quit \/ EndPassFor("rotate")
    BY <1>0, <1>3, <2>1, SMTT(20) DEF ArgoPut, Quit
  <2>2. CASE ~(Quit \/ EndPassFor("rotate"))
    BY <1>3, <2>2 DEF ArgoPut
  <2> QED BY <2>1, <2>2
<1>4. CASE ArgoVerify
  <2>1. CASE Quit \/ FailBefore("rotate")
    BY <1>0, <1>4, <2>1 DEF ArgoVerify, Quit, FailBefore
  <2>2. CASE ~(Quit \/ FailBefore("rotate"))
    BY <1>4, <2>2 DEF ArgoVerify
  <2> QED BY <2>1, <2>2
<1>5. CASE ArgoPatch
  <2>1. CASE FailBefore("rotate")
    BY <1>0, <1>5, <2>1 DEF ArgoPatch, FailBefore
  <2>2. CASE ~FailBefore("rotate")
    BY <1>5, <2>2 DEF ArgoPatch
  <2> QED BY <2>1, <2>2
<1>6. CASE GiteaSecret
  <2>1. CASE Quit
    BY <1>0, <1>6, <2>1 DEF GiteaSecret, Quit
  <2>2. CASE ~Quit
    BY <1>6, <2>2, SetupAssumption, SMTT(20) DEF GiteaSecret, Extract, Fault
  <2> QED BY <2>1, <2>2
<1>7. CASE GiteaEdit
  <2>1. CASE Quit \/ FailBefore("login") \/ EndPassFor("rotate")
    BY <1>0, <1>7, <2>1 DEF GiteaEdit, Quit, FailBefore
  <2>2. CASE ~(Quit \/ FailBefore("login") \/ EndPassFor("rotate"))
    BY <1>7, <2>2 DEF GiteaEdit
  <2> QED BY <2>1, <2>2
<1>8. CASE GiteaToken
  <2>1. CASE EndPass \/ EndPassFor("rotate")
    BY <1>0, <1>8, <2>1, SMTT(20) DEF GiteaToken, GetToken, Fresh
  <2>2. CASE ~(EndPass \/ EndPassFor("rotate"))
    BY <1>8, <2>2 DEF GiteaToken, GetToken, Fresh
  <2> QED BY <2>1, <2>2
<1>9. CASE GiteaPatch
  <2>1. CASE FailBefore("rotate")
    BY <1>0, <1>9, <2>1 DEF GiteaPatch, FailBefore
  <2>2. CASE ~FailBefore("rotate")
    BY <1>9, <2>2, ZenonT(40) DEF GiteaPatch
  <2> QED BY <2>1, <2>2
<1> QED
  BY <1>1, <1>2, <1>3, <1>4, <1>5, <1>6, <1>7, <1>8, <1>9 DEF Passwords

----------------------------------------------------------------------------
(* The other steps *)

(* Types, and the Localbuild in its cluster, at the start and after every  *)
(* step.                                                                   *)
LEMMA TypeInit == Init => TypeOK /\ BuildInv
BY SetupAssumption DEF Init, TypeOK, BuildInv, NoCluster, NoBuild, Blank, Off, NoLogin, Creds, Passwd,
                       Packages, Exists

LEMMA TypeStep ==
  ASSUME TypeOK, BuildInv, [Next]_vars
  PROVE  TypeOK' /\ BuildInv'
<1>1. CASE Installers
  BY <1>1, InstallersType DEF InstallerEffect, TypeOK, BuildInv, Exists
<1>2. CASE Passwords
  BY <1>2, PasswordsType DEF PasswordsEffect, TypeOK, BuildInv, Exists, Rotation
<1> USE SetupAssumption DEF TypeOK, BuildInv, Creds, Passwd, Packages, Exists, world, pass
<1>3. CASE Start
  BY <1>3 DEF Start
<1>4. CASE ReconcileKind
  <2>1. O \in Invocation
    BY <1>4, CurrentInvocation DEF ReconcileKind
  <2>2. CASE UNCHANGED world /\ Exists
    BY <1>4, <2>2 DEF ReconcileKind
  <2>3. CASE NewCluster
    <3>1. cluster' \in [id : 0..run', flags : Nat, healthy : BOOLEAN] /\ cluster'.id # 0
      BY <1>4, <2>1, <2>3 DEF ReconcileKind, NewCluster, Invocation
    <3>2. build' \in [flags : Nat, static : BOOLEAN, status : SUBSET Packages] /\ build'.flags = 0
      BY <2>3 DEF NewCluster, NoBuild
    <3>3. secret' \in Creds /\ service' \in Creds /\ applied' = {} /\ ready' = {}
      BY <2>3 DEF NewCluster, Blank
    <3> QED
      BY <1>4, <3>1, <3>2, <3>3 DEF ReconcileKind
  <2> QED
    BY <1>4, <2>2, <2>3 DEF ReconcileKind
<1>5. CASE KindFails
  <2>1. faults' \in 0..scenario'.faults
    BY <1>5 DEF KindFails, Fault
  <2>2. CASE UNCHANGED world
    BY <1>5, <2>1, <2>2 DEF KindFails
  <2>3. CASE cluster' = NoCluster /\ build' = NoBuild /\ applied' = {} /\ ready' = {} /\ secret' = Blank /\ service' = Blank
    <3>1. cluster' \in [id : 0..run', flags : Nat, healthy : BOOLEAN]
      BY <1>5, <2>3 DEF KindFails, NoCluster
    <3>2. build' \in [flags : Nat, static : BOOLEAN, status : SUBSET Packages] /\ build'.flags = 0
      BY <2>3 DEF NoBuild
    <3>3. secret' \in Creds /\ service' \in Creds
      BY <2>3 DEF Blank
    <3> QED
      BY <1>5, <2>1, <2>3, <3>1, <3>2, <3>3 DEF KindFails
  <2> QED
    BY <1>5, <2>2, <2>3 DEF KindFails
<1>6. CASE CheckFlags
  BY <1>6 DEF CheckFlags
<1>7. CASE WriteBuild
  <2>1. O \in Invocation
    BY <1>7, CurrentInvocation DEF WriteBuild
  <2> QED
    <3>1. build' \in [flags : Nat, static : BOOLEAN, status : SUBSET Packages] /\ build'.flags # 0
      BY <1>7, <2>1 DEF WriteBuild, Invocation
    <3> QED
      BY <1>7, <3>1 DEF WriteBuild
<1>8. CASE BeginPass
  BY <1>8 DEF BeginPass, Idle, Off
<1>9. CASE AllOver
  BY <1>9 DEF AllOver, Off
<1>10. CASE Apps
  <2>1. EndPass /\ UNCHANGED <<secret, service, frame>> /\ step = "apps"
    BY <1>10 DEF Apps, Quit
  <2> QED
    BY <2>1, EndEffect, SMTT(20) DEF frame, Off, NoLogin
<1>11. CASE Exit
  BY <1>11 DEF Exit, Rest, Off, NoLogin
<1>12. CASE Interrupt
  <2>1. faults' \in 0..scenario'.faults
    BY <1>12 DEF Interrupt, Fault
  <2> QED
    BY <1>12, <2>1 DEF Interrupt, Rest, Off, NoLogin
<1>13. CASE ClusterStops
  <2>1. faults' \in 0..scenario'.faults
    BY <1>13 DEF ClusterStops, Fault
  <2>2. cluster' \in [id : 0..run', flags : Nat, healthy : BOOLEAN] /\ cluster'.id = cluster.id
    BY <1>13 DEF ClusterStops
  <2> QED
    BY <1>13, <2>1, <2>2 DEF ClusterStops
<1>14. CASE TimerFires
  BY <1>14 DEF TimerFires, Fault
<1>15. ASSUME NEW p \in Packages, PodStops(p)
       PROVE  TypeOK' /\ BuildInv'
  BY <1>15 DEF PodStops, Fault
<1>16. ASSUME NEW p \in Packages, BecomeReady(p)
       PROVE  TypeOK' /\ BuildInv'
  BY <1>16 DEF BecomeReady
<1>17. CASE UNCHANGED vars
  BY <1>17 DEF vars
<1> QED
  BY <1>1, <1>2, <1>3, <1>4, <1>5, <1>6, <1>7, <1>8, <1>9, <1>10, <1>11, <1>12, <1>13, <1>14, <1>15, <1>16, <1>17
     DEF Next, Command, Pass, Environment

(* Every variable has its type, in every environment.                      *)
THEOREM TypeCorrect == Spec => []TypeOK
<1>1. Spec => [](TypeOK /\ BuildInv)
  BY TypeInit, TypeStep, PTL DEF Spec
<1> QED
  BY <1>1, PTL

----------------------------------------------------------------------------
(* Flags *)

(* A pass leaves the flags of the Localbuild, the cluster and the command. *)
FlagsStay ==
  /\ UNCHANGED <<scenario, run, cluster>>
  /\ build'.flags = build.flags /\ build'.static = build.static

(* So do its steps, all of them, and the pods.                             *)
LEMMA PassKeepsFlags ==
  ASSUME TypeOK, BuildInv, Pass \/ \E p \in Packages : BecomeReady(p) \/ PodStops(p)
  PROVE  FlagsStay
<1>1. CASE Installers
  BY <1>1, InstallersType DEF InstallerEffect, FlagsStay, TypeOK
<1>2. CASE Passwords
  BY <1>2, PasswordsType DEF PasswordsEffect, FlagsStay, TypeOK
<1>3. CASE Apps
  <2>1. EndPass /\ UNCHANGED <<scenario, run, cluster>>
    BY <1>3 DEF Apps, Quit, frame
  <2> QED
    BY <2>1, EndEffect DEF FlagsStay, TypeOK
<1>4. CASE BeginPass \/ AllOver \/ Exit
  BY <1>4 DEF BeginPass, AllOver, Exit, FlagsStay, world
<1>5. CASE \E p \in Packages : BecomeReady(p) \/ PodStops(p)
  BY <1>5 DEF BecomeReady, PodStops, FlagsStay
<1> QED
  BY <1>1, <1>2, <1>3, <1>4, <1>5 DEF Pass

(* --dev-password is in the Localbuild wherever it has an effect.          *)
LEMMA StaticStep ==
  ASSUME TypeOK, BuildInv, StaticInv, [Next]_vars
  PROVE  StaticInv'
<1> USE DEF StaticInv, Compatible, O
<1>1. CASE Installers
  BY <1>1, InstallersType, PassKeepsFlags DEF Pass, InstallerEffect, FlagsStay, Rotation
<1>2. CASE Passwords
  <2>1. PasswordsEffect /\ FlagsStay
    BY <1>2, PasswordsType, PassKeepsFlags DEF Pass
  <2>2. O.static /\ pc \in {"write", "run"} /\ build.flags # 0
    BY <2>1 DEF PasswordsEffect, TypeOK, BuildInv, Rotation
  <2>3. build.static
    BY <2>2
  <2> QED
    BY <2>1, <2>2, <2>3 DEF PasswordsEffect, FlagsStay
<1>3. CASE Start
  BY <1>3 DEF Start, TypeOK, Rotation, world, pass
<1>4. CASE ReconcileKind \/ KindFails
  BY <1>4 DEF ReconcileKind, KindFails, NewCluster, NoBuild, Blank, TypeOK, Rotation, world, pass
<1>5. CASE CheckFlags
  BY <1>5 DEF CheckFlags, world, pass
<1>6. CASE WriteBuild
  <2>1. O \in Invocation
    BY <1>6, CurrentInvocation DEF WriteBuild, BuildInv
  <2>2. build'.flags = O.flags /\ build'.static = O.static /\ O.flags # 0
    BY <1>6, <2>1 DEF WriteBuild, TypeOK, Invocation
  <2>3. build.static /\ build.flags # 0 => O.static
    BY <1>6 DEF WriteBuild
  <2> QED
    BY <1>6, <2>2, <2>3 DEF WriteBuild, pass
<1>7. CASE BeginPass \/ AllOver \/ Exit
  BY <1>7 DEF BeginPass, AllOver, Exit, Rest, Rotation, world, pass
<1>8. CASE Apps
  <2>1. EndPass /\ UNCHANGED <<secret, service, frame>>
    BY <1>8 DEF Apps, Quit
  <2> QED
    BY <1>8, <2>1, EndEffect, PassKeepsFlags DEF frame, Pass, FlagsStay, Rotation
<1>9. CASE Interrupt \/ ClusterStops \/ TimerFires
  BY <1>9 DEF Interrupt, ClusterStops, TimerFires, Rest, Rotation, world, pass
<1>10. ASSUME NEW p \in Packages, PodStops(p) \/ BecomeReady(p)
       PROVE  StaticInv'
  BY <1>10 DEF PodStops, BecomeReady, TypeOK, Creds, pass
<1>11. CASE UNCHANGED vars
  BY <1>11 DEF vars
<1> QED
  BY <1>1, <1>2, <1>3, <1>4, <1>5, <1>6, <1>7, <1>8, <1>9, <1>10, <1>11
     DEF Next, Command, Pass, Environment

(* Without "early", the Localbuild has the flags the cluster was made with.*)
LEMMA FlagsStep ==
  ASSUME TypeOK, BuildInv, StaticInv, FlagsInv, [Next]_vars
  PROVE  FlagsInv'
<1> SUFFICES ASSUME Guarded({"early"}), UNCHANGED scenario
             PROVE  FlagsInv'
  <2>1. UNCHANGED scenario
    BY PassKeepsFlags DEF Next, Command, Environment, Start, ReconcileKind, CheckFlags, WriteBuild, KindFails,
                          Interrupt, ClusterStops, TimerFires, FlagsStay, vars
  <2> QED
    BY <2>1 DEF FlagsInv, Guarded
<1> USE DEF FlagsInv, Exists, O
<1>1. CASE Pass \/ \E p \in Packages : BecomeReady(p) \/ PodStops(p)
  <2>1. FlagsStay
    BY <1>1, PassKeepsFlags
  <2>2. pc' = pc \/ (pc' = "exited" /\ build.flags # 0)
    <3>1. CASE Installers \/ Passwords
      BY <3>1, InstallersType, PasswordsType DEF InstallerEffect, PasswordsEffect
    <3>2. CASE ~(Installers \/ Passwords)
      BY <1>1, <3>2 DEF Pass, BeginPass, AllOver, Apps, Exit, BecomeReady, PodStops, frame, BuildInv
    <3> QED
      BY <3>1, <3>2
  <2> QED
    BY <2>1, <2>2 DEF FlagsStay
<1>2. CASE Start
  BY <1>2 DEF Start, world
<1>3. CASE ReconcileKind
  BY <1>3 DEF ReconcileKind, NewCluster, NoBuild, world
<1>4. CASE KindFails
  BY <1>4 DEF KindFails, NoCluster, NoBuild, world
<1>5. CASE CheckFlags
  <2>1. O \in Invocation
    BY <1>5, CurrentInvocation DEF CheckFlags, BuildInv
  <2>2. O.flags # 0
    BY <2>1 DEF Invocation
  <2>3. pc = "check" /\ UNCHANGED <<scenario, run, cluster, build>> /\ cluster.id # 0
    BY <1>5 DEF CheckFlags, world, BuildInv
  <2>4. CASE Compatible
    BY <1>5, <2>2, <2>3, <2>4 DEF CheckFlags, Compatible
  <2>5. CASE ~Compatible
    BY <1>5, <2>3, <2>5 DEF CheckFlags, Compatible
  <2> QED
    BY <2>4, <2>5
<1>6. CASE WriteBuild
  <2>1. O \in Invocation
    BY <1>6, CurrentInvocation DEF WriteBuild, BuildInv
  <2>2. build'.flags = O.flags /\ O.flags # 0
    BY <1>6, <2>1 DEF WriteBuild, TypeOK, Invocation
  <2>3. pc = "write" /\ pc' = "run" /\ UNCHANGED <<scenario, run, cluster>>
    BY <1>6 DEF WriteBuild
  <2> QED
    BY <2>2, <2>3
<1>7. CASE Interrupt
  BY <1>7 DEF Interrupt, Fault, Guarded, world, StaticInv, BuildInv
<1>8. CASE ClusterStops \/ TimerFires
  BY <1>8 DEF ClusterStops, TimerFires, TypeOK, world
<1>9. CASE UNCHANGED vars
  BY <1>9 DEF vars
<1> QED
  BY <1>1, <1>2, <1>3, <1>4, <1>5, <1>6, <1>7, <1>8, <1>9 DEF Next, Command, Environment

----------------------------------------------------------------------------
(* Passwords *)

(* A password step is no fault of the guard, and keeps what AgreeInv says. *)
LEMMA PasswordsAgreeStep ==
  ASSUME TypeOK, BuildInv, AgreeInv, Guarded({"rotate", "argodown"}), Passwords
  PROVE  AgreeInv'
<1>0. ~Fault("rotate") /\ UNCHANGED <<scenario, ready>>
  BY PasswordsType DEF Fault, Guarded, PasswordsEffect
<1> USE <1>0 DEF AgreeInv, Guarded, Answering, frame, TypeOK, Creds, GoTo, Goes, Reads, Renamed, Rotation
<1>1. CASE step' = "rest" /\ UNCHANGED <<secret, service>> /\ step \notin {"argoverify", "argopatch", "giteatoken", "giteapatch"}
  BY <1>1
<1>2. CASE ArgoSecret
  BY <1>1, <1>2 DEF ArgoSecret, Extract, Quit, EndPass, Rest
<1>3. CASE ArgoLogin
  BY <1>1, <1>3 DEF ArgoLogin, Deaf, Quit, FailBefore, EndPass, EndPassFor, Rest
<1>4. CASE ArgoPut
  BY <1>4 DEF ArgoPut, Deaf, EndPassFor
<1>5. CASE ArgoVerify
  BY <1>5 DEF ArgoVerify, Deaf, FailBefore, EndPassFor
<1>6. CASE ArgoPatch
  BY <1>6 DEF ArgoPatch, FailBefore, EndPassFor
<1>7. CASE GiteaSecret
  BY <1>1, <1>7 DEF GiteaSecret, Extract, Quit, EndPass, Rest
<1>8. CASE GiteaEdit
  BY <1>1, <1>8 DEF GiteaEdit, Quit, FailBefore, EndPass, EndPassFor, Rest
<1>9. CASE GiteaToken
  BY <1>9 DEF GiteaToken, GetToken, EndPassFor
<1>10. CASE GiteaPatch
  BY <1>10 DEF GiteaPatch, FailBefore, EndPassFor
<1> QED
  BY <1>2, <1>3, <1>4, <1>5, <1>6, <1>7, <1>8, <1>9, <1>10 DEF Passwords

(* Nothing else comes between the change of a password and its secret.     *)
LEMMA AgreeStep ==
  ASSUME TypeOK, BuildInv, AgreeInv, [Next]_vars
  PROVE  AgreeInv'
<1> SUFFICES ASSUME Guarded({"rotate", "argodown"}), UNCHANGED scenario
             PROVE  AgreeInv'
  <2>1. UNCHANGED scenario
    BY PassKeepsFlags DEF Next, Command, Environment, Start, ReconcileKind, CheckFlags, WriteBuild, KindFails,
                          Interrupt, ClusterStops, TimerFires, FlagsStay, vars
  <2> QED
    BY <2>1 DEF AgreeInv, Guarded
<1>1. CASE Passwords
  BY <1>1, PasswordsAgreeStep
<1> USE DEF AgreeInv, Answering
<1>2. CASE Installers
  BY <1>2, InstallersType DEF InstallerEffect
<1>3. CASE Start \/ CheckFlags \/ WriteBuild \/ ClusterStops \/ TimerFires
  <2>1. UNCHANGED <<scenario, step, login, applied, ready, secret, service>>
    BY <1>3 DEF Start, CheckFlags, WriteBuild, ClusterStops, TimerFires, world, pass
  <2>2. CASE Start
    <3>1. pc \in {"idle", "exited", "failed"} /\ pc' # "exited"
      BY <2>2 DEF Start
    <3>2. step = "rest"
      BY <3>1 DEF TypeOK
    <3> QED
      BY <2>1, <3>1, <3>2
  <2>3. CASE ~Start
    <3>1. UNCHANGED run /\ (pc' = "exited" => pc = "exited")
      BY <1>3, <2>3 DEF CheckFlags, WriteBuild, ClusterStops, TimerFires
    <3> QED
      BY <2>1, <3>1
  <2> QED
    BY <2>2, <2>3
<1>4. CASE ReconcileKind \/ KindFails
  BY <1>4 DEF ReconcileKind, KindFails, NewCluster, Blank, world, pass, TypeOK
<1>5. CASE Interrupt
  <2>1. step \notin Rotation
    BY <1>5 DEF Interrupt, Undisturbed, Guarded
  <2> QED
    BY <1>5, <2>1 DEF Interrupt, Rest, world, Rotation
<1>6. CASE BeginPass \/ AllOver \/ Exit
  BY <1>6 DEF BeginPass, Idle, AllOver, Exit, Rest, world
<1>7. CASE Apps
  BY <1>7 DEF Apps, Quit, EndPass, Rest
<1>8. ASSUME NEW p \in Packages, PodStops(p)
      PROVE  AgreeInv'
  <2>1. p = "gitea" /\ step \notin Rotation
    BY <1>8 DEF PodStops, Fault, Guarded, Undisturbed
  <2> QED
    BY <1>8, <2>1 DEF PodStops, pass, Rotation
<1>9. ASSUME NEW p \in Packages, BecomeReady(p)
      PROVE  AgreeInv'
  BY <1>9 DEF BecomeReady, pass, TypeOK, Creds
<1>10. CASE UNCHANGED vars
  BY <1>10 DEF vars
<1> QED
  BY <1>1, <1>2, <1>3, <1>4, <1>5, <1>6, <1>7, <1>8, <1>9, <1>10 DEF Next, Command, Pass, Environment

----------------------------------------------------------------------------
(* Tokens *)

(* A pass that ends leaves a token that is good, or none.                  *)
LEMMA TokenAtTheEnd ==
  ASSUME TypeOK, TokenInv, UNCHANGED scenario, NEW kind, EndPass \/ EndPassFor(kind),
         secret.token # 0 => secret'.token # 0,
         Guarded({"rotate", "lag"}) => secret'.token \in {0, service'.token}
  PROVE  TokenInv'
<1>1. step' = "rest" /\ local' = {} /\ login' = NoLogin
  BY EndEffect
<1>2. build'.status \in {build.status, local}
  BY EndEffect DEF TypeOK
<1> QED
  BY <1>1, <1>2 DEF TokenInv, NoLogin, Guarded

(* So does one whose installers are cancelled in the middle of a request.  *)
LEMMA TokenWhenCancelled ==
  ASSUME TypeOK, TokenInv, step = "install", NEW p, Cancelled(p)
  PROVE  /\ secret.token # 0 => secret'.token # 0
         /\ Guarded({"rotate", "lag"}) => secret'.token \in {0, service'.token}
BY DEF TypeOK, TokenInv, Cancelled, Creds, Fresh

(* The installer of Gitea.                                                 *)
LEMMA InstallersToken ==
  ASSUME TypeOK, BuildInv, TokenInv, Installers
  PROVE  TokenInv'
<1>0. UNCHANGED scenario
  BY InstallersType DEF InstallerEffect
<1>1. CASE EndpointFails
  BY <1>0, <1>1, TokenAtTheEnd, TokenWhenCancelled DEF EndpointFails, Stop, Installing
<1>2. CASE TokenFails
  <2>1. /\ step = "install" /\ inst["gitea"] = "token" /\ UNCHANGED secret
        /\ service' = service \/ service'.token = 0
    BY <1>2 DEF TokenFails, Installing, TypeOK, Creds
  <2>2. Guarded({"rotate", "lag"}) => secret.token = 0
    BY <2>1 DEF TokenInv
  <2> QED
    BY <1>0, <1>2, <2>1, <2>2, TokenAtTheEnd DEF TokenFails
<1>3. ASSUME NEW p \in Packages, ApplyFails(p) \/ WaitTimesOut(p) \/ InstallerFails(p)
      PROVE  TokenInv'
  BY <1>0, <1>3, TokenAtTheEnd, TokenWhenCancelled
     DEF ApplyFails, WaitTimesOut, InstallerFails, Stop, Installing
<1> USE <1>0 DEF TokenInv, TypeOK, Installing, Proceed, Available, Creds, Packages, Guarded, Fault
<1>4. CASE ReadGitea
  BY <1>4 DEF ReadGitea, NoLogin, world
<1>5. CASE Endpoint
  BY <1>5 DEF Endpoint, world
<1>6. CASE Token
  BY <1>6 DEF Token, GetToken, Fresh
<1>7. CASE PatchToken
  BY <1>7 DEF PatchToken
<1>8. ASSUME NEW p \in Packages, Apply(p)
      PROVE  TokenInv'
  BY <1>8 DEF Apply
<1>9. ASSUME NEW p \in Packages, Wait(p)
      PROVE  TokenInv'
  BY <1>9 DEF Wait, world
<1> QED
  BY <1>1, <1>2, <1>3, <1>4, <1>5, <1>6, <1>7, <1>8, <1>9 DEF Installers

(* The change of the password of Gitea, which makes a token too.           *)
LEMMA PasswordsToken ==
  ASSUME TypeOK, BuildInv, TokenInv, Passwords
  PROVE  TokenInv'
<1>0. UNCHANGED scenario
  BY PasswordsType DEF PasswordsEffect
<1>1. ASSUME NEW kind, EndPass \/ EndPassFor(kind), UNCHANGED secret, service'.token = service.token,
             Guarded({"rotate", "lag"}) => step # "giteapatch"
      PROVE  TokenInv'
  <2>1. Guarded({"rotate", "lag"}) => secret.token \in {0, service.token}
    BY <1>1 DEF TokenInv
  <2> QED
    BY <1>0, <1>1, <2>1, TokenAtTheEnd
<1>2. ASSUME UNCHANGED <<build, local, held>>, secret'.token = secret.token, service'.token = service.token,
             step \notin {"giteapatch", "install"}, step' \notin {"giteapatch", "install", "rest"},
             login'.token \in {login.token, 0}
      PROVE  TokenInv'
  BY <1>0, <1>2 DEF TokenInv, Guarded
<1> USE DEF GoTo, Goes, Reads, NoLogin, Renamed, TypeOK, Creds
<1>3. CASE ArgoSecret \/ GiteaSecret
  BY <1>1, <1>2, <1>3 DEF ArgoSecret, GiteaSecret, Extract, Quit
<1>4. CASE ArgoLogin \/ ArgoVerify
  BY <1>1, <1>2, <1>4 DEF ArgoLogin, ArgoVerify, Quit, FailBefore
<1>5. CASE ArgoPut
  BY <1>1, <1>2, <1>5 DEF ArgoPut, Quit
<1>6. CASE ArgoPatch
  BY <1>1, <1>2, <1>6 DEF ArgoPatch, FailBefore
<1>7. CASE GiteaEdit
  BY <1>1, <1>2, <1>7 DEF GiteaEdit, Quit, FailBefore
<1>8. CASE GiteaToken
  <2>1. CASE GetToken("developer") /\ GoTo("giteapatch")
    BY <1>0, <1>8, <2>1 DEF GiteaToken, GetToken, Fresh, TokenInv, Guarded
  <2>2. CASE EndPass /\ UNCHANGED service
    BY <1>1, <1>8, <2>2 DEF GiteaToken
  <2>3. CASE EndPassFor("rotate")
    BY <1>0, <1>8, <2>3, TokenAtTheEnd DEF GiteaToken, EndPassFor, Fault, Guarded
  <2> QED
    BY <1>8, <2>1, <2>2, <2>3 DEF GiteaToken
<1>9. CASE GiteaPatch
  <2>1. CASE GoTo("apps")
    BY <1>0, <1>9, <2>1 DEF GiteaPatch, FailBefore, EndPassFor, Rest, TokenInv, Guarded
  <2>2. CASE FailBefore("rotate")
    BY <1>0, <1>1, <1>9, <2>2 DEF GiteaPatch, FailBefore, EndPassFor, Fault, Guarded
  <2> QED
    BY <1>9, <2>1, <2>2 DEF GiteaPatch
<1> QED
  BY <1>3, <1>4, <1>5, <1>6, <1>7, <1>8, <1>9 DEF Passwords

(* No other step makes or loses a token, but that of a new cluster.        *)
LEMMA TokenStep ==
  ASSUME TypeOK, BuildInv, TokenInv, [Next]_vars
  PROVE  TokenInv'
<1>1. CASE Installers
  BY <1>1, InstallersToken
<1>2. CASE Passwords
  BY <1>2, PasswordsToken
<1>3. CASE Apps
  <2>1. EndPass /\ UNCHANGED <<scenario, secret, service>> /\ step = "apps"
    BY <1>3 DEF Apps, Quit, frame
  <2> QED
    BY <2>1, TokenAtTheEnd DEF TokenInv
<1> USE DEF TokenInv, Guarded
<1>4. CASE Start \/ CheckFlags \/ ClusterStops \/ TimerFires
  BY <1>4 DEF Start, CheckFlags, ClusterStops, TimerFires, world, pass
<1>5. CASE WriteBuild
  BY <1>5 DEF WriteBuild, pass, TypeOK
<1>6. CASE ReconcileKind \/ KindFails
  BY <1>6 DEF ReconcileKind, KindFails, NewCluster, NoBuild, Blank, NoLogin, world, pass, TypeOK
<1>7. CASE BeginPass
  BY <1>7 DEF BeginPass, Idle, NoLogin, Packages, world
<1>8. CASE AllOver
  BY <1>8 DEF AllOver, world
<1>9. CASE Exit
  BY <1>9 DEF Exit, Rest, NoLogin, world
<1>10. CASE Interrupt
  <2>1. Guarded({"rotate", "lag"}) => step # "giteapatch"
    BY <1>10 DEF Interrupt, Undisturbed, Rotation
  <2> QED
    BY <1>10, <2>1 DEF Interrupt, Rest, NoLogin, world
<1>11. ASSUME NEW p \in Packages, PodStops(p) \/ BecomeReady(p)
       PROVE  TokenInv'
  BY <1>11 DEF PodStops, BecomeReady, pass, TypeOK, Creds
<1>12. CASE UNCHANGED vars
  BY <1>12 DEF vars
<1> QED
  BY <1>1, <1>2, <1>3, <1>4, <1>5, <1>6, <1>7, <1>8, <1>9, <1>10, <1>11, <1>12
     DEF Next, Command, Pass, Environment

----------------------------------------------------------------------------
(* The end of a command with --dev-password *)

(* The steps of the passwords leave out none that is to be changed.        *)
LEMMA PasswordsRotated ==
  ASSUME TypeOK, BuildInv, StaticInv, AgreeInv, RotatedInv, Passwords
  PROVE  RotatedInv'
<1>1. UNCHANGED <<scenario, run, pc, applied, ready>>
  BY PasswordsType DEF PasswordsEffect
<1> SUFFICES ASSUME Guarded({"read", "argodown", "rotate"})
             PROVE  RotatedInv'
  BY <1>1 DEF RotatedInv, Guarded
<1>2. ~Fault("read") /\ ~Fault("rotate") /\ Guarded({"rotate", "argodown"}) /\ O' = O /\ pc # "exited"
  BY <1>1, PasswordsType DEF Fault, Guarded, PasswordsEffect, O, TypeOK, Rotation
<1> USE <1>1, <1>2 DEF RotatedInv, AgreeInv, Answering, frame, TypeOK, Creds, Passwd, GoTo, Goes, Reads, Renamed
<1>3. CASE step' = "rest" /\ secret' = secret /\ service' = service
  BY <1>3
<1>4. CASE ArgoSecret
  <2>1. CASE Quit
    BY <1>3, <2>1 DEF Quit, EndPass, Rest
  <2>2. CASE ~Quit
    <3>1. UNCHANGED <<secret, service>> /\ secret.argocd # "none" /\ step' \in {"argologin", "giteasecret"}
      BY <1>4, <2>2 DEF ArgoSecret, Extract
    <3>2. step' = "argologin" => login'.password = "generated"
      BY <1>4, <2>2 DEF ArgoSecret, Extract, NoLogin
    <3>3. step' = "giteasecret" => secret.argocd = "developer"
      BY <1>4, <2>2 DEF ArgoSecret, Extract
    <3> QED
      BY <3>1, <3>2, <3>3
  <2> QED
    BY <2>1, <2>2
<1>5. CASE ArgoLogin
  <2>1. CASE Quit \/ FailBefore("login")
    BY <1>3, <2>1 DEF Quit, FailBefore, EndPass, EndPassFor, Rest
  <2>2. CASE ~(Quit \/ FailBefore("login"))
    <3>1. Answering("argocd") /\ service.argocd \in {"generated", "developer"} /\ login.password = "generated"
      BY <1>5, <2>2 DEF ArgoLogin, Deaf
    <3>2. step' = "giteasecret" => secret.argocd = "developer"
      BY <1>5, <2>2, <3>1 DEF ArgoLogin
    <3> QED
      BY <1>5, <2>2, <3>2 DEF ArgoLogin
  <2> QED
    BY <2>1, <2>2
<1>6. CASE ArgoPut
  <2>1. step' \in {"argoverify", "rest"} /\ UNCHANGED secret
    BY <1>6 DEF ArgoPut, Quit, EndPass, EndPassFor, Rest
  <2>2. service'.gitea = service.gitea /\ service'.argocd \in {service.argocd, "developer"}
    BY <1>6 DEF ArgoPut, Quit
  <2> QED
    BY <2>1, <2>2
<1>7. CASE ArgoVerify
  BY <1>7 DEF ArgoVerify, Deaf, FailBefore, EndPassFor
<1>8. CASE ArgoPatch
  BY <1>8 DEF ArgoPatch, FailBefore, EndPassFor
<1>9. CASE GiteaSecret
  BY <1>3, <1>9 DEF GiteaSecret, Extract, Quit, EndPass, Rest
<1>10. CASE GiteaEdit
  BY <1>3, <1>10 DEF GiteaEdit, Quit, FailBefore, EndPass, EndPassFor, Rest
<1>11. CASE GiteaToken
  BY <1>11 DEF GiteaToken, GetToken, EndPassFor
<1>12. CASE GiteaPatch
  BY <1>12 DEF GiteaPatch, FailBefore, EndPassFor
<1> QED
  BY <1>4, <1>5, <1>6, <1>7, <1>8, <1>9, <1>10, <1>11, <1>12 DEF Passwords

(* Nor does any other step.                                                *)
LEMMA RotatedStep ==
  ASSUME TypeOK, BuildInv, StaticInv, AgreeInv, RotatedInv, [Next]_vars
  PROVE  RotatedInv'
<1>1. CASE Passwords
  BY <1>1, PasswordsRotated
<1> USE DEF RotatedInv, Guarded, O
<1>2. CASE Installers
  <2>1. InstallerEffect
    BY <1>2, InstallersType
  <2>2. pc # "exited" /\ pc' # "exited"
    BY <2>1 DEF InstallerEffect, TypeOK
  <2>3. UNCHANGED scenario /\ step' \in {"install", "rest"}
    BY <2>1 DEF InstallerEffect
  <2> QED
    BY <2>1, <2>2, <2>3 DEF InstallerEffect
<1>3. CASE Start \/ CheckFlags \/ WriteBuild \/ ClusterStops \/ TimerFires
  <2>1. UNCHANGED <<scenario, step, login, applied, ready, secret, service>>
    BY <1>3 DEF Start, CheckFlags, WriteBuild, ClusterStops, TimerFires, world, pass
  <2>2. CASE Start
    <3>1. pc \in {"idle", "exited", "failed"} /\ pc' # "exited"
      BY <2>2 DEF Start
    <3>2. step = "rest"
      BY <3>1 DEF TypeOK
    <3> QED
      BY <2>1, <3>1, <3>2
  <2>3. CASE ~Start
    <3>1. UNCHANGED run /\ (pc' = "exited" => pc = "exited")
      BY <1>3, <2>3 DEF CheckFlags, WriteBuild, ClusterStops, TimerFires
    <3> QED
      BY <2>1, <3>1
  <2> QED
    BY <2>2, <2>3
<1>4. CASE ReconcileKind \/ KindFails
  <2>1. pc = "kind" /\ pc' # "exited" /\ UNCHANGED <<scenario, run, step>>
    BY <1>4 DEF ReconcileKind, KindFails, pass
  <2>2. step = "rest"
    BY <2>1 DEF TypeOK
  <2>3. \/ UNCHANGED <<applied, ready, secret, service>>
        \/ applied' = {} /\ ready' = {} /\ secret' = Blank /\ service' = Blank
    BY <1>4 DEF ReconcileKind, KindFails, NewCluster, world
  <2> QED
    BY <2>1, <2>2, <2>3 DEF Blank
<1>5. CASE Interrupt
  BY <1>5 DEF Interrupt, Rest, world
<1>6. CASE BeginPass \/ AllOver
  <2>1. UNCHANGED <<scenario, run, pc, applied, ready, secret, service>>
    BY <1>6 DEF BeginPass, AllOver, world
  <2>2. step' \in {"install", "argosecret"} \/ (step' = "apps" /\ ~O.static)
    BY <1>6 DEF BeginPass, AllOver
  <2> QED
    BY <2>1, <2>2
<1>7. CASE Apps
  BY <1>7 DEF Apps, Quit, EndPass, Rest, frame, TypeOK
<1>8. CASE Exit
  BY <1>8 DEF Exit, Rest, world, Answering
<1>9. ASSUME NEW p \in Packages, PodStops(p)
      PROVE  RotatedInv'
  BY <1>9 DEF PodStops, Fault, pass
<1>10. ASSUME NEW p \in Packages, BecomeReady(p)
       PROVE  RotatedInv'
  BY <1>10 DEF BecomeReady, pass, TypeOK, Creds
<1>11. CASE UNCHANGED vars
  BY <1>11 DEF vars
<1> QED
  BY <1>1, <1>2, <1>3, <1>4, <1>5, <1>6, <1>7, <1>8, <1>9, <1>10, <1>11 DEF Next, Command, Pass, Environment

----------------------------------------------------------------------------

(* The inductive invariant holds at the start and after every step.        *)
LEMMA Inductive == Spec => []IInv
<1>1. Init => IInv
  <2> SUFFICES ASSUME Init PROVE IInv
    OBVIOUS
  <2> QED
    BY TypeInit DEF Init, IInv, StaticInv, FlagsInv, AgreeInv, TokenInv, RotatedInv, NoLogin, NoCluster, NoBuild, Blank, Exists, Rotation
<1>2. IInv /\ [Next]_vars => IInv'
  BY TypeStep, StaticStep, FlagsStep, AgreeStep, TokenStep, RotatedStep DEF IInv
<1> QED
  BY <1>1, <1>2, PTL DEF Spec

(* A command that runs works with the flags its cluster was made with, and *)
(* without --dev-password with no service that has it (isCompatible).      *)
THEOREM RunsWithItsFlags == Spec => []FlagsMatch
<1>1. IInv => FlagsMatch
  BY DEF IInv, StaticInv, FlagsInv, FlagsMatch
<1> QED
  BY <1>1, Inductive, PTL

(* The secrets have the passwords that the services take, but for the      *)
(* steps in between (updateArgocdPassword, updateGiteaPassword), whatever  *)
(* passes fail, restart or are interrupted outside these.                  *)
THEOREM SecretsAreTrue == Spec => []PasswordsAgree
<1>1. IInv => PasswordsAgree
  BY DEF IInv, AgreeInv, PasswordsAgree, Rotation
<1> QED
  BY <1>1, Inductive, PTL

(* What the status calls available has a token in its secret, and the      *)
(* token is the one that Gitea takes (getGiteaToken deletes the others).   *)
THEOREM TokensWork == Spec => []TokenIsCurrent
<1>1. IInv => TokenIsCurrent
  BY DEF IInv, TokenInv, TokenIsCurrent, Rotation
<1> QED
  BY <1>1, Inductive, PTL

(* A command with --dev-password that ends by itself has changed both      *)
(* passwords, in the services and in the secrets.                          *)
THEOREM ExitIsRotated == Spec => []ExitMeansRotated
<1>1. IInv => ExitMeansRotated
  <2> SUFFICES ASSUME IInv, Guarded({"read", "argodown", "rotate"}), pc = "exited", O.static
               PROVE  ExitMeansRotated
    BY DEF ExitMeansRotated
  <2>1. step = "rest" /\ Guarded({"rotate", "argodown"})
    BY DEF IInv, TypeOK, Guarded
  <2> QED
    BY <2>1 DEF IInv, AgreeInv, RotatedInv, ExitMeansRotated
<1> QED
  BY <1>1, Inductive, PTL
=============================================================================
