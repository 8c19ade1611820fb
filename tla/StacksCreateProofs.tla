------------------------- MODULE StacksCreateProofs -------------------------
(***************************************************************************)
(* What `stacks create` promises, for every set of workers, every scenario *)
(* and every number of commands.                                           *)
(*                                                                         *)
(* The command walks down a line of phases, of which its options leave out *)
(* some.  First the line: what follows a step (KindAfter, TalosAfter) and  *)
(* the order of the bootstrap (BootOrder).  Then the invariant in six      *)
(* parts, each kept by every step: the place on the line, the goroutine,   *)
(* the devices, the cluster, its freshness, and the bootstrap so far.      *)
(***************************************************************************)
EXTENDS StacksCreate, TLAPS

----------------------------------------------------------------------------
(* The line *)

(* A step has one place in its line.                                       *)
Distinct ==
  /\ DOMAIN Line \subseteq Nat \ {0}
  /\ \A k \in DOMAIN Line : 1 .. k \subseteq DOMAIN Line
  /\ \A k, l \in DOMAIN Line : Line[k] = Line[l] => k = l

(* What comes behind a step is the first that is not skipped.              *)
LEMMA Behindmost ==
  ASSUME Distinct, NEW i \in DOMAIN Line, NEW j \in DOMAIN Line, i < j, Line[j] \notin Skipped,
         \A k \in DOMAIN Line : i < k /\ k < j => Line[k] \in Skipped
  PROVE  After(Line[i]) = Line[j]
<1>1. j \in Behind(Line[i])
  BY DEF Behind, Distinct
<1>2. ASSUME NEW k \in Behind(Line[i])
      PROVE  k \in DOMAIN Line /\ k \in Nat /\ j <= k
  <2>1. k \in DOMAIN Line /\ Line[k] \notin Skipped
    BY DEF Behind
  <2>2. PICK l \in 1 .. (k - 1) : Line[l] = Line[i]
    BY DEF Behind
  <2>3. k \in Nat /\ j \in Nat /\ i \in Nat /\ l \in DOMAIN Line
    BY <2>1, <2>2 DEF Distinct
  <2>4. i < k
    BY <2>2, <2>3 DEF Distinct
  <2> QED
    BY <2>1, <2>3, <2>4
<1>3. \A k \in Behind(Line[i]) : (\A l \in Behind(Line[i]) : k <= l) => k = j
  BY <1>1, <1>2 DEF Distinct
<1>4. \A l \in Behind(Line[i]) : j <= l
  BY <1>2
<1>5. (CHOOSE k \in Behind(Line[i]) : \A l \in Behind(Line[i]) : k <= l) = j
  BY <1>1, <1>3, <1>4
<1> QED
  BY <1>5 DEF After

(* The next step, when it is not skipped.                                  *)
LEMMA Successor ==
  ASSUME Distinct
  PROVE  \A i, j \in DOMAIN Line : j = i + 1 /\ Line[j] \notin Skipped => After(Line[i]) = Line[j]
<1> TAKE i, j \in DOMAIN Line
<1> HAVE j = i + 1 /\ Line[j] \notin Skipped
<1>1. i < j /\ \A k \in DOMAIN Line : ~(i < k /\ k < j)
  BY DEF Distinct
<1> QED
  BY <1>1, Behindmost

(* The one after it, when the next is skipped.                             *)
LEMMA NextButOne ==
  ASSUME Distinct
  PROVE  \A i, j, l \in DOMAIN Line :
           j = i + 1 /\ l = i + 2 /\ Line[j] \in Skipped /\ Line[l] \notin Skipped => After(Line[i]) = Line[l]
<1> TAKE i, j, l \in DOMAIN Line
<1> HAVE j = i + 1 /\ l = i + 2 /\ Line[j] \in Skipped /\ Line[l] \notin Skipped
<1>1. i < l /\ \A k \in DOMAIN Line : i < k /\ k < l => k = j
  BY DEF Distinct
<1> QED
  BY <1>1, Behindmost

(* The line of a kind cluster, step by step.                               *)
LEMMA KindIndex ==
  ASSUME ~IsTalos
  PROVE  /\ DOMAIN Line = 1 .. 24
         /\ \A k, l \in 1 .. 24 : Line[k] = Line[l] => k = l
         /\ Line[1] = "azure"
         /\ Line[2] = "probe"
         /\ Line[3] = "predelete"
         /\ Line[4] = "delete"
         /\ Line[5] = "postdelete"
         /\ Line[6] = "precreate"
         /\ Line[7] = "auth"
         /\ Line[8] = "create"
         /\ Line[9] = "patch"
         /\ Line[10] = "preload"
         /\ Line[11] = "infra"
         /\ Line[12] = "repos"
         /\ Line[13] = "snapshot"
         /\ Line[14] = "images"
         /\ Line[15] = "argocd"
         /\ Line[16] = "secret"
         /\ Line[17] = "await"
         /\ Line[18] = "root"
         /\ Line[19] = "jwks"
         /\ Line[20] = "argoinit"
         /\ Line[21] = "cohorts"
         /\ Line[22] = "access"
         /\ Line[23] = "kubeconfig"
         /\ Line[24] = "finish"
BY DEF Line, KindSteps, Bootstrap

(* What follows a step on a kind cluster, for every command line: only an  *)
(* optional step is left out.                                              *)
LEMMA KindAfter ==
  ASSUME ~IsTalos, O \in Options
  PROVE
    /\ After("azure") = "probe"
    /\ After("probe") = "predelete"
    /\ After("predelete") = "delete"
    /\ After("delete") = "postdelete"
    /\ After("postdelete") = "precreate"
    /\ After("precreate") = "auth"
    /\ After("auth") = "create"
    /\ After("create") = "patch"
    /\ After("patch") = "preload"
    /\ After("preload") = "infra"
    /\ After("infra") = "repos"
    /\ After("repos") = "snapshot"
    /\ After("snapshot") = IF "images" \in O.skip THEN "argocd" ELSE "images"
    /\ After("images") = "argocd"
    /\ After("argocd") = "secret"
    /\ After("secret") = "await"
    /\ After("await") = "root"
    /\ After("root") = "jwks"
    /\ After("jwks") = IF "argoinit" \in O.skip THEN "cohorts" ELSE "argoinit"
    /\ After("argoinit") = "cohorts"
    /\ After("cohorts") = "access"
    /\ After("access") = IF "kubeconfig" \in O.skip THEN "finish" ELSE "kubeconfig"
    /\ After("kubeconfig") = "finish"
<1>1. O.skip \subseteq Optional /\ Distinct
  BY KindIndex DEF Options, Distinct
<1>2. \A p : p \in Skipped <=> p \in O.skip
  BY ~IsTalos DEF Skipped
<1>s1. After("azure") = "probe"
  BY <1>1, <1>2, Successor, KindIndex DEF Optional
<1>s2. After("probe") = "predelete"
  BY <1>1, <1>2, Successor, KindIndex DEF Optional
<1>s3. After("predelete") = "delete"
  BY <1>1, <1>2, Successor, KindIndex DEF Optional
<1>s4. After("delete") = "postdelete"
  BY <1>1, <1>2, Successor, KindIndex DEF Optional
<1>s5. After("postdelete") = "precreate"
  BY <1>1, <1>2, Successor, KindIndex DEF Optional
<1>s6. After("precreate") = "auth"
  BY <1>1, <1>2, Successor, KindIndex DEF Optional
<1>s7. After("auth") = "create"
  BY <1>1, <1>2, Successor, KindIndex DEF Optional
<1>s8. After("create") = "patch"
  BY <1>1, <1>2, Successor, KindIndex DEF Optional
<1>s9. After("patch") = "preload"
  BY <1>1, <1>2, Successor, KindIndex DEF Optional
<1>s10. After("preload") = "infra"
  BY <1>1, <1>2, Successor, KindIndex DEF Optional
<1>s11. After("infra") = "repos"
  BY <1>1, <1>2, Successor, KindIndex DEF Optional
<1>s12. After("repos") = "snapshot"
  BY <1>1, <1>2, Successor, KindIndex DEF Optional
<1>s13. After("snapshot") = IF "images" \in O.skip THEN "argocd" ELSE "images"
  BY <1>1, <1>2, Successor, NextButOne, KindIndex DEF Optional
<1>s14. After("images") = "argocd"
  BY <1>1, <1>2, Successor, KindIndex DEF Optional
<1>s15. After("argocd") = "secret"
  BY <1>1, <1>2, Successor, KindIndex DEF Optional
<1>s16. After("secret") = "await"
  BY <1>1, <1>2, Successor, KindIndex DEF Optional
<1>s17. After("await") = "root"
  BY <1>1, <1>2, Successor, KindIndex DEF Optional
<1>s18. After("root") = "jwks"
  BY <1>1, <1>2, Successor, KindIndex DEF Optional
<1>s19. After("jwks") = IF "argoinit" \in O.skip THEN "cohorts" ELSE "argoinit"
  BY <1>1, <1>2, Successor, NextButOne, KindIndex DEF Optional
<1>s20. After("argoinit") = "cohorts"
  BY <1>1, <1>2, Successor, KindIndex DEF Optional
<1>s21. After("cohorts") = "access"
  BY <1>1, <1>2, Successor, KindIndex DEF Optional
<1>s22. After("access") = IF "kubeconfig" \in O.skip THEN "finish" ELSE "kubeconfig"
  BY <1>1, <1>2, Successor, NextButOne, KindIndex DEF Optional
<1>s23. After("kubeconfig") = "finish"
  BY <1>1, <1>2, Successor, KindIndex DEF Optional
<1> QED
  BY <1>s1, <1>s2, <1>s3, <1>s4, <1>s5, <1>s6, <1>s7, <1>s8, <1>s9, <1>s10, <1>s11, <1>s12, <1>s13,
     <1>s14, <1>s15, <1>s16, <1>s17, <1>s18, <1>s19, <1>s20, <1>s21, <1>s22, <1>s23

(* The line of a Talos cluster.                                            *)
LEMMA TalosIndex ==
  ASSUME IsTalos
  PROVE  /\ DOMAIN Line = 1 .. 27
         /\ \A k, l \in 1 .. 27 : Line[k] = Line[l] => k = l
         /\ Line[1] = "azure"
         /\ Line[2] = "preflight"
         /\ Line[3] = "predelete"
         /\ Line[4] = "delete"
         /\ Line[5] = "forget"
         /\ Line[6] = "launch"
         /\ Line[7] = "probe"
         /\ Line[8] = "precreate"
         /\ Line[9] = "clear"
         /\ Line[10] = "create"
         /\ Line[11] = "context"
         /\ Line[12] = "labels"
         /\ Line[13] = "capacity"
         /\ Line[14] = "infra"
         /\ Line[15] = "repos"
         /\ Line[16] = "snapshot"
         /\ Line[17] = "images"
         /\ Line[18] = "argocd"
         /\ Line[19] = "secret"
         /\ Line[20] = "await"
         /\ Line[21] = "root"
         /\ Line[22] = "jwks"
         /\ Line[23] = "argoinit"
         /\ Line[24] = "cohorts"
         /\ Line[25] = "access"
         /\ Line[26] = "kubeconfig"
         /\ Line[27] = "finish"
BY DEF Line, TalosSteps, Bootstrap

(* What follows a step on a Talos cluster: the removal of the old cluster  *)
(* is left out without --recreate, the script in the foreground with it.   *)
LEMMA TalosAfter ==
  ASSUME IsTalos, O \in Options
  PROVE
    /\ After("azure") = "preflight"
    /\ After("preflight") = IF O.recreate THEN "predelete" ELSE "probe"
    /\ O.recreate => After("predelete") = "delete"
    /\ O.recreate => After("delete") = "forget"
    /\ O.recreate => After("forget") = "launch"
    /\ After("launch") = "probe"
    /\ After("probe") = IF O.recreate THEN "clear" ELSE "precreate"
    /\ After("precreate") = "clear"
    /\ After("clear") = "create"
    /\ After("create") = "context"
    /\ After("context") = "labels"
    /\ After("labels") = "capacity"
    /\ After("capacity") = "infra"
    /\ After("infra") = "repos"
    /\ After("repos") = "snapshot"
    /\ After("snapshot") = IF "images" \in O.skip THEN "argocd" ELSE "images"
    /\ After("images") = "argocd"
    /\ After("argocd") = "secret"
    /\ After("secret") = "await"
    /\ After("await") = "root"
    /\ After("root") = "jwks"
    /\ After("jwks") = IF "argoinit" \in O.skip THEN "cohorts" ELSE "argoinit"
    /\ After("argoinit") = "cohorts"
    /\ After("cohorts") = "access"
    /\ After("access") = IF "kubeconfig" \in O.skip THEN "finish" ELSE "kubeconfig"
    /\ After("kubeconfig") = "finish"
<1>1. O.skip \subseteq Optional /\ Distinct
  BY TalosIndex DEF Options, Distinct
<1>2. \A p : p \in Skipped <=> p \in O.skip \/ (IF O.recreate THEN p = "precreate" ELSE p \in {"predelete", "delete", "forget", "launch"})
  BY IsTalos DEF Skipped
<1>3. ~O.recreate => After("preflight") = "probe"
  <2> HAVE ~O.recreate
  <2>1. \A k \in 1 .. 27 : 2 < k /\ k < 7 => Line[k] \in Skipped
    BY <1>2, TalosIndex
  <2>2. Line[7] \notin Skipped
    BY <1>1, <1>2, TalosIndex DEF Optional
  <2>3. PICK i \in DOMAIN Line, j \in DOMAIN Line : i = 2 /\ j = 7
    BY TalosIndex
  <2>4. Line[i] = "preflight" /\ Line[j] = "probe" /\ DOMAIN Line = 1 .. 27
    BY <2>3, TalosIndex
  <2>5. i < j /\ Line[j] \notin Skipped /\ \A k \in DOMAIN Line : i < k /\ k < j => Line[k] \in Skipped
    BY <2>1, <2>2, <2>3, <2>4
  <2> QED
    BY <1>1, <2>4, <2>5, Behindmost
<1>s1. After("azure") = "preflight"
  BY <1>1, <1>2, Successor, TalosIndex DEF Optional
<1>s2. After("preflight") = IF O.recreate THEN "predelete" ELSE "probe"
  BY <1>1, <1>2, <1>3, Successor, TalosIndex DEF Optional
<1>s3. O.recreate => After("predelete") = "delete"
  BY <1>1, <1>2, Successor, TalosIndex DEF Optional
<1>s4. O.recreate => After("delete") = "forget"
  BY <1>1, <1>2, Successor, TalosIndex DEF Optional
<1>s5. O.recreate => After("forget") = "launch"
  BY <1>1, <1>2, Successor, TalosIndex DEF Optional
<1>s6. After("launch") = "probe"
  BY <1>1, <1>2, Successor, TalosIndex DEF Optional
<1>s7. After("probe") = IF O.recreate THEN "clear" ELSE "precreate"
  BY <1>1, <1>2, Successor, NextButOne, TalosIndex DEF Optional
<1>s8. After("precreate") = "clear"
  BY <1>1, <1>2, Successor, TalosIndex DEF Optional
<1>s9. After("clear") = "create"
  BY <1>1, <1>2, Successor, TalosIndex DEF Optional
<1>s10. After("create") = "context"
  BY <1>1, <1>2, Successor, TalosIndex DEF Optional
<1>s11. After("context") = "labels"
  BY <1>1, <1>2, Successor, TalosIndex DEF Optional
<1>s12. After("labels") = "capacity"
  BY <1>1, <1>2, Successor, TalosIndex DEF Optional
<1>s13. After("capacity") = "infra"
  BY <1>1, <1>2, Successor, TalosIndex DEF Optional
<1>s14. After("infra") = "repos"
  BY <1>1, <1>2, Successor, TalosIndex DEF Optional
<1>s15. After("repos") = "snapshot"
  BY <1>1, <1>2, Successor, TalosIndex DEF Optional
<1>s16. After("snapshot") = IF "images" \in O.skip THEN "argocd" ELSE "images"
  BY <1>1, <1>2, Successor, NextButOne, TalosIndex DEF Optional
<1>s17. After("images") = "argocd"
  BY <1>1, <1>2, Successor, TalosIndex DEF Optional
<1>s18. After("argocd") = "secret"
  BY <1>1, <1>2, Successor, TalosIndex DEF Optional
<1>s19. After("secret") = "await"
  BY <1>1, <1>2, Successor, TalosIndex DEF Optional
<1>s20. After("await") = "root"
  BY <1>1, <1>2, Successor, TalosIndex DEF Optional
<1>s21. After("root") = "jwks"
  BY <1>1, <1>2, Successor, TalosIndex DEF Optional
<1>s22. After("jwks") = IF "argoinit" \in O.skip THEN "cohorts" ELSE "argoinit"
  BY <1>1, <1>2, Successor, NextButOne, TalosIndex DEF Optional
<1>s23. After("argoinit") = "cohorts"
  BY <1>1, <1>2, Successor, TalosIndex DEF Optional
<1>s24. After("cohorts") = "access"
  BY <1>1, <1>2, Successor, TalosIndex DEF Optional
<1>s25. After("access") = IF "kubeconfig" \in O.skip THEN "finish" ELSE "kubeconfig"
  BY <1>1, <1>2, Successor, NextButOne, TalosIndex DEF Optional
<1>s26. After("kubeconfig") = "finish"
  BY <1>1, <1>2, Successor, TalosIndex DEF Optional
<1> QED
  BY <1>s1, <1>s2, <1>s3, <1>s4, <1>s5, <1>s6, <1>s7, <1>s8, <1>s9, <1>s10, <1>s11, <1>s12, <1>s13,
     <1>s14, <1>s15, <1>s16, <1>s17, <1>s18, <1>s19, <1>s20, <1>s21, <1>s22, <1>s23, <1>s24, <1>s25, <1>s26

----------------------------------------------------------------------------
(* The invariant *)

Booting == InCluster \cup {"await"}
Rooted == {"jwks", "argoinit", "cohorts", "access", "kubeconfig"}
Launched == {"probe", "clear", "create", "context", "labels", "capacity"}

(* The command is at one of these steps, or it has come through.           *)
Through == (pc = "finish" /\ ~failed) \/ Succeeded
At(steps) == pc \in steps \/ Through

Place ==
  /\ pc \in {"idle", "azure", "probe", "predelete", "delete", "precreate", "create", "unwind", "finish"}
            \cup Booting
            \cup IF IsTalos THEN {"preflight", "forget", "launch", "clear", "context", "labels", "capacity"}
                 ELSE {"postdelete", "auth", "patch", "preload"}
  /\ pc # "idle" => run # 0 /\ result = "none"
  /\ result # "none" => run # 0
  /\ pc \in {"predelete", "delete", "postdelete", "forget", "launch"} => O.recreate
  /\ IsTalos /\ pc = "precreate" => ~O.recreate
  /\ failed => pc \in {"idle", "unwind", "finish"}
  /\ pc = "unwind" => failed
  /\ run # 0 => before < run
  /\ Faultless({"interrupt"}) => ~cancelled

(* The goroutine, its channel and what has been read of it.                *)
AsyncInv ==
  /\ waited = "no" => /\ IsTalos /\ O.recreate /\ pc \in Launched \cup (Booting \ Rooted) \cup {"unwind"}
                      /\ pc # "root"
                      /\ \/ cleanup = "running" /\ answer = "none"
                         \/ cleanup \in {"ok", "failed"} /\ answer = cleanup
  /\ pc # "idle" /\ ~(IsTalos /\ O.recreate) => waited = "nil"
  /\ waited = "nil" => cleanup = "none"
  /\ waited \in {"ok", "failed"} => cleanup = waited
  /\ pc \in {"azure", "preflight", "predelete", "delete", "forget", "launch"} => waited = "nil"
  /\ IsTalos /\ At(Launched \cup Booting) => (O.recreate => waited # "nil")
  /\ At({"root"} \cup Rooted) => (O.strict => waited # "failed")
  /\ "root" \in performed => pc \in Rooted \cup {"finish", "unwind", "idle"} /\ waited # "no"

(* Once the goroutine has succeeded, only the cluster there is has devices. *)
DeviceInv ==
  cleanup = "ok" => devices \subseteq {cluster.id} /\ (cluster.nodes = {} => devices = {})

(* The cluster, and where kubectl is turned.                               *)
ClusterInv ==
  /\ cluster.nodes # {} => cluster.id # 0
  /\ Faultless({"switch"}) => kubectl # "other"
  /\ IsTalos /\ pc \in {"labels", "capacity"} \cup Booting => kubectl = "this"
  /\ IsTalos /\ At(Booting) =>
       cluster.context = cluster.id /\ cluster.size = O.size /\ cluster.nodes = Nodes
  /\ ~IsTalos /\ cluster.context # 0 => cluster.context = cluster.id /\ cluster.nodes = Nodes
  /\ ~IsTalos /\ At({"patch", "preload"} \cup Booting) => cluster.nodes # {}
  /\ ~IsTalos /\ At(Booting \ {"infra"}) => (Faultless({"switch"}) => kubectl = "this")
  /\ ~IsTalos /\ Faultless({"phase", "interrupt"}) /\ cluster.id # 0 /\ pc # "patch" =>
       "patch" \in cluster.done

(* A cluster that is recreated is not the one that was found.              *)
FreshInv ==
  /\ IsTalos /\ pc \in {"launch", "probe", "clear", "create", "context"} =>
       (O.recreate /\ Faultless({"kubectl"}) =>
          cancelled \/ cluster.context = 0 \/ (pc = "context" /\ cluster.id = run))
  /\ IsTalos /\ At({"labels", "capacity"} \cup Booting) =>
       (O.recreate /\ Faultless({"kubectl"}) => cluster.id = run)
  /\ ~IsTalos /\ At({"patch", "preload"} \cup Booting) => (O.recreate => cluster.id = run)

(* The bootstrap so far.                                                   *)
Rank == [infra |-> 1, repos |-> 2, snapshot |-> 3, images |-> 4, argocd |-> 5, secret |-> 6, await |-> 7,
         root |-> 8, jwks |-> 9, argoinit |-> 10, cohorts |-> 11, access |-> 12, kubeconfig |-> 13]
BootInv ==
  IsTalos \/ Faultless({"switch"}) =>
    /\ stranger = {}
    /\ At(Booting) => \A q \in Fatal : (pc \in Booting => Rank[q] < Rank[pc]) => q \in cluster.done

CreateInv == TypeOK /\ Place /\ AsyncInv /\ DeviceInv /\ ClusterInv /\ FreshInv /\ BootInv

(* The command line is one of the scenario.                                *)
LEMMA OptionsType ==
  ASSUME TypeOK, Place, pc # "idle" \/ result # "none"
  PROVE  O \in Options /\ run \in 1 .. Len(scenario.runs) /\ scenario \in Scenarios
<1>1. scenario \in Scenarios /\ scenario.runs \in Seq(Options)
  BY CreateAssumption DEF TypeOK, Scenario
<1>2. run \in 1 .. Len(scenario.runs)
  BY <1>1 DEF TypeOK, Place
<1> QED
  BY <1>1, <1>2 DEF O

(* The bootstrap is the same for both providers, and goes on in its order. *)
LEMMA BootOrder ==
  ASSUME O \in Options, NEW p \in Booting
  PROVE  /\ After(p) \in (Booting \cup {"finish"}) \ {"infra"}
         /\ After(p) \in Rooted \cup {"finish"} <=> p \in Rooted \cup {"root"}
         /\ After(p) = "root" <=> p = "await"
         /\ \A q \in InCluster \ O.skip :
              (After(p) \in Booting => Rank[q] < Rank[After(p)]) => q = p \/ Rank[q] < Rank[p]
<1> USE DEF Booting, InCluster, Rooted, Rank
<1>1. CASE p \in {"infra", "repos", "snapshot", "images"}
  BY <1>1, KindAfter, TalosAfter
<1>2. CASE p \in {"argocd", "secret", "await", "root"}
  BY <1>2, KindAfter, TalosAfter
<1>3. CASE p \in {"jwks", "argoinit", "cohorts"}
  BY <1>3, KindAfter, TalosAfter
<1>4. CASE p \in {"access", "kubeconfig"}
  BY <1>4, KindAfter, TalosAfter
<1> QED
  BY <1>1, <1>2, <1>3, <1>4

(* No phase comes before the infrastructure.                               *)
LEMMA BootFirst ==
  ASSUME NEW q \in InCluster
  PROVE  ~(Rank[q] < Rank["infra"])
BY DEF InCluster, Rank

(* The steps of the two lines are phases.                                  *)
LEMMA PhaseSet ==
  {"azure", "probe", "predelete", "delete", "precreate", "create", "finish", "await", "postdelete", "auth",
   "patch", "preload", "preflight", "forget", "launch", "clear", "context", "labels", "capacity"}
    \cup InCluster \subseteq Phases
<1>1. /\ DOMAIN KindSteps = 1 .. 24 /\ DOMAIN TalosSteps = 1 .. 27
      /\ \A i \in 1 .. 24 : KindSteps[i] \in Phases
      /\ \A i \in 1 .. 27 : TalosSteps[i] \in Phases
  BY DEF KindSteps, TalosSteps, Bootstrap, Phases
<1>2. {"azure", "preflight", "predelete", "delete", "forget", "launch", "probe", "precreate", "clear",
       "create", "context", "labels", "capacity", "finish", "await"} \cup InCluster \subseteq Phases
  BY <1>1 DEF TalosSteps, Bootstrap, InCluster
<1>3. {"postdelete", "auth", "patch", "preload"} \subseteq Phases
  BY <1>1 DEF KindSteps, Bootstrap
<1> QED
  BY <1>2, <1>3

----------------------------------------------------------------------------
(* Every step keeps the invariant *)

(* Every step keeps the command on its line.                               *)
LEMMA PlaceStep ==
  ASSUME TypeOK, Place, Next
  PROVE  Place'
<1> USE DEF Place, Booting, Faultless, O
<1>1. CASE Start
  BY <1>1, OptionsType, KindAfter, TalosAfter DEF TypeOK, InCluster, IsTalos, Start, world
<1>2. CASE Finish
  BY <1>2, OptionsType, KindAfter, TalosAfter DEF TypeOK, InCluster, IsTalos, Finish, Works, Fault, world, async
<1>3. CASE OutOfClusterPhase
  BY <1>3, OptionsType, KindAfter, TalosAfter DEF TypeOK, InCluster, IsTalos, OutOfClusterPhase,
     OutOfCluster, Works, Done, GoTo, world, async
<1>4. CASE OutOfClusterFails
  BY <1>4, OptionsType, KindAfter, TalosAfter DEF TypeOK, InCluster, IsTalos, OutOfClusterFails,
     OutOfCluster, Fault, GoTo, Return, world, async
<1>5. CASE CleanDevices
  BY <1>5, OptionsType, KindAfter, TalosAfter DEF TypeOK, InCluster, IsTalos, CleanDevices, Works, Fault,
     Done, GoTo
<1>6. CASE Launch
  BY <1>6, OptionsType, KindAfter, TalosAfter DEF TypeOK, InCluster, IsTalos, Launch, Done, GoTo, world
<1>7. CASE Await
  BY <1>7, OptionsType, KindAfter, TalosAfter DEF TypeOK, InCluster, IsTalos, Await, Receive, Done, GoTo,
     Return, world
<1>8. CASE Unwind
  BY <1>8, OptionsType, KindAfter, TalosAfter DEF TypeOK, InCluster, IsTalos, Unwind, Receive, GoTo, world
<1>9. CASE Probe
  BY <1>9, OptionsType, KindAfter, TalosAfter DEF TypeOK, InCluster, IsTalos, Probe, Works, GoTo, Exists,
     world, async
<1>10. CASE ProbeFails
  BY <1>10, OptionsType, KindAfter, TalosAfter DEF TypeOK, InCluster, IsTalos, ProbeFails, Fault, GoTo,
     Return, world, async
<1>11. CASE DeleteKind
  <2>1. ~IsTalos /\ pc = "delete" /\ O \in Options
    BY <1>11, OptionsType DEF DeleteKind
  <2>2. After("delete") = "postdelete"
    BY <2>1, KindAfter
  <2>3. failed = FALSE
    BY <2>1 DEF TypeOK
  <2>4. \/ pc' = "postdelete" /\ failed' = FALSE
        \/ pc' = "unwind" /\ failed' = TRUE
    BY <1>11, <2>1, <2>2, <2>3 DEF DeleteKind, Done, GoTo, Return
  <2> QED
    BY <1>11, <2>1, <2>4 DEF TypeOK, IsTalos, InCluster, DeleteKind, Works, Fault, Done, GoTo, Return, async
<1>12. CASE DestroyTalos
  BY <1>12, OptionsType, KindAfter, TalosAfter DEF TypeOK, InCluster, IsTalos, DestroyTalos, Works,
     Fault, Done, GoTo, NoCluster, async
<1>13. CASE ForgetContext
  BY <1>13, OptionsType, KindAfter, TalosAfter DEF TypeOK, InCluster, IsTalos, ForgetContext, Works,
     Fault, Done, GoTo, Unset, async
<1>14. CASE Create
  BY <1>14, OptionsType, KindAfter, TalosAfter DEF TypeOK, InCluster, IsTalos, Create, Works, Done, GoTo,
     Exists, Nodes, async
<1>15. CASE CreateFails
  BY <1>15, OptionsType, KindAfter, TalosAfter DEF TypeOK, InCluster, IsTalos, CreateFails, Fault,
     Return, Exists, Nodes, async
<1>16. CASE Check
  BY <1>16, OptionsType, KindAfter, TalosAfter DEF TypeOK, InCluster, IsTalos, Check, Works, Done, GoTo,
     HasContext, Labels, HasCapacity, Answers, async
<1>17. CASE CheckFails
  BY <1>17, OptionsType, KindAfter, TalosAfter DEF TypeOK, InCluster, IsTalos, CheckFails, Fault, Return,
     world, async
<1>18. CASE Patch
  BY <1>18, OptionsType, KindAfter, TalosAfter DEF TypeOK, InCluster, IsTalos, Patch, Works, Done, GoTo, async
<1>19. CASE PatchFails
  BY <1>19, OptionsType, KindAfter, TalosAfter DEF TypeOK, InCluster, IsTalos, PatchFails, Fault, Return,
     world, async
<1>20. CASE InClusterPhase
  BY <1>20, OptionsType, KindAfter, TalosAfter DEF TypeOK, InCluster, IsTalos, InClusterPhase, InCluster,
     Works, Reachable, Effect, Done, GoTo, async
<1>21. CASE InClusterFails
  BY <1>21, OptionsType, KindAfter, TalosAfter DEF TypeOK, InCluster, IsTalos, InClusterFails, InCluster,
     Fault, Reachable, Effect, GoTo, Return, async
<1>22. CASE CleanupEnds
  BY <1>22, OptionsType, KindAfter, TalosAfter DEF TypeOK, InCluster, IsTalos, CleanupEnds, Works, Fault,
     command
<1>23. CASE Join
  BY <1>23, OptionsType, KindAfter, TalosAfter DEF TypeOK, InCluster, IsTalos, Join, command, async
<1>24. CASE Interrupt
  BY <1>24, OptionsType, KindAfter, TalosAfter DEF TypeOK, InCluster, IsTalos, Interrupt, command, world, async
<1>25. CASE Switch
  BY <1>25, OptionsType, KindAfter, TalosAfter DEF TypeOK, InCluster, IsTalos, Switch, command, async
<1> QED
  BY <1>1, <1>2, <1>3, <1>4, <1>5, <1>6, <1>7, <1>8, <1>9, <1>10, <1>11, <1>12, <1>13, <1>14, <1>15,
     <1>16, <1>17, <1>18, <1>19, <1>20, <1>21, <1>22, <1>23, <1>24, <1>25 DEF Next, Command

(* Every step keeps what is known of the goroutine: the channel holds its  *)
(* answer until it is read, and nothing passes the wait before the root    *)
(* application without it.                                                 *)
LEMMA AsyncStep ==
  ASSUME TypeOK, Place, AsyncInv, Next
  PROVE  AsyncInv'
<1> USE DEF Place, AsyncInv, Faultless, O, At, Through, Succeeded, Booting, Rooted, Launched
<1>1. CASE Start
  BY <1>1, OptionsType, KindAfter, TalosAfter DEF TypeOK, InCluster, IsTalos, Start, world
<1>2. CASE Finish
  BY <1>2, OptionsType, KindAfter, TalosAfter DEF TypeOK, InCluster, IsTalos, Finish, Works, Fault, world, async
<1>3. CASE OutOfClusterPhase
  BY <1>3, OptionsType, KindAfter, TalosAfter DEF TypeOK, InCluster, IsTalos, OutOfClusterPhase,
     OutOfCluster, Works, Done, GoTo, world, async
<1>4. CASE OutOfClusterFails
  BY <1>4, OptionsType, KindAfter, TalosAfter DEF TypeOK, InCluster, IsTalos, OutOfClusterFails,
     OutOfCluster, Fault, GoTo, Return, world, async
<1>5. CASE CleanDevices
  <2>1. pc' = After(pc) /\ pc \in {"predelete", "postdelete", "precreate"} /\ O \in Options
    BY <1>5, OptionsType DEF CleanDevices, Done, GoTo
  <2>2. pc = "predelete" => pc' = "delete"
    BY <2>1, KindAfter, TalosAfter
  <2>3. pc = "postdelete" => pc' = "precreate"
    BY <2>1, KindAfter DEF IsTalos, InCluster
  <2>4. pc = "precreate" => pc' \in {"auth", "clear"} /\ ~(IsTalos /\ O.recreate)
    BY <2>1, KindAfter, TalosAfter
  <2> QED
    BY <1>5, <2>1, <2>2, <2>3, <2>4 DEF TypeOK, IsTalos, InCluster, CleanDevices, Works, Fault, Done,
       GoTo, async
<1>6. CASE Launch
  BY <1>6, OptionsType, KindAfter, TalosAfter DEF TypeOK, InCluster, IsTalos, Launch, Done, GoTo, world
<1>7. CASE Await
  BY <1>7, OptionsType, KindAfter, TalosAfter DEF TypeOK, InCluster, IsTalos, Await, Receive, Done, GoTo,
     Return, world
<1>8. CASE Unwind
  BY <1>8, OptionsType, KindAfter, TalosAfter DEF TypeOK, InCluster, IsTalos, Unwind, Receive, GoTo, world
<1>9. CASE Probe
  <2>1. pc = "probe" /\ O \in Options
    BY <1>9, OptionsType DEF Probe
  <2>2. IsTalos => pc' \in {"clear", "precreate", "context"} /\ (pc' = "precreate" => ~O.recreate)
    BY <1>9, <2>1, TalosAfter DEF Probe, GoTo
  <2>3. ~IsTalos => pc' \in {"predelete", "precreate", "infra"}
    BY <1>9, <2>1 DEF Probe, GoTo
  <2> QED
    BY <1>9, <2>1, <2>2, <2>3 DEF TypeOK, IsTalos, InCluster, Probe, world, async
<1>10. CASE ProbeFails
  BY <1>10, OptionsType, KindAfter, TalosAfter DEF TypeOK, InCluster, IsTalos, ProbeFails, Fault, GoTo,
     Return, world, async
<1>11. CASE DeleteKind
  BY <1>11, OptionsType, KindAfter, TalosAfter DEF TypeOK, InCluster, IsTalos, DeleteKind, Works, Fault,
     Done, GoTo, Return, Unset, NoCluster, async
<1>12. CASE DestroyTalos
  BY <1>12, OptionsType, KindAfter, TalosAfter DEF TypeOK, InCluster, IsTalos, DestroyTalos, Works,
     Fault, Done, GoTo, NoCluster, async
<1>13. CASE ForgetContext
  BY <1>13, OptionsType, KindAfter, TalosAfter DEF TypeOK, InCluster, IsTalos, ForgetContext, Works,
     Fault, Done, GoTo, Unset, async
<1>14. CASE Create
  BY <1>14, OptionsType, KindAfter, TalosAfter DEF TypeOK, InCluster, IsTalos, Create, Works, Done, GoTo,
     Exists, Nodes, async
<1>15. CASE CreateFails
  BY <1>15, OptionsType, KindAfter, TalosAfter DEF TypeOK, InCluster, IsTalos, CreateFails, Fault,
     Return, Exists, Nodes, async
<1>16. CASE Check
  BY <1>16, OptionsType, KindAfter, TalosAfter DEF TypeOK, InCluster, IsTalos, Check, Works, Done, GoTo,
     HasContext, Labels, HasCapacity, Answers, async
<1>17. CASE CheckFails
  BY <1>17, OptionsType, KindAfter, TalosAfter DEF TypeOK, InCluster, IsTalos, CheckFails, Fault, Return,
     world, async
<1>18. CASE Patch
  BY <1>18, OptionsType, KindAfter, TalosAfter DEF TypeOK, InCluster, IsTalos, Patch, Works, Done, GoTo, async
<1>19. CASE PatchFails
  BY <1>19, OptionsType, KindAfter, TalosAfter DEF TypeOK, InCluster, IsTalos, PatchFails, Fault, Return,
     world, async
<1>20. CASE InClusterPhase
  BY <1>20, OptionsType, KindAfter, TalosAfter DEF TypeOK, InCluster, IsTalos, InClusterPhase, InCluster,
     Works, Reachable, Effect, Done, GoTo, async
<1>21. CASE InClusterFails
  BY <1>21, OptionsType, KindAfter, TalosAfter DEF TypeOK, InCluster, IsTalos, InClusterFails, InCluster,
     Fault, Reachable, Effect, GoTo, Return, async
<1>22. CASE CleanupEnds
  BY <1>22, OptionsType, KindAfter, TalosAfter DEF TypeOK, InCluster, IsTalos, CleanupEnds, Works, Fault,
     command
<1>23. CASE Join
  BY <1>23, OptionsType, KindAfter, TalosAfter DEF TypeOK, InCluster, IsTalos, Join, command, async
<1>24. CASE Interrupt
  BY <1>24, OptionsType, KindAfter, TalosAfter DEF TypeOK, InCluster, IsTalos, Interrupt, command, world, async
<1>25. CASE Switch
  BY <1>25, OptionsType, KindAfter, TalosAfter DEF TypeOK, InCluster, IsTalos, Switch, command, async
<1> QED
  BY <1>1, <1>2, <1>3, <1>4, <1>5, <1>6, <1>7, <1>8, <1>9, <1>10, <1>11, <1>12, <1>13, <1>14, <1>15,
     <1>16, <1>17, <1>18, <1>19, <1>20, <1>21, <1>22, <1>23, <1>24, <1>25 DEF Next, Command

(* Once the goroutine has succeeded, devices come from the new cluster     *)
(* only.                                                                   *)
LEMMA DeviceStep ==
  ASSUME TypeOK, Place, AsyncInv, DeviceInv, Next
  PROVE  DeviceInv'
<1> USE DEF DeviceInv, Place, AsyncInv, Faultless, O
<1>1. CASE Start
  BY <1>1, TRUE DEF TypeOK, InCluster, IsTalos, Start, world
<1>2. CASE Finish
  BY <1>2, TRUE DEF TypeOK, InCluster, IsTalos, Finish, Works, Fault, world, async
<1>3. CASE OutOfClusterPhase
  BY <1>3, TRUE DEF TypeOK, InCluster, IsTalos, OutOfClusterPhase, OutOfCluster, Works, Done, GoTo, world, async
<1>4. CASE OutOfClusterFails
  BY <1>4, TRUE DEF TypeOK, InCluster, IsTalos, OutOfClusterFails, OutOfCluster, Fault, GoTo, Return,
     world, async
<1>5. CASE CleanDevices
  <2>1. devices' \subseteq devices /\ UNCHANGED <<cleanup, cluster>>
    BY <1>5 DEF CleanDevices, async
  <2> QED
    BY <2>1
<1>6. CASE Launch
  BY <1>6, TRUE DEF TypeOK, InCluster, IsTalos, Launch, Done, GoTo, world
<1>7. CASE Await
  BY <1>7, TRUE DEF TypeOK, InCluster, IsTalos, Await, Receive, Done, GoTo, Return, world
<1>8. CASE Unwind
  BY <1>8, TRUE DEF TypeOK, InCluster, IsTalos, Unwind, Receive, GoTo, world
<1>9. CASE Probe
  BY <1>9, TRUE DEF TypeOK, InCluster, IsTalos, Probe, Works, GoTo, Exists, world, async
<1>10. CASE ProbeFails
  BY <1>10, TRUE DEF TypeOK, InCluster, IsTalos, ProbeFails, Fault, GoTo, Return, world, async
<1>11. CASE DeleteKind
  BY <1>11, TRUE DEF TypeOK, InCluster, IsTalos, DeleteKind, Works, Fault, Done, GoTo, Return, Unset,
     NoCluster, async
<1>12. CASE DestroyTalos
  BY <1>12, TRUE DEF TypeOK, InCluster, IsTalos, DestroyTalos, Works, Fault, Done, GoTo, NoCluster, async
<1>13. CASE ForgetContext
  BY <1>13, TRUE DEF TypeOK, InCluster, IsTalos, ForgetContext, Works, Fault, Done, GoTo, Unset, async
<1>14. CASE Create
  BY <1>14, TRUE DEF TypeOK, InCluster, IsTalos, Create, Works, Done, GoTo, Exists, Nodes, async
<1>15. CASE CreateFails
  BY <1>15, TRUE DEF TypeOK, InCluster, IsTalos, CreateFails, Fault, Return, Exists, Nodes, async
<1>16. CASE Check
  BY <1>16, TRUE DEF TypeOK, InCluster, IsTalos, Check, Works, Done, GoTo, HasContext, Labels,
     HasCapacity, Answers, async
<1>17. CASE CheckFails
  BY <1>17, TRUE DEF TypeOK, InCluster, IsTalos, CheckFails, Fault, Return, world, async
<1>18. CASE Patch
  BY <1>18, TRUE DEF TypeOK, InCluster, IsTalos, Patch, Works, Done, GoTo, async
<1>19. CASE PatchFails
  BY <1>19, TRUE DEF TypeOK, InCluster, IsTalos, PatchFails, Fault, Return, world, async
<1>20. CASE InClusterPhase
  BY <1>20, TRUE DEF TypeOK, InCluster, IsTalos, InClusterPhase, InCluster, Works, Reachable, Effect,
     Done, GoTo, async
<1>21. CASE InClusterFails
  BY <1>21, TRUE DEF TypeOK, InCluster, IsTalos, InClusterFails, InCluster, Fault, Reachable, Effect,
     GoTo, Return, async
<1>22. CASE CleanupEnds
  BY <1>22, TRUE DEF TypeOK, InCluster, IsTalos, CleanupEnds, Works, Fault, command
<1>23. CASE Join
  BY <1>23, TRUE DEF TypeOK, InCluster, IsTalos, Join, command, async
<1>24. CASE Interrupt
  BY <1>24, TRUE DEF TypeOK, InCluster, IsTalos, Interrupt, command, world, async
<1>25. CASE Switch
  BY <1>25, TRUE DEF TypeOK, InCluster, IsTalos, Switch, command, async
<1> QED
  BY <1>1, <1>2, <1>3, <1>4, <1>5, <1>6, <1>7, <1>8, <1>9, <1>10, <1>11, <1>12, <1>13, <1>14, <1>15,
     <1>16, <1>17, <1>18, <1>19, <1>20, <1>21, <1>22, <1>23, <1>24, <1>25 DEF Next, Command

(* Every step keeps what is known of the cluster: where kubectl is turned, *)
(* and from which step on the cluster is whole.                            *)
LEMMA ClusterStep ==
  ASSUME TypeOK, Place, ClusterInv, Next
  PROVE  ClusterInv'
<1> USE DEF ClusterInv, Place, Faultless, O, At, Through, Succeeded, Booting
<1>1. CASE Start
  BY <1>1, OptionsType, KindAfter, TalosAfter DEF TypeOK, InCluster, IsTalos, Answers, Start, world
<1>2. CASE Finish
  BY <1>2, OptionsType, KindAfter, TalosAfter DEF TypeOK, InCluster, IsTalos, Answers, Finish, Works,
     Fault, world, async
<1>3. CASE OutOfClusterPhase
  BY <1>3, OptionsType, KindAfter, TalosAfter DEF TypeOK, InCluster, IsTalos, Answers, OutOfClusterPhase,
     OutOfCluster, Works, Done, GoTo, world, async
<1>4. CASE OutOfClusterFails
  BY <1>4, OptionsType, KindAfter, TalosAfter DEF TypeOK, InCluster, IsTalos, Answers, OutOfClusterFails,
     OutOfCluster, Fault, GoTo, Return, world, async
<1>5. CASE CleanDevices
  BY <1>5, OptionsType, KindAfter, TalosAfter DEF TypeOK, InCluster, IsTalos, Answers, CleanDevices,
     Works, Fault, Done, GoTo
<1>6. CASE Launch
  BY <1>6, OptionsType, KindAfter, TalosAfter DEF TypeOK, InCluster, IsTalos, Answers, Launch, Done, GoTo, world
<1>7. CASE Await
  BY <1>7, OptionsType, KindAfter, TalosAfter DEF TypeOK, InCluster, IsTalos, Answers, Await, Receive,
     Done, GoTo, Return, world
<1>8. CASE Unwind
  BY <1>8, OptionsType, KindAfter, TalosAfter DEF TypeOK, InCluster, IsTalos, Answers, Unwind, Receive,
     GoTo, world
<1>9. CASE Probe
  BY <1>9, OptionsType, KindAfter, TalosAfter DEF TypeOK, InCluster, IsTalos, Answers, Probe, Works,
     GoTo, Exists, world, async
<1>10. CASE ProbeFails
  BY <1>10, OptionsType, KindAfter, TalosAfter DEF TypeOK, InCluster, IsTalos, Answers, ProbeFails,
     Fault, GoTo, Return, world, async
<1>11. CASE DeleteKind
  <2>1. ~IsTalos /\ pc = "delete" /\ O \in Options
    BY <1>11, OptionsType DEF DeleteKind
  <2>2. After("delete") = "postdelete"
    BY <2>1, KindAfter
  <2>3. pc' \in {"postdelete", "unwind"}
    BY <1>11, <2>1, <2>2 DEF DeleteKind, Done, GoTo, Return
  <2>4. kubectl' # "this" /\ (kubectl' = "other" => kubectl = "other")
    BY <1>11 DEF DeleteKind, Unset
  <2>5. \/ cluster' = NoCluster
        \/ \E kept \in (SUBSET cluster.nodes) \ {{}} :
             cluster' = [cluster EXCEPT !.nodes = kept, !.context = 0]
    BY <1>11 DEF DeleteKind
  <2>6. CASE cluster' = NoCluster
    BY <1>11, <2>1, <2>3, <2>4, <2>6 DEF TypeOK, IsTalos, InCluster, DeleteKind, NoCluster
  <2>7. ASSUME NEW kept \in (SUBSET cluster.nodes) \ {{}},
               cluster' = [cluster EXCEPT !.nodes = kept, !.context = 0]
        PROVE  ClusterInv'
    <3>1. cluster'.id = cluster.id /\ cluster'.done = cluster.done /\ cluster'.context = 0
      BY <2>7 DEF TypeOK
    <3>2. cluster.nodes # {}
      BY <2>7
    <3>3. cluster.id # 0
      BY <3>2
    <3> QED
      BY <1>11, <2>1, <2>3, <2>4, <3>1, <3>3 DEF TypeOK, IsTalos, InCluster, DeleteKind
  <2> QED
    BY <2>5, <2>6, <2>7
<1>12. CASE DestroyTalos
  BY <1>12, OptionsType, KindAfter, TalosAfter DEF TypeOK, InCluster, IsTalos, Answers, DestroyTalos,
     Works, Fault, Done, GoTo, NoCluster, async
<1>13. CASE ForgetContext
  BY <1>13, OptionsType, KindAfter, TalosAfter DEF TypeOK, InCluster, IsTalos, Answers, ForgetContext,
     Works, Fault, Done, GoTo, Unset, async
<1>14. CASE Create
  BY <1>14, OptionsType, KindAfter, TalosAfter DEF TypeOK, InCluster, IsTalos, Answers, Create, Works,
     Done, GoTo, Exists, Nodes, async
<1>15. CASE CreateFails
  <2>1. pc' = "unwind" /\ failed' /\ pc = "create" /\ run # 0
    BY <1>15 DEF CreateFails, Return
  <2>2. CASE Exists
    BY <1>15, <2>1, <2>2 DEF TypeOK, IsTalos, InCluster, CreateFails, Fault, Exists
  <2>3. CASE ~Exists
    <3>1. PICK made \in SUBSET Nodes :
            /\ IsTalos \/ cancelled \/ made = {}
            /\ cluster' = [cluster EXCEPT !.id = run, !.nodes = made, !.size = O.size]
      BY <1>15, <2>3 DEF CreateFails
    <3>2. cluster'.id = run /\ cluster'.nodes = made /\ cluster'.context = cluster.context
      BY <3>1 DEF TypeOK
    <3>3. ~IsTalos => cluster.context = 0
      BY <2>3 DEF TypeOK, Exists, Nodes, IsTalos
    <3>4. ~Faultless({"phase", "interrupt"})
      BY <1>15, <2>1, <2>3 DEF CreateFails, Fault
    <3> QED
      BY <1>15, <2>1, <3>2, <3>3, <3>4 DEF TypeOK, IsTalos, InCluster, CreateFails
  <2> QED
    BY <2>2, <2>3
<1>16. CASE Check
  BY <1>16, OptionsType, KindAfter, TalosAfter DEF TypeOK, InCluster, IsTalos, Answers, Check, Works,
     Done, GoTo, HasContext, Labels, HasCapacity, Answers, async
<1>17. CASE CheckFails
  BY <1>17, OptionsType, KindAfter, TalosAfter DEF TypeOK, InCluster, IsTalos, Answers, CheckFails,
     Fault, Return, world, async
<1>18. CASE Patch
  BY <1>18, OptionsType, KindAfter, TalosAfter DEF TypeOK, InCluster, IsTalos, Answers, Patch, Works,
     Done, GoTo, async
<1>19. CASE PatchFails
  BY <1>19, OptionsType, KindAfter, TalosAfter DEF TypeOK, InCluster, IsTalos, Answers, PatchFails,
     Fault, Return, world, async
<1>20. CASE InClusterPhase
  BY <1>20, OptionsType, KindAfter, TalosAfter DEF TypeOK, InCluster, IsTalos, Answers, InClusterPhase,
     InCluster, Works, Reachable, Effect, Done, GoTo, async
<1>21. CASE InClusterFails
  <2>1. pc \in InCluster /\ O \in Options /\ pc' \in {After(pc), "unwind"}
        /\ (failed' => pc' = "unwind") /\ (pc' = "unwind" => failed')
    BY <1>21, OptionsType, BootOrder DEF TypeOK, InCluster, InClusterFails, GoTo, Return
  <2>2. pc = "infra" => pc' = "unwind"
    BY <1>21 DEF InClusterFails, Tolerated, Ignored, Return
  <2>3. pc' \in (Booting \cup {"finish", "unwind"}) \ {"infra"}
    BY <2>1, <2>2, BootOrder
  <2>4. /\ cluster'.id = cluster.id /\ cluster'.nodes = cluster.nodes /\ cluster'.size = cluster.size
        /\ cluster'.context = cluster.context /\ cluster.done \subseteq cluster'.done
    BY <1>21 DEF TypeOK, InClusterFails, Effect
  <2>5. UNCHANGED <<scenario, run, result, kubectl>>
    BY <1>21 DEF InClusterFails
  <2> QED
    BY <2>1, <2>2, <2>3, <2>4, <2>5 DEF TypeOK, IsTalos, InCluster
<1>22. CASE CleanupEnds
  BY <1>22, OptionsType, KindAfter, TalosAfter DEF TypeOK, InCluster, IsTalos, Answers, CleanupEnds,
     Works, Fault, command
<1>23. CASE Join
  BY <1>23, OptionsType, KindAfter, TalosAfter DEF TypeOK, InCluster, IsTalos, Answers, Join, command, async
<1>24. CASE Interrupt
  BY <1>24, OptionsType, KindAfter, TalosAfter DEF TypeOK, InCluster, IsTalos, Answers, Interrupt,
     command, world, async
<1>25. CASE Switch
  BY <1>25, OptionsType, KindAfter, TalosAfter DEF TypeOK, InCluster, IsTalos, Answers, Switch, command, async
<1> QED
  BY <1>1, <1>2, <1>3, <1>4, <1>5, <1>6, <1>7, <1>8, <1>9, <1>10, <1>11, <1>12, <1>13, <1>14, <1>15,
     <1>16, <1>17, <1>18, <1>19, <1>20, <1>21, <1>22, <1>23, <1>24, <1>25 DEF Next, Command

(* Every step keeps a recreated cluster apart from the one that was found: *)
(* a survivor has lost its context, and does not pass the check of it.     *)
LEMMA FreshStep ==
  ASSUME TypeOK, Place, ClusterInv, FreshInv, Next
  PROVE  FreshInv'
<1> USE DEF FreshInv, ClusterInv, Place, Faultless, O, At, Through, Succeeded, Booting
<1>1. CASE Start
  BY <1>1, OptionsType, KindAfter, TalosAfter DEF TypeOK, InCluster, IsTalos, Start, world
<1>2. CASE Finish
  BY <1>2, OptionsType, KindAfter, TalosAfter DEF TypeOK, InCluster, IsTalos, Finish, Works, Fault, world, async
<1>3. CASE OutOfClusterPhase
  BY <1>3, OptionsType, KindAfter, TalosAfter DEF TypeOK, InCluster, IsTalos, OutOfClusterPhase,
     OutOfCluster, Works, Done, GoTo, world, async
<1>4. CASE OutOfClusterFails
  BY <1>4, OptionsType, KindAfter, TalosAfter DEF TypeOK, InCluster, IsTalos, OutOfClusterFails,
     OutOfCluster, Fault, GoTo, Return, world, async
<1>5. CASE CleanDevices
  BY <1>5, OptionsType, KindAfter, TalosAfter DEF TypeOK, InCluster, IsTalos, CleanDevices, Works, Fault,
     Done, GoTo
<1>6. CASE Launch
  BY <1>6, OptionsType, KindAfter, TalosAfter DEF TypeOK, InCluster, IsTalos, Launch, Done, GoTo, world
<1>7. CASE Await
  BY <1>7, OptionsType, KindAfter, TalosAfter DEF TypeOK, InCluster, IsTalos, Await, Receive, Done, GoTo,
     Return, world
<1>8. CASE Unwind
  BY <1>8, OptionsType, KindAfter, TalosAfter DEF TypeOK, InCluster, IsTalos, Unwind, Receive, GoTo, world
<1>9. CASE Probe
  BY <1>9, OptionsType, KindAfter, TalosAfter DEF TypeOK, InCluster, IsTalos, Probe, Works, GoTo, Exists,
     world, async
<1>10. CASE ProbeFails
  BY <1>10, OptionsType, KindAfter, TalosAfter DEF TypeOK, InCluster, IsTalos, ProbeFails, Fault, GoTo,
     Return, world, async
<1>11. CASE DeleteKind
  BY <1>11, OptionsType, KindAfter, TalosAfter DEF TypeOK, InCluster, IsTalos, DeleteKind, Works, Fault,
     Done, GoTo, Return, Unset, NoCluster, async
<1>12. CASE DestroyTalos
  BY <1>12, OptionsType, KindAfter, TalosAfter DEF TypeOK, InCluster, IsTalos, DestroyTalos, Works,
     Fault, Done, GoTo, NoCluster, async
<1>13. CASE ForgetContext
  BY <1>13, OptionsType, KindAfter, TalosAfter DEF TypeOK, InCluster, IsTalos, ForgetContext, Works,
     Fault, Done, GoTo, Unset, async
<1>14. CASE Create
  BY <1>14, OptionsType, KindAfter, TalosAfter DEF TypeOK, InCluster, IsTalos, Create, Works, Done, GoTo,
     Exists, Nodes, async
<1>15. CASE CreateFails
  BY <1>15, OptionsType, KindAfter, TalosAfter DEF TypeOK, InCluster, IsTalos, CreateFails, Fault,
     Return, Exists, Nodes, async
<1>16. CASE Check
  BY <1>16, OptionsType, KindAfter, TalosAfter DEF TypeOK, InCluster, IsTalos, Check, Works, Done, GoTo,
     HasContext, Labels, HasCapacity, Answers, async
<1>17. CASE CheckFails
  BY <1>17, OptionsType, KindAfter, TalosAfter DEF TypeOK, InCluster, IsTalos, CheckFails, Fault, Return,
     world, async
<1>18. CASE Patch
  BY <1>18, OptionsType, KindAfter, TalosAfter DEF TypeOK, InCluster, IsTalos, Patch, Works, Done, GoTo, async
<1>19. CASE PatchFails
  BY <1>19, OptionsType, KindAfter, TalosAfter DEF TypeOK, InCluster, IsTalos, PatchFails, Fault, Return,
     world, async
<1>20. CASE InClusterPhase
  BY <1>20, OptionsType, KindAfter, TalosAfter DEF TypeOK, InCluster, IsTalos, InClusterPhase, InCluster,
     Works, Reachable, Effect, Done, GoTo, async
<1>21. CASE InClusterFails
  BY <1>21, OptionsType, KindAfter, TalosAfter DEF TypeOK, InCluster, IsTalos, InClusterFails, InCluster,
     Fault, Reachable, Effect, GoTo, Return, async
<1>22. CASE CleanupEnds
  BY <1>22, OptionsType, KindAfter, TalosAfter DEF TypeOK, InCluster, IsTalos, CleanupEnds, Works, Fault,
     command
<1>23. CASE Join
  BY <1>23, OptionsType, KindAfter, TalosAfter DEF TypeOK, InCluster, IsTalos, Join, command, async
<1>24. CASE Interrupt
  BY <1>24, OptionsType, KindAfter, TalosAfter DEF TypeOK, InCluster, IsTalos, Interrupt, command, world, async
<1>25. CASE Switch
  BY <1>25, OptionsType, KindAfter, TalosAfter DEF TypeOK, InCluster, IsTalos, Switch, command, async
<1> QED
  BY <1>1, <1>2, <1>3, <1>4, <1>5, <1>6, <1>7, <1>8, <1>9, <1>10, <1>11, <1>12, <1>13, <1>14, <1>15,
     <1>16, <1>17, <1>18, <1>19, <1>20, <1>21, <1>22, <1>23, <1>24, <1>25 DEF Next, Command

(* Every step keeps the bootstrap without a gap: what is fatal and ordered *)
(* before the present phase is done.                                       *)
LEMMA BootStep ==
  ASSUME TypeOK, Place, ClusterInv, BootInv, Next
  PROVE  BootInv'
<1> USE DEF BootInv, ClusterInv, Place, Faultless, O, At, Through, Succeeded, Booting, Fatal
<1>1. CASE Start
  BY <1>1, OptionsType, KindAfter, TalosAfter, BootFirst DEF TypeOK, InCluster, IsTalos, Tolerated,
     Ignored, Start, world
<1>2. CASE Finish
  BY <1>2, OptionsType, KindAfter, TalosAfter, BootFirst DEF TypeOK, InCluster, IsTalos, Tolerated,
     Ignored, Finish, Works, Fault, world, async
<1>3. CASE OutOfClusterPhase
  BY <1>3, OptionsType, KindAfter, TalosAfter, BootFirst DEF TypeOK, InCluster, IsTalos, Tolerated,
     Ignored, OutOfClusterPhase, OutOfCluster, Works, Done, GoTo, world, async
<1>4. CASE OutOfClusterFails
  BY <1>4, OptionsType, KindAfter, TalosAfter, BootFirst DEF TypeOK, InCluster, IsTalos, Tolerated,
     Ignored, OutOfClusterFails, OutOfCluster, Fault, GoTo, Return, world, async
<1>5. CASE CleanDevices
  BY <1>5, OptionsType, KindAfter, TalosAfter, BootFirst DEF TypeOK, InCluster, IsTalos, Tolerated,
     Ignored, CleanDevices, Works, Fault, Done, GoTo
<1>6. CASE Launch
  BY <1>6, OptionsType, KindAfter, TalosAfter, BootFirst DEF TypeOK, InCluster, IsTalos, Tolerated,
     Ignored, Launch, Done, GoTo, world
<1>7. CASE Await
  <2>1. pc = "await" /\ O \in Options /\ pc' \in {"root", "unwind"} /\ (pc' = "unwind" => failed')
    BY <1>7, OptionsType, BootOrder DEF Await, GoTo, Done, Return
  <2>2. pc' = "root" => After(pc) = "root"
    BY <1>7 DEF Await, GoTo, Done, Return
  <2>3. \A q \in Fatal : (pc' \in Booting => Rank[q] < Rank[pc']) => Rank[q] < Rank[pc] \/ pc' = "unwind"
    BY <2>1, <2>2, BootOrder DEF InCluster
  <2>4. UNCHANGED <<scenario, run, cluster, stranger, result>>
    BY <1>7 DEF Await, world
  <2> QED
    BY <2>1, <2>3, <2>4 DEF TypeOK, IsTalos, Tolerated, InCluster
<1>8. CASE Unwind
  BY <1>8, OptionsType, KindAfter, TalosAfter, BootFirst DEF TypeOK, InCluster, IsTalos, Tolerated,
     Ignored, Unwind, Receive, GoTo, world
<1>9. CASE Probe
  BY <1>9, OptionsType, KindAfter, TalosAfter, BootFirst DEF TypeOK, InCluster, IsTalos, Tolerated,
     Ignored, Probe, Works, GoTo, Exists, world, async
<1>10. CASE ProbeFails
  BY <1>10, OptionsType, KindAfter, TalosAfter, BootFirst DEF TypeOK, InCluster, IsTalos, Tolerated,
     Ignored, ProbeFails, Fault, GoTo, Return, world, async
<1>11. CASE DeleteKind
  BY <1>11, OptionsType, KindAfter, TalosAfter, BootFirst DEF TypeOK, InCluster, IsTalos, Tolerated,
     Ignored, DeleteKind, Works, Fault, Done, GoTo, Return, Unset, NoCluster, async
<1>12. CASE DestroyTalos
  BY <1>12, OptionsType, KindAfter, TalosAfter, BootFirst DEF TypeOK, InCluster, IsTalos, Tolerated,
     Ignored, DestroyTalos, Works, Fault, Done, GoTo, NoCluster, async
<1>13. CASE ForgetContext
  BY <1>13, OptionsType, KindAfter, TalosAfter, BootFirst DEF TypeOK, InCluster, IsTalos, Tolerated,
     Ignored, ForgetContext, Works, Fault, Done, GoTo, Unset, async
<1>14. CASE Create
  BY <1>14, OptionsType, KindAfter, TalosAfter, BootFirst DEF TypeOK, InCluster, IsTalos, Tolerated,
     Ignored, Create, Works, Done, GoTo, Exists, Nodes, async
<1>15. CASE CreateFails
  BY <1>15, OptionsType, KindAfter, TalosAfter, BootFirst DEF TypeOK, InCluster, IsTalos, Tolerated,
     Ignored, CreateFails, Fault, Return, Exists, Nodes, async
<1>16. CASE Check
  BY <1>16, OptionsType, KindAfter, TalosAfter, BootFirst DEF TypeOK, InCluster, IsTalos, Tolerated,
     Ignored, Check, Works, Done, GoTo, HasContext, Labels, HasCapacity, Answers, async
<1>17. CASE CheckFails
  BY <1>17, OptionsType, KindAfter, TalosAfter, BootFirst DEF TypeOK, InCluster, IsTalos, Tolerated,
     Ignored, CheckFails, Fault, Return, world, async
<1>18. CASE Patch
  BY <1>18, OptionsType, KindAfter, TalosAfter, BootFirst DEF TypeOK, InCluster, IsTalos, Tolerated,
     Ignored, Patch, Works, Done, GoTo, async
<1>19. CASE PatchFails
  BY <1>19, OptionsType, KindAfter, TalosAfter, BootFirst DEF TypeOK, InCluster, IsTalos, Tolerated,
     Ignored, PatchFails, Fault, Return, world, async
<1>20. CASE InClusterPhase
  <2>1. pc \in InCluster /\ O \in Options /\ pc' = After(pc) /\ pc' \in Booting \cup {"finish"}
    BY <1>20, OptionsType, BootOrder DEF InClusterPhase, GoTo, Done, InCluster
  <2>2. \A q \in Fatal : (pc' \in Booting => Rank[q] < Rank[pc']) => q = pc \/ Rank[q] < Rank[pc]
    BY <2>1, BootOrder
  <2>3. IsTalos \/ Faultless({"switch"}) => kubectl = "this"
    BY <1>20, <2>1 DEF InClusterPhase, Reachable
  <2>4. kubectl = "this" => UNCHANGED stranger /\ cluster'.done = cluster.done \cup {pc}
    BY <1>20 DEF InClusterPhase, Effect, TypeOK
  <2>5. UNCHANGED <<scenario, run>>
    BY <1>20 DEF InClusterPhase
  <2>6. IsTalos' = IsTalos /\ Faultless({"switch"})' = Faultless({"switch"}) /\ Fatal' = Fatal
    BY <2>5 DEF IsTalos, Tolerated
  <2> HIDE DEF Faultless, Fatal
  <2> QED
    BY <2>1, <2>2, <2>3, <2>4, <2>6
<1>21. CASE InClusterFails
  <2>1. pc \in InCluster /\ O \in Options
    BY <1>21, OptionsType DEF InClusterFails, InCluster
  <2>2. UNCHANGED <<scenario, run, kubectl, result>>
    BY <1>21 DEF InClusterFails
  <2>3. IsTalos \/ Faultless({"switch"}) => (Reachable => kubectl = "this")
    BY <2>1 DEF Reachable
  <2>4. kubectl = "this" \/ ~Reachable => UNCHANGED stranger /\ cluster.done \subseteq cluster'.done
    BY <1>21 DEF InClusterFails, Effect, TypeOK
  <2>5. IsTalos' = IsTalos /\ Faultless({"switch"})' = Faultless({"switch"}) /\ Fatal' = Fatal
    BY <2>2 DEF IsTalos, Tolerated
  <2>6. CASE Tolerated(pc)
    <3>1. pc' = After(pc) /\ pc \notin Fatal /\ pc' \in Booting \cup {"finish"}
      BY <1>21, <2>1, <2>6, BootOrder DEF InClusterFails, GoTo
    <3>2. \A q \in Fatal : (pc' \in Booting => Rank[q] < Rank[pc']) => Rank[q] < Rank[pc]
      BY <2>1, <3>1, BootOrder
    <3> HIDE DEF Faultless, Fatal
    <3> QED
      BY <2>1, <2>3, <2>4, <2>5, <3>1, <3>2
  <2>7. CASE ~Tolerated(pc)
    <3>1. pc' = "unwind" /\ result' = "none"
      BY <1>21, <2>1, <2>2, <2>7 DEF InClusterFails, Return, InCluster
    <3> HIDE DEF Faultless, Fatal
    <3> QED
      BY <2>3, <2>4, <2>5, <3>1 DEF InCluster
  <2> QED
    BY <2>6, <2>7
<1>22. CASE CleanupEnds
  BY <1>22, OptionsType, KindAfter, TalosAfter, BootFirst DEF TypeOK, InCluster, IsTalos, Tolerated,
     Ignored, CleanupEnds, Works, Fault, command
<1>23. CASE Join
  BY <1>23, OptionsType, KindAfter, TalosAfter, BootFirst DEF TypeOK, InCluster, IsTalos, Tolerated,
     Ignored, Join, command, async
<1>24. CASE Interrupt
  BY <1>24, OptionsType, KindAfter, TalosAfter, BootFirst DEF TypeOK, InCluster, IsTalos, Tolerated,
     Ignored, Interrupt, command, world, async
<1>25. CASE Switch
  BY <1>25, OptionsType, KindAfter, TalosAfter, BootFirst DEF TypeOK, InCluster, IsTalos, Tolerated,
     Ignored, Switch, command, async
<1> QED
  BY <1>1, <1>2, <1>3, <1>4, <1>5, <1>6, <1>7, <1>8, <1>9, <1>10, <1>11, <1>12, <1>13, <1>14, <1>15,
     <1>16, <1>17, <1>18, <1>19, <1>20, <1>21, <1>22, <1>23, <1>24, <1>25 DEF Next, Command

(* Every step keeps the types; Place says that the next step is a phase.   *)
LEMMA TypeStep ==
  ASSUME TypeOK, Place, Place', ClusterInv, Next
  PROVE  TypeOK'
<1> USE DEF TypeOK
<1>a. pc \in Phases \cup {"idle", "unwind"} /\ pc' \in Phases \cup {"idle", "unwind"}
  BY PhaseSet DEF Place, Booting
<1>b. /\ scenario.faults \in Nat /\ Len(scenario.runs) \in Nat
      /\ pc # "idle" => run # 0 /\ O.size \in Nat
  BY OptionsType, CreateAssumption DEF Place, Scenario, Options
<1>c. \A kind : Fault(kind) \/ Works => faults' \in 0 .. scenario.faults
  BY <1>b DEF Fault, Works
<1>1. CASE Start
  <2>1. run' = run + 1 /\ run' \in 0 .. Len(scenario.runs) /\ before' = cluster.id /\ before' \in 0 .. run'
    BY <1>1, <1>b DEF Start
  <2>2. cluster' = cluster /\ cluster.id \in 0 .. run' /\ cluster.context \in 0 .. run' /\ devices \subseteq 1 .. run'
    BY <1>1, <2>1 DEF Start, world
  <2>3. /\ UNCHANGED <<scenario, kubectl, stranger, devices, faults>>
        /\ failed' = FALSE /\ cancelled' = FALSE /\ performed' = {} /\ result' = "none"
        /\ answer' = "none" /\ waited' = "nil" /\ cleanup' \in {"none", "running"}
    BY <1>1 DEF Start, world
  <2> QED
    BY <1>a, <2>1, <2>2, <2>3 DEF Answers3
<1>2. CASE Finish
  BY <1>2, <1>a, <1>b, <1>c DEF Answers3, Finish, world, async
<1>3. CASE OutOfClusterPhase
  BY <1>3, <1>a, <1>b, <1>c DEF Answers3, OutOfClusterPhase, OutOfCluster, Done, GoTo, world, async
<1>4. CASE OutOfClusterFails
  BY <1>4, <1>a, <1>b, <1>c DEF Answers3, OutOfClusterFails, OutOfCluster, GoTo, Return, world, async
<1>5. CASE CleanDevices
  <2>1. faults' \in 0 .. scenario.faults /\ devices' \subseteq 1 .. run
    BY <1>5, <1>c DEF CleanDevices
  <2>2. performed' \subseteq Phases /\ failed' \in BOOLEAN
    BY <1>5, <1>a DEF CleanDevices, Done, GoTo
  <2> QED
    BY <1>5, <1>a, <2>1, <2>2 DEF CleanDevices, Answers3, async
<1>6. CASE Launch
  BY <1>6, <1>a, <1>b, <1>c DEF Answers3, Launch, Done, GoTo, world
<1>7. CASE Await
  BY <1>7, <1>a, <1>b, <1>c DEF Answers3, Await, Receive, Done, GoTo, Return, world
<1>8. CASE Unwind
  BY <1>8, <1>a, <1>b, <1>c DEF Answers3, Unwind, Receive, GoTo, world
<1>9. CASE Probe
  BY <1>9, <1>a, <1>b, <1>c DEF Answers3, Probe, GoTo, Exists, world, async
<1>10. CASE ProbeFails
  BY <1>10, <1>a, <1>b, <1>c DEF Answers3, ProbeFails, GoTo, Return, world, async
<1>11. CASE DeleteKind
  <2>1. faults' \in 0 .. scenario.faults
    BY <1>11, <1>c DEF DeleteKind
  <2>2. performed' \subseteq Phases /\ failed' \in BOOLEAN
    BY <1>11, <1>a DEF DeleteKind, Done, GoTo, Return
  <2>3. cluster' \in [id : 0 .. run, nodes : SUBSET Nodes, size : Nat, context : 0 .. run,
                     done : SUBSET (InCluster \cup {"patch"})]
    <3>1. CASE cluster' = NoCluster
      BY <1>b, <3>1 DEF NoCluster
    <3>2. CASE \E kept \in (SUBSET cluster.nodes) \ {{}} :
                 cluster' = [cluster EXCEPT !.nodes = kept, !.context = 0]
      <4>1. PICK kept \in SUBSET cluster.nodes : cluster' = [cluster EXCEPT !.nodes = kept, !.context = 0]
        BY <3>2
      <4>2. cluster' = [id |-> cluster.id, nodes |-> kept, size |-> cluster.size, context |-> 0,
                        done |-> cluster.done]
        BY <4>1
      <4>3. kept \subseteq Nodes /\ 0 \in 0 .. run
        BY <1>b
      <4> QED
        BY <4>2, <4>3
    <3> QED
      BY <1>11, <3>1, <3>2 DEF DeleteKind
  <2>4. kubectl' \in {"none", "other"}
    BY <1>11 DEF DeleteKind, Unset
  <2> QED
    BY <1>11, <1>a, <2>1, <2>2, <2>3, <2>4 DEF DeleteKind, Answers3, async
<1>12. CASE DestroyTalos
  BY <1>12, <1>a, <1>b, <1>c DEF Answers3, DestroyTalos, Done, GoTo, NoCluster, async
<1>13. CASE ForgetContext
  <2>1. faults' \in 0 .. scenario.faults
    BY <1>13, <1>c DEF ForgetContext
  <2>2. performed' \subseteq Phases /\ failed' \in BOOLEAN
    BY <1>13, <1>a DEF ForgetContext, Done, GoTo
  <2>3. /\ cluster' \in [id : 0 .. run, nodes : SUBSET Nodes, size : Nat, context : 0 .. run,
                        done : SUBSET (InCluster \cup {"patch"})]
        /\ kubectl' \in {"none", "this", "other"}
        /\ kubectl' = "this" => cluster'.context # 0
    BY <1>13 DEF ForgetContext, Unset
  <2> QED
    BY <1>13, <1>a, <2>1, <2>2, <2>3 DEF ForgetContext, Answers3, async
<1>14. CASE Create
  BY <1>14, <1>a, <1>b, <1>c DEF Answers3, Create, Done, GoTo, Exists, Nodes, async
<1>15. CASE CreateFails
  <2>1. faults' \in 0 .. scenario.faults
    BY <1>15, <1>c DEF CreateFails
  <2>2. cluster' \in [id : 0 .. run, nodes : SUBSET Nodes, size : Nat, context : 0 .. run,
                     done : SUBSET (InCluster \cup {"patch"})]
        /\ cluster'.context = cluster.context
    <3>1. CASE Exists
      BY <1>15, <3>1 DEF CreateFails
    <3>2. CASE ~Exists
      <4>1. PICK made \in SUBSET Nodes :
              cluster' = [cluster EXCEPT !.id = run, !.nodes = made, !.size = O.size]
        BY <1>15, <3>2 DEF CreateFails
      <4>2. O.size \in Nat /\ run \in 0 .. run
        <5>1. pc = "create"
          BY <1>15 DEF CreateFails
        <5> QED
          BY <5>1, <1>b
      <4> QED
        <5>1. cluster' = [id |-> run, nodes |-> made, size |-> O.size, context |-> cluster.context,
                          done |-> cluster.done]
          BY <4>1
        <5> QED
          BY <4>2, <5>1
    <3> QED
      BY <3>1, <3>2
  <2> QED
    BY <1>15, <1>a, <2>1, <2>2 DEF CreateFails, Return, Answers3, async
<1>16. CASE Check
  BY <1>16, <1>a, <1>b, <1>c DEF Answers3, Check, Done, GoTo, HasContext, Labels, HasCapacity, Answers, async
<1>17. CASE CheckFails
  BY <1>17, <1>a, <1>b, <1>c DEF Answers3, CheckFails, Return, world, async
<1>18. CASE Patch
  BY <1>18, <1>a, <1>b, <1>c DEF Answers3, Patch, Done, GoTo, async
<1>19. CASE PatchFails
  BY <1>19, <1>a, <1>b, <1>c DEF Answers3, PatchFails, Return, world, async
<1>20. CASE InClusterPhase
  BY <1>20, <1>a, <1>b, <1>c DEF Answers3, InClusterPhase, InCluster, Reachable, Effect, Done, GoTo, async
<1>21. CASE InClusterFails
  <2>1. faults' \in 0 .. scenario.faults
    BY <1>21, <1>c DEF InClusterFails
  <2>2. failed' \in BOOLEAN
    BY <1>21 DEF InClusterFails, GoTo, Return
  <2>3. /\ cluster' \in [id : 0 .. run, nodes : SUBSET Nodes, size : Nat, context : 0 .. run,
                        done : SUBSET (InCluster \cup {"patch"})]
        /\ cluster'.context = cluster.context /\ stranger' \subseteq InCluster
    BY <1>21 DEF InClusterFails, Effect
  <2> QED
    BY <1>21, <1>a, <2>1, <2>2, <2>3 DEF InClusterFails, Answers3, async
<1>22. CASE CleanupEnds
  BY <1>22, <1>a, <1>b, <1>c DEF Answers3, CleanupEnds, command
<1>23. CASE Join
  <2>1. cluster.id \in 1 .. run
    BY <1>23 DEF Join, ClusterInv
  <2> QED
    BY <1>23, <1>a, <2>1 DEF Join, command, async, Answers3
<1>24. CASE Interrupt
  BY <1>24, <1>a, <1>b, <1>c DEF Answers3, Interrupt, command, world, async
<1>25. CASE Switch
  BY <1>25, <1>a, <1>b, <1>c DEF Answers3, Switch, command, async
<1> QED
  BY <1>1, <1>2, <1>3, <1>4, <1>5, <1>6, <1>7, <1>8, <1>9, <1>10, <1>11, <1>12, <1>13, <1>14, <1>15,
     <1>16, <1>17, <1>18, <1>19, <1>20, <1>21, <1>22, <1>23, <1>24, <1>25 DEF Next, Command

----------------------------------------------------------------------------
(* The invariant holds at first,                                           *)
LEMMA InitInv == Init => CreateInv
<1> SUFFICES ASSUME Init
             PROVE  CreateInv
  OBVIOUS
<1>1. scenario \in Scenario
  BY CreateAssumption DEF Init
<1>2. TypeOK
  <2>1. scenario.faults \in Nat /\ Len(scenario.runs) \in Nat
    BY <1>1 DEF Scenario
  <2>2. cluster = [id |-> 0, nodes |-> {}, size |-> 0, context |-> 0, done |-> {}] /\ run = 0
    BY DEF Init, NoCluster
  <2>3. cluster \in [id : 0 .. run, nodes : SUBSET Nodes, size : Nat, context : 0 .. run,
                     done : SUBSET (InCluster \cup {"patch"})]
    BY <2>2
  <2>4. faults \in 0 .. scenario.faults /\ run \in 0 .. Len(scenario.runs) /\ before \in 0 .. run
    BY <2>1 DEF Init
  <2> QED
    BY <2>3, <2>4 DEF Init, TypeOK, Answers3
<1>3. Place /\ AsyncInv /\ DeviceInv
  BY DEF Init, Place, AsyncInv, DeviceInv, At, Through, Succeeded, NoCluster, Launched, Booting, Rooted,
     InCluster
<1>4. ClusterInv /\ FreshInv /\ BootInv
  BY DEF Init, ClusterInv, FreshInv, BootInv, At, Through, Succeeded, NoCluster, Booting, InCluster
<1> QED
  BY <1>2, <1>3, <1>4 DEF CreateInv

(* and every step keeps it.                                                *)
LEMMA StepInv == CreateInv /\ [Next]_vars => CreateInv'
<1> SUFFICES ASSUME CreateInv, [Next]_vars
             PROVE  CreateInv'
  OBVIOUS
<1>1. CASE Next
  <2>1. TypeOK /\ Place /\ AsyncInv /\ DeviceInv /\ ClusterInv /\ FreshInv /\ BootInv
    BY DEF CreateInv
  <2>2. Place'
    BY <1>1, <2>1, PlaceStep
  <2>3. TypeOK'
    BY <1>1, <2>1, <2>2, TypeStep
  <2>4. AsyncInv' /\ DeviceInv'
    BY <1>1, <2>1, AsyncStep, DeviceStep
  <2>5. ClusterInv' /\ FreshInv' /\ BootInv'
    BY <1>1, <2>1, ClusterStep, FreshStep, BootStep
  <2> QED
    BY <2>2, <2>3, <2>4, <2>5 DEF CreateInv
<1>2. CASE UNCHANGED vars
  <2> USE <1>2 DEF vars, CreateInv, O, IsTalos, Faultless, At, Through, Succeeded
  <2>1. TypeOK' /\ Place'
    BY DEF TypeOK, Place
  <2>2. AsyncInv' /\ DeviceInv'
    BY DEF AsyncInv, DeviceInv
  <2>3. ClusterInv' /\ FreshInv'
    BY DEF ClusterInv, FreshInv
  <2>4. BootInv'
    BY DEF BootInv, Fatal, Tolerated
  <2> QED
    BY <2>1, <2>2, <2>3, <2>4
<1> QED
  BY <1>1, <1>2

(* So it always holds.                                                     *)
LEMMA Invariant == Spec => []CreateInv
<1> QED
  BY InitInv, StepInv, PTL DEF Spec

----------------------------------------------------------------------------
(* The theorems *)

(* What create, its devices, its context and its goroutine can be.         *)
THEOREM TypeCorrect == Spec => []TypeOK
<1>1. CreateInv => TypeOK
  BY DEF CreateInv
<1> QED
  BY <1>1, Invariant, PTL

(* A create that succeeds has done every phase whose error it returns: in  *)
(* a cluster with all its nodes and, on Talos, the capacity asked for,     *)
(* whatever failed or was interrupted before.                              *)
THEOREM CompleteAtSuccess == Spec => []SuccessIsComplete
<1>1. CreateInv => SuccessIsComplete
  <2> SUFFICES ASSUME CreateInv, Succeeded
               PROVE  SuccessIsComplete
    BY DEF SuccessIsComplete
  <2> USE DEF CreateInv, ClusterInv
  <2>1. \A steps : At(steps)
    BY DEF At, Through
  <2>2. IsTalos => cluster.context = cluster.id /\ cluster.size = O.size /\ cluster.nodes = Nodes
    BY <2>1
  <2>3. ~IsTalos /\ Faultless({"switch"}) => cluster.nodes = Nodes
    BY <2>1 DEF TypeOK
  <2>4. IsTalos \/ Faultless({"switch"}) => Fatal \subseteq cluster.done
    BY <2>1 DEF BootInv, Succeeded, Booting, InCluster
  <2>5. ~IsTalos /\ Faultless({"phase", "interrupt"}) => "patch" \in cluster.done
    BY <2>1 DEF Succeeded
  <2> QED
    BY <2>2, <2>3, <2>4, <2>5 DEF SuccessIsComplete
<1> QED
  BY <1>1, Invariant, PTL

(* With --recreate, what a successful create leaves is not the cluster it  *)
(* found, although the errors of the destruction are ignored.              *)
THEOREM FreshAfterRecreate == Spec => []RecreateIsFresh
<1>1. CreateInv => RecreateIsFresh
  <2> SUFFICES ASSUME CreateInv, Succeeded, O.recreate, Faultless({"kubectl"})
               PROVE  cluster.id > before
    BY DEF RecreateIsFresh
  <2>1. cluster.id = run
    BY DEF CreateInv, FreshInv, At, Through
  <2>2. run # 0 /\ before < run /\ run \in Nat /\ before \in Nat
    BY DEF CreateInv, Place, Succeeded, TypeOK
  <2> QED
    BY <2>1, <2>2
<1> QED
  BY <1>1, Invariant, PTL

(* With --strict-access, no device of a predecessor is left.               *)
THEOREM CleanWhenStrict == Spec => []StrictIsClean
<1>1. CreateInv => StrictIsClean
  <2> SUFFICES ASSUME CreateInv, Succeeded, O.recreate, O.strict, IsTalos
               PROVE  devices \subseteq {cluster.id}
    BY DEF StrictIsClean
  <2>1. waited = "ok"
    BY DEF CreateInv, AsyncInv, At, Through, Succeeded, TypeOK, Launched, Booting, InCluster
  <2> QED
    BY <2>1 DEF CreateInv, AsyncInv, DeviceInv
<1> QED
  BY <1>1, Invariant, PTL

(* Nothing is bootstrapped in another cluster.                             *)
THEOREM OthersAreLeft == Spec => []OthersUntouched
<1>1. CreateInv => OthersUntouched
  BY DEF CreateInv, BootInv, OthersUntouched
<1> QED
  BY <1>1, Invariant, PTL

(* Once the root application is applied, no device of the cluster goes:    *)
(* the goroutine has been heard of, and the scripts in the foreground are  *)
(* behind.                                                                 *)
THEOREM DevicesAreKept == Spec => DevicesStay
<1>1. CreateInv /\ [Next]_vars => [("root" \in performed /\ "root" \in performed') => devices \subseteq devices']_vars
  <2> SUFFICES ASSUME CreateInv, Next, "root" \in performed, "root" \in performed'
               PROVE  devices \subseteq devices'
    OBVIOUS
  <2>1. pc \in Rooted \cup {"finish", "unwind", "idle"} /\ waited # "no"
    BY DEF CreateInv, AsyncInv
  <2>2. cleanup # "running"
    BY <2>1 DEF CreateInv, AsyncInv, TypeOK
  <2>3. ~CleanDevices /\ ~CleanupEnds
    BY <2>1, <2>2 DEF CleanDevices, CleanupEnds, Rooted
  <2>4. UNCHANGED devices \/ Join
    BY <2>3 DEF Next, Command, world, Start, Finish, OutOfClusterPhase, OutOfClusterFails, Launch, Await,
       Unwind,
         Probe, ProbeFails, DeleteKind, DestroyTalos, ForgetContext, Create, CreateFails, Check, CheckFails,
         Patch, PatchFails, InClusterPhase, InClusterFails, Interrupt, Switch
  <2> QED
    BY <2>4 DEF Join
<1> QED
  BY <1>1, Invariant, PTL DEF Spec, DevicesStay

=============================================================================
