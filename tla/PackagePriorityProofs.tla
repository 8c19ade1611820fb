------------------------ MODULE PackagePriorityProofs ------------------------
(***************************************************************************)
(* The highest priority wins, for all sets of package files and of names   *)
(* of objects, all command lines, faults and lags of the informers.        *)
(*                                                                         *)
(* The invariant speaks of a winner (Top): what has the highest priority   *)
(* of all that was given so far.  Its parts follow it through the system:  *)
(* where objects and reads come from (OriginInv, PassInv), that its        *)
(* package is neither deleted nor overwritten and that no pass for a lower *)
(* one goes on beside it (WinnerInv), that its turn in a pass of           *)
(* Localbuild makes its package (GivenInv), that the repository it owns is *)
(* its own (RepoInv), and what its package reports (SyncedInv).  Each part *)
(* has a lemma for the steps within an invocation; the step to the next    *)
(* one, which may bring another winner, is a section of its own.           *)
(***************************************************************************)
EXTENDS PackagePriority, FiniteSetTheorems, WellFoundedInduction, TLAPS

----------------------------------------------------------------------------
(* Jobs, uids and turns *)

JobType == [item : Items, priority : Nat]

(* What a scenario consists of.                                            *)
LEMMA ScenarioFacts ==
  ASSUME TypeOK
  PROVE  /\ scenario \in Scenario /\ scenario.faults \in Nat
         /\ scenario.name \in [Items -> Names] /\ scenario.repo \in [Items -> RepoNames]
         /\ Len(scenario.lines) \in Nat
         /\ \A r \in 1..Len(scenario.lines) : scenario.lines[r] \in CommandLine
         /\ Line \in CommandLine /\ run \in Nat
<1>1. scenario \in Scenario
  BY PriorityAssumption DEF TypeOK
<1>2. /\ scenario.lines \in Seq(CommandLine) /\ scenario.faults \in Nat
      /\ scenario.name \in [Items -> Names] /\ scenario.repo \in [Items -> RepoNames]
  BY <1>1 DEF Scenario
<1>3. run \in 1..Len(scenario.lines)
  BY DEF TypeOK
<1>4. /\ Len(scenario.lines) \in Nat /\ \A r \in 1..Len(scenario.lines) : scenario.lines[r] \in CommandLine
  BY <1>2
<1> QED
  BY <1>1, <1>2, <1>3, <1>4 DEF Line

(* The elements of a sequence.                                             *)
LEMMA Element ==
  ASSUME NEW S, NEW s \in Seq(S), NEW i \in DOMAIN s
  PROVE  s[i] \in S /\ i \in Nat
<1>1. DOMAIN s = 1..Len(s) /\ Len(s) \in Nat
  OBVIOUS
<1>2. i \in 1..Len(s) /\ i \in Nat
  BY <1>1
<1> QED
  BY <1>2

(* The priority of an argument is a natural number.                        *)
LEMMA JobIsJob ==
  ASSUME NEW line \in CommandLine, NEW i \in DOMAIN line
  PROVE  Job(line, i) \in JobType /\ line[i].kind \in LocationKinds /\ i \in Nat
<1>1. line[i] \in [item : Items, kind : LocationKinds] /\ i \in Nat
  <2> DEFINE A == [item : Items, kind : LocationKinds]
  <2>1. line \in Seq(A)
    BY DEF CommandLine
  <2> HIDE DEF A
  <2>2. line[i] \in A /\ i \in Nat
    BY <2>1, Element
  <2> QED
    BY <2>2 DEF A
<1>2. IsFiniteSet(1..(i - 1))
  BY <1>1, FS_Interval
<1>3. IsFiniteSet({j \in 1..(i - 1) : line[j].kind = line[i].kind})
  BY <1>2, FS_Subset
<1>4. Index(line, i) \in Nat
  BY <1>3, FS_CardinalityType DEF Index
<1> QED
  BY <1>1, <1>4 DEF Job, JobType

(* An invocation is given jobs.                                            *)
LEMMA GivenType ==
  ASSUME TypeOK, NEW r \in 1..run
  PROVE  Given(r) \subseteq JobType
<1>1. scenario.lines[r] \in CommandLine
  BY ScenarioFacts DEF TypeOK
<1> QED
  BY <1>1, JobIsJob DEF Given

(* One argument at a time has its turn: Precedes orders them.              *)
LEMMA CurrentOnce ==
  ASSUME TypeOK, NEW i \in lbp.work, NEW j \in lbp.work, Current(i), Current(j)
  PROVE  i = j
<1>1. lbp.work \subseteq DOMAIN Line
  BY DEF TypeOK
<1>2. /\ Line[i].kind \in LocationKinds /\ Line[j].kind \in LocationKinds /\ i \in Nat /\ j \in Nat
  BY <1>1, ScenarioFacts, JobIsJob
<1>3. \A k \in LocationKinds : Turn[k] \in Nat
  BY DEF Turn, LocationKinds
<1>4. i # j => Precedes(Line, i, j) /\ Precedes(Line, j, i)
  BY DEF Current
<1> QED
  BY <1>2, <1>3, <1>4 DEF Precedes

(* The image of a finite set is finite.                                    *)
LEMMA ImageFinite ==
  ASSUME NEW S, IsFiniteSet(S), NEW f
  PROVE  IsFiniteSet({f[n] : n \in S})
<1> DEFINE T == {f[n] : n \in S}
           g == [n \in S |-> f[n]]
<1>1. g \in Surjection(S, T)
  BY DEF Surjection
<1> QED
  BY <1>1, FS_Surjection

(* There are finitely many uids in use, so that another one is fresh.      *)
LEMMA FreshIsUid == FreshUid \in Nat \ {0}
<1> DEFINE all == UidsInUse
<1>1. IsFiniteSet(all) /\ Cardinality(all) \in Nat
  <2>1. \A f : IsFiniteSet({f[n] : n \in Names}) /\ IsFiniteSet({f[r] : r \in RepoNames})
    BY PriorityAssumption, ImageFinite
  <2> DEFINE uids(p) == [n \in Names |-> p[n].uid]
             ruids(p) == [r \in RepoNames |-> p[r].uid]
  <2>2. /\ {pkg[n].uid : n \in Names} = {uids(pkg)[n] : n \in Names}
        /\ {seen.pkg[n].uid : n \in Names} = {uids(seen.pkg)[n] : n \in Names}
        /\ {repo[r].uid : r \in RepoNames} = {ruids(repo)[r] : r \in RepoNames}
        /\ {seen.repo[r].uid : r \in RepoNames} = {ruids(seen.repo)[r] : r \in RepoNames}
    OBVIOUS
  <2>3. IsFiniteSet({pkgp.read.uid})
    BY FS_Singleton
  <2>4. /\ IsFiniteSet({pkg[n].uid : n \in Names}) /\ IsFiniteSet({seen.pkg[n].uid : n \in Names})
        /\ IsFiniteSet({repo[r].uid : r \in RepoNames}) /\ IsFiniteSet({seen.repo[r].uid : r \in RepoNames})
    BY <2>1, <2>2, Zenon
  <2>5. \A S, T : IsFiniteSet(S) /\ IsFiniteSet(T) => IsFiniteSet(S \cup T)
    BY FS_Union
  <2>6. IsFiniteSet(all)
    BY <2>3, <2>4, <2>5 DEF UidsInUse
  <2> QED
    BY <2>6, FS_CardinalityType
<1>2. ~(1..(Cardinality(all) + 1) \subseteq all)
  <2>1. Cardinality(1..(Cardinality(all) + 1)) = Cardinality(all) + 1
    BY <1>1, FS_Interval
  <2> QED
    BY <1>1, <2>1, FS_Subset
<1> QED
  BY <1>1, <1>2 DEF FreshUid

----------------------------------------------------------------------------
(* The invariant *)

(* What has been given so far, and what is meant to win: nothing is level  *)
(* with it, and items that share a package share no repository and are     *)
(* seen as they are.                                                       *)
Jobs == UNION {Given(r) : r \in 1..run}
NameOf(v) == scenario.name[v.item]
RepoOf(v) == scenario.repo[v.item]
Top(w) ==
  /\ w \in Jobs
  /\ \A v \in Jobs \ {w} : v.priority < w.priority
  /\ \A u, v \in Jobs : u # v /\ NameOf(u) = NameOf(v) => RepoOf(u) # RepoOf(v) /\ scenario.lag = {}
Is(p, w) == p.item = w.item /\ p.priority = w.priority

(* What there is was given.                                                *)
Version(n, p) ==
  /\ p # Missing => \E v \in Jobs : NameOf(v) = n
  /\ p.item = None => p.start = 0 /\ ~p.synced
  /\ p.item # None => /\ p.start \in 1..run
                      /\ \E v \in Given(p.start) : NameOf(v) = n /\ Is(p, v)
Made(r, o) ==
  o.owner # None => \E v \in Jobs : o.item = v.item /\ o.owner = NameOf(v) /\ r = RepoOf(v)
OriginInv ==
  /\ \A n \in Names : Version(n, pkg[n]) /\ Version(n, seen.pkg[n])
  /\ \A r \in RepoNames : Made(r, repo[r]) /\ Made(r, seen.repo[r])
  /\ app.item # None => \E v \in Jobs : v.item = app.item
PassInv ==
  /\ pkgp.pc # "idle" => /\ pkgp.name \in Names /\ Version(pkgp.name, pkgp.read)
                         /\ pkgp.read.item = None => ~pkgp.synced
  /\ pkgp.pc \in {"source", "application"} => pkgp.read.item # None
  /\ lbp.pc = "list" => lbp.todo = {} /\ ~lbp.yields

(* The winner has its package as soon as a cache has it, and a cache that  *)
(* trails has no other package in its place.                               *)
Cached(w) ==
  /\ Is(seen.pkg[NameOf(w)], w) =>
       Is(pkg[NameOf(w)], w) /\ seen.pkg[NameOf(w)].uid = pkg[NameOf(w)].uid
  /\ scenario.lag # {} => /\ pkg[NameOf(w)] = Missing \/ Is(pkg[NameOf(w)], w)
                          /\ seen.pkg[NameOf(w)] = Missing \/ Is(seen.pkg[NameOf(w)], w)
(* A pass for it is one for the object there is.                           *)
Read(w) ==
  pkgp.pc # "idle" /\ Is(pkgp.read, w) =>
    Is(seen.pkg[NameOf(w)], w) /\ pkgp.read.uid = pkg[NameOf(w)].uid
(* No pass for another package goes on once it has the application.        *)
Applied(w) ==
  app.item = w.item =>
    /\ Is(seen.pkg[NameOf(w)], w)
    /\ pkgp.pc # "idle" /\ pkgp.name = NameOf(w) => Is(pkgp.read, w)
    /\ pkgp.pc \in {"source", "application"} => Is(pkgp.read, w)
(* No item of the command line deletes or overwrites its package.          *)
Spared(w) ==
  lbp.pc = "delete" =>
    /\ NameOf(w) \in lbp.todo => ~Is(pkg[NameOf(w)], w)
    /\ \A i \in lbp.work :
         Current(i) /\ ~lbp.yields /\ Job(Line, i) # w /\ NameOf(Job(Line, i)) = NameOf(w) =>
           ~Is(pkg[NameOf(w)], w)
WinnerInv == \A w \in Jobs : Top(w) => Cached(w) /\ Read(w) /\ Applied(w) /\ Spared(w)

(* A pass of Localbuild that ends has made its package: when its turn has  *)
(* come, what is in its place is deleted first.                            *)
Turned(w) ==
  lbp.pc = "delete" => \A i \in lbp.work : Current(i) /\ Job(Line, i) = w =>
    /\ ~lbp.yields
    /\ pkg[NameOf(w)].item # None /\ ~Is(pkg[NameOf(w)], w) => NameOf(w) \in lbp.todo
Created(w) ==
  \/ Is(pkg[NameOf(w)], w)
  \/ \E i \in lbp.work : Job(Line, i) = w
  \/ lbp = IdleLocalbuild /\ \A n \in Names : pkg[n].start # run
GivenInv ==
  \A w \in Given(run) : Top(w) => Turned(w) /\ ("apierr" \notin scenario.env => Created(w))

(* The repository that its package owns is that of the object there is.    *)
Owned(o, w) == o.owner = NameOf(w)
Belongs(w) ==
  /\ Owned(repo[RepoOf(w)], w) =>
       /\ Is(pkg[NameOf(w)], w)
       /\ repo[RepoOf(w)].uid = pkg[NameOf(w)].uid /\ repo[RepoOf(w)].item = w.item
  /\ Owned(seen.repo[RepoOf(w)], w) =>
       /\ Owned(repo[RepoOf(w)], w) /\ (seen.repo[RepoOf(w)].url => repo[RepoOf(w)].url)
       /\ seen.repo[RepoOf(w)].uid = repo[RepoOf(w)].uid
RepoInv == \A w \in Jobs : Top(w) => Belongs(w)

(* When its package is synced, it has the application and the repository.  *)
Served(w) ==
  /\ Owned(repo[RepoOf(w)], w) /\ repo[RepoOf(w)].url
  /\ Owned(seen.repo[RepoOf(w)], w) /\ seen.repo[RepoOf(w)].url
Reported(w) == Served(w) /\ app = [item |-> w.item, url |-> TRUE]
Synced(w) ==
  /\ Is(pkg[NameOf(w)], w) /\ pkg[NameOf(w)].synced => Reported(w)
  /\ Is(seen.pkg[NameOf(w)], w) /\ seen.pkg[NameOf(w)].synced => Reported(w)
  /\ pkgp.pc # "idle" /\ Is(pkgp.read, w) =>
       /\ pkgp.pc \in {"arbitrate", "source", "status"} /\ pkgp.synced => Reported(w)
       /\ pkgp.pc = "application" =>
            /\ pkgp.synced = pkgp.url
            /\ pkgp.url => Served(w)
            /\ ~pkgp.url => ~pkg[NameOf(w)].synced /\ ~seen.pkg[NameOf(w)].synced
SyncedInv == ErrorsSurface => \A w \in Jobs : Top(w) => Synced(w)

PriorityInv == TypeOK /\ OriginInv /\ PassInv /\ WinnerInv /\ GivenInv /\ RepoInv /\ SyncedInv

(* What is given, and what wins, is the same throughout an invocation.     *)
LEMMA SameSession ==
  ASSUME UNCHANGED session
  PROVE  /\ Line' = Line /\ Jobs' = Jobs /\ scenario' = scenario /\ run' = run
         /\ \A r : Given(r)' = Given(r)
         /\ \A w : Top(w)' = Top(w) /\ NameOf(w)' = NameOf(w) /\ RepoOf(w)' = RepoOf(w)
BY DEF session, Line, Jobs, Given, Top, NameOf, RepoOf

(* A job names a package and a repository.                                 *)
LEMMA JobTypes ==
  ASSUME TypeOK, NEW v \in Jobs
  PROVE  /\ v \in JobType /\ v.item \in Items /\ v.priority \in Nat /\ v.item # None
         /\ NameOf(v) \in Names /\ RepoOf(v) \in RepoNames
         /\ NameOf(v) # None
<1>1. v \in JobType
  BY GivenType DEF Jobs
<1> QED
  BY <1>1, ScenarioFacts, PriorityAssumption DEF JobType, NameOf, RepoOf, None

(* What shares its place, its item or its names with the winner is the     *)
(* winner.                                                                 *)
LEMMA TopIsAlone ==
  ASSUME TypeOK, NEW w, Top(w), NEW v \in Jobs
  PROVE  /\ v.priority <= w.priority /\ (v.priority = w.priority => v = w)
         /\ v.item = w.item => v = w
         /\ Is(v, w) => v = w
         /\ NameOf(v) = NameOf(w) /\ RepoOf(v) = RepoOf(w) => v = w
         /\ NameOf(v) = NameOf(w) /\ scenario.lag # {} => v = w
<1>1. w \in Jobs /\ v.priority \in Nat /\ w.priority \in Nat
  BY JobTypes DEF Top
<1>2. v # w => v.priority < w.priority
  BY <1>1 DEF Top
<1>3. NameOf(v) = NameOf(w) /\ v # w => RepoOf(v) # RepoOf(w) /\ scenario.lag = {}
  BY <1>1 DEF Top
<1> QED
  BY <1>1, <1>2, <1>3 DEF NameOf, RepoOf, Is

(* The arguments of the current command line have been given.              *)
LEMMA GivenIsJob ==
  ASSUME TypeOK
  PROVE  /\ \A r \in 1..run : Given(r) \subseteq Jobs
         /\ Given(run) \subseteq Jobs
         /\ \A i \in DOMAIN Line : Job(Line, i) \in Given(run)
BY ScenarioFacts DEF Jobs, Given, Line, TypeOK

----------------------------------------------------------------------------
(* Types *)

(* The types of the passes and of the caches, by name.                     *)
ListType == [pc : {"list", "delete"}, work : SUBSET DOMAIN Line, todo : SUBSET Names, yields : BOOLEAN]
PassType ==
  [pc : {"idle", "arbitrate", "source", "application", "status", "annotate"},
   name : Names \cup {None}, read : Package, synced : BOOLEAN, url : BOOLEAN, again : BOOLEAN]
CacheType == [pkg : [Names -> Package], repo : [RepoNames -> Repository], app : Application]
Types ==
  /\ scenario \in Scenarios /\ run \in 1..Len(scenario.lines)
  /\ pkg \in [Names -> Package] /\ repo \in [RepoNames -> Repository] /\ app \in Application
  /\ seen \in CacheType /\ queue \subseteq Names
  /\ lbp \in ListType /\ pkgp \in PassType
  /\ faults \in 0..scenario.faults

(* TypeOK, with the types by name.                                         *)
LEMMA TypesAreTypes == TypeOK <=> Types
BY DEF TypeOK, Types, ListType, PassType, CacheType

(* What a package is, and what an update of it leaves.                     *)
LEMMA PackageForm ==
  /\ Missing \in Package /\ Missing.item = None /\ Missing.priority = 0 /\ Missing.start = 0
  /\ Missing.synced = FALSE /\ Missing.uid = 0
  /\ \A p \in Package :
       /\ p.uid \in Nat /\ p.item \in Items \cup {None} /\ p.priority \in Nat /\ p.start \in Nat
       /\ p.observed \in Nat /\ p.synced \in BOOLEAN
       /\ \A b \in BOOLEAN :
            LET q == [p EXCEPT !.synced = b]
            IN /\ q \in Package /\ q.item = p.item /\ q.priority = p.priority /\ q.start = p.start
               /\ q.uid = p.uid /\ q.observed = p.observed /\ q.synced = b
       /\ \A t \in Nat :
            LET q == [p EXCEPT !.observed = t]
            IN /\ q \in Package /\ q.item = p.item /\ q.priority = p.priority /\ q.start = p.start
               /\ q.uid = p.uid /\ q.observed = t /\ q.synced = p.synced
       /\ \A u \in Nat :
            LET q == [p EXCEPT !.uid = u]
            IN /\ q \in Package /\ q.item = p.item /\ q.priority = p.priority /\ q.start = p.start
               /\ q.uid = u /\ q.observed = p.observed /\ q.synced = p.synced
       /\ \A x \in Items, y, t \in Nat :
            LET q == [p EXCEPT !.item = x, !.priority = y, !.start = t]
            IN /\ q \in Package /\ q.item = x /\ q.priority = y /\ q.start = t
               /\ q.uid = p.uid /\ q.observed = p.observed /\ q.synced = p.synced
<1>1. /\ Missing \in Package /\ Missing.item = None /\ Missing.priority = 0 /\ Missing.start = 0
      /\ Missing.synced = FALSE /\ Missing.uid = 0
  BY DEF Package, Missing
<1>2. ASSUME NEW p \in Package
      PROVE  /\ p.uid \in Nat /\ p.item \in Items \cup {None} /\ p.priority \in Nat /\ p.start \in Nat
             /\ p.observed \in Nat /\ p.synced \in BOOLEAN
  BY DEF Package
<1>3. ASSUME NEW p \in Package, NEW b \in BOOLEAN
      PROVE  LET q == [p EXCEPT !.synced = b]
             IN /\ q \in Package /\ q.item = p.item /\ q.priority = p.priority /\ q.start = p.start
                /\ q.uid = p.uid /\ q.observed = p.observed /\ q.synced = b
  BY DEF Package
<1>4. ASSUME NEW p \in Package, NEW t \in Nat
      PROVE  LET q == [p EXCEPT !.observed = t]
             IN /\ q \in Package /\ q.item = p.item /\ q.priority = p.priority /\ q.start = p.start
                /\ q.uid = p.uid /\ q.observed = t /\ q.synced = p.synced
  BY DEF Package
<1>5. ASSUME NEW p \in Package, NEW u \in Nat
      PROVE  LET q == [p EXCEPT !.uid = u]
             IN /\ q \in Package /\ q.item = p.item /\ q.priority = p.priority /\ q.start = p.start
                /\ q.uid = u /\ q.observed = p.observed /\ q.synced = p.synced
  BY DEF Package
<1>6. ASSUME NEW p \in Package, NEW x \in Items, NEW y \in Nat, NEW t \in Nat
      PROVE  LET q == [p EXCEPT !.item = x, !.priority = y, !.start = t]
             IN /\ q \in Package /\ q.item = x /\ q.priority = y /\ q.start = t
                /\ q.uid = p.uid /\ q.observed = p.observed /\ q.synced = p.synced
  BY DEF Package
<1> QED
  BY <1>1, <1>2, <1>3, <1>4, <1>5, <1>6, Zenon

(* An object that is missing has nothing.                                  *)
LEMMA MissingForm ==
  Missing.item = None /\ Missing.start = 0 /\ Missing.synced = FALSE /\ Missing.uid = 0
BY DEF Missing

(* It is a package all the same.                                           *)
LEMMA MissingIsPackage == Missing \in Package
BY PackageForm

(* What a repository is, and what an update of it leaves.                  *)
LEMMA RepositoryForm ==
  /\ NoRepository \in Repository /\ NoRepository.owner = None /\ NoRepository.url = FALSE
  /\ \A o \in Repository :
       /\ o.owner \in Names \cup {None} /\ o.uid \in Nat /\ o.item \in Items \cup {None} /\ o.url \in BOOLEAN
       /\ LET q == [o EXCEPT !.url = TRUE]
          IN q \in Repository /\ q.owner = o.owner /\ q.uid = o.uid /\ q.item = o.item /\ q.url = TRUE
       /\ \A n \in Names, u \in Nat, x \in Items :
            LET q == [o EXCEPT !.owner = n, !.uid = u, !.item = x]
            IN q \in Repository /\ q.owner = n /\ q.uid = u /\ q.item = x /\ q.url = o.url
<1>1. NoRepository \in Repository /\ NoRepository.owner = None /\ NoRepository.url = FALSE
  BY DEF Repository, NoRepository
<1>2. ASSUME NEW o \in Repository
      PROVE  /\ o.owner \in Names \cup {None} /\ o.uid \in Nat /\ o.item \in Items \cup {None}
             /\ o.url \in BOOLEAN
             /\ LET q == [o EXCEPT !.url = TRUE]
                IN q \in Repository /\ q.owner = o.owner /\ q.uid = o.uid /\ q.item = o.item /\ q.url = TRUE
  BY DEF Repository
<1>3. ASSUME NEW o \in Repository, NEW n \in Names, NEW u \in Nat, NEW x \in Items
      PROVE  LET q == [o EXCEPT !.owner = n, !.uid = u, !.item = x]
             IN q \in Repository /\ q.owner = n /\ q.uid = u /\ q.item = x /\ q.url = o.url
  BY DEF Repository
<1> QED
  BY <1>1, <1>2, <1>3, Zenon

(* The caches are typed as the server is.                                  *)
LEMMA CacheForm ==
  ASSUME TypeOK
  PROVE  /\ seen.pkg \in [Names -> Package] /\ seen.repo \in [RepoNames -> Repository]
         /\ seen.app \in Application /\ Server \in CacheType
BY TypesAreTypes DEF Types, CacheType, Server

(* What a cache is when it has caught up.                                  *)
LEMMA DeliverForm ==
  ASSUME TypeOK, NEW kind \in Kinds, Deliver(kind)
  PROVE  /\ UNCHANGED <<scenario, run, pkg, repo, app, lbp, pkgp, faults>>
         /\ seen' \in CacheType
         /\ kind = "pkg" => seen'.pkg = pkg /\ seen'.repo = seen.repo /\ seen'.app = seen.app
         /\ kind = "repo" => seen'.pkg = seen.pkg /\ seen'.repo = repo /\ seen'.app = seen.app
         /\ kind = "app" => seen'.pkg = seen.pkg /\ seen'.repo = seen.repo /\ seen'.app = app
         /\ queue' \subseteq Names
<1>1. seen \in CacheType /\ pkg \in [Names -> Package] /\ repo \in [RepoNames -> Repository]
      /\ app \in Application /\ queue \subseteq Names
  BY TypesAreTypes DEF Types
<1>2. seen' = [seen EXCEPT ![kind] = Server[kind]]
  BY DEF Deliver
<1>3. CASE kind = "pkg"
  <2>1. seen' = [seen EXCEPT !.pkg = pkg]
    BY <1>2, <1>3 DEF Server
  <2> QED
    BY <1>1, <1>3, <2>1 DEF Deliver, CacheType, session, objects
<1>4. CASE kind = "repo"
  <2>1. seen' = [seen EXCEPT !.repo = repo]
    BY <1>2, <1>4 DEF Server
  <2> QED
    BY <1>1, <1>4, <2>1 DEF Deliver, CacheType, session, objects
<1>5. CASE kind = "app"
  <2>1. seen' = [seen EXCEPT !.app = app]
    BY <1>2, <1>5 DEF Server
  <2> QED
    BY <1>1, <1>5, <2>1 DEF Deliver, CacheType, session, objects
<1> QED
  BY <1>3, <1>4, <1>5 DEF Kinds

(* The pass of Localbuild, and how it goes on to the next item.            *)
LEMMA ListForm ==
  ASSUME TypeOK
  PROVE  /\ lbp.pc \in {"list", "delete"} /\ lbp.work \subseteq DOMAIN Line /\ lbp.todo \subseteq Names
         /\ lbp.yields \in BOOLEAN
         /\ IdleLocalbuild \in ListType /\ IdleLocalbuild.pc = "list" /\ IdleLocalbuild.work = {}
         /\ IdleLocalbuild.todo = {} /\ IdleLocalbuild.yields = FALSE
         /\ \A i : NextItem(i) =>
              /\ lbp' \in ListType /\ lbp'.pc = "list" /\ lbp'.work = lbp.work \ {i}
              /\ lbp'.todo = {} /\ lbp'.yields = FALSE
BY TypesAreTypes DEF Types, ListType, IdleLocalbuild, NextItem

(* A pass of Localbuild begins with the whole command line.                *)
LEMMA BeginForm ==
  ASSUME TypeOK, BeginLocalbuild
  PROVE  /\ lbp' \in ListType /\ lbp'.pc = "list" /\ lbp'.work = DOMAIN Line /\ lbp'.todo = {}
         /\ lbp'.yields = FALSE
<1>1. lbp' = [IdleLocalbuild EXCEPT !.work = DOMAIN Line]
  BY DEF BeginLocalbuild
<1> QED
  BY <1>1 DEF IdleLocalbuild, ListType

(* The outcomes of the loop over existing packages.                        *)
LEMMA ListingForm ==
  ASSUME TypeOK, NEW i \in DOMAIN Line, ListExisting(i)
  PROVE  LET this == Job(Line, i).priority
             existing == {n \in Names : HasPriority(seen.pkg[n])}
             lower == {n \in existing : seen.pkg[n].priority < this}
             higher == {n \in existing : seen.pkg[n].priority > this}
         IN /\ lbp' \in ListType /\ lbp'.pc = "delete" /\ lbp'.work = lbp.work /\ lbp'.todo \subseteq lower
            /\ higher = {} => lbp'.todo = lower /\ lbp'.yields = lbp.yields
            /\ higher # {} => lbp'.yields = TRUE
<1> DEFINE this == Job(Line, i).priority
           existing == {n \in Names : HasPriority(seen.pkg[n])}
           lower == {n \in existing : seen.pkg[n].priority < this}
           higher == {n \in existing : seen.pkg[n].priority > this}
<1>1. lbp \in ListType /\ lower \subseteq Names
  BY TypesAreTypes DEF Types
<1>2. \/ higher = {} /\ lbp' = [lbp EXCEPT !.pc = "delete", !.todo = lower]
      \/ /\ higher # {}
         /\ \E some \in SUBSET lower : lbp' = [lbp EXCEPT !.pc = "delete", !.todo = some, !.yields = TRUE]
  BY DEF ListExisting
<1> DEFINE goal == /\ lbp' \in ListType /\ lbp'.pc = "delete" /\ lbp'.work = lbp.work
                   /\ lbp'.todo \subseteq lower
                   /\ higher = {} => lbp'.todo = lower /\ lbp'.yields = lbp.yields
                   /\ higher # {} => lbp'.yields = TRUE
<1> HIDE DEF lower, higher
<1>3. CASE higher = {}
  <2>1. lbp' = [pc |-> "delete", work |-> lbp.work, todo |-> lower, yields |-> lbp.yields]
    BY <1>1, <1>2, <1>3 DEF ListType
  <2>2. goal
    BY <1>1, <1>3, <2>1 DEF ListType
  <2> QED
    BY <2>2 DEF lower, higher
<1>4. CASE higher # {}
  <2>1. PICK some \in SUBSET lower : lbp' = [lbp EXCEPT !.pc = "delete", !.todo = some, !.yields = TRUE]
    BY <1>2, <1>4
  <2>2. lbp' = [pc |-> "delete", work |-> lbp.work, todo |-> some, yields |-> TRUE]
    BY <1>1, <2>1 DEF ListType
  <2>3. goal
    BY <1>1, <1>4, <2>2 DEF ListType
  <2> QED
    BY <2>3 DEF lower, higher
<1> QED
  BY <1>3, <1>4 DEF lower, higher

(* A delete takes one package and no other.                                *)
LEMMA DeleteForm ==
  ASSUME TypeOK, NEW n \in Names, DeleteLower(n)
  PROVE  /\ pkg' \in [Names -> Package] /\ pkg'[n] = Missing
         /\ \A m \in Names : m # n => pkg'[m] = pkg[m]
         /\ lbp' \in ListType /\ lbp'.pc = "delete" /\ lbp'.work = lbp.work /\ lbp'.todo = lbp.todo \ {n}
         /\ lbp'.yields = lbp.yields /\ lbp.pc = "delete" /\ n \in lbp.todo
<1>1. pkg \in [Names -> Package] /\ lbp \in ListType
  BY TypesAreTypes DEF Types
<1>2. pkg' = [pkg EXCEPT ![n] = Missing] /\ lbp' = [lbp EXCEPT !.todo = @ \ {n}]
      /\ lbp.pc = "delete" /\ n \in lbp.todo
  BY DEF DeleteLower
<1>3. pkg' \in [Names -> Package] /\ pkg'[n] = Missing /\ \A m \in Names : m # n => pkg'[m] = pkg[m]
  BY <1>1, <1>2, PackageForm
<1>4. /\ lbp' \in ListType /\ lbp'.pc = "delete" /\ lbp'.work = lbp.work /\ lbp'.todo = lbp.todo \ {n}
      /\ lbp'.yields = lbp.yields
  BY <1>1, <1>2 DEF ListType
<1> QED
  BY <1>2, <1>3, <1>4

(* CreateOrUpdate keeps uid and status, or it makes a new package, or it   *)
(* fails.                                                                  *)
LEMMA CreateForm ==
  ASSUME TypeOK, NEW i \in DOMAIN Line, CreateOrUpdatePackage(i)
  PROVE  LET v == Job(Line, i)
             n == NameOf(v)
         IN /\ v \in Given(run) /\ v \in Jobs /\ n \in Names
            /\ pkg' \in [Names -> Package]
            /\ \A m \in Names : m # n => pkg'[m] = pkg[m]
            /\ \/ seen.pkg[n] # pkg[n] /\ pkg' = pkg
               \/ /\ seen.pkg[n] = pkg[n]
                  /\ pkg'[n].item = v.item /\ pkg'[n].priority = v.priority /\ pkg'[n].start = run
                  /\ pkg'[n].synced = pkg[n].synced
                  /\ pkg[n] = Missing \/ pkg'[n].uid = pkg[n].uid
<1> DEFINE v == Job(Line, i)
           n == NameOf(v)
           wanted(o) == [o EXCEPT !.item = v.item, !.priority = v.priority, !.start = run]
<1>1. v \in Given(run) /\ v \in Jobs
  BY GivenIsJob
<1>2. v.item \in Items /\ v.priority \in Nat /\ n \in Names /\ run \in Nat /\ FreshUid \in Nat
  BY <1>1, JobTypes, ScenarioFacts, FreshIsUid
<1>3. pkg \in [Names -> Package] /\ pkg[n] \in Package
  BY <1>2, TypesAreTypes DEF Types
<1>4. IF seen.pkg[n] # pkg[n] THEN pkg' = pkg
      ELSE IF pkg[n] = Missing
      THEN pkg' = [pkg EXCEPT ![n] = [wanted(Missing) EXCEPT !.uid = FreshUid]]
      ELSE pkg' = [pkg EXCEPT ![n] = wanted(@)]
  BY DEF CreateOrUpdatePackage, NameOf
<1>5. \A o \in Package : wanted(o) \in Package /\ wanted(o).item = v.item /\ wanted(o).priority = v.priority
                         /\ wanted(o).start = run /\ wanted(o).uid = o.uid /\ wanted(o).synced = o.synced
  BY <1>2 DEF Package
<1> DEFINE new == wanted(Missing)
           fresh == [new EXCEPT !.uid = FreshUid]
<1>6. new \in Package /\ new.item = v.item /\ new.priority = v.priority /\ new.start = run
      /\ new.synced = Missing.synced
  BY <1>5, PackageForm
<1> HIDE DEF new
<1>7. fresh \in Package /\ fresh.item = v.item /\ fresh.priority = v.priority
      /\ fresh.start = run /\ fresh.synced = Missing.synced
  BY <1>2, <1>6 DEF Package
<1> HIDE DEF v, n, wanted, fresh
<1>8. /\ pkg' \in [Names -> Package]
      /\ \A m \in Names : m # n => pkg'[m] = pkg[m]
      /\ \/ seen.pkg[n] # pkg[n] /\ pkg' = pkg
         \/ /\ seen.pkg[n] = pkg[n]
            /\ pkg'[n].item = v.item /\ pkg'[n].priority = v.priority /\ pkg'[n].start = run
            /\ pkg'[n].synced = pkg[n].synced
            /\ pkg[n] = Missing \/ pkg'[n].uid = pkg[n].uid
  <2>1. CASE seen.pkg[n] # pkg[n]
    BY <1>3, <1>4, <2>1
  <2>2. CASE seen.pkg[n] = pkg[n] /\ pkg[n] = Missing
    <3>1. pkg' = [pkg EXCEPT ![n] = fresh]
      BY <1>4, <2>2 DEF fresh, new
    <3> QED
      BY <1>2, <1>3, <1>7, <2>2, <3>1
  <2>3. CASE seen.pkg[n] = pkg[n] /\ pkg[n] # Missing
    <3>1. pkg' = [pkg EXCEPT ![n] = wanted(pkg[n])]
      BY <1>3, <1>4, <2>3
    <3> QED
      BY <1>2, <1>3, <1>5, <2>3, <3>1
  <2> QED
    BY <2>1, <2>2, <2>3
<1> QED
  BY <1>1, <1>2, <1>8 DEF v, n

(* The pass of the CustomPackage worker.                                   *)
LEMMA PassForm ==
  ASSUME TypeOK
  PROVE  /\ pkgp.pc \in {"idle", "arbitrate", "source", "application", "status", "annotate"}
         /\ pkgp.name \in Names \cup {None} /\ pkgp.read \in Package
         /\ pkgp.synced \in BOOLEAN /\ pkgp.url \in BOOLEAN /\ pkgp.again \in BOOLEAN
         /\ IdlePackage \in PassType /\ IdlePackage.pc = "idle"
BY TypesAreTypes, PackageForm DEF Types, PassType, IdlePackage

(* A pass begins with what the cache has.                                  *)
LEMMA BeginPassForm ==
  ASSUME TypeOK, NEW n \in Names, BeginPackagePass(n)
  PROVE  /\ pkgp' \in PassType
         /\ \/ pkgp' = pkgp
            \/ /\ pkgp'.pc = "arbitrate" /\ pkgp'.name = n /\ pkgp'.read = seen.pkg[n]
               /\ pkgp'.synced = seen.pkg[n].synced
<1>1. seen.pkg[n] \in Package /\ seen.pkg[n].synced \in BOOLEAN /\ pkgp \in PassType
  BY CacheForm, PackageForm, TypesAreTypes DEF Types
<1>2. \/ pkgp' = pkgp
      \/ pkgp' = [pc |-> "arbitrate", name |-> n, read |-> seen.pkg[n], synced |-> seen.pkg[n].synced,
                  url |-> FALSE, again |-> FALSE]
  BY DEF BeginPackagePass, IdlePackage
<1>3. CASE pkgp' = pkgp
  BY <1>1, <1>3
<1>4. CASE pkgp' = [pc |-> "arbitrate", name |-> n, read |-> seen.pkg[n], synced |-> seen.pkg[n].synced,
                    url |-> FALSE, again |-> FALSE]
  BY <1>1, <1>4 DEF PassType
<1> QED
  BY <1>2, <1>3, <1>4

(* The outcomes of shouldReconcile.                                        *)
LEMMA ShouldForm ==
  ASSUME TypeOK, ShouldReconcile
  PROVE  /\ pkgp' \in PassType /\ pkgp'.name = pkgp.name /\ pkgp'.read = pkgp.read /\ pkgp.pc = "arbitrate"
         /\ \/ Superseded /\ pkgp'.pc = "status" /\ pkgp'.synced = FALSE
            \/ ~HasPriority(pkgp.read) /\ pkgp'.pc = "status" /\ pkgp'.synced = pkgp.synced
            \/ ~Superseded /\ HasPriority(pkgp.read) /\ pkgp'.pc = "source" /\ pkgp'.synced = pkgp.synced
<1>1. pkgp \in PassType
  BY TypesAreTypes DEF Types
<1>2. /\ pkgp.pc = "arbitrate"
      /\ \/ Superseded /\ pkgp' = [pkgp EXCEPT !.pc = "status", !.synced = FALSE]
         \/ ~HasPriority(pkgp.read) /\ pkgp' = [pkgp EXCEPT !.pc = "status", !.again = TRUE]
         \/ ~Superseded /\ HasPriority(pkgp.read) /\ pkgp' = [pkgp EXCEPT !.pc = "source"]
  BY DEF ShouldReconcile
<1> QED
  BY <1>1, <1>2 DEF PassType

(* A pass with its repository goes on to the Application.                  *)
LEMMA UseForm ==
  ASSUME TypeOK, NEW b \in BOOLEAN, UseRepository(b)
  PROVE  /\ pkgp' \in PassType /\ pkgp'.name = pkgp.name /\ pkgp'.read = pkgp.read
         /\ pkgp'.pc = "application" /\ pkgp'.url = b /\ pkgp'.synced = b
BY TypesAreTypes DEF Types, PassType, UseRepository

(* A pass that fails goes on to its status, which stays.                   *)
LEMMA ErrorForm ==
  ASSUME TypeOK, Error
  PROVE  /\ pkgp' \in PassType /\ pkgp'.name = pkgp.name /\ pkgp'.read = pkgp.read
         /\ pkgp'.pc = "status" /\ pkgp'.synced = pkgp.synced
BY TypesAreTypes DEF Types, PassType, Error

(* The outcomes of reconcileArgoCDSource.                                  *)
LEMMA SourceForm ==
  ASSUME TypeOK, ReconcileSource, pkgp.name \in Names, pkgp.read.item # None
  PROVE  LET r == scenario.repo[pkgp.read.item]
             cached == seen.repo[r]
             owner == seen.pkg[cached.owner]
             written == repo'[r].owner = pkgp.name /\ repo'[r].uid = pkgp.read.uid
                        /\ repo'[r].item = pkgp.read.item
         IN /\ r \in RepoNames /\ cached \in Repository /\ repo[r] \in Repository
            /\ repo' \in [RepoNames -> Repository] /\ pkgp' \in PassType
            /\ pkgp'.name = pkgp.name /\ pkgp'.read = pkgp.read
            /\ \A q \in RepoNames : q # r => repo'[q] = repo[q]
            /\ \/ /\ cached.owner = None /\ UseRepository(FALSE)
                  /\ \/ repo' = repo
                     \/ written /\ repo[r].owner = None
               \/ /\ cached.owner # None /\ ~ShouldTakeOver(r) /\ UseRepository(cached.url) /\ repo' = repo
               \/ /\ Error /\ repo' = repo
               \/ /\ cached.owner = pkgp.name /\ ShouldTakeOver(r) /\ UseRepository(cached.url)
                  /\ \/ repo' = repo
                     \/ written /\ cached = repo[r] /\ repo'[r].url = repo[r].url
<1> DEFINE r == scenario.repo[pkgp.read.item]
           cached == seen.repo[r]
           mine == [cached EXCEPT !.owner = pkgp.name, !.uid = pkgp.read.uid, !.item = pkgp.read.item]
<1>1. pkgp.read.item \in Items /\ pkgp.read.uid \in Nat /\ pkgp.name \in Names
  BY PassForm, PackageForm
<1>2. r \in RepoNames
  BY <1>1, ScenarioFacts
<1>3. repo \in [RepoNames -> Repository] /\ cached \in Repository /\ repo[r] \in Repository
  BY <1>2, CacheForm, TypesAreTypes DEF Types
<1>4. mine \in Repository /\ mine.owner = pkgp.name /\ mine.uid = pkgp.read.uid /\ mine.item = pkgp.read.item
      /\ mine.url = cached.url
  BY <1>1, <1>3 DEF Repository
<1>5. \/ /\ cached.owner = None /\ UseRepository(FALSE)
         /\ repo' = IF repo[r].owner = None THEN [repo EXCEPT ![r] = mine] ELSE repo
      \/ cached.owner # None /\ ~ShouldTakeOver(r) /\ UseRepository(cached.url) /\ repo' = repo
      \/ /\ cached.owner # None /\ ShouldTakeOver(r)
         /\ IF cached.owner # pkgp.name \/ (mine # cached /\ cached # repo[r])
            THEN Error /\ repo' = repo
            ELSE /\ UseRepository(cached.url)
                 /\ repo' = IF mine = cached THEN repo ELSE [repo EXCEPT ![r] = mine]
  BY DEF ReconcileSource
<1>6. cached.url \in BOOLEAN
  BY <1>3, RepositoryForm
<1> DEFINE written == repo'[r].owner = pkgp.name /\ repo'[r].uid = pkgp.read.uid
                      /\ repo'[r].item = pkgp.read.item
<1> HIDE DEF r, cached, mine
<1>7. /\ repo' \in [RepoNames -> Repository] /\ \A q \in RepoNames : q # r => repo'[q] = repo[q]
  BY <1>2, <1>3, <1>4, <1>5
<1>8. \/ /\ cached.owner = None /\ UseRepository(FALSE)
         /\ \/ repo' = repo
            \/ written /\ repo[r].owner = None
      \/ /\ cached.owner # None /\ ~ShouldTakeOver(r) /\ UseRepository(cached.url) /\ repo' = repo
      \/ /\ Error /\ repo' = repo
      \/ /\ cached.owner = pkgp.name /\ ShouldTakeOver(r) /\ UseRepository(cached.url)
         /\ \/ repo' = repo
            \/ written /\ cached = repo[r] /\ repo'[r].url = repo[r].url
  BY <1>2, <1>3, <1>4, <1>5
<1>9. pkgp' \in PassType /\ pkgp'.name = pkgp.name /\ pkgp'.read = pkgp.read
  <2>1. \A b \in BOOLEAN : UseRepository(b) =>
          pkgp' \in PassType /\ pkgp'.name = pkgp.name /\ pkgp'.read = pkgp.read
    BY UseForm
  <2> QED
    BY <1>5, <1>6, <2>1, ErrorForm
<1> QED
  BY <1>2, <1>3, <1>7, <1>8, <1>9 DEF r, cached

(* The Application is written for the item of the pass, or not at all.     *)
LEMMA ApplicationForm ==
  ASSUME TypeOK, ReconcileApplication
  PROVE  /\ pkgp' \in PassType /\ pkgp'.name = pkgp.name /\ pkgp'.read = pkgp.read
         /\ pkgp.pc = "application" /\ pkgp'.pc = "status" /\ pkgp'.synced = pkgp.synced
         /\ app' \in Application
         /\ \/ seen.app # app /\ app' = app
            \/ app' = [item |-> pkgp.read.item, url |-> pkgp.url]
<1>1. pkgp \in PassType /\ app \in Application /\ pkgp.read.item \in Items \cup {None} /\ pkgp.url \in BOOLEAN
  BY TypesAreTypes, PassForm, PackageForm DEF Types
<1> DEFINE b == pkgp.again \/ seen.app # app \/ app = NoApplication
<1>2. b \in BOOLEAN /\ pkgp' = [pkgp EXCEPT !.pc = "status", !.again = b]
  BY <1>1 DEF ReconcileApplication, PassType
<1>3. \/ seen.app # app /\ app' = app
      \/ app' = [item |-> pkgp.read.item, url |-> pkgp.url]
  BY DEF ReconcileApplication
<1>4. app' \in Application
  BY <1>1, <1>3 DEF Application
<1>5. pkgp.pc = "application"
  BY DEF ReconcileApplication
<1> HIDE DEF b
<1>6. /\ pkgp' \in PassType /\ pkgp'.name = pkgp.name /\ pkgp'.read = pkgp.read
      /\ pkgp'.pc = "status" /\ pkgp'.synced = pkgp.synced
  BY <1>1, <1>2 DEF PassType
<1> QED
  BY <1>3, <1>4, <1>5, <1>6

(* The status goes to the version that was read, and changes nothing else. *)
LEMMA StatusForm ==
  ASSUME TypeOK, UpdateStatus, pkgp.name \in Names
  PROVE  /\ pkg' \in [Names -> Package]
         /\ \A n \in Names : /\ pkg'[n].item = pkg[n].item /\ pkg'[n].priority = pkg[n].priority
                             /\ pkg'[n].start = pkg[n].start /\ pkg'[n].uid = pkg[n].uid
                             /\ \/ pkg'[n] = pkg[n]
                                \/ /\ n = pkgp.name /\ pkg[n] = pkgp.read
                                   /\ pkg'[n].synced = pkgp.synced /\ pkg[n].synced # pkgp.synced
         /\ pkgp' \in PassType /\ pkgp'.name = pkgp.name /\ pkgp'.read = pkgp.read
         /\ pkgp.pc = "status" /\ pkgp'.pc = "annotate"
<1>1. pkgp \in PassType /\ pkg \in [Names -> Package] /\ pkgp.synced \in BOOLEAN
  BY TypesAreTypes, PassForm DEF Types
<1> DEFINE n == pkgp.name
           q == [pkg[n] EXCEPT !.synced = pkgp.synced]
<1>2. /\ (pkg' = [pkg EXCEPT ![n] = q] /\ pkg[n] = pkgp.read) \/ pkg' = pkg
      /\ pkgp' = [pkgp EXCEPT !.pc = "annotate"] /\ pkgp.pc = "status"
  BY <1>1 DEF UpdateStatus
<1>3. /\ q \in Package /\ q.item = pkg[n].item /\ q.priority = pkg[n].priority /\ q.start = pkg[n].start
      /\ q.uid = pkg[n].uid /\ q.synced = pkgp.synced /\ (pkg[n].synced = pkgp.synced => q = pkg[n])
  BY <1>1 DEF Package
<1>4. /\ pkgp' \in PassType /\ pkgp'.name = pkgp.name /\ pkgp'.read = pkgp.read /\ pkgp'.pc = "annotate"
  BY <1>1, <1>2 DEF PassType
<1> HIDE DEF q
<1> QED
  BY <1>1, <1>2, <1>3, <1>4

(* A pass ends.                                                            *)
LEMMA EndForm ==
  ASSUME TypeOK, EndPass, pkgp.name \in Names
  PROVE  pkgp' \in PassType /\ pkgp'.pc = "idle" /\ queue' \subseteq Names
BY PassForm, TypesAreTypes DEF EndPass, Types

(* The annotation goes to the object there is, or makes a bare one.        *)
LEMMA AnnotateForm ==
  ASSUME TypeOK, Annotate, pkgp.name \in Names
  PROVE  /\ pkg' \in [Names -> Package]
         /\ \A n \in Names :
              \/ pkg'[n] = pkg[n]
              \/ /\ pkg[n] # Missing
                 /\ pkg'[n].item = pkg[n].item /\ pkg'[n].priority = pkg[n].priority
                 /\ pkg'[n].start = pkg[n].start /\ pkg'[n].uid = pkg[n].uid
                 /\ pkg'[n].synced = pkg[n].synced
              \/ /\ pkg[n] = Missing /\ n = pkgp.name /\ pkgp.read.start # 0
                 /\ pkg'[n].item = None /\ pkg'[n].start = 0 /\ pkg'[n].synced = FALSE
<1>1. pkg \in [Names -> Package] /\ pkgp.read.start \in Nat /\ FreshUid \in Nat
  BY TypesAreTypes, PassForm, PackageForm, FreshIsUid DEF Types
<1> DEFINE n == pkgp.name
           new == [Missing EXCEPT !.uid = FreshUid, !.observed = pkgp.read.start]
           q == [pkg[n] EXCEPT !.observed = pkgp.read.start]
<1>2. \/ pkg' = pkg
      \/ pkg[n] = Missing /\ pkgp.read.start # 0 /\ pkg' = [pkg EXCEPT ![n] = new]
      \/ pkg[n] # Missing /\ pkg' = [pkg EXCEPT ![n] = q]
  BY <1>1 DEF Annotate
<1>3. new \in Package /\ new.item = None /\ new.start = 0 /\ new.synced = FALSE
  BY <1>1 DEF Package, Missing
<1>4. /\ q \in Package /\ q.item = pkg[n].item /\ q.priority = pkg[n].priority /\ q.start = pkg[n].start
      /\ q.uid = pkg[n].uid /\ q.synced = pkg[n].synced
  BY <1>1 DEF Package
<1> HIDE DEF new, q
<1> QED
  BY <1>1, <1>2, <1>3, <1>4

(* The types of an invocation stay.                                        *)
LEMMA SameLine ==
  ASSUME UNCHANGED session
  PROVE  ListType' = ListType /\ PassType' = PassType /\ CacheType' = CacheType
BY SameSession DEF ListType, PassType, CacheType

(* Every step keeps the types.                                             *)
LEMMA TypesStep ==
  ASSUME TypeOK, PassInv, Next
  PROVE  Types'
<1>1. ASSUME NEW kind \in Kinds, Deliver(kind)
      PROVE  Types'
  BY <1>1, TypesAreTypes, SameLine, DeliverForm DEF Types, Deliver, session, objects
<1>2. ASSUME NEW r \in RepoNames, ServeRepository(r)
      PROVE  Types'
  <2>1. repo[r] \in Repository /\ repo \in [RepoNames -> Repository]
    BY TypesAreTypes DEF Types
  <2>2. repo' = [repo EXCEPT ![r] = [repo[r] EXCEPT !.url = TRUE]]
    BY <1>2, <2>1 DEF ServeRepository
  <2>3. repo' \in [RepoNames -> Repository]
    BY <2>1, <2>2, RepositoryForm
  <2> QED
    BY <1>2, <2>3, TypesAreTypes, SameLine DEF Types, ServeRepository, session
<1>3. ASSUME NEW r \in RepoNames, CollectGarbage(r)
      PROVE  Types'
  <2>1. repo' \in [RepoNames -> Repository]
    BY <1>3, TypesAreTypes, RepositoryForm DEF Types, CollectGarbage
  <2> QED
    BY <1>3, <2>1, TypesAreTypes, SameLine DEF Types, CollectGarbage, session
<1>4. CASE NextRun
  <2>1. run' \in 1..Len(scenario.lines) /\ scenario' = scenario
    BY <1>4, ScenarioFacts, TypesAreTypes DEF Types, NextRun
  <2>2. lbp' \in ListType' /\ pkgp' \in PassType
    BY <1>4, PassForm DEF NextRun, IdleLocalbuild, ListType
  <2>3. seen' \in CacheType /\ queue' \subseteq Names
    BY <1>4, CacheForm DEF NextRun
  <2> QED
    BY <1>4, <2>1, <2>2, <2>3, TypesAreTypes DEF Types, NextRun, objects, PassType, CacheType
<1>5. CASE BeginLocalbuild
  BY <1>5, BeginForm, TypesAreTypes, SameLine DEF Types, BeginLocalbuild, session, objects
<1>6. ASSUME NEW i \in DOMAIN Line, ListExisting(i)
      PROVE  Types'
  <2>1. lbp' \in ListType
    BY <1>6, ListingForm
  <2> QED
    BY <1>6, <2>1, TypesAreTypes, SameLine DEF Types, ListExisting, session, objects
<1>7. ASSUME NEW n \in Names, DeleteLower(n)
      PROVE  Types'
  BY <1>7, DeleteForm, TypesAreTypes, SameLine DEF Types, DeleteLower, session
<1>8. ASSUME NEW i \in DOMAIN Line, Yield(i)
      PROVE  Types'
  BY <1>8, ListForm, TypesAreTypes, SameLine DEF Types, Yield, session, objects
<1>9. ASSUME NEW i \in DOMAIN Line, CreateOrUpdatePackage(i)
      PROVE  Types'
  <2>1. pkg' \in [Names -> Package]
    BY <1>9, CreateForm
  <2> QED
    BY <1>9, <2>1, ListForm, TypesAreTypes, SameLine DEF Types, CreateOrUpdatePackage, session
<1>10. ASSUME NEW i \in DOMAIN Line, ItemFails(i)
      PROVE  Types'
  <2>1. faults' \in 0..scenario.faults
    BY <1>10, ScenarioFacts, TypesAreTypes DEF Types, ItemFails, MayInject
  <2> QED
    BY <1>10, <2>1, ListForm, TypesAreTypes, SameLine DEF Types, ItemFails, session, objects
<1>11. ASSUME NEW n \in Names, BeginPackagePass(n)
      PROVE  Types'
  <2>1. queue' \subseteq Names
    BY <1>11, TypesAreTypes DEF Types, BeginPackagePass
  <2> QED
    BY <1>11, <2>1, BeginPassForm, TypesAreTypes, SameLine DEF Types, BeginPackagePass, session, objects
<1>12. CASE ShouldReconcile
  BY <1>12, ShouldForm, TypesAreTypes, SameLine DEF Types, ShouldReconcile, session, objects
<1>13. CASE ReconcileSource
  <2>1. pkgp.name \in Names /\ pkgp.read.item # None
    BY <1>13 DEF ReconcileSource, PassInv
  <2>2. repo' \in [RepoNames -> Repository] /\ pkgp' \in PassType
    BY <1>13, <2>1, SourceForm
  <2> QED
    BY <1>13, <2>2, TypesAreTypes, SameLine DEF Types, ReconcileSource, session
<1>14. CASE ReconcileApplication
  BY <1>14, ApplicationForm, TypesAreTypes, SameLine DEF Types, ReconcileApplication, session
<1>15. CASE PackageFails
  <2>1. faults' \in 0..scenario.faults
    BY <1>15, ScenarioFacts, TypesAreTypes DEF Types, PackageFails, MayInject
  <2>2. Error
    BY <1>15 DEF PackageFails
  <2> QED
    BY <1>15, <2>1, <2>2, ErrorForm, TypesAreTypes, SameLine DEF Types, PackageFails, session, objects
<1>16. CASE UpdateStatus
  <2>1. pkgp.name \in Names
    BY <1>16 DEF UpdateStatus, PassInv
  <2> QED
    BY <1>16, <2>1, StatusForm, TypesAreTypes, SameLine DEF Types, UpdateStatus, session
<1>17. CASE StatusFails
  <2>1. faults' \in 0..scenario.faults
    BY <1>17, ScenarioFacts, TypesAreTypes DEF Types, StatusFails, MayInject
  <2>2. pkgp' \in PassType
    BY <1>17, TypesAreTypes DEF Types, PassType, StatusFails
  <2> QED
    BY <1>17, <2>1, <2>2, TypesAreTypes, SameLine DEF Types, StatusFails, session, objects
<1>18. CASE Annotate
  <2>1. pkgp.name \in Names /\ EndPass
    BY <1>18 DEF Annotate, PassInv
  <2> QED
    BY <1>18, <2>1, AnnotateForm, EndForm, TypesAreTypes, SameLine DEF Types, Annotate, session
<1>19. CASE AnnotateFails
  <2>1. faults' \in 0..scenario.faults
    BY <1>19, ScenarioFacts, TypesAreTypes DEF Types, AnnotateFails, MayInject
  <2>2. pkgp.name \in Names /\ EndPass
    BY <1>19 DEF AnnotateFails, PassInv
  <2> QED
    BY <1>19, <2>1, <2>2, EndForm, TypesAreTypes, SameLine DEF Types, AnnotateFails, session, objects
<1> QED
  BY <1>1, <1>2, <1>3, <1>4, <1>5, <1>6, <1>7, <1>8, <1>9, <1>10, <1>11, <1>12, <1>13, <1>14, <1>15,
     <1>16, <1>17, <1>18, <1>19
     DEF Next, Localbuild, CustomPackage

(* So it keeps TypeOK.                                                     *)
LEMMA TypeStep ==
  ASSUME TypeOK, PassInv, Next
  PROVE  TypeOK'
BY TypesStep, TypesAreTypes DEF TypeOK, Types, ListType, PassType, CacheType, Line

----------------------------------------------------------------------------
(* What there is was given *)

(* The next invocation adds to what was given.                             *)
LEMMA JobsGrow ==
  ASSUME TypeOK, NextRun
  PROVE  /\ run' = run + 1 /\ run \in Nat /\ scenario' = scenario
         /\ Jobs \subseteq Jobs' /\ \A r : Given(r)' = Given(r)
         /\ \A v : NameOf(v)' = NameOf(v) /\ RepoOf(v)' = RepoOf(v)
<1>1. run' = run + 1 /\ scenario' = scenario /\ run \in Nat
  BY ScenarioFacts DEF NextRun
<1> QED
  BY <1>1 DEF Jobs, Given, NameOf, RepoOf

(* Packages and their cached versions come from what was given.            *)
LEMMA VersionStep ==
  ASSUME TypeOK, OriginInv, PassInv, Next, NEW m \in Names
  PROVE  Version(m, pkg[m])' /\ Version(m, seen.pkg[m])'
<1>1. CASE UNCHANGED <<scenario, run, pkg, seen, run>>
  BY <1>1, SameSession DEF OriginInv, Version, session, Is
<1>2. ASSUME NEW kind \in Kinds, Deliver(kind)
      PROVE  Version(m, pkg[m])' /\ Version(m, seen.pkg[m])'
  <2>1. (seen'.pkg = pkg \/ seen'.pkg = seen.pkg) /\ pkg' = pkg /\ UNCHANGED session
    BY <1>2, DeliverForm DEF Kinds, session
  <2> QED
    BY <2>1, SameSession DEF OriginInv, Version, Is
<1>3. CASE NextRun
  <2>1. \A p : Version(m, p) =>
          /\ p # Missing => \E v \in Jobs' : NameOf(v) = m
          /\ p.item = None => p.start = 0 /\ ~p.synced
          /\ p.item # None => /\ p.start \in 1..run'
                              /\ \E v \in Given(p.start) : NameOf(v) = m /\ Is(p, v)
    BY <1>3, JobsGrow DEF Version
  <2>2. pkg' = pkg /\ seen'.pkg = pkg
    BY <1>3 DEF NextRun, objects, Server
  <2>3. Version(m, pkg[m])
    BY DEF OriginInv
  <2> QED
    <3>0. PICK p : p = pkg[m]
      OBVIOUS
    <3>1. /\ p # Missing => \E v \in Jobs' : NameOf(v)' = m
          /\ p.item = None => p.start = 0 /\ ~p.synced
          /\ p.item # None => /\ p.start \in 1..run'
                              /\ \E v \in Given(p.start)' : NameOf(v)' = m /\ Is(p, v)
      BY <1>3, <2>1, <2>3, <3>0, JobsGrow
    <3>2. Version(m, pkg[m])'
      BY <2>2, <3>0, <3>1 DEF Version, Is
    <3>3. seen'.pkg[m] = pkg'[m]
      BY <2>2
    <3> QED
      BY <3>2, <3>3 DEF Version, Is
<1>4. ASSUME NEW n \in Names, DeleteLower(n)
      PROVE  Version(m, pkg[m])' /\ Version(m, seen.pkg[m])'
  <2>1. (pkg'[m] = Missing \/ pkg'[m] = pkg[m]) /\ seen' = seen /\ UNCHANGED session
    BY <1>4, DeleteForm DEF DeleteLower
  <2> QED
    BY <2>1, SameSession, MissingForm DEF OriginInv, Version, Is
<1>5. ASSUME NEW i \in DOMAIN Line, CreateOrUpdatePackage(i)
      PROVE  Version(m, pkg[m])' /\ Version(m, seen.pkg[m])'
  <2> DEFINE v == Job(Line, i)
  <2>1. seen' = seen /\ UNCHANGED session /\ run \in 1..run
    BY <1>5, ScenarioFacts DEF CreateOrUpdatePackage, TypeOK
  <2>2. \/ pkg'[m] = pkg[m]
        \/ /\ NameOf(v) = m /\ v \in Given(run) /\ v \in Jobs /\ v.item # None
           /\ pkg'[m].item = v.item /\ pkg'[m].priority = v.priority /\ pkg'[m].start = run
    BY <1>5, CreateForm, JobTypes
  <2> HIDE DEF v
  <2> QED
    BY <2>1, <2>2, SameSession DEF OriginInv, Version, Is
<1>6. CASE UpdateStatus
  <2>1. seen' = seen /\ UNCHANGED session
    BY <1>6 DEF UpdateStatus
  <2>2. pkgp.name \in Names /\ pkgp.pc = "status" /\ (pkgp.read.item = None => ~pkgp.synced)
    BY <1>6 DEF PassInv, UpdateStatus
  <2>3. /\ pkg'[m].item = pkg[m].item /\ pkg'[m].priority = pkg[m].priority
        /\ pkg'[m].start = pkg[m].start /\ pkg'[m].uid = pkg[m].uid
        /\ \/ pkg'[m] = pkg[m]
           \/ pkg[m] = pkgp.read /\ pkg'[m].synced = pkgp.synced /\ pkg[m].synced # pkgp.synced
    BY <1>6, <2>2, StatusForm
  <2>4. Version(m, pkg[m]) /\ pkgp.synced \in BOOLEAN
    BY PassForm DEF OriginInv
  <2>5. pkg'[m] # Missing => pkg[m] # Missing
    <3>1. Missing.item = None /\ Missing.synced = FALSE
      BY PackageForm
    <3>2. pkg[m] = Missing /\ pkg[m] = pkgp.read => pkgp.synced = FALSE
      BY <2>2, <2>4, <3>1
    <3>3. pkg[m] = Missing => pkg'[m] = pkg[m]
      BY <2>3, <3>1, <3>2, Zenon
    <3> QED
      BY <3>3
  <2> QED
    BY <2>1, <2>2, <2>3, <2>4, <2>5, SameSession DEF OriginInv, Version, Is
<1>7. CASE Annotate
  <2>1. seen' = seen /\ UNCHANGED session
    BY <1>7 DEF Annotate
  <2>2. pkgp.name \in Names /\ Version(pkgp.name, pkgp.read)
    BY <1>7 DEF PassInv, Annotate
  <2>3. \/ pkg'[m] = pkg[m]
        \/ /\ pkg[m] # Missing
           /\ pkg'[m].item = pkg[m].item /\ pkg'[m].priority = pkg[m].priority
           /\ pkg'[m].start = pkg[m].start /\ pkg'[m].uid = pkg[m].uid
           /\ pkg'[m].synced = pkg[m].synced
        \/ /\ pkg[m] = Missing /\ m = pkgp.name /\ pkgp.read.start # 0
           /\ pkg'[m].item = None /\ pkg'[m].start = 0 /\ pkg'[m].synced = FALSE
    BY <1>7, <2>2, AnnotateForm
  <2>4. pkgp.read.start # 0 => \E v \in Jobs : NameOf(v) = pkgp.name
    BY <2>2, GivenIsJob DEF Version
  <2> QED
    BY <2>1, <2>3, <2>4, SameSession DEF OriginInv, Version, Is
<1> QED
  BY <1>1, <1>2, <1>3, <1>4, <1>5, <1>6, <1>7
     DEF Next, Localbuild, CustomPackage, ServeRepository, CollectGarbage, BeginLocalbuild,
         ListExisting, Yield, ItemFails, BeginPackagePass, ShouldReconcile, ReconcileSource,
         ReconcileApplication, PackageFails, StatusFails, AnnotateFails, session, objects

(* Repositories and their cached versions come from what was given.        *)
LEMMA MadeStep ==
  ASSUME TypeOK, OriginInv, PassInv, Next, NEW q \in RepoNames
  PROVE  Made(q, repo[q])' /\ Made(q, seen.repo[q])'
<1>1. CASE UNCHANGED <<scenario, run, repo, seen, run>>
  BY <1>1, SameSession DEF OriginInv, Made, session
<1>2. ASSUME NEW kind \in Kinds, Deliver(kind)
      PROVE  Made(q, repo[q])' /\ Made(q, seen.repo[q])'
  <2>1. (seen'.repo = repo \/ seen'.repo = seen.repo) /\ repo' = repo /\ UNCHANGED session
    BY <1>2, DeliverForm DEF Kinds, session
  <2> QED
    BY <2>1, SameSession DEF OriginInv, Made
<1>3. ASSUME NEW r \in RepoNames, ServeRepository(r)
      PROVE  Made(q, repo[q])' /\ Made(q, seen.repo[q])'
  <2>1. repo \in [RepoNames -> Repository] /\ seen' = seen /\ UNCHANGED session
    BY <1>3, TypesAreTypes DEF Types, ServeRepository
  <2>2. repo'[q] = repo[q] \/ repo'[q] = [repo[q] EXCEPT !.url = TRUE]
    BY <1>3, <2>1 DEF ServeRepository
  <2>3. repo'[q].owner = repo[q].owner /\ repo'[q].item = repo[q].item
    BY <2>1, <2>2 DEF Repository
  <2> QED
    BY <2>1, <2>3, SameSession DEF OriginInv, Made
<1>4. ASSUME NEW r \in RepoNames, CollectGarbage(r)
      PROVE  Made(q, repo[q])' /\ Made(q, seen.repo[q])'
  <2>1. repo \in [RepoNames -> Repository] /\ seen' = seen /\ UNCHANGED session
    BY <1>4, TypesAreTypes DEF Types, CollectGarbage
  <2>2. repo'[q] = repo[q] \/ repo'[q].owner = None
    BY <1>4, <2>1, RepositoryForm DEF CollectGarbage
  <2> QED
    BY <2>1, <2>2, SameSession DEF OriginInv, Made
<1>5. CASE NextRun
  <2>1. repo' = repo /\ seen'.repo = repo
    BY <1>5 DEF NextRun, objects, Server
  <2>2. Made(q, repo[q])
    BY DEF OriginInv
  <2> QED
    BY <1>5, <2>1, <2>2, JobsGrow DEF Made
<1>6. CASE ReconcileSource
  <2>1. pkgp.name \in Names /\ pkgp.read.item # None /\ Version(pkgp.name, pkgp.read)
        /\ seen' = seen /\ UNCHANGED session
    BY <1>6 DEF ReconcileSource, PassInv
  <2>2. PICK v \in Jobs : NameOf(v) = pkgp.name /\ pkgp.read.item = v.item
    BY <2>1, GivenIsJob DEF Version, Is
  <2>3. \/ repo'[q] = repo[q]
        \/ q = RepoOf(v) /\ repo'[q].owner = pkgp.name /\ repo'[q].item = pkgp.read.item
    BY <1>6, <2>1, <2>2, SourceForm DEF RepoOf
  <2> QED
    BY <2>1, <2>2, <2>3, SameSession DEF OriginInv, Made
<1> QED
  BY <1>1, <1>2, <1>3, <1>4, <1>5, <1>6
     DEF Next, Localbuild, CustomPackage, BeginLocalbuild, ListExisting, DeleteLower, Yield,
         CreateOrUpdatePackage, ItemFails, BeginPackagePass, ShouldReconcile, ReconcileApplication,
         PackageFails, UpdateStatus, StatusFails, Annotate, AnnotateFails, session, objects

(* The Application comes from what was given.                              *)
LEMMA ApplicationStep ==
  ASSUME TypeOK, OriginInv, PassInv, Next
  PROVE  app'.item # None => \E v \in Jobs' : v.item = app'.item
<1>1. CASE UNCHANGED <<scenario, run, app, run>>
  BY <1>1, SameSession DEF OriginInv, session
<1>2. CASE NextRun
  <2>1. app' = app
    BY <1>2 DEF NextRun, objects
  <2> QED
    BY <1>2, <2>1, JobsGrow DEF OriginInv
<1>3. CASE ReconcileApplication
  <2>1. Version(pkgp.name, pkgp.read) /\ UNCHANGED session
    BY <1>3 DEF PassInv, ReconcileApplication
  <2>2. pkgp.read.item # None => \E v \in Jobs : v.item = pkgp.read.item
    BY <2>1, GivenIsJob DEF Version, Is
  <2>3. app'.item = app.item \/ app'.item = pkgp.read.item
    BY <1>3, ApplicationForm
  <2> QED
    BY <2>1, <2>2, <2>3, SameSession DEF OriginInv
<1> QED
  BY <1>1, <1>2, <1>3
     DEF Next, Localbuild, CustomPackage, Deliver, ServeRepository, CollectGarbage, BeginLocalbuild,
         ListExisting, DeleteLower, Yield, CreateOrUpdatePackage, ItemFails, BeginPackagePass,
         ShouldReconcile, ReconcileSource, PackageFails, UpdateStatus, StatusFails, Annotate,
         AnnotateFails, session, objects

(* Every step keeps the origin of the objects.                             *)
LEMMA OriginStep ==
  ASSUME TypeOK, OriginInv, PassInv, Next
  PROVE  OriginInv'
BY VersionStep, MadeStep, ApplicationStep DEF OriginInv

(* What a pass has read comes from what was given.                         *)
LEMMA PassStep ==
  ASSUME TypeOK, OriginInv, PassInv, Next
  PROVE  PassInv'
<1>1. CASE UNCHANGED <<scenario, run, pkgp, lbp, run>>
  BY <1>1, SameSession DEF PassInv, Version, session
<1>2. CASE NextRun
  <2>1. pkgp'.pc = "idle" /\ lbp'.todo = {} /\ ~lbp'.yields
    BY <1>2, PassForm, ListForm DEF NextRun
  <2> QED
    BY <2>1 DEF PassInv
<1>3. CASE BeginLocalbuild
  <2>1. UNCHANGED session /\ pkgp' = pkgp /\ lbp'.pc \in {"list", "delete"}
        /\ (lbp'.pc = "list" => lbp'.todo = {} /\ ~lbp'.yields)
    BY <1>3, BeginForm DEF BeginLocalbuild
  <2> QED
    BY <2>1, SameSession DEF PassInv, Version
<1>4. ASSUME NEW i \in DOMAIN Line, ListExisting(i)
      PROVE  PassInv'
  <2>1. UNCHANGED session /\ pkgp' = pkgp /\ lbp'.pc \in {"list", "delete"}
        /\ (lbp'.pc = "list" => lbp'.todo = {} /\ ~lbp'.yields)
    BY <1>4, ListingForm DEF ListExisting
  <2> QED
    BY <2>1, SameSession DEF PassInv, Version
<1>5. ASSUME NEW n \in Names, DeleteLower(n)
      PROVE  PassInv'
  <2>1. UNCHANGED session /\ pkgp' = pkgp /\ lbp'.pc \in {"list", "delete"}
        /\ (lbp'.pc = "list" => lbp'.todo = {} /\ ~lbp'.yields)
    BY <1>5, DeleteForm DEF DeleteLower
  <2> QED
    BY <2>1, SameSession DEF PassInv, Version
<1>6. ASSUME NEW i \in DOMAIN Line, Yield(i)
      PROVE  PassInv'
  <2>1. UNCHANGED session /\ pkgp' = pkgp /\ lbp'.pc \in {"list", "delete"}
        /\ (lbp'.pc = "list" => lbp'.todo = {} /\ ~lbp'.yields)
    BY <1>6, ListForm DEF Yield
  <2> QED
    BY <2>1, SameSession DEF PassInv, Version
<1>7. ASSUME NEW i \in DOMAIN Line, CreateOrUpdatePackage(i)
      PROVE  PassInv'
  <2>1. UNCHANGED session /\ pkgp' = pkgp /\ lbp'.pc \in {"list", "delete"}
        /\ (lbp'.pc = "list" => lbp'.todo = {} /\ ~lbp'.yields)
    BY <1>7, ListForm DEF CreateOrUpdatePackage
  <2> QED
    BY <2>1, SameSession DEF PassInv, Version
<1>8. ASSUME NEW i \in DOMAIN Line, ItemFails(i)
      PROVE  PassInv'
  <2>1. UNCHANGED session /\ pkgp' = pkgp /\ lbp'.pc \in {"list", "delete"}
        /\ (lbp'.pc = "list" => lbp'.todo = {} /\ ~lbp'.yields)
    BY <1>8, ListForm DEF ItemFails
  <2> QED
    BY <2>1, SameSession DEF PassInv, Version
<1>9. ASSUME NEW n \in Names, BeginPackagePass(n)
      PROVE  PassInv'
  <2>1. UNCHANGED session /\ lbp' = lbp /\ Version(n, seen.pkg[n])
    BY <1>9 DEF BeginPackagePass, OriginInv
  <2>2. seen.pkg[n].item = None => ~seen.pkg[n].synced
    BY <2>1 DEF Version
  <2>3. CASE pkgp' = pkgp
    BY <2>1, <2>3, SameSession DEF PassInv, Version
  <2>4. CASE /\ pkgp'.pc = "arbitrate" /\ pkgp'.name = n /\ pkgp'.read = seen.pkg[n]
             /\ pkgp'.synced = seen.pkg[n].synced
    BY <2>1, <2>2, <2>4, SameSession DEF PassInv, Version
  <2> QED
    BY <1>9, <2>3, <2>4, BeginPassForm
<1>10. CASE ShouldReconcile
  <2>1. UNCHANGED session /\ lbp' = lbp /\ pkgp.pc # "idle"
    BY <1>10 DEF ShouldReconcile
  <2>2. /\ pkgp'.name = pkgp.name /\ pkgp'.read = pkgp.read
        /\ pkgp'.pc \in {"source", "application"} => pkgp.read.item # None
        /\ pkgp.read.item = None => ~pkgp'.synced
    BY <1>10, <2>1, ShouldForm DEF PassInv, HasPriority
  <2> QED
    BY <2>1, <2>2, SameSession DEF PassInv, Version
<1>11. CASE ReconcileSource
  <2>1. UNCHANGED session /\ lbp' = lbp /\ pkgp.name \in Names /\ pkgp.read.item # None
        /\ Version(pkgp.name, pkgp.read)
    BY <1>11 DEF ReconcileSource, PassInv
  <2>2. pkgp'.name = pkgp.name /\ pkgp'.read = pkgp.read
    BY <1>11, <2>1, SourceForm
  <2> QED
    BY <2>1, <2>2, SameSession DEF PassInv, Version
<1>12. CASE ReconcileApplication
  <2>1. UNCHANGED session /\ lbp' = lbp /\ pkgp.pc # "idle"
    BY <1>12 DEF ReconcileApplication
  <2>2. /\ pkgp'.name = pkgp.name /\ pkgp'.read = pkgp.read
        /\ pkgp'.pc \in {"source", "application"} => pkgp.read.item # None
        /\ pkgp.read.item = None => ~pkgp'.synced
    BY <1>12, <2>1, ApplicationForm DEF PassInv
  <2> QED
    BY <2>1, <2>2, SameSession DEF PassInv, Version
<1>13. CASE PackageFails
  <2>1. UNCHANGED session /\ lbp' = lbp /\ pkgp.pc # "idle" /\ Error
    BY <1>13 DEF PackageFails
  <2>2. /\ pkgp'.name = pkgp.name /\ pkgp'.read = pkgp.read
        /\ pkgp'.pc \in {"source", "application"} => pkgp.read.item # None
        /\ pkgp.read.item = None => ~pkgp'.synced
    BY <2>1, ErrorForm DEF PassInv
  <2> QED
    BY <2>1, <2>2, SameSession DEF PassInv, Version
<1>14. CASE UpdateStatus
  <2>1. UNCHANGED session /\ lbp' = lbp /\ pkgp.pc # "idle" /\ pkgp.name \in Names
    BY <1>14 DEF UpdateStatus, PassInv
  <2>2. pkgp' = [pkgp EXCEPT !.pc = "annotate"] /\ pkgp \in PassType
    BY <1>14, TypesAreTypes DEF Types, UpdateStatus
  <2>3. /\ pkgp'.name = pkgp.name /\ pkgp'.read = pkgp.read /\ pkgp'.synced = pkgp.synced
        /\ pkgp'.pc = "annotate"
    BY <2>2 DEF PassType
  <2> QED
    BY <2>1, <2>3, SameSession DEF PassInv, Version
<1>15. CASE StatusFails
  <2>1. UNCHANGED session /\ lbp' = lbp /\ pkgp.pc # "idle" /\ pkgp.name \in Names
    BY <1>15 DEF StatusFails, PassInv
  <2>2. pkgp' = [pkgp EXCEPT !.pc = "annotate"] /\ pkgp \in PassType
    BY <1>15, TypesAreTypes DEF Types, StatusFails
  <2>3. /\ pkgp'.name = pkgp.name /\ pkgp'.read = pkgp.read /\ pkgp'.synced = pkgp.synced
        /\ pkgp'.pc = "annotate"
    BY <2>2 DEF PassType
  <2> QED
    BY <2>1, <2>3, SameSession DEF PassInv, Version
<1>16. CASE Annotate
  <2>1. UNCHANGED session /\ lbp' = lbp /\ EndPass
    BY <1>16 DEF Annotate
  <2>2. pkgp'.pc = "idle"
    BY <2>1, PassForm DEF EndPass
  <2> QED
    BY <2>1, <2>2 DEF PassInv
<1>17. CASE AnnotateFails
  <2>1. UNCHANGED session /\ lbp' = lbp /\ EndPass
    BY <1>17 DEF AnnotateFails
  <2>2. pkgp'.pc = "idle"
    BY <2>1, PassForm DEF EndPass
  <2> QED
    BY <2>1, <2>2 DEF PassInv
<1> QED
  BY <1>1, <1>2, <1>3, <1>4, <1>5, <1>6, <1>7, <1>8, <1>9, <1>10, <1>11, <1>12, <1>13, <1>14, <1>15,
     <1>16, <1>17
     DEF Next, Localbuild, CustomPackage, Deliver, ServeRepository, CollectGarbage, session, objects

----------------------------------------------------------------------------
(* The package and the application of the winner *)

(* Of the versions that there are, one of the priority, of the item, or in *)
(* the place of the winner is the winner.                                  *)
LEMMA VersionBelow ==
  ASSUME TypeOK, NEW w, Top(w), NEW n, NEW p, Version(n, p)
  PROVE  /\ p.item # None =>
              /\ p.priority <= w.priority /\ (p.priority = w.priority => Is(p, w))
              /\ p.item = w.item => Is(p, w)
              /\ n = NameOf(w) /\ scenario.lag # {} => Is(p, w)
              /\ n = NameOf(w) /\ scenario.repo[p.item] = RepoOf(w) => Is(p, w)
         /\ Is(p, w) => n = NameOf(w) /\ p.item # None /\ p.start # 0 /\ p.start \in 1..run
<1>1. w \in Jobs /\ w.item # None
  BY JobTypes DEF Top
<1>2. CASE p.item # None
  <2>1. PICK v \in Jobs : NameOf(v) = n /\ Is(p, v)
    BY <1>2, GivenIsJob DEF Version
  <2>2. /\ v.priority <= w.priority /\ (v.priority = w.priority => v = w)
        /\ v.item = w.item => v = w
        /\ NameOf(v) = NameOf(w) /\ RepoOf(v) = RepoOf(w) => v = w
        /\ NameOf(v) = NameOf(w) /\ scenario.lag # {} => v = w
    BY TopIsAlone
  <2>3. p.start \in 1..run /\ run \in Nat
    BY <1>2, ScenarioFacts DEF Version
  <2> QED
    BY <1>2, <2>1, <2>2, <2>3 DEF Is, RepoOf
<1>3. CASE p.item = None
  BY <1>1, <1>3 DEF Is
<1> QED
  BY <1>2, <1>3

(* The winner has names, and nothing that is missing is the winner.        *)
LEMMA WinnerTypes ==
  ASSUME TypeOK, NEW w, Top(w)
  PROVE  /\ NameOf(w) \in Names /\ RepoOf(w) \in RepoNames /\ w.item # None /\ NameOf(w) # None
         /\ w.priority \in Nat /\ w \in Jobs
         /\ ~Is(Missing, w) /\ \A p : p.item = None => ~Is(p, w)
BY JobTypes, MissingForm DEF Top, Is

(* What is missing has no status to be written.                            *)
LEMMA StatusOfMissing ==
  ASSUME TypeOK, PassInv, UpdateStatus, NEW n \in Names, pkg[n] = Missing
  PROVE  pkg'[n] = Missing
<1>1. pkgp.name \in Names /\ (pkgp.read.item = None => ~pkgp.synced) /\ pkgp.synced \in BOOLEAN
  BY PassForm DEF PassInv, UpdateStatus
<1>2. \/ pkg'[n] = pkg[n]
      \/ pkg[n] = pkgp.read /\ pkg[n].synced # pkgp.synced
  BY <1>1, StatusForm
<1>3. pkg[n] = pkgp.read => pkgp.synced = FALSE
  BY <1>1, MissingForm
<1>4. pkg[n].synced = FALSE
  BY MissingForm
<1> QED
  BY <1>2, <1>3, <1>4, Zenon

(* A pass that has something to annotate has read a package.               *)
LEMMA AnnotatesPackage ==
  ASSUME PassInv, Annotate, pkgp.read.start # 0
  PROVE  pkgp.read.item # None
BY DEF PassInv, Annotate, Version

(* What a cache has of the winner stays true of the server.                *)
LEMMA CachedStep ==
  ASSUME TypeOK, OriginInv, PassInv, NEW w, Top(w), Cached(w), Read(w), Applied(w), Spared(w), Next,
         UNCHANGED session
  PROVE  Cached(w)'
<1>1. CASE UNCHANGED <<scenario, run, pkg, seen>>
  BY <1>1, SameSession DEF Cached
<1>2. ASSUME NEW kind \in Kinds, Deliver(kind)
      PROVE  Cached(w)'
  <2>1. (seen'.pkg = pkg \/ seen'.pkg = seen.pkg) /\ pkg' = pkg
    BY <1>2, DeliverForm DEF Kinds
  <2> QED
    BY <2>1, SameSession DEF Cached, Is
<1>3. ASSUME NEW n \in Names, DeleteLower(n)
      PROVE  Cached(w)'
  <2>1. seen' = seen /\ (n = NameOf(w) => ~Is(pkg[NameOf(w)], w))
    BY <1>3, DeleteForm DEF DeleteLower, Spared
  <2>2. NameOf(w) \in Names
    BY WinnerTypes
  <2>3. \/ pkg'[NameOf(w)] = pkg[NameOf(w)]
        \/ n = NameOf(w) /\ pkg'[NameOf(w)] = Missing
    BY <1>3, <2>2, DeleteForm
  <2> QED
    BY <2>1, <2>3, SameSession, WinnerTypes DEF Cached, Is
<1>4. ASSUME NEW i \in DOMAIN Line, CreateOrUpdatePackage(i)
      PROVE  Cached(w)'
  <2> DEFINE v == Job(Line, i)
  <2>1. seen' = seen /\ lbp.pc = "delete" /\ Current(i) /\ i \in lbp.work /\ ~lbp.yields
    BY <1>4 DEF CreateOrUpdatePackage, Current
  <2>2. NameOf(v) = NameOf(w) => v = w \/ (~Is(pkg[NameOf(w)], w) /\ scenario.lag = {})
    <3>1. v \in Jobs
      BY <1>4, CreateForm
    <3>2. NameOf(v) = NameOf(w) /\ v # w => ~Is(pkg[NameOf(w)], w)
      BY <2>1 DEF Spared
    <3>3. NameOf(v) = NameOf(w) /\ scenario.lag # {} => v = w
      BY <3>1, TopIsAlone
    <3> QED
      BY <3>2, <3>3
  <2>3. \/ pkg'[NameOf(w)] = pkg[NameOf(w)]
        \/ /\ NameOf(v) = NameOf(w)
           /\ pkg'[NameOf(w)].item = v.item /\ pkg'[NameOf(w)].priority = v.priority
           /\ pkg[NameOf(w)] = Missing \/ pkg'[NameOf(w)].uid = pkg[NameOf(w)].uid
    BY <1>4, CreateForm, WinnerTypes
  <2> HIDE DEF v
  <2> QED
    BY <2>1, <2>2, <2>3, SameSession, WinnerTypes DEF Cached, Is
<1>5. CASE UpdateStatus
  <2>1. seen' = seen /\ pkgp.name \in Names
    BY <1>5 DEF UpdateStatus, PassInv
  <2>2. /\ pkg'[NameOf(w)].item = pkg[NameOf(w)].item /\ pkg'[NameOf(w)].priority = pkg[NameOf(w)].priority
        /\ pkg'[NameOf(w)].uid = pkg[NameOf(w)].uid
        /\ pkg[NameOf(w)] = Missing => pkg'[NameOf(w)] = Missing
    BY <1>5, <2>1, StatusForm, StatusOfMissing, WinnerTypes
  <2> QED
    BY <2>1, <2>2, SameSession DEF Cached, Is
<1>6. CASE Annotate
  <2>1. seen' = seen /\ pkgp.name \in Names /\ pkgp.pc # "idle" /\ Version(pkgp.name, pkgp.read)
    BY <1>6 DEF Annotate, PassInv
  <2>2. pkgp.name = NameOf(w) /\ pkgp.read.start # 0 /\ scenario.lag # {} => Is(pkg[NameOf(w)], w)
    BY <1>6, <2>1, AnnotatesPackage, VersionBelow DEF Read, Cached
  <2>3. \/ pkg'[NameOf(w)] = pkg[NameOf(w)]
        \/ /\ pkg[NameOf(w)] # Missing
           /\ pkg'[NameOf(w)].item = pkg[NameOf(w)].item /\ pkg'[NameOf(w)].priority = pkg[NameOf(w)].priority
           /\ pkg'[NameOf(w)].uid = pkg[NameOf(w)].uid
        \/ /\ pkg[NameOf(w)] = Missing /\ NameOf(w) = pkgp.name /\ pkgp.read.start # 0
           /\ pkg'[NameOf(w)].item = None
    BY <1>6, <2>1, AnnotateForm, WinnerTypes
  <2> QED
    BY <2>1, <2>2, <2>3, SameSession, WinnerTypes DEF Cached, Is
<1>7. ~NextRun
  BY ScenarioFacts DEF NextRun, session
<1> QED
  BY <1>1, <1>2, <1>3, <1>4, <1>5, <1>6, <1>7
     DEF Next, Localbuild, CustomPackage, ServeRepository, CollectGarbage, BeginLocalbuild,
         ListExisting, Yield, ItemFails, BeginPackagePass, ShouldReconcile, ReconcileSource,
         ReconcileApplication, PackageFails, StatusFails, AnnotateFails, session, objects

(* A worker that may act sees the server, but for the kinds that trail.    *)
LEMMA WorkerSees ==
  ASSUME MayWork
  PROVE  /\ scenario.lag = {} => seen.pkg = pkg /\ seen.repo = repo /\ seen.app = app
         /\ "app" \notin scenario.lag => seen.app = app
BY DEF MayWork, Kinds, Server

(* The turn stays while the work does.                                     *)
LEMMA SameTurn ==
  ASSUME UNCHANGED session, lbp'.work = lbp.work
  PROVE  \A i : Current(i)' = Current(i) /\ Job(Line, i)' = Job(Line, i)
BY SameSession DEF Current, Job, Index, Precedes, Turn

(* A pass goes on with what it has read, until it is over.                 *)
LEMMA PassGoesOn ==
  ASSUME TypeOK, PassInv, ShouldReconcile \/ ReconcileSource \/ ReconcileApplication \/ PackageFails
                          \/ UpdateStatus \/ StatusFails
  PROVE  /\ pkgp.pc # "idle" /\ pkgp'.name = pkgp.name /\ pkgp'.read = pkgp.read
         /\ pkgp.pc = "application" => pkgp'.pc = "status"
         /\ pkgp'.pc = "application" => ReconcileSource
         /\ pkgp'.pc = "source" => ReconcileSource \/ ShouldReconcile
<1>1. CASE ShouldReconcile
  BY <1>1, ShouldForm
<1>2. CASE ReconcileSource
  BY <1>2, SourceForm DEF PassInv, ReconcileSource
<1>3. CASE ReconcileApplication
  BY <1>3, ApplicationForm
<1>4. CASE PackageFails
  BY <1>4, ErrorForm DEF PackageFails
<1>5. CASE UpdateStatus
  BY <1>5, StatusForm DEF PassInv, UpdateStatus
<1>6. CASE StatusFails
  <2>1. pkgp' = [pkgp EXCEPT !.pc = "annotate"] /\ pkgp \in PassType /\ pkgp.pc = "status"
    BY <1>6, TypesAreTypes DEF Types, StatusFails
  <2> QED
    BY <2>1 DEF PassType
<1> QED
  BY <1>1, <1>2, <1>3, <1>4, <1>5, <1>6

(* The annotation is the end of a pass.                                    *)
LEMMA PassEnds ==
  ASSUME TypeOK, PassInv, Annotate \/ AnnotateFails
  PROVE  pkgp'.pc = "idle"
BY PassForm DEF Annotate, AnnotateFails, EndPass

(* A pass that has read the package of the winner has read the one there   *)
(* is.                                                                     *)
LEMMA ReadStep ==
  ASSUME TypeOK, OriginInv, PassInv, NEW w, Top(w), Cached(w), Read(w), Applied(w), Spared(w), Next,
         UNCHANGED session
  PROVE  Read(w)'
<1>1. CASE UNCHANGED <<scenario, run, pkgp, pkg, seen>>
  BY <1>1, SameSession DEF Read
<1>2. ASSUME NEW kind \in Kinds, Deliver(kind)
      PROVE  Read(w)'
  <2>1. (seen'.pkg = pkg \/ seen'.pkg = seen.pkg) /\ pkg' = pkg /\ pkgp' = pkgp
    BY <1>2, DeliverForm DEF Kinds
  <2> QED
    BY <2>1, SameSession DEF Read, Cached, Is
<1>3. ASSUME NEW n \in Names, DeleteLower(n)
      PROVE  Read(w)'
  <2>1. seen' = seen /\ pkgp' = pkgp /\ (n = NameOf(w) => ~Is(pkg[NameOf(w)], w))
    BY <1>3, DeleteForm DEF DeleteLower, Spared
  <2>2. n # NameOf(w) => pkg'[NameOf(w)] = pkg[NameOf(w)]
    BY <1>3, DeleteForm, WinnerTypes
  <2> QED
    BY <2>1, <2>2, SameSession DEF Read, Cached, Is
<1>4. ASSUME NEW i \in DOMAIN Line, CreateOrUpdatePackage(i)
      PROVE  Read(w)'
  <2>1. seen' = seen /\ pkgp' = pkgp
    BY <1>4 DEF CreateOrUpdatePackage
  <2>2. pkg[NameOf(w)] = Missing \/ pkg'[NameOf(w)].uid = pkg[NameOf(w)].uid
    BY <1>4, CreateForm, WinnerTypes
  <2>3. Is(pkgp.read, w) /\ pkgp.pc # "idle" => pkg[NameOf(w)] # Missing
    BY WinnerTypes DEF Read, Cached
  <2> QED
    BY <2>1, <2>2, <2>3, SameSession DEF Read, Is
<1>5. ASSUME NEW n \in Names, BeginPackagePass(n)
      PROVE  Read(w)'
  <2>1. seen' = seen /\ pkg' = pkg /\ Version(n, seen.pkg[n])
    BY <1>5 DEF BeginPackagePass, OriginInv, objects
  <2>2. Is(seen.pkg[n], w) => n = NameOf(w)
    BY <2>1, VersionBelow
  <2>3. pkgp' = pkgp \/ pkgp'.read = seen.pkg[n]
    BY <1>5, BeginPassForm
  <2> QED
    BY <2>1, <2>2, <2>3, SameSession DEF Read, Cached, Is
<1>6. CASE ShouldReconcile
  <2>1. seen' = seen /\ pkg' = pkg
    BY <1>6 DEF ShouldReconcile, objects
  <2>2. pkgp.pc # "idle" /\ pkgp'.read = pkgp.read
    BY <1>6, PassGoesOn
  <2> QED
    BY <2>1, <2>2, SameSession DEF Read, Is
<1>7. CASE ReconcileSource
  <2>1. seen' = seen /\ pkg' = pkg
    BY <1>7 DEF ReconcileSource, objects
  <2>2. pkgp.pc # "idle" /\ pkgp'.read = pkgp.read
    BY <1>7, PassGoesOn
  <2> QED
    BY <2>1, <2>2, SameSession DEF Read, Is
<1>8. CASE ReconcileApplication
  <2>1. seen' = seen /\ pkg' = pkg
    BY <1>8 DEF ReconcileApplication, objects
  <2>2. pkgp.pc # "idle" /\ pkgp'.read = pkgp.read
    BY <1>8, PassGoesOn
  <2> QED
    BY <2>1, <2>2, SameSession DEF Read, Is
<1>9. CASE PackageFails
  <2>1. seen' = seen /\ pkg' = pkg
    BY <1>9 DEF PackageFails, objects
  <2>2. pkgp.pc # "idle" /\ pkgp'.read = pkgp.read
    BY <1>9, PassGoesOn
  <2> QED
    BY <2>1, <2>2, SameSession DEF Read, Is
<1>10. CASE UpdateStatus
  <2>1. seen' = seen /\ pkgp.name \in Names
    BY <1>10 DEF UpdateStatus, PassInv
  <2>2. pkgp.pc # "idle" /\ pkgp'.read = pkgp.read
    BY <1>10, PassGoesOn
  <2>3. pkg'[NameOf(w)].uid = pkg[NameOf(w)].uid
    BY <1>10, <2>1, StatusForm, WinnerTypes
  <2> QED
    BY <2>1, <2>2, <2>3, SameSession DEF Read, Is
<1>11. CASE StatusFails
  <2>1. seen' = seen /\ pkg' = pkg
    BY <1>11 DEF StatusFails, objects
  <2>2. pkgp.pc # "idle" /\ pkgp'.read = pkgp.read
    BY <1>11, PassGoesOn
  <2> QED
    BY <2>1, <2>2, SameSession DEF Read, Is
<1>12. CASE Annotate
  BY <1>12, PassEnds DEF Read
<1>13. CASE AnnotateFails
  BY <1>13, PassEnds DEF Read
<1>14. ~NextRun
  BY ScenarioFacts DEF NextRun, session
<1> QED
  BY <1>1, <1>2, <1>3, <1>4, <1>5, <1>6, <1>7, <1>8, <1>9, <1>10, <1>11, <1>12, <1>13, <1>14
     DEF Next, Localbuild, CustomPackage, ServeRepository, CollectGarbage, BeginLocalbuild,
         ListExisting, Yield, ItemFails, session, objects

(* The Application of the winner stays with it: a lower pass does not      *)
(* reach it.                                                               *)
LEMMA AppliedStep ==
  ASSUME TypeOK, OriginInv, PassInv, NEW w, Top(w), Cached(w), Read(w), Applied(w), Spared(w), Next,
         UNCHANGED session
  PROVE  Applied(w)'
<1>1. CASE UNCHANGED <<scenario, run, pkgp, app, seen>>
  BY <1>1, SameSession DEF Applied
<1>2. ASSUME NEW kind \in Kinds, Deliver(kind)
      PROVE  Applied(w)'
  <2>1. (seen'.pkg = pkg \/ seen'.pkg = seen.pkg) /\ app' = app /\ pkgp' = pkgp
    BY <1>2, DeliverForm DEF Kinds
  <2> QED
    BY <2>1, SameSession DEF Applied, Cached, Is
<1>3. ASSUME NEW n \in Names, BeginPackagePass(n)
      PROVE  Applied(w)'
  <2>1. seen' = seen /\ app' = app
    BY <1>3 DEF BeginPackagePass, objects
  <2>2. \/ pkgp' = pkgp
        \/ pkgp'.pc = "arbitrate" /\ pkgp'.name = n /\ pkgp'.read = seen.pkg[n]
    BY <1>3, BeginPassForm
  <2> QED
    BY <2>1, <2>2, SameSession DEF Applied, Is
<1>4. CASE ShouldReconcile
  <2>1. seen' = seen /\ app' = app /\ pkgp.pc # "idle" /\ pkgp.name \in Names /\ Version(pkgp.name, pkgp.read)
    BY <1>4 DEF ShouldReconcile, objects, PassInv
  <2>2. pkgp.pc # "idle" /\ pkgp'.name = pkgp.name /\ pkgp'.read = pkgp.read
    BY <1>4, PassGoesOn
  <2>3. ASSUME app.item = w.item, pkgp'.pc \in {"source", "application"}
        PROVE  Is(pkgp.read, w)
    <3>1. ~Superseded /\ HasPriority(pkgp.read)
      BY <1>4, <2>3, ShouldForm
    <3>2. Is(seen.pkg[NameOf(w)], w) /\ NameOf(w) \in Names /\ w.item # None
      BY <2>3, WinnerTypes DEF Applied
    <3>3. CASE pkgp.name = NameOf(w)
      BY <2>1, <2>3, <3>3 DEF Applied
    <3>4. CASE pkgp.name # NameOf(w)
      <4>1. ~(w.priority > pkgp.read.priority)
        BY <3>1, <3>2, <3>4 DEF Superseded, HasPriority, Is
      <4>2. pkgp.read.priority <= w.priority /\ pkgp.read.priority \in Nat /\ w.priority \in Nat
        BY <2>1, <3>1, VersionBelow, WinnerTypes, PassForm, PackageForm DEF HasPriority
      <4>3. pkgp.read.priority = w.priority
        BY <4>1, <4>2
      <4> QED
        BY <2>1, <3>1, <4>3, VersionBelow DEF HasPriority
    <3> QED
      BY <3>3, <3>4
  <2> QED
    BY <2>1, <2>2, <2>3, SameSession DEF Applied, Is
<1>5. CASE ReconcileSource
  <2>1. seen' = seen /\ app' = app /\ pkgp.pc = "source"
    BY <1>5 DEF ReconcileSource
  <2>2. pkgp'.name = pkgp.name /\ pkgp'.read = pkgp.read
    BY <1>5, PassGoesOn
  <2> QED
    BY <2>1, <2>2, SameSession DEF Applied, Is
<1>6. CASE ReconcileApplication
  <2>1. seen' = seen /\ pkgp.pc = "application" /\ pkgp.name \in Names /\ Version(pkgp.name, pkgp.read)
        /\ pkgp.read.item # None
    BY <1>6 DEF ReconcileApplication, PassInv
  <2>2. pkgp'.name = pkgp.name /\ pkgp'.read = pkgp.read /\ pkgp'.pc = "status"
    BY <1>6, ApplicationForm
  <2>3. app' = app \/ app'.item = pkgp.read.item
    BY <1>6, ApplicationForm
  <2>4. pkgp.read.item = w.item => Is(pkgp.read, w)
    BY <2>1, VersionBelow
  <2> QED
    BY <2>1, <2>2, <2>3, <2>4, SameSession DEF Applied, Read, Is
<1>7. CASE PackageFails
  <2>1. seen' = seen /\ app' = app /\ pkgp.pc # "idle" /\ Error
    BY <1>7 DEF PackageFails, objects
  <2>2. pkgp'.name = pkgp.name /\ pkgp'.read = pkgp.read /\ pkgp'.pc = "status"
    BY <2>1, ErrorForm
  <2> QED
    BY <2>1, <2>2, SameSession DEF Applied, Is
<1>8. CASE UpdateStatus
  <2>1. seen' = seen /\ app' = app
    BY <1>8 DEF UpdateStatus, objects
  <2>2. pkgp.pc # "idle" /\ pkgp'.name = pkgp.name /\ pkgp'.read = pkgp.read
        /\ pkgp'.pc \notin {"source", "application"}
    BY <1>8, PassGoesOn DEF UpdateStatus, ReconcileSource, ShouldReconcile
  <2> QED
    BY <2>1, <2>2, SameSession DEF Applied, Is
<1>9. CASE StatusFails
  <2>1. seen' = seen /\ app' = app
    BY <1>9 DEF StatusFails, objects
  <2>2. pkgp.pc # "idle" /\ pkgp'.name = pkgp.name /\ pkgp'.read = pkgp.read
        /\ pkgp'.pc \notin {"source", "application"}
    BY <1>9, PassGoesOn DEF StatusFails, ReconcileSource, ShouldReconcile
  <2> QED
    BY <2>1, <2>2, SameSession DEF Applied, Is
<1>10. CASE Annotate
  <2>1. seen' = seen /\ app' = app /\ pkgp'.pc = "idle"
    BY <1>10, PassEnds DEF Annotate
  <2> QED
    BY <2>1, SameSession DEF Applied
<1>11. CASE AnnotateFails
  <2>1. seen' = seen /\ app' = app /\ pkgp'.pc = "idle"
    BY <1>11, PassEnds DEF AnnotateFails, objects
  <2> QED
    BY <2>1, SameSession DEF Applied
<1>12. ~NextRun
  BY ScenarioFacts DEF NextRun, session
<1> QED
  BY <1>1, <1>2, <1>3, <1>4, <1>5, <1>6, <1>7, <1>8, <1>9, <1>10, <1>11, <1>12
     DEF Next, Localbuild, CustomPackage, ServeRepository, CollectGarbage, BeginLocalbuild,
         ListExisting, DeleteLower, Yield, CreateOrUpdatePackage, ItemFails, session, objects

(* The package of the winner is no candidate of a delete or an overwrite.  *)
LEMMA SparedStep ==
  ASSUME TypeOK, OriginInv, PassInv, NEW w, Top(w), Cached(w), Read(w), Applied(w), Spared(w), Next,
         UNCHANGED session
  PROVE  Spared(w)'
<1>1. CASE UNCHANGED <<scenario, run, lbp, pkg>>
  <2>1. \A j : Current(j)' = Current(j) /\ Job(Line, j)' = Job(Line, j)
    BY <1>1, SameTurn
  <2> QED
    BY <1>1, <2>1, SameSession DEF Spared
<1>2. CASE BeginLocalbuild
  BY <1>2, BeginForm DEF Spared
<1>3. ASSUME NEW i \in DOMAIN Line, ListExisting(i)
      PROVE  Spared(w)'
  <2> DEFINE v == Job(Line, i)
             existing == {n \in Names : HasPriority(seen.pkg[n])}
             lower == {n \in existing : seen.pkg[n].priority < v.priority}
             higher == {n \in existing : seen.pkg[n].priority > v.priority}
  <2>1. pkg' = pkg /\ lbp'.work = lbp.work /\ lbp'.todo \subseteq lower /\ (~lbp'.yields => higher = {})
    BY <1>3, ListingForm DEF ListExisting, objects
  <2>2. v \in Jobs /\ v.priority \in Nat /\ v.priority <= w.priority /\ (v # w => v.priority < w.priority)
    BY GivenIsJob, JobTypes, TopIsAlone DEF Top
  <2>3. NameOf(w) \in Names /\ w.priority \in Nat /\ ~Is(Missing, w) /\ w.item # None
    BY WinnerTypes
  <2>4. scenario.lag = {} => seen.pkg = pkg
    BY <1>3, WorkerSees DEF ListExisting
  <2>5. NameOf(w) \in lbp'.todo => ~Is(pkg[NameOf(w)], w)
    <3>1. NameOf(w) \in lower => ~Is(seen.pkg[NameOf(w)], w) /\ seen.pkg[NameOf(w)] # Missing
      BY <2>2, <2>3, MissingForm DEF Is, HasPriority
    <3> QED
      BY <2>1, <2>4, <3>1 DEF Cached
  <2>6. ASSUME NEW j \in lbp.work, Current(j), ~lbp'.yields, Job(Line, j) # w, NameOf(Job(Line,
               j)) = NameOf(w)
        PROVE  ~Is(pkg[NameOf(w)], w)
    <3>1. Current(i) /\ i \in lbp.work
      BY <1>3 DEF ListExisting, Current
    <3>2. i = j
      BY <2>6, <3>1, CurrentOnce
    <3>3. v # w /\ NameOf(v) = NameOf(w)
      BY <2>6, <3>2
    <3>4. scenario.lag = {}
      BY <2>2, <3>3, TopIsAlone
    <3>5. NameOf(w) \notin higher
      BY <2>1, <2>6
    <3>6. ~Is(seen.pkg[NameOf(w)], w)
      BY <2>2, <2>3, <3>3, <3>5 DEF Is, HasPriority
    <3> QED
      BY <2>4, <3>4, <3>6
  <2>7. \A j : Current(j)' = Current(j) /\ Job(Line, j)' = Job(Line, j)
    BY <2>1, SameTurn
  <2> HIDE DEF v, lower, higher
  <2> QED
    BY <2>1, <2>5, <2>6, <2>7, SameSession DEF Spared, Is
<1>4. ASSUME NEW n \in Names, DeleteLower(n)
      PROVE  Spared(w)'
  <2>1. pkg'[NameOf(w)] = pkg[NameOf(w)] \/ pkg'[NameOf(w)] = Missing
    BY <1>4, DeleteForm, WinnerTypes
  <2>2. lbp.pc = "delete" /\ lbp'.work = lbp.work /\ lbp'.todo \subseteq lbp.todo /\ lbp'.yields = lbp.yields
    BY <1>4, DeleteForm
  <2>3. \A j : Current(j)' = Current(j) /\ Job(Line, j)' = Job(Line, j)
    BY <2>2, SameTurn
  <2>4. ~Is(Missing, w)
    BY WinnerTypes
  <2> QED
    BY <2>1, <2>2, <2>3, <2>4, SameSession DEF Spared, Is
<1>5. ASSUME NEW i \in DOMAIN Line, Yield(i)
      PROVE  Spared(w)'
  BY <1>5, ListForm DEF Spared, Yield
<1>6. ASSUME NEW i \in DOMAIN Line, CreateOrUpdatePackage(i)
      PROVE  Spared(w)'
  BY <1>6, ListForm DEF Spared, CreateOrUpdatePackage
<1>7. ASSUME NEW i \in DOMAIN Line, ItemFails(i)
      PROVE  Spared(w)'
  BY <1>7, ListForm DEF Spared, ItemFails
<1>8. CASE UpdateStatus
  <2>1. lbp' = lbp /\ pkgp.name \in Names
    BY <1>8 DEF UpdateStatus, PassInv
  <2>2. pkg'[NameOf(w)].item = pkg[NameOf(w)].item /\ pkg'[NameOf(w)].priority = pkg[NameOf(w)].priority
    BY <1>8, <2>1, StatusForm, WinnerTypes
  <2>3. \A j : Current(j)' = Current(j) /\ Job(Line, j)' = Job(Line, j)
    BY <2>1, SameTurn
  <2> QED
    BY <2>1, <2>2, <2>3, SameSession DEF Spared, Is
<1>9. CASE Annotate
  <2>1. lbp' = lbp /\ pkgp.name \in Names
    BY <1>9 DEF Annotate, PassInv
  <2>2. \/ pkg'[NameOf(w)] = pkg[NameOf(w)]
        \/ pkg'[NameOf(w)].item = pkg[NameOf(w)].item /\ pkg'[NameOf(w)].priority = pkg[NameOf(w)].priority
        \/ pkg'[NameOf(w)].item = None
    BY <1>9, <2>1, AnnotateForm, WinnerTypes
  <2>3. \A j : Current(j)' = Current(j) /\ Job(Line, j)' = Job(Line, j)
    BY <2>1, SameTurn
  <2>4. w.item # None
    BY WinnerTypes
  <2> QED
    BY <2>1, <2>2, <2>3, <2>4, SameSession DEF Spared, Is
<1>10. ~NextRun
  BY ScenarioFacts DEF NextRun, session
<1> QED
  BY <1>1, <1>2, <1>3, <1>4, <1>5, <1>6, <1>7, <1>8, <1>9, <1>10
     DEF Next, Localbuild, CustomPackage, Deliver, ServeRepository, CollectGarbage,
         BeginPackagePass, ShouldReconcile, ReconcileSource, ReconcileApplication, PackageFails,
         StatusFails, AnnotateFails, session, objects

----------------------------------------------------------------------------
(* The item of the winner makes its package *)

(* When the winner has its turn, nothing makes it yield.                   *)
LEMMA TurnedStep ==
  ASSUME TypeOK, OriginInv, PassInv, NEW w, Top(w), Cached(w), Read(w), Applied(w), Spared(w),
         w \in Given(run), Turned(w), Next, UNCHANGED session
  PROVE  Turned(w)'
<1>1. CASE UNCHANGED <<scenario, run, lbp, pkg>>
  <2>1. \A j : Current(j)' = Current(j) /\ Job(Line, j)' = Job(Line, j)
    BY <1>1, SameTurn
  <2> QED
    BY <1>1, <2>1, SameSession DEF Turned
<1>2. CASE BeginLocalbuild
  BY <1>2, BeginForm DEF Turned
<1>3. ASSUME NEW i \in DOMAIN Line, ListExisting(i)
      PROVE  Turned(w)'
  <2> DEFINE v == Job(Line, i)
             existing == {n \in Names : HasPriority(seen.pkg[n])}
             lower == {n \in existing : seen.pkg[n].priority < v.priority}
             higher == {n \in existing : seen.pkg[n].priority > v.priority}
  <2>1. /\ pkg' = pkg /\ lbp'.work = lbp.work
        /\ higher = {} => lbp'.todo = lower /\ lbp'.yields = lbp.yields
    BY <1>3, ListingForm DEF ListExisting, objects
  <2>2. ~lbp.yields
    BY <1>3 DEF ListExisting, PassInv
  <2>3. NameOf(w) \in Names /\ w.priority \in Nat
    BY WinnerTypes
  <2>4. scenario.lag = {} => seen.pkg = pkg
    BY <1>3, WorkerSees DEF ListExisting
  <2>5. ASSUME NEW n \in Names, HasPriority(seen.pkg[n])
        PROVE  seen.pkg[n].priority \in Nat /\ seen.pkg[n].priority <= w.priority
    BY <2>5, VersionBelow, CacheForm, PackageForm DEF OriginInv, HasPriority
  <2>6. ASSUME pkg[NameOf(w)].item # None, ~Is(pkg[NameOf(w)], w)
        PROVE  /\ HasPriority(seen.pkg[NameOf(w)])
               /\ seen.pkg[NameOf(w)].priority < w.priority
    <3>1. scenario.lag = {} /\ seen.pkg = pkg
      BY <2>4, <2>6, MissingForm DEF Cached
    <3>2. pkg[NameOf(w)].priority # w.priority
      BY <2>3, <2>6, VersionBelow DEF OriginInv
    <3>3. HasPriority(seen.pkg[NameOf(w)])
      BY <2>6, <3>1 DEF HasPriority
    <3>4. seen.pkg[NameOf(w)].priority \in Nat /\ seen.pkg[NameOf(w)].priority <= w.priority
      BY <2>3, <2>5, <3>3
    <3> QED
      BY <2>3, <3>1, <3>2, <3>3, <3>4
  <2>7. ASSUME NEW j \in lbp.work, Current(j), Job(Line, j) = w
        PROVE  ~lbp'.yields /\ (pkg[NameOf(w)].item # None /\ ~Is(pkg[NameOf(w)],
               w) => NameOf(w) \in lbp'.todo)
    <3>1. Current(i) /\ i \in lbp.work
      BY <1>3 DEF ListExisting, Current
    <3>2. v = w
      BY <2>7, <3>1, CurrentOnce
    <3>3. higher = {}
      BY <2>3, <2>5, <3>2
    <3>4. lbp'.todo = lower /\ ~lbp'.yields
      BY <2>1, <2>2, <3>3
    <3> QED
      BY <2>3, <2>6, <3>2, <3>4
  <2>8. \A j : Current(j)' = Current(j) /\ Job(Line, j)' = Job(Line, j)
    BY <2>1, SameTurn
  <2> HIDE DEF v, lower, higher
  <2> QED
    BY <2>1, <2>7, <2>8, SameSession DEF Turned, Is
<1>4. ASSUME NEW n \in Names, DeleteLower(n)
      PROVE  Turned(w)'
  <2>1. IF n = NameOf(w) THEN pkg'[NameOf(w)] = Missing ELSE pkg'[NameOf(w)] = pkg[NameOf(w)]
    BY <1>4, DeleteForm, WinnerTypes
  <2>2. lbp.pc = "delete" /\ lbp'.work = lbp.work /\ lbp'.todo = lbp.todo \ {n} /\ lbp'.yields = lbp.yields
    BY <1>4, DeleteForm
  <2>3. \A j : Current(j)' = Current(j) /\ Job(Line, j)' = Job(Line, j)
    BY <2>2, SameTurn
  <2>4. Missing.item = None
    BY MissingForm
  <2> QED
    BY <2>1, <2>2, <2>3, <2>4, SameSession DEF Turned, Is
<1>5. ASSUME NEW i \in DOMAIN Line, Yield(i)
      PROVE  Turned(w)'
  BY <1>5, ListForm DEF Turned, Yield
<1>6. ASSUME NEW i \in DOMAIN Line, CreateOrUpdatePackage(i)
      PROVE  Turned(w)'
  BY <1>6, ListForm DEF Turned, CreateOrUpdatePackage
<1>7. ASSUME NEW i \in DOMAIN Line, ItemFails(i)
      PROVE  Turned(w)'
  BY <1>7, ListForm DEF Turned, ItemFails
<1>8. CASE UpdateStatus
  <2>1. lbp' = lbp /\ pkgp.name \in Names
    BY <1>8 DEF UpdateStatus, PassInv
  <2>2. pkg'[NameOf(w)].item = pkg[NameOf(w)].item /\ pkg'[NameOf(w)].priority = pkg[NameOf(w)].priority
    BY <1>8, <2>1, StatusForm, WinnerTypes
  <2>3. \A j : Current(j)' = Current(j) /\ Job(Line, j)' = Job(Line, j)
    BY <2>1, SameTurn
  <2> QED
    BY <2>1, <2>2, <2>3, SameSession DEF Turned, Is
<1>9. CASE Annotate
  <2>1. lbp' = lbp /\ pkgp.name \in Names
    BY <1>9 DEF Annotate, PassInv
  <2>2. \/ pkg'[NameOf(w)] = pkg[NameOf(w)]
        \/ pkg'[NameOf(w)].item = pkg[NameOf(w)].item /\ pkg'[NameOf(w)].priority = pkg[NameOf(w)].priority
        \/ pkg'[NameOf(w)].item = None
    BY <1>9, <2>1, AnnotateForm, WinnerTypes
  <2>3. \A j : Current(j)' = Current(j) /\ Job(Line, j)' = Job(Line, j)
    BY <2>1, SameTurn
  <2> QED
    BY <2>1, <2>2, <2>3, SameSession DEF Turned, Is
<1>10. ~NextRun
  BY ScenarioFacts DEF NextRun, session
<1> QED
  BY <1>1, <1>2, <1>3, <1>4, <1>5, <1>6, <1>7, <1>8, <1>9, <1>10
     DEF Next, Localbuild, CustomPackage, Deliver, ServeRepository, CollectGarbage,
         BeginPackagePass, ShouldReconcile, ReconcileSource, ReconcileApplication, PackageFails,
         StatusFails, AnnotateFails, session, objects

(* Without a failed write the winner has its package, or it is still to be *)
(* made.                                                                   *)
LEMMA CreatedStep ==
  ASSUME TypeOK, OriginInv, PassInv, NEW w, Top(w), Cached(w), Read(w), Applied(w), Spared(w),
         w \in Given(run), Turned(w), Created(w), "apierr" \notin scenario.env, Next, UNCHANGED session
  PROVE  Created(w)'
<1>1. CASE UNCHANGED <<scenario, run, lbp, pkg>>
  <2>1. \A j : Job(Line, j)' = Job(Line, j)
    BY <1>1, SameTurn
  <2> QED
    BY <1>1, <2>1, SameSession DEF Created, Is
<1>2. CASE BeginLocalbuild
  <2>1. PICK i \in DOMAIN Line : Job(Line, i) = w
    BY DEF Given, Line
  <2>2. lbp'.work = DOMAIN Line
    BY <1>2, BeginForm
  <2> QED
    BY <2>1, <2>2, SameSession DEF Created, Job, Index
<1>3. ASSUME NEW i \in DOMAIN Line, ListExisting(i)
      PROVE  Created(w)'
  <2>1. Is(pkg[NameOf(w)], w) \/ \E j \in lbp.work : Job(Line, j) = w
    BY <1>3, ListForm DEF Created, ListExisting, Current
  <2>2. pkg' = pkg /\ lbp'.work = lbp.work
    BY <1>3, ListingForm DEF ListExisting, objects
  <2>3. \A j : Job(Line, j)' = Job(Line, j)
    BY <2>2, SameTurn
  <2> QED
    BY <2>1, <2>2, <2>3, SameSession DEF Created, Is
<1>4. ASSUME NEW n \in Names, DeleteLower(n)
      PROVE  Created(w)'
  <2>1. Is(pkg[NameOf(w)], w) \/ \E j \in lbp.work : Job(Line, j) = w
    BY <1>4, ListForm DEF Created, DeleteLower
  <2>2. lbp.pc = "delete" /\ n \in lbp.todo /\ lbp'.work = lbp.work
    BY <1>4, DeleteForm
  <2>3. Is(pkg[NameOf(w)], w) => n # NameOf(w)
    BY <2>2 DEF Spared
  <2>4. n # NameOf(w) => pkg'[NameOf(w)] = pkg[NameOf(w)]
    BY <1>4, DeleteForm, WinnerTypes
  <2>5. \A j : Job(Line, j)' = Job(Line, j)
    BY <2>2, SameTurn
  <2> QED
    BY <2>1, <2>2, <2>3, <2>4, <2>5, SameSession DEF Created, Is
<1>5. ASSUME NEW i \in DOMAIN Line, Yield(i)
      PROVE  Created(w)'
  <2>1. Is(pkg[NameOf(w)], w) \/ \E j \in lbp.work : Job(Line, j) = w
    BY <1>5, ListForm DEF Created, Yield, Current
  <2>2. lbp.pc = "delete" /\ Current(i) /\ i \in lbp.work /\ lbp.yields /\ pkg' = pkg
    BY <1>5 DEF Yield, Current, objects
  <2>3. Job(Line, i) # w
    BY <2>2 DEF Turned
  <2>4. lbp'.work = lbp.work \ {i}
    BY <1>5, ListForm DEF Yield
  <2>5. \A j : Job(Line, j)' = Job(Line, j)
    BY SameSession DEF Job, Index
  <2> QED
    BY <2>1, <2>2, <2>3, <2>4, <2>5, SameSession DEF Created, Is
<1>6. ASSUME NEW i \in DOMAIN Line, CreateOrUpdatePackage(i)
      PROVE  Created(w)'
  <2> DEFINE v == Job(Line, i)
  <2>1. Is(pkg[NameOf(w)], w) \/ \E j \in lbp.work : Job(Line, j) = w
    BY <1>6, ListForm DEF Created, CreateOrUpdatePackage, Current
  <2>2. lbp.pc = "delete" /\ Current(i) /\ i \in lbp.work /\ ~lbp.yields
    BY <1>6 DEF CreateOrUpdatePackage, Current
  <2>3. lbp'.work = lbp.work \ {i}
    BY <1>6, ListForm DEF CreateOrUpdatePackage
  <2>4. \A j : Job(Line, j)' = Job(Line, j)
    BY SameSession DEF Job, Index
  <2>5. scenario.lag = {} => seen.pkg = pkg
    BY <1>6, WorkerSees DEF CreateOrUpdatePackage
  <2>6. CASE v = w
    <3>1. \/ seen.pkg[NameOf(w)] # pkg[NameOf(w)] /\ pkg' = pkg
          \/ pkg'[NameOf(w)].item = w.item /\ pkg'[NameOf(w)].priority = w.priority
      BY <1>6, <2>6, CreateForm
    <3>2. seen.pkg[NameOf(w)] # pkg[NameOf(w)] => Is(pkg[NameOf(w)], w)
      BY <2>5 DEF Cached
    <3> QED
      BY <3>1, <3>2, SameSession DEF Created, Is
  <2>7. CASE v # w
    <3>1. Is(pkg[NameOf(w)], w) => NameOf(v) # NameOf(w)
      BY <2>2, <2>7 DEF Spared
    <3>2. NameOf(v) # NameOf(w) => pkg'[NameOf(w)] = pkg[NameOf(w)]
      BY <1>6, CreateForm, WinnerTypes
    <3>3. Is(pkg[NameOf(w)], w) => Is(pkg[NameOf(w)], w)'
      BY <3>1, <3>2, SameSession DEF Is
    <3>4. ASSUME NEW j \in lbp.work, Job(Line, j) = w
          PROVE  j \in lbp'.work
      BY <2>3, <2>7, <3>4
    <3> QED
      BY <2>1, <2>4, <3>3, <3>4, SameSession DEF Created, Is
  <2> QED
    BY <2>6, <2>7
<1>7. ASSUME NEW i \in DOMAIN Line, ItemFails(i)
      PROVE  Created(w)'
  BY <1>7 DEF ItemFails, MayInject
<1>8. CASE UpdateStatus
  <2>1. lbp' = lbp /\ pkgp.name \in Names
    BY <1>8 DEF UpdateStatus, PassInv
  <2>2. \A n \in Names : pkg'[n].item = pkg[n].item /\ pkg'[n].priority = pkg[n].priority
                         /\ pkg'[n].start = pkg[n].start
    BY <1>8, <2>1, StatusForm
  <2>3. \A j : Job(Line, j)' = Job(Line, j)
    BY <2>1, SameTurn
  <2>4. NameOf(w) \in Names
    BY WinnerTypes
  <2> QED
    BY <2>1, <2>2, <2>3, <2>4, SameSession DEF Created, Is
<1>9. CASE Annotate
  <2>1. lbp' = lbp /\ pkgp.name \in Names
    BY <1>9 DEF Annotate, PassInv
  <2>2. \A n \in Names :
          \/ pkg'[n].item = pkg[n].item /\ pkg'[n].priority = pkg[n].priority /\ pkg'[n].start = pkg[n].start
          \/ pkg[n] = Missing /\ pkg'[n].start = 0
    BY <1>9, <2>1, AnnotateForm
  <2>3. \A j : Job(Line, j)' = Job(Line, j)
    BY <2>1, SameTurn
  <2>4. NameOf(w) \in Names /\ ~Is(Missing, w) /\ run # 0
    BY WinnerTypes DEF TypeOK
  <2> QED
    BY <2>1, <2>2, <2>3, <2>4, SameSession DEF Created, Is
<1>10. ~NextRun
  BY ScenarioFacts DEF NextRun, session
<1> QED
  BY <1>1, <1>2, <1>3, <1>4, <1>5, <1>6, <1>7, <1>8, <1>9, <1>10
     DEF Next, Localbuild, CustomPackage, Deliver, ServeRepository, CollectGarbage,
         BeginPackagePass, ShouldReconcile, ReconcileSource, ReconcileApplication, PackageFails,
         StatusFails, AnnotateFails, session, objects

----------------------------------------------------------------------------
(* The repository and the report of the winner *)

(* A repository of the package of the winner is the winner's.              *)
LEMMA BelongsStep ==
  ASSUME TypeOK, OriginInv, PassInv, NEW w, Top(w), Cached(w), Read(w), Applied(w), Spared(w), Belongs(w),
         Next, UNCHANGED session
  PROVE  Belongs(w)'
<1>1. CASE UNCHANGED <<scenario, run, repo, seen, pkg>>
  BY <1>1, SameSession DEF Belongs, Owned, Is
<1>2. ASSUME NEW kind \in Kinds, Deliver(kind)
      PROVE  Belongs(w)'
  <2>1. (seen'.repo = repo \/ seen'.repo = seen.repo) /\ pkg' = pkg /\ repo' = repo
    BY <1>2, DeliverForm DEF Kinds
  <2> QED
    BY <2>1, SameSession DEF Belongs, Owned, Is
<1>3. ASSUME NEW r \in RepoNames, ServeRepository(r)
      PROVE  Belongs(w)'
  <2>1. seen' = seen /\ pkg' = pkg /\ repo \in [RepoNames -> Repository] /\ RepoOf(w) \in RepoNames
    BY <1>3, TypesAreTypes, WinnerTypes DEF Types, ServeRepository
  <2>2. \/ repo'[RepoOf(w)] = repo[RepoOf(w)]
        \/ repo'[RepoOf(w)] = [repo[RepoOf(w)] EXCEPT !.url = TRUE]
    BY <1>3, <2>1 DEF ServeRepository
  <2>3. /\ repo'[RepoOf(w)].owner = repo[RepoOf(w)].owner /\ repo'[RepoOf(w)].uid = repo[RepoOf(w)].uid
        /\ repo'[RepoOf(w)].item = repo[RepoOf(w)].item
        /\ repo[RepoOf(w)].url => repo'[RepoOf(w)].url
    BY <2>1, <2>2 DEF Repository
  <2> QED
    BY <2>1, <2>3, SameSession DEF Belongs, Owned, Is
<1>4. ASSUME NEW r \in RepoNames, CollectGarbage(r)
      PROVE  Belongs(w)'
  <2>1. seen' = seen /\ pkg' = pkg /\ repo \in [RepoNames -> Repository]
    BY <1>4, TypesAreTypes DEF Types, CollectGarbage
  <2>2. Owned(repo[RepoOf(w)], w) => r # RepoOf(w)
    BY <1>4 DEF CollectGarbage, Belongs, Owned
  <2>3. \/ repo'[RepoOf(w)] = repo[RepoOf(w)]
        \/ r = RepoOf(w) /\ repo'[RepoOf(w)].owner = None
    BY <1>4, <2>1, RepositoryForm, WinnerTypes DEF CollectGarbage
  <2>4. NameOf(w) # None
    BY WinnerTypes
  <2> QED
    BY <2>1, <2>2, <2>3, <2>4, SameSession DEF Belongs, Owned, Is
<1>5. ASSUME NEW n \in Names, DeleteLower(n)
      PROVE  Belongs(w)'
  <2>1. seen' = seen /\ repo' = repo
    BY <1>5 DEF DeleteLower
  <2>2. Is(pkg[NameOf(w)], w) => n # NameOf(w)
    BY <1>5, DeleteForm DEF Spared
  <2>3. n # NameOf(w) => pkg'[NameOf(w)] = pkg[NameOf(w)]
    BY <1>5, DeleteForm, WinnerTypes
  <2> QED
    BY <2>1, <2>2, <2>3, SameSession DEF Belongs, Owned, Is
<1>6. ASSUME NEW i \in DOMAIN Line, CreateOrUpdatePackage(i)
      PROVE  Belongs(w)'
  <2> DEFINE v == Job(Line, i)
  <2>1. seen' = seen /\ repo' = repo /\ lbp.pc = "delete" /\ Current(i) /\ i \in lbp.work /\ ~lbp.yields
    BY <1>6 DEF CreateOrUpdatePackage, Current
  <2>2. NameOf(v) = NameOf(w) => v = w \/ ~Is(pkg[NameOf(w)], w)
    BY <2>1 DEF Spared
  <2>3. \/ pkg'[NameOf(w)] = pkg[NameOf(w)]
        \/ /\ NameOf(v) = NameOf(w)
           /\ pkg'[NameOf(w)].item = v.item /\ pkg'[NameOf(w)].priority = v.priority
           /\ pkg[NameOf(w)] = Missing \/ pkg'[NameOf(w)].uid = pkg[NameOf(w)].uid
    BY <1>6, CreateForm, WinnerTypes
  <2>4. ~Is(Missing, w)
    BY WinnerTypes
  <2> HIDE DEF v
  <2> QED
    BY <2>1, <2>2, <2>3, <2>4, SameSession DEF Belongs, Owned, Is
<1>7. CASE ReconcileSource
  <2> DEFINE q == scenario.repo[pkgp.read.item]
             R == RepoOf(w)
             written == repo'[q].owner = pkgp.name /\ repo'[q].uid = pkgp.read.uid
                        /\ repo'[q].item = pkgp.read.item
  <2>1. seen' = seen /\ pkg' = pkg /\ pkgp.name \in Names /\ pkgp.read.item # None
        /\ Version(pkgp.name, pkgp.read) /\ pkgp.pc # "idle"
    BY <1>7 DEF ReconcileSource, PassInv
  <2>2. pkgp.name = NameOf(w) /\ q = R => Is(pkgp.read, w)
    BY <2>1, VersionBelow
  <2>3. Is(pkgp.read, w) => /\ Is(pkg[NameOf(w)], w) /\ pkgp.read.uid = pkg[NameOf(w)].uid
    BY <2>1 DEF Read, Cached
  <2>4. \/ repo'[R] = repo[R]
        \/ q = R /\ written /\ seen.repo[R].owner = None /\ repo[R].owner = None
        \/ /\ q = R /\ written /\ seen.repo[R].owner = pkgp.name
           /\ seen.repo[R] = repo[R] /\ repo'[R].url = repo[R].url
    BY <1>7, <2>1, SourceForm, WinnerTypes
  <2>5. NameOf(w) # None
    BY WinnerTypes
  <2> HIDE DEF q
  <2>6. CASE repo'[R] = repo[R]
    BY <2>1, <2>6, SameSession DEF Belongs, Owned, Is
  <2>7. CASE q = R /\ written /\ seen.repo[R].owner = None /\ repo[R].owner = None
    BY <2>1, <2>2, <2>3, <2>5, <2>7, SameSession DEF Belongs, Owned, Is
  <2>8. CASE /\ q = R /\ written /\ seen.repo[R].owner = pkgp.name /\ seen.repo[R] = repo[R]
             /\ repo'[R].url = repo[R].url
    BY <2>1, <2>2, <2>3, <2>5, <2>8, SameSession DEF Belongs, Owned, Is
  <2> QED
    BY <2>4, <2>6, <2>7, <2>8
<1>8. CASE UpdateStatus
  <2>1. seen' = seen /\ repo' = repo /\ pkgp.name \in Names
    BY <1>8 DEF UpdateStatus, PassInv
  <2>2. /\ pkg'[NameOf(w)].item = pkg[NameOf(w)].item /\ pkg'[NameOf(w)].priority = pkg[NameOf(w)].priority
        /\ pkg'[NameOf(w)].uid = pkg[NameOf(w)].uid
    BY <1>8, <2>1, StatusForm, WinnerTypes
  <2> QED
    BY <2>1, <2>2, SameSession DEF Belongs, Owned, Is
<1>9. CASE Annotate
  <2>1. seen' = seen /\ repo' = repo /\ pkgp.name \in Names
    BY <1>9 DEF Annotate, PassInv
  <2>2. \/ pkg'[NameOf(w)] = pkg[NameOf(w)]
        \/ /\ pkg'[NameOf(w)].item = pkg[NameOf(w)].item /\ pkg'[NameOf(w)].priority = pkg[NameOf(w)].priority
           /\ pkg'[NameOf(w)].uid = pkg[NameOf(w)].uid
        \/ pkg[NameOf(w)] = Missing
    BY <1>9, <2>1, AnnotateForm, WinnerTypes
  <2>3. ~Is(Missing, w)
    BY WinnerTypes
  <2> QED
    BY <2>1, <2>2, <2>3, SameSession DEF Belongs, Owned, Is
<1>10. ~NextRun
  BY ScenarioFacts DEF NextRun, session
<1> QED
  BY <1>1, <1>2, <1>3, <1>4, <1>5, <1>6, <1>7, <1>8, <1>9, <1>10
     DEF Next, Localbuild, CustomPackage, BeginLocalbuild, ListExisting, Yield, ItemFails,
         BeginPackagePass, ShouldReconcile, ReconcileApplication, PackageFails, StatusFails,
         AnnotateFails, session, objects

(* Once it has its URL, and the cache knows, the repository stays as it    *)
(* is.                                                                     *)
LEMMA ServedStep ==
  ASSUME TypeOK, OriginInv, PassInv, NEW w, Top(w), Cached(w), Read(w), Applied(w), Spared(w), Belongs(w),
         Served(w), Next, UNCHANGED session
  PROVE  Served(w)'
<1>1. CASE UNCHANGED <<scenario, run, repo, seen>>
  BY <1>1, SameSession DEF Served, Owned
<1>2. ASSUME NEW kind \in Kinds, Deliver(kind)
      PROVE  Served(w)'
  <2>1. (seen'.repo = repo \/ seen'.repo = seen.repo) /\ repo' = repo
    BY <1>2, DeliverForm DEF Kinds
  <2> QED
    BY <2>1, SameSession DEF Served, Owned
<1>3. ASSUME NEW r \in RepoNames, ServeRepository(r)
      PROVE  Served(w)'
  <2>1. seen' = seen /\ repo \in [RepoNames -> Repository] /\ RepoOf(w) \in RepoNames
    BY <1>3, TypesAreTypes, WinnerTypes DEF Types, ServeRepository
  <2>2. repo'[RepoOf(w)] = repo[RepoOf(w)]
    BY <1>3, <2>1 DEF ServeRepository, Served
  <2> QED
    BY <2>1, <2>2, SameSession DEF Served, Owned
<1>4. ASSUME NEW r \in RepoNames, CollectGarbage(r)
      PROVE  Served(w)'
  <2>1. seen' = seen /\ repo \in [RepoNames -> Repository]
    BY <1>4, TypesAreTypes DEF Types, CollectGarbage
  <2>2. r # RepoOf(w)
    BY <1>4 DEF CollectGarbage, Belongs, Served, Owned
  <2>3. repo'[RepoOf(w)] = repo[RepoOf(w)]
    BY <1>4, <2>1, <2>2, WinnerTypes DEF CollectGarbage
  <2> QED
    BY <2>1, <2>3, SameSession DEF Served, Owned
<1>5. CASE ReconcileSource
  <2> DEFINE q == scenario.repo[pkgp.read.item]
             R == RepoOf(w)
             written == repo'[q].owner = pkgp.name /\ repo'[q].uid = pkgp.read.uid
                        /\ repo'[q].item = pkgp.read.item
  <2>1. seen' = seen /\ pkg' = pkg /\ pkgp.name \in Names /\ pkgp.read.item # None
        /\ Version(pkgp.name, pkgp.read) /\ pkgp.pc # "idle"
    BY <1>5 DEF ReconcileSource, PassInv
  <2>2. pkgp.name = NameOf(w) /\ q = R => Is(pkgp.read, w)
    BY <2>1, VersionBelow
  <2>3. Is(pkgp.read, w) => /\ Is(pkg[NameOf(w)], w) /\ pkgp.read.uid = pkg[NameOf(w)].uid
    BY <2>1 DEF Read, Cached
  <2>4. \/ repo'[R] = repo[R]
        \/ q = R /\ written /\ seen.repo[R].owner = None /\ repo[R].owner = None
        \/ /\ q = R /\ written /\ seen.repo[R].owner = pkgp.name
           /\ seen.repo[R] = repo[R] /\ repo'[R].url = repo[R].url
    BY <1>5, <2>1, SourceForm, WinnerTypes
  <2>5. NameOf(w) # None
    BY WinnerTypes
  <2> HIDE DEF q
  <2>6. CASE repo'[R] = repo[R]
    BY <2>1, <2>6, SameSession DEF Served, Owned
  <2>7. CASE seen.repo[R].owner = None
    BY <2>5, <2>7 DEF Served, Owned
  <2>8. CASE /\ q = R /\ written /\ seen.repo[R].owner = pkgp.name /\ seen.repo[R] = repo[R]
             /\ repo'[R].url = repo[R].url
    BY <2>1, <2>8, SameSession DEF Served, Owned
  <2> QED
    BY <2>4, <2>6, <2>7, <2>8
<1>6. ~NextRun
  BY ScenarioFacts DEF NextRun, session
<1> QED
  BY <1>1, <1>2, <1>3, <1>4, <1>5, <1>6
     DEF Next, Localbuild, CustomPackage, BeginLocalbuild, ListExisting, DeleteLower, Yield,
         CreateOrUpdatePackage, ItemFails, BeginPackagePass, ShouldReconcile, ReconcileApplication,
         PackageFails, UpdateStatus, StatusFails, Annotate, AnnotateFails, session, objects

(* A package of the winner that says synced has its Application and        *)
(* repository.                                                             *)
LEMMA SyncedStep ==
  ASSUME TypeOK, OriginInv, PassInv, NEW w, Top(w), Cached(w), Read(w), Applied(w), Spared(w), Belongs(w),
         Synced(w),
         ErrorsSurface, w \in Given(run) => Turned(w), Next, UNCHANGED session
  PROVE  Synced(w)'
<1>s. Served(w) => Served(w)'
  BY ServedStep
<1>r. Reported(w) /\ app' = app => Reported(w)'
  BY <1>s, SameSession DEF Reported
<1>1. CASE UNCHANGED <<scenario, run, pkg, seen, pkgp, repo, app>>
  BY <1>1, <1>s, <1>r, SameSession DEF Synced, Is
<1>2. ASSUME NEW kind \in Kinds, Deliver(kind)
      PROVE  Synced(w)'
  <2>1. (seen'.pkg = pkg \/ seen'.pkg = seen.pkg) /\ pkg' = pkg /\ pkgp' = pkgp /\ app' = app
    BY <1>2, DeliverForm DEF Kinds
  <2> QED
    BY <2>1, <1>s, <1>r, SameSession DEF Synced, Is
<1>3. ASSUME NEW r \in RepoNames, ServeRepository(r)
      PROVE  Synced(w)'
  <2>1. seen' = seen /\ pkg' = pkg /\ pkgp' = pkgp /\ app' = app
    BY <1>3 DEF ServeRepository
  <2> QED
    BY <2>1, <1>s, <1>r, SameSession DEF Synced, Is
<1>4. ASSUME NEW r \in RepoNames, CollectGarbage(r)
      PROVE  Synced(w)'
  <2>1. seen' = seen /\ pkg' = pkg /\ pkgp' = pkgp /\ app' = app
    BY <1>4 DEF CollectGarbage
  <2> QED
    BY <2>1, <1>s, <1>r, SameSession DEF Synced, Is
<1>5. ASSUME NEW n \in Names, DeleteLower(n)
      PROVE  Synced(w)'
  <2>1. seen' = seen /\ pkgp' = pkgp /\ app' = app
    BY <1>5 DEF DeleteLower
  <2>2. pkg'[NameOf(w)] = pkg[NameOf(w)] \/ pkg'[NameOf(w)] = Missing
    BY <1>5, DeleteForm, WinnerTypes
  <2>3. ~Missing.synced
    BY MissingForm
  <2> QED
    BY <2>1, <2>2, <2>3, <1>s, <1>r, SameSession DEF Synced, Is
<1>6. ASSUME NEW i \in DOMAIN Line, CreateOrUpdatePackage(i)
      PROVE  Synced(w)'
  <2> DEFINE v == Job(Line, i)
  <2>1. seen' = seen /\ pkgp' = pkgp /\ app' = app /\ lbp.pc = "delete" /\ Current(i) /\ i \in lbp.work
        /\ lbp.todo = {}
    BY <1>6 DEF CreateOrUpdatePackage, Current
  <2>2. v \in Jobs /\ v \in Given(run)
    BY <1>6, CreateForm
  <2>3. \/ pkg'[NameOf(w)] = pkg[NameOf(w)]
        \/ /\ pkg'[NameOf(w)].item = v.item /\ pkg'[NameOf(w)].priority = v.priority
           /\ pkg'[NameOf(w)].synced = pkg[NameOf(w)].synced
    BY <1>6, CreateForm, WinnerTypes
  <2>4. Is(v, w) => v = w
    BY <2>2, TopIsAlone
  <2>5. v = w => pkg[NameOf(w)].item = None \/ Is(pkg[NameOf(w)], w)
    BY <2>1, <2>2 DEF Turned
  <2>6. pkg[NameOf(w)].item = None => ~pkg[NameOf(w)].synced
    BY WinnerTypes DEF OriginInv, Version
  <2> HIDE DEF v
  <2>7. Is(pkg[NameOf(w)], w)' /\ pkg'[NameOf(w)].synced => Is(pkg[NameOf(w)], w) /\ pkg[NameOf(w)].synced
    <3>1. CASE pkg'[NameOf(w)] = pkg[NameOf(w)]
      BY <3>1, SameSession DEF Is
    <3>2. CASE /\ pkg'[NameOf(w)].item = v.item /\ pkg'[NameOf(w)].priority = v.priority
               /\ pkg'[NameOf(w)].synced = pkg[NameOf(w)].synced
      <4>1. Is(pkg[NameOf(w)], w)' => v = w
        BY <2>4, <3>2, SameSession DEF Is
      <4> QED
        BY <2>5, <2>6, <3>2, <4>1
    <3> QED
      BY <2>3, <3>1, <3>2
  <2>8. pkg'[NameOf(w)].synced => pkg[NameOf(w)].synced
    BY <2>3
  <2> QED
    BY <2>1, <2>7, <2>8, <1>s, <1>r, SameSession DEF Synced, Is
<1>7. ASSUME NEW n \in Names, BeginPackagePass(n)
      PROVE  Synced(w)'
  <2>1. seen' = seen /\ pkg' = pkg /\ app' = app /\ Version(n, seen.pkg[n])
    BY <1>7 DEF BeginPackagePass, OriginInv, objects
  <2>2. Is(seen.pkg[n], w) => n = NameOf(w)
    BY <2>1, VersionBelow
  <2>3. \/ pkgp' = pkgp
        \/ /\ pkgp'.pc = "arbitrate" /\ pkgp'.read = seen.pkg[n]
           /\ pkgp'.synced = seen.pkg[n].synced
    BY <1>7, BeginPassForm
  <2> QED
    BY <2>1, <2>2, <2>3, <1>s, <1>r, SameSession DEF Synced, Is
<1>8. CASE ShouldReconcile
  <2>1. seen' = seen /\ pkg' = pkg /\ app' = app /\ pkgp.pc = "arbitrate"
    BY <1>8 DEF ShouldReconcile, objects
  <2>2. /\ pkgp'.read = pkgp.read /\ pkgp'.pc \in {"status", "source"}
        /\ pkgp'.synced => pkgp.synced
    BY <1>8, ShouldForm
  <2> QED
    BY <2>1, <2>2, <1>s, <1>r, SameSession DEF Synced, Is
<1>9. CASE ReconcileSource
  <2> DEFINE q == scenario.repo[pkgp.read.item]
             R == RepoOf(w)
             cached == seen.repo[q]
  <2>1. seen' = seen /\ pkg' = pkg /\ app' = app /\ pkgp.pc = "source"
    BY <1>9 DEF ReconcileSource
  <2>2. pkgp.name \in Names /\ pkgp.read.item # None /\ Version(pkgp.name, pkgp.read)
    BY <2>1 DEF PassInv
  <2>3. pkgp'.read = pkgp.read
    BY <1>9, <2>2, SourceForm
  <2>4. /\ Is(pkg[NameOf(w)], w)' = Is(pkg[NameOf(w)], w)
        /\ Is(seen.pkg[NameOf(w)], w)' = Is(seen.pkg[NameOf(w)], w)
        /\ Is(pkgp.read, w)' = Is(pkgp.read, w)
    BY <2>1, <2>3, SameSession DEF Is
  <2>5. CASE ~Is(pkgp.read, w)
    BY <2>1, <2>4, <2>5, <1>s, <1>r, SameSession DEF Synced
  <2>6. CASE Is(pkgp.read, w)
    <3>1. q = R /\ pkgp.name = NameOf(w) /\ Is(pkg[NameOf(w)], w) /\ Is(seen.pkg[NameOf(w)], w)
          /\ NameOf(w) # None
      BY <2>1, <2>2, <2>6, VersionBelow, WinnerTypes DEF Read, Cached, Is, RepoOf
    <3>2. ~Served(w) => ~pkg[NameOf(w)].synced /\ ~seen.pkg[NameOf(w)].synced
      BY <3>1 DEF Synced, Reported
    <3>3. cached \in Repository /\ cached.url \in BOOLEAN
      BY <1>9, <2>2, SourceForm, RepositoryForm
    <3>4. ASSUME cached.owner # None, ~ShouldTakeOver(q)
          PROVE  cached.owner = NameOf(w)
      <4> DEFINE owner == seen.pkg[cached.owner]
      <4>1. cached.owner \in Names
        BY <3>3, <3>4, RepositoryForm
      <4>2. owner \in Package /\ Version(cached.owner, owner)
        BY <4>1, CacheForm DEF OriginInv
      <4>3. owner.item # None /\ ~(pkgp.read.priority > owner.priority)
        BY <3>4 DEF ShouldTakeOver, HasPriority
      <4>4. pkgp.read.priority = w.priority /\ w.priority \in Nat /\ owner.priority \in Nat
        BY <2>6, <4>2, WinnerTypes, PackageForm DEF Is
      <4>5. owner.priority <= w.priority /\ (owner.priority = w.priority => Is(owner, w))
            /\ (Is(owner, w) => cached.owner = NameOf(w))
        BY <4>2, <4>3, VersionBelow
      <4> HIDE DEF owner
      <4> QED
        BY <4>3, <4>4, <4>5
    <3>5. \/ cached.owner = None /\ UseRepository(FALSE)
          \/ cached.owner = NameOf(w) /\ UseRepository(cached.url)
          \/ Error
      BY <1>9, <2>2, <3>1, <3>4, SourceForm
    <3>6. CASE cached.owner = None /\ UseRepository(FALSE)
      <4>1. pkgp'.pc = "application" /\ pkgp'.url = FALSE /\ pkgp'.synced = FALSE
        BY <3>6, UseForm
      <4>2. ~Served(w)
        BY <3>1, <3>6 DEF Served, Owned
      <4> QED
        BY <2>1, <2>4, <3>1, <3>2, <4>1, <4>2, <1>s, <1>r, SameSession DEF Synced
    <3>7. CASE cached.owner = NameOf(w) /\ UseRepository(cached.url)
      <4>1. pkgp'.pc = "application" /\ pkgp'.url = cached.url /\ pkgp'.synced = cached.url
        BY <3>3, <3>7, UseForm
      <4>2. cached.url <=> Served(w)
        BY <3>1, <3>7 DEF Served, Owned, Belongs
      <4> HIDE DEF cached
      <4> QED
        BY <2>1, <2>4, <3>1, <3>2, <4>1, <4>2, <1>s, <1>r, SameSession DEF Synced
    <3>8. CASE Error
      <4>1. pkgp'.pc = "status" /\ pkgp'.synced = pkgp.synced
        BY <3>8, ErrorForm
      <4> QED
        BY <2>1, <2>4, <4>1, <1>s, <1>r, SameSession DEF Synced
    <3> QED
      BY <3>5, <3>6, <3>7, <3>8
  <2> QED
    BY <2>5, <2>6
<1>10. CASE ReconcileApplication
  <2>1. seen' = seen /\ pkg' = pkg /\ pkgp.pc = "application" /\ pkgp.url \in BOOLEAN
    BY <1>10, PassForm DEF ReconcileApplication
  <2>2. /\ pkgp'.read = pkgp.read /\ pkgp'.pc = "status" /\ pkgp'.synced = pkgp.synced
        /\ \/ seen.app # app /\ app' = app
           \/ app' = [item |-> pkgp.read.item, url |-> pkgp.url]
    BY <1>10, ApplicationForm
  <2>3. seen.app = app
    BY <1>10, WorkerSees DEF ReconcileApplication, ErrorsSurface
  <2>4. Is(pkgp.read, w) /\ pkgp.url => Reported(w)'
    BY <1>s, <2>1, <2>2, <2>3, SameSession DEF Synced, Reported, Is
  <2>5. Reported(w) => Is(pkgp.read, w)
    BY <2>1 DEF Reported, Applied
  <2>6. Is(pkgp.read, w) => pkgp.synced = pkgp.url
                            /\ (~pkgp.url => ~pkg[NameOf(w)].synced /\ ~seen.pkg[NameOf(w)].synced)
    BY <2>1 DEF Synced
  <2>7. /\ Is(pkg[NameOf(w)], w)' = Is(pkg[NameOf(w)], w)
        /\ Is(seen.pkg[NameOf(w)], w)' = Is(seen.pkg[NameOf(w)], w)
        /\ Is(pkgp.read, w)' = Is(pkgp.read, w)
    BY <2>1, <2>2, SameSession DEF Is
  <2> QED
    BY <2>1, <2>2, <2>4, <2>5, <2>6, <2>7, SameSession DEF Synced
<1>11. CASE PackageFails
  BY <1>11 DEF PackageFails, MayInject, ErrorsSurface
<1>12. CASE UpdateStatus
  <2>1. seen' = seen /\ app' = app /\ pkgp.name \in Names /\ pkgp.pc = "status"
    BY <1>12 DEF UpdateStatus, PassInv
  <2>2. pkgp'.pc = "annotate"
    BY <1>12, <2>1, StatusForm
  <2>3. /\ pkg'[NameOf(w)].item = pkg[NameOf(w)].item /\ pkg'[NameOf(w)].priority = pkg[NameOf(w)].priority
        /\ \/ pkg'[NameOf(w)] = pkg[NameOf(w)]
           \/ pkg[NameOf(w)] = pkgp.read /\ pkg'[NameOf(w)].synced = pkgp.synced
    BY <1>12, <2>1, StatusForm, WinnerTypes
  <2> QED
    BY <2>1, <2>2, <2>3, <1>s, <1>r, SameSession DEF Synced, Is
<1>13. CASE StatusFails
  <2>1. seen' = seen /\ pkg' = pkg /\ app' = app
    BY <1>13 DEF StatusFails, objects
  <2>2. pkgp'.pc = "annotate"
    <3>1. pkgp' = [pkgp EXCEPT !.pc = "annotate"] /\ pkgp \in PassType
      BY <1>13, TypesAreTypes DEF Types, StatusFails
    <3> QED
      BY <3>1 DEF PassType
  <2> QED
    BY <2>1, <2>2, <1>s, <1>r, SameSession DEF Synced, Is
<1>14. CASE Annotate
  <2>1. seen' = seen /\ app' = app /\ pkgp.name \in Names
    BY <1>14 DEF Annotate, PassInv
  <2>2. pkgp'.pc = "idle"
    BY <1>14, PassEnds
  <2>3. \/ pkg'[NameOf(w)] = pkg[NameOf(w)]
        \/ /\ pkg'[NameOf(w)].item = pkg[NameOf(w)].item /\ pkg'[NameOf(w)].priority = pkg[NameOf(w)].priority
           /\ pkg'[NameOf(w)].synced = pkg[NameOf(w)].synced
        \/ ~pkg'[NameOf(w)].synced
    BY <1>14, <2>1, AnnotateForm, WinnerTypes
  <2> QED
    BY <2>1, <2>2, <2>3, <1>s, <1>r, SameSession DEF Synced, Is
<1>15. CASE AnnotateFails
  <2>1. seen' = seen /\ pkg' = pkg /\ app' = app
    BY <1>15 DEF AnnotateFails, objects
  <2>2. pkgp'.pc = "idle"
    BY <1>15, PassEnds
  <2> QED
    BY <2>1, <2>2, <1>s, <1>r, SameSession DEF Synced, Is
<1>16. ~NextRun
  BY ScenarioFacts DEF NextRun, session
<1> QED
  BY <1>1, <1>2, <1>3, <1>4, <1>5, <1>6, <1>7, <1>8, <1>9, <1>10, <1>11, <1>12, <1>13, <1>14, <1>15, <1>16
     DEF Next, Localbuild, CustomPackage, BeginLocalbuild, ListExisting, Yield, ItemFails, session, objects

----------------------------------------------------------------------------
(* A new run *)

(* What wins from now on, and was given before, has won before.            *)
LEMMA WinsStill ==
  ASSUME TypeOK, NextRun, NEW w, Top(w)', w \in Jobs
  PROVE  Top(w)
<1>1. Jobs \subseteq Jobs' /\ scenario' = scenario /\ \A v : NameOf(v)' = NameOf(v) /\ RepoOf(v)' = RepoOf(v)
  BY JobsGrow
<1> QED
  BY <1>1 DEF Top

(* A winner the invocation brings shares nothing with what came before.    *)
LEMMA NewWinner ==
  ASSUME TypeOK, NextRun, NEW w, Top(w)'
  PROVE  /\ NameOf(w) \in Names /\ RepoOf(w) \in RepoNames /\ w.item # None /\ NameOf(w) # None
         /\ w \notin Jobs => \A v \in Jobs :
              /\ v.item # w.item /\ ~(NameOf(v) = NameOf(w) /\ RepoOf(v) = RepoOf(w))
              /\ scenario.lag # {} => NameOf(v) # NameOf(w)
<1>1. /\ Jobs \subseteq Jobs' /\ scenario' = scenario /\ run' = run + 1 /\ run \in Nat
      /\ \A v : NameOf(v)' = NameOf(v) /\ RepoOf(v)' = RepoOf(v)
      /\ \A r : Given(r)' = Given(r)
  BY JobsGrow
<1>2. PICK r \in 1..(run + 1) : w \in Given(r)
  BY <1>1 DEF Top, Jobs
<1>3. r \in 1..Len(scenario.lines)
  BY <1>1, <1>2, ScenarioFacts DEF NextRun
<1>4. scenario.lines[r] \in CommandLine
  BY <1>3, ScenarioFacts
<1>5. w \in JobType
  BY <1>2, <1>4, JobIsJob DEF Given
<1>6. NameOf(w) \in Names /\ RepoOf(w) \in RepoNames /\ w.item # None /\ NameOf(w) # None
  BY <1>5, ScenarioFacts, PriorityAssumption DEF JobType, NameOf, RepoOf, None
<1>7. ASSUME w \notin Jobs, NEW v \in Jobs
      PROVE  /\ v.item # w.item /\ ~(NameOf(v) = NameOf(w) /\ RepoOf(v) = RepoOf(w))
             /\ scenario.lag # {} => NameOf(v) # NameOf(w)
  <2>1. v # w /\ v \in Jobs' /\ w \in Jobs'
    BY <1>1, <1>7 DEF Top
  <2>2. NameOf(v) = NameOf(w) => RepoOf(v) # RepoOf(w) /\ scenario.lag = {}
    BY <1>1, <2>1 DEF Top
  <2> QED
    BY <2>2 DEF NameOf, RepoOf
<1> QED
  BY <1>6, <1>7

(* The state of a new run: the caches are those of the server, and nothing *)
(* is under way.                                                           *)
LEMMA FreshRun ==
  ASSUME TypeOK, NextRun
  PROVE  /\ pkg' = pkg /\ repo' = repo /\ app' = app /\ scenario' = scenario /\ run' = run + 1 /\ run \in Nat
         /\ seen'.pkg = pkg /\ seen'.repo = repo /\ seen'.app = app
         /\ pkgp'.pc = "idle" /\ lbp' = IdleLocalbuild /\ lbp'.pc = "list"
         /\ \A v : NameOf(v)' = NameOf(v) /\ RepoOf(v)' = RepoOf(v)
BY JobsGrow, PassForm, ListForm DEF NextRun, objects, Server

(* The next invocation keeps what is said of a winner and its objects.     *)
LEMMA NewRunWinner ==
  ASSUME TypeOK, OriginInv, NextRun, NEW w, Top(w)',
         w \in Jobs /\ Top(w) => Cached(w) /\ Applied(w) /\ Belongs(w)
  PROVE  Cached(w)' /\ Read(w)' /\ Applied(w)' /\ Spared(w)' /\ Turned(w)' /\ Belongs(w)'
<1>1. Read(w)' /\ Spared(w)' /\ Turned(w)'
  BY FreshRun DEF Read, Spared, Turned
<1>2. CASE w \in Jobs
  <2>1. Cached(w) /\ Applied(w) /\ Belongs(w)
    BY <1>2, WinsStill
  <2>2. Cached(w)'
    BY <2>1, FreshRun DEF Cached, Is
  <2>3. Applied(w)'
    BY <2>1, FreshRun DEF Cached, Applied, Is
  <2>4. Belongs(w)'
    BY <2>1, FreshRun DEF Belongs, Owned, Is
  <2> QED
    BY <1>1, <2>2, <2>3, <2>4
<1>3. CASE w \notin Jobs
  <2>1. NameOf(w) \in Names /\ RepoOf(w) \in RepoNames /\ w.item # None /\ NameOf(w) # None
    BY NewWinner
  <2>2. Version(NameOf(w), pkg[NameOf(w)]) /\ Made(RepoOf(w), repo[RepoOf(w)])
    BY <2>1 DEF OriginInv
  <2>3. ~Is(pkg[NameOf(w)], w)
    BY <1>3, <2>1, <2>2, GivenIsJob, NewWinner DEF Version, Is
  <2>4. scenario.lag # {} => pkg[NameOf(w)] = Missing
    BY <1>3, <2>2, NewWinner DEF Version
  <2>5. app.item # w.item
    BY <1>3, <2>1, NewWinner DEF OriginInv
  <2>6. repo[RepoOf(w)].owner # NameOf(w)
    BY <1>3, <2>1, <2>2, NewWinner DEF Made
  <2>7. Cached(w)'
    BY <2>3, <2>4, FreshRun DEF Cached, Is
  <2>8. Applied(w)' /\ Belongs(w)'
    BY <2>5, <2>6, FreshRun DEF Applied, Belongs, Owned
  <2> QED
    BY <1>1, <2>7, <2>8
<1> QED
  BY <1>2, <1>3

(* No package has been made in an invocation that begins.                  *)
LEMMA NewRunCreated ==
  ASSUME TypeOK, OriginInv, NextRun, NEW w
  PROVE  Created(w)'
<1>1. ASSUME NEW n \in Names
      PROVE  pkg[n].start # run + 1
  <2>1. Version(n, pkg[n]) /\ run \in Nat
    BY FreshRun DEF OriginInv
  <2> QED
    BY <2>1 DEF Version
<1> QED
  BY <1>1, FreshRun DEF Created, IdleLocalbuild

(* What was reported before is true still.                                 *)
LEMMA NewRunSynced ==
  ASSUME TypeOK, OriginInv, NextRun, NEW w, Top(w)', w \in Jobs /\ Top(w) => Synced(w)
  PROVE  Synced(w)'
<1>1. CASE w \in Jobs
  <2>1. Synced(w)
    BY <1>1, WinsStill
  <2>2. Reported(w) => Reported(w)'
    BY FreshRun DEF Reported, Served, Owned
  <2> QED
    BY <2>1, <2>2, FreshRun DEF Synced, Is
<1>2. CASE w \notin Jobs
  <2>1. NameOf(w) \in Names /\ w.item # None
    BY NewWinner
  <2>2. Version(NameOf(w), pkg[NameOf(w)])
    BY <2>1 DEF OriginInv
  <2>3. ~Is(pkg[NameOf(w)], w)
    BY <1>2, <2>1, <2>2, GivenIsJob, NewWinner DEF Version, Is
  <2> QED
    BY <2>3, FreshRun DEF Synced, Is
<1> QED
  BY <1>1, <1>2

----------------------------------------------------------------------------
(* The invariant is one *)

(* In the beginning there is nothing.                                      *)
LEMMA PriorityInit == Init => PriorityInv
<1> SUFFICES ASSUME Init
             PROVE  PriorityInv
  OBVIOUS
<1>1. /\ scenario \in Scenarios /\ run = 1 /\ pkg = [n \in Names |-> Missing]
      /\ repo = [r \in RepoNames |-> NoRepository] /\ app = NoApplication
      /\ seen = [pkg |-> pkg, repo |-> repo, app |-> app]
      /\ queue = {} /\ lbp = IdleLocalbuild /\ pkgp = IdlePackage /\ faults = 0
  BY DEF Init, Server
<1>2. TypeOK
  <2>1. scenario \in Scenario /\ scenario.lines # <<>>
    BY <1>1, PriorityAssumption
  <2>2. scenario.lines \in Seq(CommandLine) /\ scenario.faults \in Nat
    BY <2>1 DEF Scenario
  <2>3. 1 \in 1..Len(scenario.lines) /\ 0 \in 0..scenario.faults
    BY <2>1, <2>2
  <2>4. pkg \in [Names -> Package] /\ repo \in [RepoNames -> Repository] /\ app \in Application
    BY <1>1, MissingIsPackage, RepositoryForm DEF NoApplication, Application
  <2>5. seen \in CacheType
    BY <1>1, <2>4 DEF CacheType
  <2>6. lbp \in ListType
    BY <1>1 DEF ListType, IdleLocalbuild
  <2>7. pkgp \in PassType
    BY <1>1, MissingIsPackage DEF PassType, IdlePackage
  <2> QED
    BY <1>1, <2>3, <2>4, <2>5, <2>6, <2>7, TypesAreTypes DEF Types
<1>3. /\ pkgp.pc = "idle" /\ lbp.pc = "list" /\ lbp.todo = {} /\ ~lbp.yields /\ lbp.work = {}
      /\ app.item = None
      /\ \A n \in Names : pkg[n] = Missing /\ seen.pkg[n] = Missing
      /\ \A r \in RepoNames : repo[r].owner = None /\ seen.repo[r].owner = None
  BY <1>1, RepositoryForm DEF IdlePackage, IdleLocalbuild, NoApplication
<1>4. OriginInv
  BY <1>3, MissingForm DEF OriginInv, Version, Made
<1>5. PassInv
  BY <1>3 DEF PassInv
<1>6. ASSUME NEW w, Top(w)
      PROVE  Cached(w) /\ Read(w) /\ Applied(w) /\ Spared(w) /\ Turned(w) /\ Belongs(w) /\ Synced(w)
  <2>1. NameOf(w) \in Names /\ RepoOf(w) \in RepoNames /\ w.item # None /\ NameOf(w) # None /\ ~Is(Missing, w)
    BY <1>2, <1>6, WinnerTypes
  <2> QED
    BY <1>3, <2>1 DEF Cached, Read, Applied, Spared, Turned, Belongs, Owned, Synced
<1>7. ASSUME NEW w
      PROVE  Created(w)
  BY <1>1, <1>3, MissingForm DEF Created
<1> QED
  BY <1>2, <1>4, <1>5, <1>6, <1>7 DEF PriorityInv, WinnerInv, GivenInv, RepoInv, SyncedInv

(* Every step keeps the invariant.                                         *)
LEMMA PriorityStep == PriorityInv /\ [Next]_vars => PriorityInv'
<1> SUFFICES ASSUME PriorityInv, [Next]_vars
             PROVE  PriorityInv'
  OBVIOUS
<1> USE DEF PriorityInv
<1>1. CASE Next
  <2>1. TypeOK' /\ OriginInv' /\ PassInv'
    BY <1>1, TypeStep, OriginStep, PassStep
  <2>2. CASE NextRun
    <3>1. ASSUME NEW w, Top(w)'
          PROVE  /\ Cached(w)' /\ Read(w)' /\ Applied(w)' /\ Spared(w)'
                 /\ Turned(w)' /\ Belongs(w)' /\ Created(w)'
                 /\ ErrorsSurface => Synced(w)'
      <4>1. w \in Jobs /\ Top(w) => Cached(w) /\ Applied(w) /\ Belongs(w) /\ (ErrorsSurface => Synced(w))
        BY DEF WinnerInv, RepoInv, SyncedInv
      <4> QED
        BY <2>2, <3>1, <4>1, NewRunWinner, NewRunCreated, NewRunSynced
    <3>2. ErrorsSurface' = ErrorsSurface
      BY <2>2, FreshRun DEF ErrorsSurface
    <3> QED
      BY <2>1, <3>1, <3>2 DEF WinnerInv, GivenInv, RepoInv, SyncedInv
  <2>3. CASE ~NextRun
    <3>1. UNCHANGED session
      BY <1>1, <2>3
         DEF Next, Localbuild, CustomPackage, Deliver, ServeRepository, CollectGarbage,
             BeginLocalbuild, ListExisting, DeleteLower, Yield, CreateOrUpdatePackage, ItemFails,
             BeginPackagePass, ShouldReconcile, ReconcileSource, ReconcileApplication, PackageFails,
             UpdateStatus, StatusFails, Annotate, AnnotateFails
    <3>2. /\ Jobs' = Jobs /\ Given(run)' = Given(run) /\ scenario' = scenario /\ ErrorsSurface' = ErrorsSurface
          /\ \A w : Top(w)' = Top(w)
      BY <3>1, SameSession DEF ErrorsSurface, session, Given
    <3>3. ASSUME NEW w \in Jobs, Top(w)
          PROVE  Cached(w)' /\ Read(w)' /\ Applied(w)' /\ Spared(w)' /\ Belongs(w)'
      <4>1. Cached(w) /\ Read(w) /\ Applied(w) /\ Spared(w) /\ Belongs(w)
        BY <3>3 DEF WinnerInv, RepoInv
      <4> QED
        BY <1>1, <3>1, <3>3, <4>1, CachedStep, ReadStep, AppliedStep, SparedStep, BelongsStep
    <3>4. ASSUME NEW w \in Given(run), Top(w)
          PROVE  Turned(w)' /\ ("apierr" \notin scenario.env => Created(w)')
      <4>1. w \in Jobs /\ Turned(w) /\ ("apierr" \notin scenario.env => Created(w))
        BY <3>4, GivenIsJob DEF GivenInv
      <4>2. Cached(w) /\ Read(w) /\ Applied(w) /\ Spared(w)
        BY <3>4, <4>1 DEF WinnerInv
      <4> QED
        BY <1>1, <3>1, <3>4, <4>1, <4>2, TurnedStep, CreatedStep
    <3>5. ASSUME NEW w \in Jobs, Top(w), ErrorsSurface
          PROVE  Synced(w)'
      <4>1. Cached(w) /\ Read(w) /\ Applied(w) /\ Spared(w) /\ Belongs(w) /\ Synced(w)
            /\ (w \in Given(run) => Turned(w))
        BY <3>5 DEF WinnerInv, RepoInv, SyncedInv, GivenInv
      <4> QED
        BY <1>1, <3>1, <3>5, <4>1, SyncedStep
    <3>6. WinnerInv' /\ RepoInv'
      BY <3>2, <3>3 DEF WinnerInv, RepoInv
    <3>7. GivenInv'
      BY <3>2, <3>4 DEF GivenInv
    <3>8. SyncedInv'
      BY <3>2, <3>5 DEF SyncedInv
    <3> QED
      BY <2>1, <3>6, <3>7, <3>8
  <2> QED
    BY <2>2, <2>3
<1>2. CASE UNCHANGED vars
  <2> USE <1>2 DEF vars
  <2>1. UNCHANGED session /\ lbp' = lbp
    BY DEF session
  <2>2. \A i : Current(i)' = Current(i)
    BY <2>1, SameTurn
  <2>3. TypeOK' /\ OriginInv' /\ PassInv'
    BY <2>1, SameSession DEF TypeOK, OriginInv, PassInv, Version, Made
  <2>4. \A w : /\ Cached(w)' = Cached(w) /\ Read(w)' = Read(w) /\ Applied(w)' = Applied(w)
               /\ Belongs(w)' = Belongs(w)
    BY <2>1, SameSession DEF Cached, Read, Applied, Belongs, Owned, Is
  <2>5. \A w : Spared(w)' = Spared(w) /\ Turned(w)' = Turned(w) /\ Created(w)' = Created(w)
    BY <2>1, <2>2, SameSession DEF Spared, Turned, Created, Is
  <2>6. \A w : Synced(w)' = Synced(w)
    BY <2>1, SameSession DEF Synced, Reported, Served, Owned, Is
  <2>7. ErrorsSurface' = ErrorsSurface /\ Given(run)' = Given(run)
    BY DEF ErrorsSurface, Given
  <2> QED
    BY <2>1, <2>3, <2>4, <2>5, <2>6, <2>7, SameSession DEF WinnerInv, GivenInv, RepoInv, SyncedInv
<1> QED
  BY <1>1, <1>2

----------------------------------------------------------------------------
(* The theorems *)

(* A set of natural numbers has a least one.                               *)
LEMMA Least ==
  ASSUME NEW T, T \subseteq Nat, T # {}
  PROVE  \E x \in T : \A y \in T : x <= y
<1> DEFINE below == OpToRel(<, Nat)
<1>1. PICK x \in T : \A y \in T : <<y, x>> \notin below
  <2>1. IsWellFoundedOn(below, Nat)
    BY NatLessThanWellFounded, Zenon
  <2> HIDE DEF below
  <2> QED
    BY <2>1, WFMin
<1>2. \A y \in T : ~(y < x)
  BY <1>1 DEF OpToRel
<1> QED
  BY <1>2

(* The priority of an argument is below the length of the command line, so *)
(* that one of them is the highest.                                        *)
LEMMA HighestExists ==
  ASSUME TypeOK, Given(run) # {}
  PROVE  Winner \in Given(run) /\ \A v \in Given(run) : v.priority <= Winner.priority
<1>1. Line \in CommandLine /\ Len(Line) \in Nat /\ DOMAIN Line = 1..Len(Line)
  BY ScenarioFacts DEF CommandLine
<1>2. ASSUME NEW i \in DOMAIN Line
      PROVE  Index(Line, i) \in 0..Len(Line)
  <2>1. i \in Nat /\ i <= Len(Line)
    BY <1>1
  <2>2. IsFiniteSet(1..(i - 1)) /\ Cardinality(1..(i - 1)) <= i
    <3>1. PICK a \in Int : a = 1
      OBVIOUS
    <3>2. PICK b \in Int : b = i - 1
      BY <2>1
    <3>3. IsFiniteSet(a..b) /\ Cardinality(a..b) = IF a > b THEN 0 ELSE b - a + 1
      BY FS_Interval
    <3>4. Cardinality(a..b) <= i
      <4>1. CASE a > b
        BY <2>1, <3>3, <4>1
      <4>2. CASE ~(a > b)
        BY <2>1, <3>1, <3>2, <3>3, <4>2
      <4> QED
        BY <4>1, <4>2
    <3> QED
      BY <3>1, <3>2, <3>3, <3>4
  <2> DEFINE same == {j \in 1..(i - 1) : Line[j].kind = Line[i].kind}
  <2>3. Cardinality(same) \in Nat /\ Cardinality(same) <= Cardinality(1..(i - 1))
        /\ Cardinality(1..(i - 1)) \in Nat
    BY <2>2, FS_Subset, FS_CardinalityType
  <2> HIDE DEF same
  <2>4. Cardinality(same) \in 0..Len(Line)
    BY <1>1, <2>1, <2>2, <2>3
  <2> QED
    BY <2>4 DEF Index, same
<1>3. ASSUME NEW v \in Given(run)
      PROVE  v.priority \in 0..Len(Line)
  <2>1. PICK i \in DOMAIN Line : v = Job(Line, i)
    BY DEF Given, Line
  <2> QED
    BY <1>2, <2>1 DEF Job
<1> DEFINE gap(v) == Len(Line) - v.priority
           gaps == {gap(v) : v \in Given(run)}
<1>4. gaps \subseteq Nat /\ gaps # {}
  BY <1>1, <1>3
<1>5. PICK x \in gaps : \A y \in gaps : x <= y
  <2> HIDE DEF gaps
  <2> QED
    BY <1>4, Least
<1>6. PICK w \in Given(run) : x = gap(w)
  BY <1>5
<1>7. ASSUME NEW v \in Given(run)
      PROVE  v.priority <= w.priority
  <2>1. gap(v) \in gaps
    OBVIOUS
  <2>2. gap(w) <= gap(v)
    BY <1>5, <1>6, <2>1
  <2>3. v.priority \in Nat /\ w.priority \in Nat
    BY <1>1, <1>3
  <2> QED
    BY <1>1, <2>2, <2>3
<1> QED
  BY <1>7 DEF Winner

(* In an orderly invocation the winner of the command line is the winner.  *)
LEMMA WinnerIsTop ==
  ASSUME TypeOK, Orderly
  PROVE  Winner \in Given(run) /\ Top(Winner) /\ NameOf(Winner) = WinnerName
<1>1. Winner \in Given(run)
  BY HighestExists DEF Orderly
<1>2. Jobs = Given(run) /\ Winner \in Jobs
  <2>1. run \in 1..run
    BY ScenarioFacts DEF TypeOK
  <2> QED
    BY <1>1, <2>1 DEF Orderly, Jobs
<1> QED
  BY <1>1, <1>2 DEF Orderly, Top, NameOf, RepoOf, WinnerName

(* The invariant holds in every state.                                     *)
THEOREM PriorityInvariant == Spec => []PriorityInv
<1>1. Init => PriorityInv
  BY PriorityInit
<1>2. PriorityInv /\ [Next]_vars => PriorityInv'
  BY PriorityStep
<1> QED
  BY <1>1, <1>2, PTL DEF Spec

(* The variables keep their types.                                         *)
THEOREM TypeCorrect == Spec => []TypeOK
<1>1. PriorityInv => TypeOK
  BY DEF PriorityInv
<1> QED
  BY <1>1, PriorityInvariant, PTL

(* It makes the exit check true of the winner.                             *)
LEMMA ReadyWhenInvariant == PriorityInv => ReadyMeansWon
<1> SUFFICES ASSUME PriorityInv, Orderly, ErrorsSurface, lbp = IdleLocalbuild, PackagesReady
             PROVE  Won
  BY DEF ReadyMeansWon
<1> DEFINE w == Winner
<1>1. w \in Given(run) /\ Top(w) /\ w \in Jobs
  BY WinnerIsTop, GivenIsJob DEF PriorityInv
<1> HIDE DEF w
<1>2. NameOf(w) \in Names /\ lbp.work = {}
  BY <1>1, WinnerTypes DEF PriorityInv, IdleLocalbuild
<1>3. Is(pkg[NameOf(w)], w)
  <2>1. Created(w)
    BY <1>1 DEF PriorityInv, GivenInv, ErrorsSurface
  <2>2. \E n \in Names : pkg[n].start = run
    BY DEF PackagesReady
  <2> QED
    BY <1>2, <2>1, <2>2 DEF Created
<1>4. pkg[NameOf(w)].start # 0
  BY <1>1, <1>2, <1>3, VersionBelow DEF PriorityInv, OriginInv
<1>5. pkg[NameOf(w)].synced
  BY <1>2, <1>4 DEF PackagesReady
<1>6. Reported(w)
  BY <1>1, <1>3, <1>5 DEF PriorityInv, SyncedInv, Synced
<1>7. repo[RepoOf(w)].item = w.item
  BY <1>1, <1>6 DEF PriorityInv, RepoInv, Belongs, Reported, Served
<1> QED
  BY <1>6, <1>7 DEF Won, Reported, RepoOf, w

(* When the exit check finds every package synced in this invocation, the  *)
(* Application and its repository are those of the winner.                 *)
THEOREM ReadyIsWon == Spec => []ReadyMeansWon
BY PriorityInvariant, ReadyWhenInvariant, PTL

(* It keeps the package and the Application of the winner in a step.       *)
LEMMA StepOfWinner ==
  ASSUME PriorityInv, [Next]_vars, Orderly, run' = run
  PROVE  /\ (pkg[WinnerName].item = Winner.item /\ pkg[WinnerName].priority = Winner.priority)
              => pkg'[WinnerName].item = Winner.item
         /\ app.item = Winner.item => app'.item = Winner.item
<1> DEFINE w == Winner
<1>1. w \in Given(run) /\ Top(w) /\ w \in Jobs /\ NameOf(w) = WinnerName /\ TypeOK
  BY WinnerIsTop, GivenIsJob DEF PriorityInv
<1>2. w.item # None /\ NameOf(w) \in Names /\ ~Is(Missing, w)
  BY <1>1, WinnerTypes
<1> HIDE DEF w
<1>3. /\ Cached(w) /\ Read(w) /\ Applied(w) /\ Spared(w) /\ OriginInv /\ PassInv
  BY <1>1 DEF PriorityInv, WinnerInv
<1>4. Is(pkg[NameOf(w)], w) => pkg'[NameOf(w)].item = w.item
  <2>1. CASE pkg' = pkg
    BY <2>1 DEF Is
  <2>2. ASSUME NEW n \in Names, DeleteLower(n)
        PROVE  Is(pkg[NameOf(w)], w) => pkg'[NameOf(w)].item = w.item
    <3>1. lbp.pc = "delete" /\ n \in lbp.todo /\ (n # NameOf(w) => pkg'[NameOf(w)] = pkg[NameOf(w)])
      BY <1>1, <1>2, <2>2, DeleteForm
    <3> QED
      BY <1>3, <3>1 DEF Spared, Is
  <2>3. ASSUME NEW i \in DOMAIN Line, CreateOrUpdatePackage(i)
        PROVE  Is(pkg[NameOf(w)], w) => pkg'[NameOf(w)].item = w.item
    <3> DEFINE v == Job(Line, i)
    <3>1. lbp.pc = "delete" /\ Current(i) /\ i \in lbp.work /\ ~lbp.yields
      BY <2>3 DEF CreateOrUpdatePackage, Current
    <3>2. Is(pkg[NameOf(w)], w) /\ NameOf(v) = NameOf(w) => v = w
      BY <1>3, <3>1 DEF Spared
    <3>3. pkg'[NameOf(w)] = pkg[NameOf(w)] \/ (NameOf(v) = NameOf(w) /\ pkg'[NameOf(w)].item = v.item)
      BY <1>1, <1>2, <2>3, CreateForm
    <3> HIDE DEF v
    <3> QED
      BY <3>2, <3>3 DEF Is
  <2>4. CASE UpdateStatus
    BY <1>1, <1>2, <1>3, <2>4, StatusForm DEF UpdateStatus, PassInv, Is
  <2>5. CASE Annotate
    <3>1. pkgp.name \in Names
      BY <1>3, <2>5 DEF Annotate, PassInv
    <3>2. pkg[NameOf(w)] = Missing \/ pkg'[NameOf(w)].item = pkg[NameOf(w)].item
      BY <1>1, <1>2, <2>5, <3>1, AnnotateForm
    <3> QED
      BY <1>2, <3>2 DEF Is
  <2> QED
    BY <2>1, <2>2, <2>3, <2>4, <2>5
       DEF Next, vars, Localbuild, CustomPackage, Deliver, ServeRepository, CollectGarbage, NextRun,
           BeginLocalbuild, ListExisting, Yield, ItemFails, BeginPackagePass, ShouldReconcile,
           ReconcileSource, ReconcileApplication, PackageFails, StatusFails, AnnotateFails, objects
<1>5. app.item = w.item => app'.item = w.item
  <2>1. CASE app' = app
    BY <2>1
  <2>2. CASE ReconcileApplication
    <3>1. pkgp.pc = "application" /\ (app' = app \/ app'.item = pkgp.read.item)
      BY <1>1, <2>2, ApplicationForm
    <3> QED
      BY <1>3, <3>1 DEF Applied, Is
  <2> QED
    BY <2>1, <2>2
       DEF Next, vars, Localbuild, CustomPackage, Deliver, ServeRepository, CollectGarbage, NextRun,
           BeginLocalbuild, ListExisting, DeleteLower, Yield, CreateOrUpdatePackage, ItemFails,
           BeginPackagePass, ShouldReconcile, ReconcileSource, PackageFails, UpdateStatus, StatusFails,
           Annotate, AnnotateFails, objects
<1> QED
  BY <1>1, <1>4, <1>5 DEF w, Is

(* No step of an invocation takes its package or the Application from the  *)
(* package of the highest priority.                                        *)
THEOREM WinnerKept == Spec => WinnerStays
<1>1. PriorityInv /\ [Next]_vars =>
        (Orderly /\ run' = run =>
           /\ (pkg[WinnerName].item = Winner.item /\ pkg[WinnerName].priority = Winner.priority)
                => pkg'[WinnerName].item = Winner.item
           /\ app.item = Winner.item => app'.item = Winner.item)
  BY StepOfWinner
<1> QED
  BY <1>1, PriorityInvariant, PTL DEF Spec, WinnerStays

=============================================================================
