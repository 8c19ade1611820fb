-------------------------- MODULE StacksWatchProofs --------------------------
(***************************************************************************)
(* A loop that rests leaves no application behind, for all repositories,   *)
(* kustomizations, edits and environments of RestMeansRefreshed.           *)
(*                                                                         *)
(* First about trees alone: the walk of the index ends, with all the files *)
(* that an application reaches (IndexComplete), so that a change that      *)
(* makes a difference to its rendering is found in the index, though that  *)
(* is made of the worktree and not of the commits (PlanCovers).  Then      *)
(* about the loop: an application is behind only for the last commit, and  *)
(* only while the watcher has still to tell it to look (HandInv).          *)
(***************************************************************************)
EXTENDS StacksWatch, FiniteSetTheorems, WellFoundedInduction, TLAPS

----------------------------------------------------------------------------
(* What an application reaches *)

(* A recursive function that collects what the places of a walk put out    *)
(* exists, whether or not every walk ends: what a place reaches is in all  *)
(* closed sets that have it.                                               *)
Collects(X, Y, Out, Nxt) ==
  \E g \in [X -> SUBSET Y] : \A x \in X : g[x] = Out[x] \cup UNION {g[y] : y \in Nxt[x]}

(* Such a function exists.                                                 *)
LEMMA Fixpoint ==
  ASSUME NEW X, NEW Y, NEW Out \in [X -> SUBSET Y], NEW Nxt \in [X -> SUBSET X]
  PROVE  Collects(X, Y, Out, Nxt)
<1> DEFINE Closed(S) == \A x \in S : Nxt[x] \subseteq S
           R(x) == {y \in X : \A S \in SUBSET X : x \in S /\ Closed(S) => y \in S}
           g == [x \in X |-> UNION {Out[y] : y \in R(x)}]
<1>1. ASSUME NEW x \in X
      PROVE  R(x) = {x} \cup UNION {R(y) : y \in Nxt[x]}
  <2> DEFINE Z == {x} \cup UNION {R(y) : y \in Nxt[x]}
  <2>1. Z \subseteq R(x)
    OBVIOUS
  <2>2. Z \subseteq X /\ x \in Z
    OBVIOUS
  <2>3. Closed(Z)
    <3> SUFFICES ASSUME NEW z \in Z, NEW u \in Nxt[z]
                 PROVE  u \in Z
      OBVIOUS
    <3>1. CASE z = x
      <4>1. u \in X /\ u \in R(u)
        BY <3>1
      <4> QED
        BY <3>1, <4>1
    <3>2. ASSUME NEW y \in Nxt[x], z \in R(y)
          PROVE  u \in Z
      <4>1. u \in R(y)
        BY <3>2, <2>2
      <4> QED
        BY <4>1
    <3> QED
      BY <3>1, <3>2
  <2>4. R(x) \subseteq Z
    <3> HIDE DEF Z
    <3> QED
      BY <2>2, <2>3
  <2> QED
    BY <2>1, <2>4
<1>2. ASSUME NEW x \in X
      PROVE  g[x] = Out[x] \cup UNION {g[y] : y \in Nxt[x]}
  <2>1. R(x) = {x} \cup UNION {R(y) : y \in Nxt[x]}
    BY <1>1
  <2> HIDE DEF R
  <2>2. \A y \in Nxt[x] : g[y] = UNION {Out[z] : z \in R(y)}
    OBVIOUS
  <2>3. g[x] = UNION {Out[z] : z \in R(x)}
    OBVIOUS
  <2> HIDE DEF g
  <2> QED
    BY <2>1, <2>2, <2>3
<1>3. g \in [X -> SUBSET Y]
  OBVIOUS
<1> HIDE DEF g
<1> QED
  BY <1>2, <1>3 DEF Collects

(* What a path uses are paths.                                             *)
LEMMA UsesArePaths ==
  ASSUME NEW tree \in Trees, NEW p \in Paths
  PROVE  Uses(tree, p) \subseteq Paths
<1>1. CASE p \in Files \/ ~Exists(tree, p)
  BY <1>1 DEF Uses
<1>2. CASE ~(p \in Files \/ ~Exists(tree, p))
  <2>1. p \in Dirs
    BY <1>2 DEF Paths
  <2>2. Manifests(tree, p) \subseteq Paths
    BY <2>1, LayoutAssumption DEF Manifests, Paths
  <2>3. CASE ~Kustomized(tree, p)
    BY <1>2, <2>2, <2>3 DEF Uses
  <2>4. CASE Kustomized(tree, p)
    <3> DEFINE k == Kustomization[p]
               refs == Refs[k][tree[k]]
    <3>1. k \in Files /\ tree[k] \in Texts
      BY <2>1, <2>4, LayoutAssumption DEF Kustomized, Present, Trees
    <3>2. refs \in Seq(Paths)
      BY <2>4, <3>1, LayoutAssumption DEF Kustomized
    <3>3. Uses(tree, p) = {k} \cup {refs[i] : i \in DOMAIN refs}
      BY <1>2, <2>4 DEF Uses
    <3> HIDE DEF k, refs
    <3>4. \A i \in DOMAIN refs : refs[i] \in Paths
      BY <3>2
    <3> QED
      BY <3>1, <3>3, <3>4 DEF Paths
  <2> QED
    BY <2>3, <2>4
<1> QED
  BY <1>1, <1>2

(* Without circles, a set of paths has one that uses none of the others.   *)
LEMMA Bottom ==
  ASSUME NEW tree \in Trees, NoCircle(tree), NEW S, S \subseteq Paths, S # {}
  PROVE  \E p \in S : Uses(tree, p) \cap S = {}
<1>1. CASE S \cap Files # {}
  <2>1. PICK p \in S : p \in Files
    BY <1>1
  <2> QED
    BY <2>1 DEF Uses
<1>2. CASE S \cap Files = {}
  <2>1. S \in (SUBSET Dirs) \ {{}}
    BY <1>2 DEF Paths
  <2> QED
    BY <2>1 DEF NoCircle
<1> QED
  BY <1>1, <1>2

(* What is below each path, and what of it an application reaches.         *)
Fixed(tree, below) == below = [p \in Paths |-> {p} \cup UNION {below[q] : q \in Uses(tree, p)}]

(* An application reaches what is below its path.                          *)
LEMMA ReachedIsBelow ==
  ASSUME NEW tree \in Trees, NEW a \in Units
  PROVE  \E below : Fixed(tree, below) /\ Reached(tree, a) = below[PathOf[a]]
<1> DEFINE below == CHOOSE b : b = [p \in Paths |-> {p} \cup UNION {b[q] : q \in Uses(tree, p)}]
<1>1. Reached(tree, a) = below[PathOf[a]]
  BY DEF Reached
<1>2. \E b : b = [p \in Paths |-> {p} \cup UNION {b[q] : q \in Uses(tree, p)}]
  <2> DEFINE Out == [p \in Paths |-> {p}]
             Nxt == [p \in Paths |-> Uses(tree, p)]
  <2>1. Out \in [Paths -> SUBSET Paths] /\ Nxt \in [Paths -> SUBSET Paths]
    BY UsesArePaths
  <2> HIDE DEF Out, Nxt
  <2>2. Collects(Paths, Paths, Out, Nxt)
    BY <2>1, Fixpoint
  <2>3. \A p \in Paths : Out[p] = {p} /\ Nxt[p] = Uses(tree, p)
    BY DEF Out, Nxt
  <2>4. PICK g \in [Paths -> SUBSET Paths] : \A p \in Paths : g[p] = Out[p] \cup UNION {g[q] : q \in Nxt[p]}
    BY <2>2 DEF Collects
  <2>5. g = [p \in Paths |-> {p} \cup UNION {g[q] : q \in Uses(tree, p)}]
    BY <2>3, <2>4
  <2> QED
    BY <2>5
<1>3. Fixed(tree, below)
  BY <1>2, Zenon DEF Fixed
<1> HIDE DEF below
<1> QED
  BY <1>1, <1>3

(* What is below a path is the path, and what is below the paths it uses.  *)
LEMMA BelowIs ==
  ASSUME NEW tree, NEW below, Fixed(tree, below), NEW p \in Paths
  PROVE  /\ p \in below[p]
         /\ \A q \in Uses(tree, p) : below[q] \subseteq below[p]
         /\ \A x \in below[p] : x = p \/ \E q \in Uses(tree, p) : x \in below[q]
<1>1. below[p] = {p} \cup UNION {below[q] : q \in Uses(tree, p)}
  BY DEF Fixed
<1> QED
  BY <1>1

(* A set that uses nothing outside has all that is below its paths.        *)
LEMMA BelowWithin ==
  ASSUME NEW tree \in Trees, NoCircle(tree), NEW below, Fixed(tree, below),
         NEW Z, Z \subseteq Paths, \A q \in Z : Uses(tree, q) \subseteq Z, NEW p \in Z
  PROVE  below[p] \subseteq Z
<1> DEFINE S == {q \in Z : ~(below[q] \subseteq Z)}
<1>1. CASE S = {}
  BY <1>1
<1>2. CASE S # {}
  <2>1. S \subseteq Paths
    OBVIOUS
  <2>2. PICK q \in S : Uses(tree, q) \cap S = {}
    BY <1>2, <2>1, Bottom
  <2>3. \A u \in Uses(tree, q) : below[u] \subseteq Z
    BY <2>2
  <2>4. below[q] \subseteq Z
    BY <2>2, <2>3, BelowIs
  <2> QED
    BY <2>2, <2>4
<1> QED
  BY <1>1, <1>2

(* What is below a path is closed.                                         *)
LEMMA BelowClosed ==
  ASSUME NEW tree \in Trees, NoCircle(tree), NEW below, Fixed(tree, below), NEW p \in Paths
  PROVE  /\ below[p] \subseteq Paths
         /\ \A x \in below[p] : Uses(tree, x) \subseteq below[p]
<1>1. \A q \in Paths : below[q] \subseteq Paths
  BY BelowWithin, UsesArePaths
<1> DEFINE S == {q \in Paths : \E x \in below[q] : ~(below[x] \subseteq below[q])}
<1>2. S = {}
  <2> SUFFICES ASSUME S # {}
               PROVE  FALSE
    OBVIOUS
  <2>1. S \subseteq Paths
    OBVIOUS
  <2>2. PICK q \in S : Uses(tree, q) \cap S = {}
    BY <2>1, Bottom
  <2>3. PICK x \in below[q] : ~(below[x] \subseteq below[q])
    BY <2>2
  <2>4. PICK u \in Uses(tree, q) : x \in below[u]
    BY <2>2, <2>3, BelowIs
  <2>5. u \in Paths /\ u \notin S
    BY <2>2, <2>4, UsesArePaths
  <2>6. below[x] \subseteq below[u]
    BY <2>4, <2>5
  <2>7. below[u] \subseteq below[q]
    BY <2>2, <2>4, BelowIs
  <2> QED
    BY <2>3, <2>6, <2>7
<1>3. ASSUME NEW x \in below[p], NEW u \in Uses(tree, x)
      PROVE  u \in below[p]
  <2>1. x \in Paths /\ below[x] \subseteq below[p]
    BY <1>1, <1>2
  <2>2. u \in Paths
    BY <2>1, UsesArePaths
  <2>3. u \in below[u] /\ below[u] \subseteq below[x]
    BY <2>1, <2>2, BelowIs
  <2> QED
    BY <2>1, <2>3
<1> QED
  BY <1>1, <1>3

(* Where two trees use the same, the same is below.                        *)
LEMMA BelowAgree ==
  ASSUME NEW tree \in Trees, NEW other \in Trees, NoCircle(tree), NEW below, NEW under,
         Fixed(tree, below), Fixed(other, under), NEW p \in Paths,
         \A x \in below[p] : Uses(other, x) = Uses(tree, x)
  PROVE  under[p] = below[p]
<1> DEFINE S == {x \in below[p] : under[x] # below[x]}
<1>1. below[p] \subseteq Paths /\ \A x \in below[p] : Uses(tree, x) \subseteq below[p]
  BY BelowClosed
<1>2. S = {}
  <2> SUFFICES ASSUME S # {}
               PROVE  FALSE
    OBVIOUS
  <2>1. S \subseteq Paths
    BY <1>1
  <2>2. PICK x \in S : Uses(tree, x) \cap S = {}
    BY <2>1, Bottom
  <2>3. \A u \in Uses(tree, x) : under[u] = below[u]
    BY <1>1, <2>2
  <2>4. under[x] = {x} \cup UNION {under[u] : u \in Uses(tree, x)}
    BY <2>1, <2>2 DEF Fixed
  <2>5. below[x] = {x} \cup UNION {below[u] : u \in Uses(tree, x)}
    BY <2>1, <2>2 DEF Fixed
  <2>6. under[x] = below[x]
    BY <2>3, <2>4, <2>5
  <2> QED
    BY <2>2, <2>6
<1>3. p \in below[p]
  BY BelowIs
<1> QED
  BY <1>2, <1>3
----------------------------------------------------------------------------
(* The walk of the index *)

(* Of numbers there is a least.                                            *)
LEMMA Least ==
  ASSUME NEW S, S \subseteq Nat, S # {}
  PROVE  \E n \in S : \A m \in S : n <= m
<1> DEFINE below == OpToRel(<, Nat)
<1>1. PICK n \in S : \A m \in S : <<m, n>> \notin below
  <2>1. IsWellFoundedOn(below, Nat)
    BY NatLessThanWellFounded, Zenon
  <2> HIDE DEF below
  <2> QED
    BY <2>1, WFMin
<1>2. \A m \in S : ~(m < n)
  BY <1>1 DEF OpToRel
<1> QED
  BY <1>2

(* The equation of the walk in Index.                                      *)
WalkAt(tree, w, left, seen) ==
  LET p == Head(left)
      rest == Tail(left)
      k == Kustomization[p]
  IN IF left = <<>> THEN {}
     ELSE IF ~Exists(tree, p) THEN {Missing}
     ELSE IF p \in Files THEN {p} \cup w[<<rest, seen>>]
     ELSE IF ~Kustomized(tree, p) THEN Manifests(tree, p) \cup w[<<rest, seen>>]
     ELSE IF k \in seen THEN w[<<rest, seen>>]
     ELSE {k} \cup w[<<Refs[k][tree[k]] \o rest, seen \cup {k}>>]
Walks(tree, w) == w = [at \in Places |-> WalkAt(tree, w, at[1], at[2])]

(* What a walk puts out at a place, and where it goes on.                  *)
Puts(tree, at) ==
  LET p == Head(at[1])
      k == Kustomization[p]
  IN IF at[1] = <<>> THEN {}
     ELSE IF ~Exists(tree, p) THEN {Missing}
     ELSE IF p \in Files THEN {p}
     ELSE IF ~Kustomized(tree, p) THEN Manifests(tree, p)
     ELSE IF k \in at[2] THEN {}
     ELSE {k}
Goes(tree, at) ==
  LET p == Head(at[1])
      rest == Tail(at[1])
      k == Kustomization[p]
  IN IF at[1] = <<>> \/ ~Exists(tree, p) THEN {}
     ELSE IF p \in Files \/ ~Kustomized(tree, p) \/ k \in at[2] THEN {<<rest, at[2]>>}
     ELSE {<<Refs[k][tree[k]] \o rest, at[2] \cup {k}>>}

(* A sequence is its head and its tail.                                    *)
LEMMA HeadTail ==
  ASSUME NEW left \in Seq(Paths), left # <<>>
  PROVE  /\ Head(left) \in Paths /\ Tail(left) \in Seq(Paths)
         /\ Len(Tail(left)) < Len(left)
         /\ \A i \in DOMAIN left : left[i] = Head(left) \/ \E j \in DOMAIN Tail(left) : Tail(left)[j] = left[i]
<1>1. Len(left) \in Nat \ {0}
  OBVIOUS
<1>2. Head(left) \in Paths /\ Tail(left) \in Seq(Paths) /\ Len(Tail(left)) = Len(left) - 1
  OBVIOUS
<1>3. ASSUME NEW i \in DOMAIN left
      PROVE  left[i] = Head(left) \/ \E j \in DOMAIN Tail(left) : Tail(left)[j] = left[i]
  <2>1. CASE i = 1
    BY <2>1
  <2>2. CASE i # 1
    <3>1. i - 1 \in DOMAIN Tail(left) /\ Tail(left)[i - 1] = left[i]
      BY <1>1, <2>2
    <3> QED
      BY <3>1
  <2> QED
    BY <2>1, <2>2
<1> QED
  BY <1>1, <1>2, <1>3

(* The references of a kustomization.                                      *)
LEMMA RefsArePaths ==
  ASSUME NEW tree \in Trees, NEW d, Kustomized(tree, d)
  PROVE  /\ Kustomization[d] \in Files /\ d \in Dirs
         /\ Refs[Kustomization[d]][tree[Kustomization[d]]] \in Seq(Paths)
<1>1. d \in DOMAIN Kustomization /\ tree[Kustomization[d]] # NoFile
  BY DEF Kustomized, Present
<1>2. d \in Dirs /\ Kustomization[d] \in Files
  BY <1>1, LayoutAssumption
<1>3. tree[Kustomization[d]] \in Texts
  BY <1>1, <1>2 DEF Trees
<1>4. Refs[Kustomization[d]] \in [Texts -> Seq(Paths)]
  BY <1>1, LayoutAssumption
<1> QED
  BY <1>2, <1>3, <1>4

(* There is such a walk, for it only collects.                             *)
LEMMA WalkEnds ==
  ASSUME NEW tree \in Trees
  PROVE  \E w : Walks(tree, w)
<1> DEFINE Out == [at \in Places |-> Puts(tree, at)]
           Nxt == [at \in Places |-> Goes(tree, at)]
           Y == Files \cup {Missing}
<1>1. ASSUME NEW at \in Places
      PROVE  Puts(tree, at) \in SUBSET Y /\ Goes(tree, at) \in SUBSET Places
  <2>1. at[1] \in Seq(Paths) /\ at[2] \in SUBSET Files
    BY DEF Places
  <2>2. CASE at[1] = <<>> \/ ~Exists(tree, Head(at[1]))
    BY <2>2 DEF Puts, Goes
  <2>3. CASE ~(at[1] = <<>> \/ ~Exists(tree, Head(at[1])))
    <3>1. Head(at[1]) \in Paths /\ Tail(at[1]) \in Seq(Paths)
      BY <2>1, <2>3, HeadTail
    <3>2. <<Tail(at[1]), at[2]>> \in Places
      BY <2>1, <3>1 DEF Places
    <3>3. Head(at[1]) \notin Files => Manifests(tree, Head(at[1])) \subseteq Files
      BY <3>1, LayoutAssumption DEF Paths, Manifests
    <3>4. CASE Head(at[1]) \in Files \/ ~Kustomized(tree, Head(at[1]))
      BY <2>3, <3>2, <3>3, <3>4 DEF Puts, Goes
    <3>5. CASE ~(Head(at[1]) \in Files \/ ~Kustomized(tree, Head(at[1])))
      <4> DEFINE k == Kustomization[Head(at[1])]
      <4>1. k \in Files /\ Refs[k][tree[k]] \in Seq(Paths)
        BY <3>5, RefsArePaths
      <4>2. Refs[k][tree[k]] \o Tail(at[1]) \in Seq(Paths)
        BY <4>1, <3>1
      <4>3. <<Refs[k][tree[k]] \o Tail(at[1]), at[2] \cup {k}>> \in Places
        BY <2>1, <4>1, <4>2 DEF Places
      <4> QED
        BY <2>3, <3>2, <3>5, <4>1, <4>3 DEF Puts, Goes
    <3> QED
      BY <3>4, <3>5
  <2> QED
    BY <2>2, <2>3
<1>2. Out \in [Places -> SUBSET Y] /\ Nxt \in [Places -> SUBSET Places]
  BY <1>1
<1>3. \A at \in Places : Out[at] = Puts(tree, at) /\ Nxt[at] = Goes(tree, at)
  OBVIOUS
<1> HIDE DEF Out, Nxt, Y
<1>4. Collects(Places, Y, Out, Nxt)
  BY <1>2, Fixpoint
<1>5. PICK w \in [Places -> SUBSET Y] : \A at \in Places : w[at] = Out[at] \cup UNION {w[u] : u \in Nxt[at]}
  BY <1>4 DEF Collects
<1>6. ASSUME NEW at \in Places
      PROVE  w[at] = WalkAt(tree, w, at[1], at[2])
  <2>1. w[at] = Puts(tree, at) \cup UNION {w[u] : u \in Goes(tree, at)}
    BY <1>3, <1>5
  <2>2. CASE at[1] = <<>> \/ ~Exists(tree, Head(at[1]))
    <3>1. w[at] = Puts(tree, at)
      BY <2>1, <2>2 DEF Goes
    <3> QED
      BY <2>2, <3>1 DEF Puts, WalkAt
  <2>3. CASE ~(at[1] = <<>> \/ ~Exists(tree, Head(at[1])))
    <3>1. \A u : Goes(tree, at) = {u} => w[at] = Puts(tree, at) \cup w[u]
      BY <2>1
    <3> QED
      BY <2>3, <3>1 DEF Puts, Goes, WalkAt
  <2> QED
    BY <2>2, <2>3
<1>7. w = [at \in Places |-> WalkAt(tree, w, at[1], at[2])]
  BY <1>6
<1> QED
  BY <1>7 DEF Walks

(* The index is what one puts out.                                         *)
LEMMA IndexIsWalk ==
  ASSUME NEW tree \in Trees, NEW a \in Units
  PROVE  \E w : Walks(tree, w) /\ Index(tree, a) = w[<<<<PathOf[a]>>, {}>>]
<1> DEFINE walk == CHOOSE w : w = [at \in Places |-> WalkAt(tree, w, at[1], at[2])]
<1>1. Index(tree, a) = walk[<<<<PathOf[a]>>, {}>>]
  BY DEF Index, WalkAt
<1>2. \E w : w = [at \in Places |-> WalkAt(tree, w, at[1], at[2])]
  BY WalkEnds DEF Walks
<1>3. Walks(tree, walk)
  BY <1>2, Zenon DEF Walks
<1> HIDE DEF walk
<1> QED
  BY <1>1, <1>3

(* What the walk to a place that has read seen has already put into the    *)
(* index; and the places of such a walk, of an application at path: all    *)
(* that is not yet in the index is left to be looked at.                   *)
Done(tree, index, seen, p) ==
  /\ p \in Paths /\ Exists(tree, p)
  /\ p \in Files => p \in index
  /\ p \in Dirs /\ ~Kustomized(tree, p) => Manifests(tree, p) \subseteq index
  /\ p \in Dirs /\ Kustomized(tree, p) => Kustomization[p] \in seen
Left(left, p) == \E i \in DOMAIN left : left[i] = p
Underway(tree, w, index, path, left, seen) ==
  /\ left \in Seq(Paths) /\ seen \in SUBSET Files
  /\ w[<<left, seen>>] \subseteq index /\ seen \subseteq index
  /\ Left(left, path) \/ Done(tree, index, seen, path)
  /\ \A d \in DOMAIN Kustomization : Kustomized(tree, d) /\ Kustomization[d] \in seen =>
       \A i \in DOMAIN Refs[Kustomization[d]][tree[Kustomization[d]]] :
         LET q == Refs[Kustomization[d]][tree[Kustomization[d]]][i]
         IN Left(left, q) \/ Done(tree, index, seen, q)

(* A walk goes on to a place with more read, or with less left.            *)
LEMMA WalkGoesOn ==
  ASSUME NEW tree \in Trees, NEW w, Walks(tree, w), NEW index, Missing \notin index, NEW path,
         NEW left, NEW seen, Underway(tree, w, index, path, left, seen), left # <<>>
  PROVE  \E t, s : /\ Underway(tree, w, index, path, t, s)
                   /\ \/ s = seen /\ Len(t) < Len(left)
                      \/ \E k \in Files \ seen : s = seen \cup {k}
<1> DEFINE p == Head(left)
           rest == Tail(left)
<1>1. left \in Seq(Paths) /\ seen \in SUBSET Files /\ <<left, seen>> \in Places
  BY DEF Underway, Places
<1>2. /\ p \in Paths /\ rest \in Seq(Paths) /\ Len(rest) < Len(left)
      /\ \A q : Left(left, q) => q = p \/ Left(rest, q)
  BY <1>1, HeadTail DEF Left
<1>3. w[<<left, seen>>] = WalkAt(tree, w, left, seen)
  <2>1. w[<<left, seen>>] = WalkAt(tree, w, <<left, seen>>[1], <<left, seen>>[2])
    BY <1>1 DEF Walks
  <2> QED
    BY <2>1
<1>4. Exists(tree, p)
  <2>1. w[<<left, seen>>] \subseteq index
    BY DEF Underway
  <2> QED
    BY <1>3, <2>1 DEF WalkAt
<1> HIDE DEF p, rest
<1>5. ASSUME w[<<rest, seen>>] \subseteq index, Done(tree, index, seen, p)
      PROVE  Underway(tree, w, index, path, rest, seen)
  <2>1. \A q : Left(left, q) \/ Done(tree, index, seen, q) => Left(rest, q) \/ Done(tree, index, seen, q)
    BY <1>2, <1>5
  <2> HIDE DEF Left, Done
  <2> QED
    BY <1>2, <1>5, <2>1 DEF Underway
<1>6. CASE p \in Files
  <2>1. w[<<left, seen>>] = {p} \cup w[<<rest, seen>>]
    BY <1>3, <1>4, <1>6 DEF WalkAt, p, rest
  <2>2. w[<<left, seen>>] \subseteq index
    BY DEF Underway
  <2>3. Done(tree, index, seen, p)
    BY <1>2, <1>4, <1>6, <2>1, <2>2, LayoutAssumption DEF Done
  <2> QED
    BY <1>2, <1>5, <2>1, <2>2, <2>3
<1>7. CASE p \notin Files /\ ~Kustomized(tree, p)
  <2>1. w[<<left, seen>>] = Manifests(tree, p) \cup w[<<rest, seen>>]
    BY <1>3, <1>4, <1>7 DEF WalkAt, p, rest
  <2>2. w[<<left, seen>>] \subseteq index
    BY DEF Underway
  <2>3. Done(tree, index, seen, p)
    BY <1>2, <1>4, <1>7, <2>1, <2>2 DEF Done
  <2> QED
    BY <1>2, <1>5, <2>1, <2>2, <2>3
<1>8. CASE p \notin Files /\ Kustomized(tree, p) /\ Kustomization[p] \in seen
  <2>1. w[<<left, seen>>] = w[<<rest, seen>>]
    BY <1>3, <1>4, <1>8 DEF WalkAt, p, rest
  <2>2. w[<<left, seen>>] \subseteq index
    BY DEF Underway
  <2>3. Done(tree, index, seen, p)
    BY <1>2, <1>4, <1>8 DEF Done
  <2> QED
    BY <1>2, <1>5, <2>1, <2>2, <2>3
<1>9. CASE p \notin Files /\ Kustomized(tree, p) /\ Kustomization[p] \notin seen
  <2> DEFINE k == Kustomization[p]
             refs == Refs[k][tree[k]]
             next == refs \o rest
             now == seen \cup {k}
  <2>1. w[<<left, seen>>] = {k} \cup w[<<next, now>>]
    BY <1>3, <1>4, <1>9 DEF WalkAt, p, rest
  <2>2. w[<<left, seen>>] \subseteq index /\ seen \subseteq index
    BY DEF Underway
  <2>3. k \in Files /\ p \in Dirs /\ refs \in Seq(Paths)
    BY <1>9, RefsArePaths
  <2>4. Done(tree, index, now, p)
    BY <1>2, <1>4, <1>9, <2>3 DEF Done
  <2>5. \A q : Done(tree, index, seen, q) => Done(tree, index, now, q)
    BY DEF Done
  <2>6. k \in Files \ seen
    BY <1>9, <2>3
  <2> HIDE DEF k
  <2>7. \A q : Left(refs, q) \/ Left(rest, q) => Left(next, q)
    <3> HIDE DEF refs
    <3>1. ASSUME NEW i \in DOMAIN refs
          PROVE  i \in DOMAIN next /\ next[i] = refs[i]
      BY <1>2, <2>3
    <3>2. ASSUME NEW i \in DOMAIN rest
          PROVE  Len(refs) + i \in DOMAIN next /\ next[Len(refs) + i] = rest[i]
      BY <1>2, <2>3
    <3> HIDE DEF next
    <3> QED
      BY <3>1, <3>2 DEF Left
  <2>8. next \in Seq(Paths)
    <3> HIDE DEF refs
    <3> QED
      BY <1>2, <2>3
  <2>9. \A q : Left(left, q) \/ Done(tree, index, seen, q) => Left(next, q) \/ Done(tree, index, now, q)
    <3> HIDE DEF Left, Done, next, now
    <3> QED
      BY <1>2, <2>4, <2>5, <2>7
  <2>10. ASSUME NEW d \in DOMAIN Kustomization, Kustomized(tree, d), Kustomization[d] \in now,
                NEW i \in DOMAIN Refs[Kustomization[d]][tree[Kustomization[d]]]
         PROVE  LET q == Refs[Kustomization[d]][tree[Kustomization[d]]][i]
                IN Left(next, q) \/ Done(tree, index, now, q)
    <3>1. CASE Kustomization[d] = k
      <4>1. Left(refs, Refs[Kustomization[d]][tree[Kustomization[d]]][i])
        BY <2>10, <3>1 DEF Left
      <4> HIDE DEF Left, Done, next, now
      <4> QED
        BY <2>7, <4>1
    <3>2. CASE Kustomization[d] # k
      <4>1. Kustomization[d] \in seen
        BY <2>10, <3>2
      <4>2. LET q == Refs[Kustomization[d]][tree[Kustomization[d]]][i]
            IN Left(left, q) \/ Done(tree, index, seen, q)
        <5> HIDE DEF Left, Done
        <5> QED
          BY <2>10, <4>1 DEF Underway
      <4> HIDE DEF Left, Done, next, now
      <4> QED
        BY <2>9, <4>2
    <3> QED
      BY <3>1, <3>2
  <2>11. Underway(tree, w, index, path, next, now)
    <3>1. now \in SUBSET Files /\ w[<<next, now>>] \subseteq index /\ now \subseteq index
      BY <1>1, <2>1, <2>2, <2>6
    <3>2. Left(next, path) \/ Done(tree, index, now, path)
      <4> HIDE DEF Left, Done, next, now
      <4> QED
        BY <2>9 DEF Underway
    <3> HIDE DEF Left, Done, next, now
    <3> QED
      BY <2>8, <2>10, <3>1, <3>2 DEF Underway
  <2> QED
    BY <2>6, <2>11
<1> QED
  BY <1>6, <1>7, <1>8, <1>9

(* So it ends, with nothing left.                                          *)
LEMMA WalkComes ==
  ASSUME NEW tree \in Trees, NEW w, Walks(tree, w), NEW index, Missing \notin index, NEW path,
         NEW left, NEW seen, Underway(tree, w, index, path, left, seen)
  PROVE  \E s : Underway(tree, w, index, path, <<>>, s)
<1> SUFFICES ASSUME \A s : ~Underway(tree, w, index, path, <<>>, s)
             PROVE  FALSE
  OBVIOUS
<1> DEFINE Here(t, s) == Underway(tree, w, index, path, t, s)
           Unseen(s) == Cardinality(Files \ s)
           N == {n \in Nat : \E t, s : Here(t, s) /\ n = Unseen(s)}
<1>1. ASSUME NEW t, NEW s, Here(t, s)
      PROVE  s \in SUBSET Files /\ t \in Seq(Paths) /\ IsFiniteSet(Files \ s) /\ Unseen(s) \in Nat
  <2>1. s \in SUBSET Files /\ t \in Seq(Paths)
    BY <1>1 DEF Underway
  <2>2. IsFiniteSet(Files \ s)
    BY LayoutAssumption, FS_Subset
  <2> QED
    BY <2>1, <2>2, FS_CardinalityType
<1>2. N # {} /\ N \subseteq Nat
  BY <1>1
<1> HIDE DEF Unseen
<1>3. PICK n \in N : \A m \in N : n <= m
  <2> HIDE DEF N
  <2> QED
    BY <1>2, Least
<1> DEFINE M == {m \in Nat : \E t, s : Here(t, s) /\ n = Unseen(s) /\ m = Len(t)}
<1>4. M # {} /\ M \subseteq Nat
  <2>1. PICK t, s : Here(t, s) /\ n = Unseen(s)
    BY <1>3
  <2>2. Len(t) \in Nat
    BY <1>1, <2>1
  <2> QED
    BY <2>1, <2>2
<1>5. PICK m \in M : \A l \in M : m <= l
  <2> HIDE DEF M
  <2> QED
    BY <1>4, Least
<1>6. PICK t, s : Here(t, s) /\ n = Unseen(s) /\ m = Len(t)
  BY <1>5
<1>7. t # <<>>
  BY <1>6
<1>8. PICK u, r : Here(u, r) /\ ((r = s /\ Len(u) < Len(t)) \/ \E k \in Files \ s : r = s \cup {k})
  BY <1>6, <1>7, WalkGoesOn
<1>9. CASE r = s /\ Len(u) < Len(t)
  <2>1. Len(u) \in M
    BY <1>1, <1>6, <1>8, <1>9
  <2>2. m <= Len(u)
    BY <1>5, <2>1
  <2> QED
    BY <1>1, <1>6, <1>8, <1>9, <2>2
<1>10. CASE \E k \in Files \ s : r = s \cup {k}
  <2>1. PICK k \in Files \ s : r = s \cup {k}
    BY <1>10
  <2>2. Files \ r = (Files \ s) \ {k}
    BY <2>1
  <2>3. IsFiniteSet(Files \ s) /\ Unseen(s) \in Nat /\ Unseen(r) \in Nat
    BY <1>1, <1>6, <1>8
  <2>4. Cardinality(Files \ r) = Cardinality(Files \ s) - 1
    BY <2>1, <2>2, <2>3, FS_RemoveElement
  <2>5. Unseen(r) < Unseen(s)
    BY <2>3, <2>4 DEF Unseen
  <2>6. Unseen(r) \in N
    BY <1>8, <2>3
  <2>7. n <= Unseen(r)
    BY <1>3, <2>6
  <2> QED
    BY <1>6, <2>3, <2>5, <2>7
<1> QED
  BY <1>8, <1>9, <1>10

(* Where no reference leads to nothing, the index of an application has    *)
(* all the files that Argo CD reaches from its path.                       *)
LEMMA IndexComplete ==
  ASSUME NEW tree \in Trees, NoCircle(tree), NEW a \in Units, Missing \notin Index(tree, a)
  PROVE  Reached(tree, a) \cap Files \subseteq Index(tree, a)
<1>1. PICK w : Walks(tree, w) /\ Index(tree, a) = w[<<<<PathOf[a]>>, {}>>]
  BY IndexIsWalk
<1> DEFINE index == Index(tree, a)
           path == PathOf[a]
<1>2. path \in Paths
  BY LayoutAssumption
<1> HIDE DEF index
<1>3. Underway(tree, w, index, path, <<path>>, {})
  <2>1. Left(<<path>>, path)
    BY DEF Left
  <2> HIDE DEF path
  <2>2. <<path>> \in Seq(Paths)
    BY <1>2
  <2>3. w[<<<<path>>, {}>>] \subseteq index
    BY <1>1 DEF index, path
  <2> QED
    BY <2>1, <2>2, <2>3 DEF Underway
<1>4. Missing \notin index
  BY DEF index
<1>5. PICK s : Underway(tree, w, index, path, <<>>, s)
  <2> HIDE DEF path
  <2> QED
    BY <1>1, <1>3, <1>4, WalkComes
<1> DEFINE Z == {p \in Paths : Done(tree, index, s, p)}
<1>6. path \in Z
  BY <1>2, <1>5 DEF Underway, Left
<1>7. ASSUME NEW p \in Z, NEW q \in Uses(tree, p)
      PROVE  q \in Z
  <2>1. p \in Dirs /\ Exists(tree, p) /\ q \in Paths
    BY <1>7, UsesArePaths DEF Uses, Paths
  <2>2. ASSUME NEW f \in Files, Present(tree, f), f \in index
        PROVE  f \in Z
    BY <2>2, LayoutAssumption DEF Done, Exists, Paths
  <2>3. CASE ~Kustomized(tree, p)
    <3>1. q \in Manifests(tree, p) /\ p \notin Files
      BY <1>7, <2>1, <2>3, LayoutAssumption DEF Uses
    <3>2. q \in Files /\ Present(tree, q) /\ q \in index
      BY <1>7, <2>1, <2>3, <3>1, LayoutAssumption DEF Manifests, Done
    <3> QED
      BY <2>2, <3>2
  <2>4. CASE Kustomized(tree, p)
    <3> DEFINE k == Kustomization[p]
               refs == Refs[k][tree[k]]
    <3>1. k \in Files /\ refs \in Seq(Paths)
      BY <2>4, RefsArePaths
    <3>2. k \in s /\ s \subseteq index /\ Present(tree, k) /\ p \in DOMAIN Kustomization
      BY <1>5, <1>7, <2>1, <2>4 DEF Done, Underway, Kustomized
    <3>3. q = k \/ \E i \in DOMAIN refs : q = refs[i]
      BY <1>7, <2>1, <2>4, LayoutAssumption DEF Uses
    <3>4. CASE q = k
      BY <2>2, <3>1, <3>2, <3>4
    <3>5. CASE \E i \in DOMAIN refs : q = refs[i]
      <4>1. \A i \in DOMAIN refs : Left(<<>>, refs[i]) \/ Done(tree, index, s, refs[i])
        <5> HIDE DEF Left, Done
        <5> QED
          BY <1>5, <2>4, <3>2 DEF Underway
      <4>2. Done(tree, index, s, q)
        <5> HIDE DEF refs
        <5> QED
          BY <3>5, <4>1 DEF Left
      <4> QED
        BY <2>1, <4>2
    <3> QED
      BY <3>3, <3>4, <3>5
  <2> QED
    BY <2>3, <2>4
<1>8. PICK below : Fixed(tree, below) /\ Reached(tree, a) = below[path]
  BY ReachedIsBelow
<1>9. below[path] \subseteq Z
  <2>1. Z \subseteq Paths
    OBVIOUS
  <2> HIDE DEF Z, path
  <2> QED
    BY <1>6, <1>7, <1>8, <2>1, BelowWithin
<1> QED
  BY <1>8, <1>9 DEF Done, index

----------------------------------------------------------------------------
(* The plan *)

(* A tree in which nothing is missing that is found in a directory.        *)
Sturdy(tree) == tree \in Trees /\ \A f \in Files : Found(f) => Present(tree, f)

(* It decides what a path uses by the references alone.                    *)
LEMMA UsesOfSturdy ==
  ASSUME NEW tree, Sturdy(tree), NEW p \in Paths
  PROVE  /\ p \in Files => Uses(tree, p) = {}
         /\ p \in Dirs \ DOMAIN Kustomization => Uses(tree, p) = Holds[p]
         /\ p \in DOMAIN Kustomization =>
              LET k == Kustomization[p]
                  refs == Refs[k][tree[k]]
              IN k \in Files /\ Uses(tree, p) = {k} \cup {refs[i] : i \in DOMAIN refs}
<1>1. p \in Files => Uses(tree, p) = {}
  BY DEF Uses
<1>2. ASSUME p \in Dirs \ DOMAIN Kustomization
      PROVE  Uses(tree, p) = Holds[p]
  <2>1. Holds[p] \subseteq Files /\ p \notin Files
    BY <1>2, LayoutAssumption
  <2>2. \A f \in Holds[p] : Found(f)
    BY <1>2 DEF Found
  <2>3. Manifests(tree, p) = Holds[p]
    BY <2>1, <2>2 DEF Manifests, Sturdy
  <2> QED
    BY <1>2, <2>1, <2>3 DEF Uses, Exists, Kustomized
<1>3. ASSUME p \in DOMAIN Kustomization
      PROVE  LET k == Kustomization[p]
                 refs == Refs[k][tree[k]]
             IN k \in Files /\ Uses(tree, p) = {k} \cup {refs[i] : i \in DOMAIN refs}
  <2>1. p \in Dirs /\ p \notin Files /\ Kustomization[p] \in Holds[p] /\ Kustomization[p] \in Files
    BY <1>3, LayoutAssumption
  <2>2. Present(tree, Kustomization[p])
    BY <1>3, <2>1 DEF Sturdy, Found
  <2>3. Exists(tree, p) /\ Kustomized(tree, p)
    BY <1>3, <2>1, <2>2 DEF Exists, Manifests, Kustomized
  <2> QED
    BY <2>1, <2>3 DEF Uses
<1> QED
  BY <1>1, <1>2, <1>3

(* What a path uses in two such trees is the same, where the kustomization *)
(* says the same of what it refers to.                                     *)
LEMMA UsesAgree ==
  ASSUME NEW tree, Sturdy(tree), NEW other, Sturdy(other), NEW p \in Paths,
         p \in DOMAIN Kustomization =>
           LET k == Kustomization[p] IN Refs[k][tree[k]] = Refs[k][other[k]]
  PROVE  Uses(tree, p) = Uses(other, p)
<1>1. CASE p \in Files
  BY <1>1, UsesOfSturdy
<1>2. CASE p \in Dirs \ DOMAIN Kustomization
  BY <1>2, UsesOfSturdy
<1>3. CASE p \in DOMAIN Kustomization
  BY <1>3, UsesOfSturdy
<1> QED
  BY <1>1, <1>2, <1>3 DEF Paths

(* The index of the worktree has a file of every change from one commit to *)
(* the next that makes a difference to an application.                     *)
THEOREM PlanCovers ==
  ASSUME NEW tree, Sturdy(tree), NoCircle(tree), NEW a \in Units, Missing \notin Index(tree, a),
         NEW new, Sturdy(new), SameReferences(tree, new), NEW old, Sturdy(old),
         ~SameRendering(new, old, a)
  PROVE  \E f \in Index(tree, a) \cap Files : new[f] # old[f]
<1> SUFFICES ASSUME \A f \in Index(tree, a) \cap Files : new[f] = old[f]
             PROVE  Rendered(new, a) = Rendered(old, a)
  BY DEF SameRendering
<1> DEFINE path == PathOf[a]
<1>1. tree \in Trees /\ new \in Trees /\ old \in Trees /\ path \in Paths
  BY LayoutAssumption DEF Sturdy
<1>2. PICK below : Fixed(tree, below) /\ Reached(tree, a) = below[path]
  BY <1>1, ReachedIsBelow
<1>3. below[path] \cap Files \subseteq Index(tree, a)
  BY <1>1, <1>2, IndexComplete
<1>4. below[path] \subseteq Paths /\ \A x \in below[path] : Uses(tree, x) \subseteq below[path]
  <2> HIDE DEF path
  <2> QED
    BY <1>1, <1>2, BelowClosed
<1>5. ASSUME NEW x \in below[path]
      PROVE  Uses(new, x) = Uses(tree, x)
  BY <1>4, UsesAgree DEF SameReferences
<1>6. ASSUME NEW x \in below[path]
      PROVE  Uses(old, x) = Uses(tree, x)
  <2>1. x \in Paths
    BY <1>4
  <2>2. ASSUME x \in DOMAIN Kustomization
        PROVE  LET k == Kustomization[x] IN Refs[k][new[k]] = Refs[k][old[k]]
    <3>1. Kustomization[x] \in Files /\ Kustomization[x] \in Uses(tree, x)
      BY <2>1, <2>2, UsesOfSturdy
    <3>2. new[Kustomization[x]] = old[Kustomization[x]]
      BY <1>3, <1>4, <3>1
    <3> QED
      BY <3>2
  <2>3. Uses(new, x) = Uses(old, x)
    BY <2>1, <2>2, UsesAgree
  <2> QED
    BY <1>5, <2>3
<1>7. PICK under : Fixed(new, under) /\ Reached(new, a) = under[path]
  BY <1>1, ReachedIsBelow
<1>8. PICK beneath : Fixed(old, beneath) /\ Reached(old, a) = beneath[path]
  BY <1>1, ReachedIsBelow
<1>9. under[path] = below[path]
  <2> HIDE DEF path
  <2> QED
    BY <1>1, <1>2, <1>5, <1>7, BelowAgree
<1>10. beneath[path] = below[path]
  <2> HIDE DEF path
  <2> QED
    BY <1>1, <1>2, <1>6, <1>8, BelowAgree
<1>11. Reached(new, a) = Reached(old, a) /\ Reached(new, a) \cap Files \subseteq Index(tree, a)
  BY <1>3, <1>7, <1>8, <1>9, <1>10
<1> QED
  BY <1>11 DEF Rendered

----------------------------------------------------------------------------
(* The invariant *)

(* A text that one of the given worktrees has in the file.                 *)
OfGiven(f, text) == \E tree \in Given(scenario) : text = tree[f]
(* The environments of RestMeansRefreshed.                                 *)
Quiet == RefreshesLand /\ IndexIsOfCommit

(* The snapshot that is pushed has been read to its end.                   *)
SnapInv == pc = "push" => \A f \in Files : snap[f] # Unread

(* Each text is of a worktree the user made.                               *)
TextsInv ==
  /\ src \in Given(scenario)
  /\ \A i \in 1..Tip : \A f \in Files : OfGiven(f, commits[i][f])
  /\ \A f \in Files : snap[f] = Unread \/ OfGiven(f, snap[f])

(* While a plan may still be made of the worktree, its references are      *)
(* those of the commit.                                                    *)
ReferencesInv ==
  Quiet /\ Mode = "affected" =>
    /\ pc \in {"copy", "push"} =>
         \A d \in DOMAIN Kustomization :
           LET k == Kustomization[d] IN snap[k] = Unread \/ Refs[k][src[k]] = Refs[k][snap[k]]
    /\ pc \in {"list", "refreshroot", "waitroot", "relist"} => SameReferences(src, commits[commit])

(* a should look, and does not.                                           *)
Behind(a) ==
  /\ a \in Live /\ argo[a].observed < owed[a]
  /\ ~argo[a].annotated /\ argo[a].observed # 0

(* Where the watcher has still to tell a to look.                          *)
InHand(a) == \/ pc \in {"list", "refreshroot"}
             \/ pc \in {"waitroot", "relist"} /\ a # Root
             \/ pc = "refresh" /\ a \in todo

(* The wait for the root application is for nothing else.                  *)
WaitInv == pc = "waitroot" => plan = {Root}

(* The last commit is the watcher's.                                       *)
TipInv == Quiet => commit = Tip

(* An application is behind only for the last commit, and only as long as  *)
(* the watcher has still to tell it to look.                               *)
HandInv == Quiet => \A a \in Units : Behind(a) =>
  /\ commit # 1 /\ ~SameRendering(commits[commit], commits[commit - 1], a)
  /\ InHand(a)

(* The inductive invariant.                                                *)
IInv == TypeOK /\ SnapInv /\ TextsInv /\ ReferencesInv /\ WaitInv /\ TipInv /\ HandInv

----------------------------------------------------------------------------
(* Type correctness *)

(* What a scenario consists of.                                            *)
LEMMA ScenarioFacts ==
  ASSUME scenario \in Scenarios
  PROVE  /\ scenario.edits \in Nat /\ scenario.foreign \in Nat /\ scenario.faults \in Nat
         /\ scenario.mode \in {"affected", "all", "none"}
         /\ Given(scenario) \subseteq Trees
<1>1. scenario \in Scenario
  BY InstanceAssumption
<1>2. scenario.worktree \in DOMAIN Worktrees
  BY <1>1 DEF Scenario
<1>3. Given(scenario) \subseteq Trees
  BY <1>2, InstanceAssumption DEF Given
<1> QED
  BY <1>1, <1>3 DEF Scenario

(* Only applications are defined.                                          *)
LEMMA ChildrenAreApps ==
  ASSUME NEW tree
  PROVE  Children(tree) \subseteq Apps
BY LayoutAssumption DEF Children, Names

(* Only applications that exist are planned.                               *)
LEMMA PlannedIsLive == Planned \subseteq Live
BY DEF Planned, Affected

(* What the steps of an application leave of it.                           *)
LEMMA Annotated ==
  ASSUME NEW L, NEW g \in [L -> Application], NEW a \in L
  PROVE  /\ [g EXCEPT ![a].annotated = TRUE] \in [L -> Application]
         /\ [g EXCEPT ![a].annotated = TRUE][a].annotated = TRUE
         /\ \A x \in L : [g EXCEPT ![a].annotated = TRUE][x].observed = g[x].observed
         /\ \A x \in L \ {a} : [g EXCEPT ![a].annotated = TRUE][x] = g[x]
BY DEF Application

(* A started operation leaves the rest,                                    *)
LEMMA Started ==
  ASSUME NEW L, NEW g \in [L -> Application], NEW a \in L
  PROVE  /\ [g EXCEPT ![a].operation = "running"] \in [L -> Application]
         /\ \A x \in L : [g EXCEPT ![a].operation = "running"][x].observed = g[x].observed
         /\ \A x \in L : [g EXCEPT ![a].operation = "running"][x].annotated = g[x].annotated
BY DEF Application

(* and so does a finished one.                                             *)
LEMMA Finished ==
  ASSUME NEW L, NEW g \in [L -> Application], NEW a \in L
  PROVE  /\ [g EXCEPT ![a].operation = "none"] \in [L -> Application]
         /\ \A x \in L : [g EXCEPT ![a].operation = "none"][x].observed = g[x].observed
         /\ \A x \in L : [g EXCEPT ![a].operation = "none"][x].annotated = g[x].annotated
BY DEF Application

(* TypeOK holds in the beginning.                                          *)
LEMMA TypeInit ==
  ASSUME Init
  PROVE  TypeOK /\ SnapInv
<1>1. src \in Given(scenario) /\ scenario \in Scenarios
  BY DEF Init, Given
<1>2. src \in Trees
  BY <1>1, ScenarioFacts
<1>3. commits = <<src>> /\ commits \in Seq(Trees) /\ Tip = 1
  BY <1>2 DEF Init, Tip
<1>4. NoHash \in [Files -> Texts \cup {NoFile, Unread}]
  BY DEF NoHash
<1>5. argo = [a \in {Root} \cup Children(src) |-> [New EXCEPT !.observed = 1]]
  BY DEF Init
<1>6. /\ Live = {Root} \cup Children(src) /\ Live \subseteq Units
      /\ argo \in [Live -> Application] /\ \A a \in Live : argo[a].observed <= 1
  <2>1. New \in Application
    BY DEF New, Application
  <2>2. [New EXCEPT !.observed = 1] \in Application /\ [New EXCEPT !.observed = 1].observed = 1
    BY <2>1 DEF Application
  <2> QED
    BY <1>5, <2>2, ChildrenAreApps DEF Live, Units
<1>7. /\ scenario.edits \in Nat /\ scenario.foreign \in Nat /\ scenario.faults \in Nat
  BY <1>1, ScenarioFacts
<1>8. owed \in [Units -> 1..Tip]
  BY <1>3 DEF Init
<1>9. edits \in 0..scenario.edits /\ foreign \in 0..scenario.foreign /\ faults \in 0..scenario.faults
  BY <1>7 DEF Init
<1>10. /\ commit \in 1..Tip /\ base \in 1..Tip /\ plan \subseteq Units /\ todo \subseteq plan
       /\ pc = "start" /\ last = NoHash /\ pending = NoHash /\ settled = FALSE /\ snap = NoHash
  BY <1>3 DEF Init
<1>11. Root \in Live /\ \A a \in Live : argo[a].observed <= Tip
  BY <1>3, <1>6
<1> QED
  BY <1>1, <1>2, <1>3, <1>4, <1>6, <1>8, <1>9, <1>10, <1>11 DEF TypeOK, SnapInv

(* What does not touch the branch keeps its part of TypeOK, and so on.     *)
BranchOK ==
  /\ commits \in Seq(Trees) /\ commit \in 1..Tip /\ base \in 1..Tip /\ owed \in [Units -> 1..Tip]
LoopOK ==
  /\ src \in Trees
  /\ pc \in {"start", "tick", "dead"} \cup InSync
  /\ last \in Trees \cup {NoHash} /\ pending \in Trees \cup {NoHash}
  /\ settled \in BOOLEAN
  /\ snap \in [Files -> Texts \cup {NoFile, Unread}]
  /\ SnapInv
RefreshOK == plan \subseteq Units /\ todo \subseteq plan
ArgoOK ==
  /\ Root \in Live /\ Live \subseteq Units
  /\ argo \in [Live -> Application] /\ \A a \in Live : argo[a].observed <= Tip
CountersOK ==
  /\ scenario \in Scenarios
  /\ edits \in 0..scenario.edits /\ foreign \in 0..scenario.foreign /\ faults \in 0..scenario.faults

(* The parts are TypeOK,                                                   *)
LEMMA TypeParts ==
  TypeOK /\ SnapInv <=> BranchOK /\ LoopOK /\ RefreshOK /\ ArgoOK /\ CountersOK
BY DEF TypeOK, BranchOK, LoopOK, RefreshOK, ArgoOK, CountersOK

(* before a step and after it.                                             *)
LEMMA TypePartsPrime ==
  (TypeOK /\ SnapInv)' <=> BranchOK' /\ LoopOK' /\ RefreshOK' /\ ArgoOK' /\ CountersOK'
BY DEF TypeOK, BranchOK, LoopOK, RefreshOK, ArgoOK, CountersOK

(* A fault counts itself.                                                  *)
LEMMA CountersStay ==
  ASSUME CountersOK
  PROVE  /\ UNCHANGED counters => CountersOK'
         /\ \A kind : Fault(kind) /\ UNCHANGED <<scenario, edits, foreign>> => CountersOK'
<1>1. UNCHANGED counters => CountersOK'
  BY DEF counters, CountersOK
<1>2. ASSUME NEW kind, Fault(kind), UNCHANGED <<scenario, edits, foreign>>
      PROVE  CountersOK'
  BY <1>2, ScenarioFacts DEF CountersOK, Fault
<1> QED
  BY <1>1, <1>2

(* A step that leaves the commits and what is known of them leaves the     *)
(* branch.                                                                 *)
LEMMA BranchStays ==
  ASSUME BranchOK, UNCHANGED <<commits, own>>
  PROVE  BranchOK'
BY DEF BranchOK, own, Tip

(* A longer branch does not matter to the applications.                    *)
LEMMA ArgoStays ==
  ASSUME ArgoOK, BranchOK, UNCHANGED argo, UNCHANGED commits \/ \E tree : commits' = Append(commits, tree)
  PROVE  ArgoOK'
<1>1. Tip \in Nat /\ Tip' \in Nat /\ Tip <= Tip'
  BY DEF Tip, BranchOK
<1>2. ASSUME NEW a \in Live
      PROVE  argo[a].observed \in Nat /\ argo[a].observed <= Tip
  BY DEF ArgoOK, Application
<1>3. Live' = Live
  BY DEF Live
<1>4. ASSUME NEW a \in Live
      PROVE  argo[a].observed <= Tip'
  BY <1>1, <1>2
<1> QED
  BY <1>3, <1>4 DEF ArgoOK

(* The steps of the user and of others,                                    *)
LEMMA TypeUser ==
  ASSUME TypeOK, SnapInv, NEW tree \in Worktrees[scenario.worktree].next, Edit(tree) \/ ForeignPush(tree)
  PROVE  TypeOK' /\ SnapInv'
<1>1. BranchOK /\ LoopOK /\ RefreshOK /\ ArgoOK /\ CountersOK
  BY TypeParts
<1>2. tree \in Trees
  BY <1>1, ScenarioFacts DEF CountersOK, Given
<1>3. /\ scenario.edits \in Nat /\ scenario.foreign \in Nat /\ scenario.faults \in Nat
  BY <1>1, ScenarioFacts DEF CountersOK
<1>4. CASE Edit(tree)
  <2>1. UNCHANGED <<commits, own, refresh, argo>> /\ src' = tree
    BY <1>4 DEF Edit
  <2>2. LoopOK'
    BY <1>1, <1>2, <1>4 DEF LoopOK, Edit, loop, own, SnapInv, NoHash, InSync
  <2>3. CountersOK'
    BY <1>1, <1>3, <1>4 DEF CountersOK, Edit
  <2>4. RefreshOK'
    BY <1>1, <2>1 DEF RefreshOK, refresh
  <2> QED
    BY <1>1, <2>1, <2>2, <2>3, <2>4, BranchStays, ArgoStays, TypePartsPrime
<1>5. CASE ForeignPush(tree)
  <2>1. UNCHANGED <<own, refresh, argo>> /\ commits' = Append(commits, tree)
    BY <1>5 DEF ForeignPush
  <2>2. LoopOK'
    BY <1>1, <1>5 DEF LoopOK, ForeignPush, loop, own, SnapInv, NoHash, InSync
  <2>3. CountersOK'
    BY <1>1, <1>3, <1>5 DEF CountersOK, ForeignPush
  <2>4. RefreshOK'
    BY <1>1, <2>1 DEF RefreshOK, refresh
  <2>5. BranchOK'
    <3>1. commits' \in Seq(Trees) /\ Tip' = Tip + 1 /\ Tip \in Nat
      BY <1>1, <1>2, <2>1 DEF BranchOK, Tip
    <3>2. 1..Tip \subseteq 1..Tip'
      BY <3>1
    <3> QED
      BY <1>1, <2>1, <3>1, <3>2 DEF BranchOK, own
  <2> QED
    BY <1>1, <2>1, <2>2, <2>3, <2>4, <2>5, ArgoStays, TypePartsPrime
<1> QED
  BY <1>4, <1>5

(* of the loop and the copy,                                               *)
LEMMA TypeTicks ==
  ASSUME TypeOK, SnapInv,
         \/ Start \/ TickReverted \/ TickChanged \/ Debounce \/ TickSync \/ HashFails \/ Rehash
         \/ CopyDone \/ Noop \/ \E i \in DOMAIN Order : Copy(i)
  PROVE  TypeOK' /\ SnapInv'
<1>1. BranchOK /\ LoopOK /\ RefreshOK /\ ArgoOK /\ CountersOK
  BY TypeParts
<1>2. CountersOK'
  <2>1. UNCHANGED counters \/ (Fault("vanish") /\ UNCHANGED <<scenario, edits, foreign>>)
    BY DEF Start, TickReverted, TickChanged, Debounce, TickSync, HashFails, Rehash,
           CopyDone, Noop, Copy
  <2> QED
    BY <1>1, <2>1, CountersStay
<1>3. UNCHANGED <<commits, refresh, argo>>
  BY DEF Start, TickReverted, TickChanged, Debounce, TickSync, HashFails, Rehash,
         CopyDone, Noop, Copy
<1>4. RefreshOK' /\ ArgoOK'
  BY <1>1, <1>3, ArgoStays DEF RefreshOK, refresh
<1>5. BranchOK'
  <2>1. UNCHANGED <<commit, owed>> /\ base' \in {base, Tip}
    BY DEF Start, TickReverted, TickChanged, Debounce, TickSync, HashFails, Rehash,
           CopyDone, Noop, Copy, own
  <2>2. Tip' = Tip /\ Tip \in 1..Tip
    BY <1>1, <1>3 DEF BranchOK, Tip
  <2> QED
    BY <1>1, <1>3, <2>1, <2>2 DEF BranchOK
<1>6. LoopOK'
  <2>1. CASE Start \/ Rehash
    BY <1>1, <2>1 DEF LoopOK, SnapInv, Start, Rehash, own, NoHash, InSync
  <2>2. CASE TickReverted \/ TickChanged \/ Debounce
    BY <1>1, <2>2 DEF LoopOK, SnapInv, TickReverted, TickChanged, Debounce, own, NoHash, InSync
  <2>3. CASE HashFails
    BY <1>1, <2>3 DEF LoopOK, SnapInv, HashFails, own, loop, NoHash, InSync
  <2>4. CASE TickSync
    BY <1>1, <2>4 DEF LoopOK, SnapInv, TickSync, loop, NoHash, InSync
  <2>5. CASE CopyDone \/ Noop
    BY <1>1, <2>5 DEF LoopOK, SnapInv, CopyDone, Noop, loop, own, NoHash, InSync
  <2>6. ASSUME NEW i \in DOMAIN Order, Copy(i)
        PROVE  LoopOK'
    <3>1. Order[i] \in Files /\ src[Order[i]] \in Texts \cup {NoFile}
      BY <1>1, InstanceAssumption DEF LoopOK, Trees
    <3>2. snap' = [snap EXCEPT ![Order[i]] = src[Order[i]]] /\ pc' = "copy" /\ UNCHANGED <<src, loop>>
      BY <2>6 DEF Copy
    <3>3. snap' \in [Files -> Texts \cup {NoFile, Unread}]
      BY <1>1, <3>1, <3>2 DEF LoopOK
    <3> QED
      BY <1>1, <3>2, <3>3 DEF LoopOK, SnapInv, loop, NoHash, InSync
  <2> QED
    BY <2>1, <2>2, <2>3, <2>4, <2>5, <2>6
<1> QED
  BY <1>2, <1>4, <1>5, <1>6, TypePartsPrime

(* of the push,                                                            *)
LEMMA TypePush ==
  ASSUME TypeOK, SnapInv, Push \/ PushLostAnswer \/ PushRefused \/ SyncFails
  PROVE  TypeOK' /\ SnapInv'
<1>1. BranchOK /\ LoopOK /\ RefreshOK /\ ArgoOK /\ CountersOK
  BY TypeParts
<1>2. CountersOK'
  <2>1. UNCHANGED counters \/ ((Fault("lostack") \/ Fault("fail")) /\ UNCHANGED <<scenario, edits, foreign>>)
    BY DEF Push, PushLostAnswer, PushRefused, SyncFails
  <2> QED
    BY <1>1, <2>1, CountersStay
<1>3. UNCHANGED <<refresh, argo>> /\ (Publish \/ UNCHANGED <<commits, own>>)
  BY DEF Push, PushLostAnswer, PushRefused, SyncFails
<1>4. RefreshOK' /\ ArgoOK'
  BY <1>1, <1>3, ArgoStays DEF RefreshOK, refresh, Publish
<1>5. BranchOK'
  <2>1. CASE UNCHANGED <<commits, own>>
    BY <1>1, <2>1, BranchStays
  <2>2. CASE Publish
    <3>1. snap \in Trees
      BY <1>1, <2>2 DEF LoopOK, SnapInv, Publish, Trees
    <3>2. commits' \in Seq(Trees) /\ Tip' = Tip + 1 /\ Tip \in Nat
      BY <1>1, <2>2, <3>1 DEF BranchOK, Tip, Publish
    <3>3. 1..Tip \subseteq 1..Tip' /\ Tip + 1 \in 1..Tip'
      BY <3>2
    <3>4. owed' \in [Units -> 1..Tip']
      BY <1>1, <2>2, <3>3 DEF BranchOK, Publish
    <3>5. commit' \in {commit, Tip + 1} /\ base' = base
      <4>1. PushRefused \/ SyncFails => UNCHANGED own
        BY DEF PushRefused, SyncFails
      <4> QED
        BY <4>1 DEF Push, PushLostAnswer, own
    <3> QED
      BY <1>1, <3>2, <3>3, <3>4, <3>5 DEF BranchOK
  <2> QED
    BY <1>3, <2>1, <2>2
<1>6. LoopOK'
  BY <1>1
     DEF LoopOK, SnapInv, Push, PushLostAnswer, PushRefused, SyncFails, Retry, loop, own,
         NoHash, InSync
<1> QED
  BY <1>2, <1>4, <1>5, <1>6, TypePartsPrime

(* of the refresh,                                                         *)
LEMMA TypeRefresh ==
  ASSUME TypeOK, SnapInv,
         \/ ListApps \/ ListAppsAgain \/ PlanFails \/ RefreshDone \/ Observed
         \/ SyncSuperseded \/ TimesOut \/ RefreshFails
  PROVE  TypeOK' /\ SnapInv'
<1>1. BranchOK /\ LoopOK /\ RefreshOK /\ ArgoOK /\ CountersOK
  BY TypeParts
<1>2. CountersOK'
  <2>1. UNCHANGED counters \/ (Fault("refresh") /\ UNCHANGED <<scenario, edits, foreign>>)
    BY DEF ListApps, ListAppsAgain, PlanFails, RefreshDone, Observed, SyncSuperseded,
           TimesOut, RefreshFails
  <2> QED
    BY <1>1, <2>1, CountersStay
<1>3. UNCHANGED <<src, commits, own, argo>>
  BY DEF ListApps, ListAppsAgain, PlanFails, RefreshDone, Observed, SyncSuperseded,
         TimesOut, RefreshFails
<1>4. BranchOK' /\ ArgoOK'
  BY <1>1, <1>3, BranchStays, ArgoStays
<1>5. RefreshOK'
  <2>1. CASE UNCHANGED refresh
    BY <1>1, <2>1 DEF RefreshOK, refresh
  <2>2. ASSUME NEW names \in SUBSET Live, Annotate(names)
        PROVE  RefreshOK'
    BY <1>1, <2>2 DEF RefreshOK, Annotate, ArgoOK
  <2>3. UNCHANGED refresh \/ \E names \in SUBSET Live : Annotate(names)
    <3>1. Planned \in SUBSET Live /\ Planned \ {Root} \in SUBSET Live
      BY PlannedIsLive
    <3> QED
      BY <3>1
         DEF ListApps, ListAppsAgain, PlanFails, RefreshDone, Observed, SyncSuperseded,
             TimesOut, RefreshFails
  <2> QED
    BY <2>1, <2>2, <2>3
<1>6. LoopOK'
  <2>1. pc' \in {"tick"} \cup (InSync \ {"push"})
    BY DEF ListApps, ListAppsAgain, PlanFails, RefreshDone, Observed, SyncSuperseded,
           TimesOut, RefreshFails, Retry, Annotate, InSync
  <2>2. UNCHANGED <<last, pending>> /\ settled' \in {settled, FALSE}
    BY DEF ListApps, ListAppsAgain, PlanFails, RefreshDone, Observed, SyncSuperseded,
           TimesOut, RefreshFails, Retry, loop
  <2> QED
    BY <1>1, <1>3, <2>1, <2>2 DEF LoopOK, SnapInv, NoHash, own
<1> QED
  BY <1>2, <1>4, <1>5, <1>6, TypePartsPrime

(* and of the applications keep the types.                                 *)
LEMMA TypeArgo ==
  ASSUME TypeOK, SnapInv, NEW u \in Units,
         RefreshRoot \/ RefreshApp(u) \/ Observe(u) \/ StartOperation(u) \/ FinishOperation(u)
  PROVE  TypeOK' /\ SnapInv'
<1>1. BranchOK /\ LoopOK /\ RefreshOK /\ ArgoOK /\ CountersOK
  BY TypeParts
<1>2. UNCHANGED <<src, commits, loop, own, counters>>
  BY DEF RefreshRoot, RefreshApp, Observe, StartOperation, FinishOperation
<1>3. CountersOK' /\ BranchOK'
  BY <1>1, <1>2, CountersStay, BranchStays
<1>4. RefreshOK'
  BY <1>1
     DEF RefreshOK, ArgoOK, Units, RefreshRoot, RefreshApp, Observe, StartOperation,
         FinishOperation, refresh
<1>5. LoopOK'
  <2>1. pc' \in {pc, "waitroot"}
    BY DEF RefreshRoot, RefreshApp, Observe, StartOperation, FinishOperation
  <2> QED
    BY <1>1, <1>2, <2>1 DEF LoopOK, SnapInv, loop, own, NoHash, InSync
<1>6. ASSUME NEW a \in Live
      PROVE  /\ argo[a] = [observed |-> argo[a].observed, annotated |-> argo[a].annotated,
                           operation |-> argo[a].operation]
             /\ argo[a].observed \in Nat /\ argo[a].observed <= Tip /\ argo[a].annotated \in BOOLEAN
             /\ argo[a].operation \in {"none", "due", "running"}
  BY <1>1 DEF ArgoOK, Application
<1>7. Tip \in Nat
  BY <1>1 DEF BranchOK, Tip
<1>8. ASSUME Live' = Live, argo' \in [Live -> Application], \A b \in Live : argo'[b].observed <= Tip
       PROVE  TypeOK' /\ SnapInv'
  <2>1. Tip' = Tip
    BY <1>2 DEF Tip
  <2>2. ArgoOK'
    BY <1>1, <1>8, <2>1 DEF ArgoOK
  <2> QED
    BY <1>3, <1>4, <1>5, <2>2, TypePartsPrime
<1>9. argo \in [Live -> Application]
  BY <1>1 DEF ArgoOK
<1>10. CASE RefreshRoot \/ RefreshApp(u)
  <2>1. PICK a \in Live : argo' = [argo EXCEPT ![a].annotated = TRUE]
    BY <1>1, <1>10 DEF RefreshRoot, RefreshApp, ArgoOK
  <2>2. argo' \in [Live -> Application] /\ \A b \in Live : argo'[b].observed = argo[b].observed
    BY <1>9, <2>1, Annotated
  <2>3. Live' = Live
    BY <2>2 DEF Live
  <2> QED
    BY <1>6, <1>8, <2>2, <2>3
<1>11. CASE Observe(u)
  <2>1. PICK op \in {"none", "due", "running"} :
          argo' = [argo EXCEPT ![u] = [observed |-> Tip, annotated |-> FALSE, operation |-> op]]
    BY <1>6, <1>11 DEF Observe
  <2> DEFINE app == [observed |-> Tip, annotated |-> FALSE, operation |-> op]
  <2>2. app \in Application /\ app.observed <= Tip
    BY <1>7 DEF Application
  <2>3. u \in Live
    BY <1>11 DEF Observe
  <2> HIDE DEF app
  <2>4. argo' = [argo EXCEPT ![u] = app]
    BY <2>1 DEF app
  <2>5. argo' \in [Live -> Application] /\ \A b \in Live : argo'[b].observed <= Tip
    BY <1>6, <1>9, <2>2, <2>3, <2>4
  <2>6. Live' = Live
    BY <2>5 DEF Live
  <2> QED
    BY <1>8, <2>5, <2>6
<1>12. CASE StartOperation(u)
  <2>1. u \in Live /\ argo' = [argo EXCEPT ![u].operation = "running"]
    BY <1>12 DEF StartOperation
  <2>2. argo' \in [Live -> Application] /\ \A b \in Live : argo'[b].observed = argo[b].observed
    BY <1>9, <2>1, Started
  <2>3. Live' = Live
    BY <2>2 DEF Live
  <2> QED
    BY <1>6, <1>8, <2>2, <2>3
<1>13. CASE FinishOperation(u)
  <2> DEFINE done == [argo EXCEPT ![u].operation = "none"]
             defined == {Root} \cup Children(commits[argo[u].observed])
  <2>1. u \in Live
    BY <1>13 DEF FinishOperation
  <2>2. /\ done \in [Live -> Application] /\ \A b \in Live : done[b].observed <= Tip
    <3>1. done \in [Live -> Application] /\ \A b \in Live : done[b].observed = argo[b].observed
      BY <1>9, <2>1, Finished
    <3> HIDE DEF done
    <3> QED
      BY <1>6, <3>1
  <2>3. New \in Application /\ New.observed <= Tip
    BY <1>7 DEF New, Application
  <2>4. CASE u = Root
    <3>1. argo' = [b \in defined |-> IF b \in Live THEN done[b] ELSE New]
      BY <1>13, <2>4 DEF FinishOperation
    <3>2. defined \subseteq Units /\ Root \in defined
      BY ChildrenAreApps DEF Units
    <3> HIDE DEF done, defined
    <3>3. Live' = defined /\ argo' \in [defined -> Application]
      BY <2>2, <2>3, <3>1 DEF Live
    <3>4. \A b \in defined : argo'[b].observed <= Tip
      BY <2>2, <2>3, <3>1
    <3>5. Tip' = Tip
      BY <1>2 DEF Tip
    <3> QED
      BY <1>3, <1>4, <1>5, <3>2, <3>3, <3>4, <3>5, TypePartsPrime DEF ArgoOK
  <2>5. CASE u # Root
    <3>1. argo' = done
      BY <1>13, <2>5 DEF FinishOperation
    <3> HIDE DEF done
    <3>2. Live' = Live /\ Tip' = Tip
      BY <1>2, <2>2, <3>1 DEF Live, Tip
    <3>3. ArgoOK'
      BY <1>1, <2>2, <3>1, <3>2 DEF ArgoOK
    <3> QED
      BY <1>3, <1>4, <1>5, <3>3, TypePartsPrime
  <2> QED
    BY <2>4, <2>5
<1> QED
  BY <1>10, <1>11, <1>12, <1>13

(* So every step does.                                                     *)
LEMMA TypeNext ==
  ASSUME TypeOK, SnapInv, [Next]_vars
  PROVE  TypeOK' /\ SnapInv'
<1>1. CASE UNCHANGED vars
  BY <1>1 DEF vars, TypeOK, SnapInv, Tip, Live, InSync, NoHash
<1>2. CASE \E tree \in Worktrees[scenario.worktree].next : Edit(tree) \/ ForeignPush(tree)
  BY <1>2, TypeUser
<1>3. CASE Start \/ TickReverted \/ TickChanged \/ Debounce \/ TickSync \/ HashFails \/ Rehash
        \/ CopyDone \/ Noop \/ \E i \in DOMAIN Order : Copy(i)
  BY <1>3, TypeTicks
<1>4. CASE Push \/ PushLostAnswer \/ PushRefused \/ SyncFails
  BY <1>4, TypePush
<1>5. CASE ListApps \/ ListAppsAgain \/ PlanFails \/ RefreshDone \/ Observed
        \/ SyncSuperseded \/ TimesOut \/ RefreshFails
  BY <1>5, TypeRefresh
<1>6. CASE RefreshRoot \/ \E u \in Units :
             RefreshApp(u) \/ Observe(u) \/ StartOperation(u) \/ FinishOperation(u)
  BY <1>6, TypeArgo DEF Units
<1> QED
  BY <1>1, <1>2, <1>3, <1>4, <1>5, <1>6 DEF Next, Watcher, Faults

----------------------------------------------------------------------------
(* Where texts come from *)

(* The scenario never changes.                                             *)
LEMMA ScenarioStays ==
  ASSUME [Next]_vars
  PROVE  scenario' = scenario
BY DEF Next, vars, Watcher, Faults, Edit, ForeignPush, Start, TickReverted, TickChanged,
       Debounce, TickSync, HashFails, Rehash, Copy, CopyDone, Noop, Push, PushLostAnswer,
       PushRefused, SyncFails, ListApps, RefreshRoot, ListAppsAgain, PlanFails, RefreshApp,
       RefreshDone, RefreshFails, Observed, SyncSuperseded, TimesOut, Observe, StartOperation,
       FinishOperation, counters

(* What a step does to the texts.                                          *)
Texted ==
  \/ UNCHANGED <<src, commits, snap>>
  \/ \E tree \in Worktrees[scenario.worktree].next : Edit(tree) \/ ForeignPush(tree)
  \/ TickSync
  \/ \E i \in DOMAIN Order : Copy(i)
  \/ Push \/ PushLostAnswer

(* Every step is one of these.                                             *)
LEMMA TextSteps ==
  ASSUME [Next]_vars
  PROVE  Texted
BY DEF Texted, Next, vars, Watcher, Faults, Start, TickReverted, TickChanged, Debounce,
       HashFails, Rehash, CopyDone, Noop, PushRefused, SyncFails, ListApps,
       RefreshRoot, ListAppsAgain, PlanFails, RefreshApp, RefreshDone, RefreshFails, Observed,
       SyncSuperseded, TimesOut, Observe, StartOperation, FinishOperation, own

(* In the beginning there is the first worktree.                           *)
LEMMA TextsInit ==
  ASSUME Init
  PROVE  TextsInv
<1>1. src \in Given(scenario) /\ commits = <<src>> /\ snap = NoHash
  BY DEF Init, Given
<1>2. Tip = 1 /\ commits[1] = src
  BY <1>1 DEF Tip
<1> QED
  BY <1>1, <1>2 DEF TextsInv, OfGiven, NoHash

(* Every step takes its texts from there.                                  *)
LEMMA TextsNext ==
  ASSUME TypeOK, SnapInv, TextsInv, [Next]_vars
  PROVE  TextsInv'
<1>1. scenario' = scenario
  BY ScenarioStays
<1>2. /\ src \in Given(scenario)
      /\ \A i \in 1..Tip : \A f \in Files : OfGiven(f, commits[i][f])
      /\ \A f \in Files : snap[f] = Unread \/ OfGiven(f, snap[f])
  BY DEF TextsInv
<1>3. Tip \in Nat /\ commits \in Seq(Trees) /\ snap \in [Files -> Texts \cup {NoFile, Unread}]
  BY DEF TypeOK, Tip
<1>4. \A f, text : OfGiven(f, text)' <=> OfGiven(f, text)
  BY <1>1 DEF OfGiven
<1>5. ASSUME src' \in Given(scenario),
             \A i \in 1..Tip' : \A f \in Files : OfGiven(f, commits'[i][f]),
             \A f \in Files : snap'[f] = Unread \/ OfGiven(f, snap'[f])
      PROVE  TextsInv'
  <2>1. \A f : \A i : OfGiven(f, commits[i][f])' <=> OfGiven(f, commits'[i][f])
    BY <1>1 DEF OfGiven
  <2>2. \A f : OfGiven(f, snap[f])' <=> OfGiven(f, snap'[f])
    BY <1>1 DEF OfGiven
  <2> QED
    BY <1>1, <1>5, <2>1, <2>2 DEF TextsInv
<1>6. \A tree \in Given(scenario) : \A f \in Files : OfGiven(f, tree[f])
  BY DEF OfGiven
<1>7. ASSUME NEW tree, commits' = Append(commits, tree), \A f \in Files : OfGiven(f, tree[f])
      PROVE  \A i \in 1..Tip' : \A f \in Files : OfGiven(f, commits'[i][f])
  <2>1. Tip' = Tip + 1 /\ \A i \in 1..Tip' : commits'[i] = IF i = Tip + 1 THEN tree ELSE commits[i]
    BY <1>3, <1>7 DEF Tip
  <2>2. ASSUME NEW i \in 1..Tip', NEW f \in Files
        PROVE  OfGiven(f, commits'[i][f])
    <3>1. CASE i = Tip + 1
      BY <1>7, <2>1, <3>1
    <3>2. CASE i # Tip + 1
      BY <1>2, <1>3, <2>1, <3>2
    <3> QED
      BY <3>1, <3>2
  <2> QED
    BY <2>2
<1>8. ASSUME UNCHANGED commits
      PROVE  \A i \in 1..Tip' : \A f \in Files : OfGiven(f, commits'[i][f])
  BY <1>2, <1>8 DEF Tip
<1> HIDE DEF OfGiven
<1>9. CASE UNCHANGED <<src, commits, snap>>
  BY <1>2, <1>5, <1>8, <1>9
<1>10. ASSUME NEW tree \in Worktrees[scenario.worktree].next, Edit(tree) \/ ForeignPush(tree)
       PROVE  TextsInv'
  <2>1. tree \in Given(scenario)
    BY DEF Given
  <2>2. \A f \in Files : OfGiven(f, tree[f])
    BY <1>6, <2>1
  <2>3. CASE Edit(tree)
    BY <1>2, <1>5, <1>8, <2>1, <2>3 DEF Edit, own
  <2>4. CASE ForeignPush(tree)
    <3>1. commits' = Append(commits, tree) /\ UNCHANGED <<src, snap>>
      BY <2>4 DEF ForeignPush, own
    <3> QED
      BY <1>2, <1>5, <1>7, <2>2, <3>1
  <2> QED
    BY <1>10, <2>3, <2>4
<1>11. CASE TickSync
  <2>1. UNCHANGED <<src, commits>> /\ \A f \in Files : snap'[f] = Unread
    BY <1>11 DEF TickSync, NoHash
  <2> QED
    BY <1>2, <1>5, <1>8, <2>1
<1>12. ASSUME NEW i \in DOMAIN Order, Copy(i)
       PROVE  TextsInv'
  <2>1. UNCHANGED <<src, commits>> /\ snap' = [snap EXCEPT ![Order[i]] = src[Order[i]]]
    BY <1>12 DEF Copy
  <2>2. \A f \in Files : snap'[f] \in {snap[f], src[f]}
    BY <1>3, <2>1
  <2> QED
    BY <1>2, <1>5, <1>6, <1>8, <2>1, <2>2
<1>13. CASE Push \/ PushLostAnswer
  <2>1. commits' = Append(commits, snap) /\ UNCHANGED <<src, snap>> /\ pc = "push"
    BY <1>13 DEF Push, PushLostAnswer, Publish
  <2>2. \A f \in Files : OfGiven(f, snap[f])
    BY <1>2, <2>1 DEF SnapInv
  <2> QED
    BY <1>2, <1>5, <1>7, <2>1, <2>2
<1>14. Texted
  BY TextSteps
<1> QED
  BY <1>9, <1>10, <1>11, <1>12, <1>13, <1>14 DEF Texted

(* In the environments of RestMeansRefreshed, where applications are       *)
(* looked up: no text that is found is missing, and where the worktree is  *)
(* edited while a sync runs, all texts refer to the same.                  *)
LEMMA TextsRefer ==
  ASSUME Quiet, Mode = "affected", "midsync" \in scenario.env, NEW tree \in Given(scenario),
         NEW d \in DOMAIN Kustomization, NEW text, OfGiven(Kustomization[d], text)
  PROVE  Refs[Kustomization[d]][tree[Kustomization[d]]] = Refs[Kustomization[d]][text]
<1>1. \A other \in Given(scenario) : SameReferences(tree, other)
  BY DEF Quiet, IndexIsOfCommit, IndexedScenarios, Mode
<1>2. PICK other \in Given(scenario) : text = other[Kustomization[d]]
  BY DEF OfGiven
<1> QED
  BY <1>1, <1>2 DEF SameReferences

(* What it allows never changes either.                                    *)
LEMMA QuietStays ==
  ASSUME scenario' = scenario
  PROVE  (Quiet' <=> Quiet) /\ Mode' = Mode
BY DEF Quiet, RefreshesLand, IndexIsOfCommit, Faultless, Mode

(* Nobody else pushes there.                                               *)
LEMMA QuietSteps ==
  ASSUME TypeOK, Quiet
  PROVE  /\ \A tree : ~ForeignPush(tree)
         /\ ~PushLostAnswer /\ ~RefreshFails
         /\ Mode # "none" /\ "timeout" \notin scenario.env
<1>1. scenario.foreign = 0 /\ foreign \in 0..scenario.foreign
  BY DEF Quiet, RefreshesLand, TypeOK
<1>2. \A tree : ~ForeignPush(tree)
  BY <1>1 DEF ForeignPush
<1> QED
  BY <1>2 DEF Quiet, RefreshesLand, Faultless, PushLostAnswer, RefreshFails, Fault

(* Every step keeps worktree and commit alike in their references.         *)
LEMMA ReferencesNext ==
  ASSUME TypeOK, SnapInv, TextsInv, ReferencesInv, [Next]_vars
  PROVE  ReferencesInv'
<1>1. scenario' = scenario
  BY ScenarioStays
<1> SUFFICES ASSUME Quiet, Mode = "affected"
             PROVE  ReferencesInv'
  BY <1>1, QuietStays DEF ReferencesInv
<1>2. /\ pc \in {"copy", "push"} =>
           \A d \in DOMAIN Kustomization :
             LET k == Kustomization[d] IN snap[k] = Unread \/ Refs[k][src[k]] = Refs[k][snap[k]]
      /\ pc \in {"list", "refreshroot", "waitroot", "relist"} => SameReferences(src, commits[commit])
  BY DEF ReferencesInv
<1>3. \A d \in DOMAIN Kustomization : Kustomization[d] \in Files
  BY LayoutAssumption
<1>4. ASSUME NEW tree \in Worktrees[scenario.worktree].next, Edit(tree) \/ ForeignPush(tree)
      PROVE  ReferencesInv'
  <2>1. Edit(tree) /\ src' = tree /\ UNCHANGED <<pc, snap, commit, commits>>
    BY <1>4, QuietSteps DEF Edit, own
  <2>2. pc \in InSync => "midsync" \in scenario.env
    BY <2>1 DEF Edit
  <2>3. tree \in Given(scenario)
    BY DEF Given
  <2>4. CASE pc \in InSync
    <3>1. ASSUME NEW d \in DOMAIN Kustomization
          PROVE  LET k == Kustomization[d] IN snap[k] = Unread \/ Refs[k][tree[k]] = Refs[k][snap[k]]
      BY <1>3, <2>2, <2>3, <2>4, TextsRefer DEF TextsInv
    <3>2. SameReferences(tree, commits[commit])
      <4>1. commit \in 1..Tip
        BY DEF TypeOK
      <4>2. \A d \in DOMAIN Kustomization : OfGiven(Kustomization[d], commits[commit][Kustomization[d]])
        BY <1>3, <4>1 DEF TextsInv
      <4> QED
        BY <2>2, <2>3, <2>4, <4>2, TextsRefer DEF SameReferences
    <3> QED
      BY <2>1, <3>1, <3>2 DEF ReferencesInv, SameReferences
  <2>5. CASE pc \notin InSync
    BY <2>1, <2>5 DEF ReferencesInv, InSync
  <2> QED
    BY <2>4, <2>5
<1>5. CASE TickSync
  <2>1. pc' = "copy" /\ snap' = NoHash
    BY <1>5 DEF TickSync
  <2> QED
    BY <1>3, <2>1 DEF NoHash, ReferencesInv
<1>6. ASSUME NEW i \in DOMAIN Order, Copy(i)
      PROVE  ReferencesInv'
  <2>1. pc = "copy" /\ pc' = "copy" /\ src' = src /\ snap' = [snap EXCEPT ![Order[i]] = src[Order[i]]]
    BY <1>6 DEF Copy
  <2>2. \A f \in Files : snap'[f] \in {snap[f], src[f]}
    BY <2>1 DEF TypeOK
  <2>3. ASSUME NEW d \in DOMAIN Kustomization
        PROVE  LET k == Kustomization[d] IN snap'[k] = Unread \/ Refs[k][src'[k]] = Refs[k][snap'[k]]
    <3>1. snap'[Kustomization[d]] \in {snap[Kustomization[d]], src[Kustomization[d]]}
      BY <1>3, <2>2
    <3> QED
      BY <1>2, <2>1, <3>1
  <2> QED
    BY <2>1, <2>3 DEF ReferencesInv
<1>7. CASE Push
  <2>1. /\ pc = "push" /\ pc' = "list" /\ src' = src /\ commit' = Tip + 1
        /\ commits' = Append(commits, snap)
    BY <1>7 DEF Push, Publish
  <2>2. commits \in Seq(Trees)
    BY DEF TypeOK
  <2>3. commits'[commit'] = snap
    BY <2>1, <2>2 DEF Tip
  <2>4. \A d \in DOMAIN Kustomization : snap[Kustomization[d]] # Unread
    BY <1>3, <2>1 DEF SnapInv
  <2>5. SameReferences(src, snap)
    BY <1>2, <2>1, <2>4 DEF SameReferences
  <2> QED
    BY <2>1, <2>3, <2>5 DEF ReferencesInv, SameReferences
<1>8. CASE Start \/ TickReverted \/ TickChanged \/ Debounce \/ HashFails \/ Rehash \/ Noop \/ PushRefused
        \/ SyncFails \/ PlanFails \/ SyncSuperseded \/ TimesOut \/ RefreshDone
  <2>1. pc' \notin {"copy", "push", "list", "refreshroot", "waitroot", "relist"}
    BY <1>8
       DEF Start, TickReverted, TickChanged, Debounce, HashFails, Rehash, Noop, PushRefused,
           SyncFails, PlanFails, SyncSuperseded, TimesOut, RefreshDone, Retry
  <2> QED
    BY <2>1 DEF ReferencesInv
<1>9. CASE CopyDone \/ ListApps \/ ListAppsAgain \/ RefreshRoot \/ Observed \/ UNCHANGED vars
        \/ \E u \in Units : RefreshApp(u) \/ Observe(u) \/ StartOperation(u) \/ FinishOperation(u)
  <2>1. UNCHANGED <<src, commits, snap, commit>>
    BY <1>9 DEF CopyDone, ListApps, ListAppsAgain, RefreshRoot, Observed, vars, RefreshApp, Observe,
                StartOperation, FinishOperation, own
  <2>2. /\ pc' \in {"copy", "push"} => pc \in {"copy", "push"}
        /\ pc' \in {"list", "refreshroot", "waitroot", "relist"} =>
             pc \in {"list", "refreshroot", "waitroot", "relist"}
    BY <1>9
       DEF CopyDone, ListApps, ListAppsAgain, Annotate, RefreshRoot, Observed, vars,
           RefreshApp, Observe, StartOperation, FinishOperation
  <2> QED
    BY <1>2, <2>1, <2>2 DEF ReferencesInv, SameReferences
<1>10. ~PushLostAnswer /\ ~RefreshFails
  BY QuietSteps
<1> QED
  BY <1>1, <1>4, <1>5, <1>6, <1>7, <1>8, <1>9, <1>10 DEF Next, Watcher, Faults

----------------------------------------------------------------------------
(* The refresh *)

(* The commits are sturdy where the given worktrees are.                   *)
LEMMA CommitsSturdy ==
  ASSUME TypeOK, TextsInv, Quiet, Mode = "affected"
  PROVE  Sturdy(src) /\ \A i \in 1..Tip : Sturdy(commits[i])
<1>1. /\ \A tree \in Given(scenario), f \in Files : Found(f) => Present(tree, f)
      /\ src \in Given(scenario) /\ src \in Trees
  BY DEF Quiet, IndexIsOfCommit, IndexedScenarios, Mode, TextsInv, TypeOK
<1>2. Sturdy(src)
  BY <1>1 DEF Sturdy
<1>3. ASSUME NEW i \in 1..Tip
      PROVE  Sturdy(commits[i])
  <2>1. commits[i] \in Trees
    BY DEF TypeOK, Tip
  <2>2. ASSUME NEW f \in Files, Found(f)
        PROVE  Present(commits[i], f)
    <3>1. OfGiven(f, commits[i][f])
      BY DEF TextsInv
    <3>2. PICK tree \in Given(scenario) : commits[i][f] = tree[f]
      BY <3>1 DEF OfGiven
    <3> QED
      BY <1>1, <2>2, <3>2 DEF Present
  <2> QED
    BY <2>1, <2>2 DEF Sturdy
<1> QED
  BY <1>2, <1>3

(* A plan can be made,                                                     *)
LEMMA PlanIsMade ==
  ASSUME TypeOK, TextsInv, Quiet
  PROVE  Plannable
<1>1. CASE Mode = "all"
  BY <1>1 DEF Plannable
<1>2. CASE Mode # "all"
  <2>1. Indexable(src, Units)
    BY <1>2 DEF Quiet, IndexIsOfCommit, IndexedScenarios, Mode, TextsInv
  <2>2. Live \subseteq Units
    BY DEF TypeOK
  <2> QED
    BY <2>1, <2>2 DEF Plannable, Indexable
<1> QED
  BY <1>1, <1>2

(* and it has every application that the last commit changes.              *)
LEMMA PlanHas ==
  ASSUME TypeOK, TextsInv, ReferencesInv, Quiet, pc \in {"list", "relist"},
         NEW a \in Live, commit # 1, ~SameRendering(commits[commit], commits[commit - 1], a)
  PROVE  a \in Planned
<1>1. CASE Mode = "all"
  BY <1>1 DEF Planned
<1>2. CASE Mode # "all"
  <2>1. Mode = "affected"
    BY <1>2, ScenarioFacts, QuietSteps DEF TypeOK, Mode
  <2>2. /\ Indexable(src, Units) /\ NoCircle(src)
    BY <1>2 DEF Quiet, IndexIsOfCommit, IndexedScenarios, Mode, TextsInv
  <2>3. a \in Units /\ commit \in 1..Tip
    BY DEF TypeOK
  <2>4. Missing \notin Index(src, a)
    BY <2>2, <2>3 DEF Indexable
  <2>5. commit - 1 \in 1..Tip
    BY <2>3 DEF Tip, TypeOK
  <2>6. Sturdy(src) /\ Sturdy(commits[commit]) /\ Sturdy(commits[commit - 1])
    BY <2>1, <2>3, <2>5, CommitsSturdy
  <2>7. SameReferences(src, commits[commit])
    BY <2>1 DEF ReferencesInv
  <2>8. PICK f \in Index(src, a) \cap Files : commits[commit][f] # commits[commit - 1][f]
    BY <2>2, <2>3, <2>4, <2>6, <2>7, PlanCovers
  <2>9. f \in Changed
    BY <2>8 DEF Changed
  <2>10. a \in Affected(src, Live, Changed)
    BY <2>8, <2>9 DEF Affected
  <2> QED
    BY <1>2, <2>10 DEF Planned
<1> QED
  BY <1>1, <1>2

(* Every step keeps what is waited for,                                    *)
LEMMA WaitNext ==
  ASSUME WaitInv, [Next]_vars
  PROVE  WaitInv'
<1>1. CASE UNCHANGED vars
  BY <1>1 DEF WaitInv, vars, refresh
<1>2. CASE pc' # "waitroot"
  BY <1>2 DEF WaitInv
<1>3. CASE RefreshRoot
  BY <1>3 DEF WaitInv, RefreshRoot
<1>4. CASE \/ \E tree \in Worktrees[scenario.worktree].next : Edit(tree) \/ ForeignPush(tree)
           \/ \E u \in Units : Observe(u) \/ StartOperation(u) \/ FinishOperation(u)
  BY <1>4 DEF WaitInv, Edit, ForeignPush, Observe, StartOperation, FinishOperation, refresh
<1>5. CASE \/ Start \/ TickReverted \/ TickChanged \/ Debounce \/ TickSync \/ HashFails \/ Rehash
           \/ CopyDone \/ Noop \/ Push \/ PushLostAnswer \/ PushRefused \/ SyncFails \/ ListApps
           \/ ListAppsAgain \/ PlanFails \/ RefreshDone \/ RefreshFails \/ Observed \/ SyncSuperseded
           \/ TimesOut \/ (\E i \in DOMAIN Order : Copy(i)) \/ \E u \in Units : RefreshApp(u)
  <2>1. pc' # "waitroot"
    BY <1>5
       DEF Start, TickReverted, TickChanged, Debounce, TickSync, HashFails, Rehash,
           CopyDone, Noop, Push, PushLostAnswer, PushRefused, SyncFails, Retry, ListApps,
           Annotate, ListAppsAgain, PlanFails, RefreshDone, RefreshFails, Observed,
           SyncSuperseded, TimesOut, Copy, RefreshApp
  <2> QED
    BY <2>1 DEF WaitInv
<1> QED
  BY <1>1, <1>2, <1>3, <1>4, <1>5 DEF Next, Watcher, Faults

(* and whose the last commit is.                                           *)
LEMMA TipNext ==
  ASSUME TypeOK, TipInv, [Next]_vars
  PROVE  TipInv'
<1>1. scenario' = scenario
  BY ScenarioStays
<1> SUFFICES ASSUME Quiet
             PROVE  TipInv'
  BY <1>1, QuietStays DEF TipInv
<1>2. commit = Tip /\ commits \in Seq(Trees)
  BY DEF TipInv, TypeOK
<1>3. CASE Push
  <2>1. commit' = Tip + 1 /\ Tip' = Tip + 1
    BY <1>2, <1>3 DEF Push, Publish, Tip
  <2> QED
    BY <2>1 DEF TipInv
<1>4. CASE UNCHANGED <<commits, commit>>
  BY <1>2, <1>4 DEF TipInv, Tip
<1>5. CASE \E tree \in Worktrees[scenario.worktree].next : Edit(tree)
  BY <1>4, <1>5 DEF Edit, own
<1>6. CASE ~Push /\ ~\E tree \in Worktrees[scenario.worktree].next : Edit(tree)
  <2>1. (\A tree : ~ForeignPush(tree)) /\ ~PushLostAnswer
    BY QuietSteps
  <2>2. UNCHANGED <<commits, commit>>
    BY <1>6, <2>1
       DEF Next, vars, Watcher, Faults, Start, TickReverted, TickChanged, Debounce,
           TickSync, HashFails, Rehash, Copy, CopyDone, Noop, PushRefused, SyncFails, ListApps,
           RefreshRoot, ListAppsAgain, PlanFails, RefreshApp, RefreshDone, RefreshFails,
           Observed, SyncSuperseded, TimesOut, Observe, StartOperation, FinishOperation, own
  <2> QED
    BY <1>4, <2>2
<1> QED
  BY <1>3, <1>5, <1>6

(* A step of the watcher, which changes no application but what it tells   *)
(* to look.                                                                *)
LEMMA HandWatcher ==
  ASSUME TypeOK, TextsInv, ReferencesInv, WaitInv, TipInv, HandInv, Quiet,
         NEW a \in Units, Behind(a),
         \/ ListApps \/ ListAppsAgain \/ PlanFails \/ RefreshDone \/ Observed \/ SyncSuperseded \/ TimesOut
  PROVE  InHand(a)'
<1>1. /\ commit # 1 /\ ~SameRendering(commits[commit], commits[commit - 1], a)
      /\ InHand(a) /\ a \in Live
  BY DEF HandInv, Behind
<1>2. CASE ListApps
  <2>1. pc = "list" /\ a \in Planned
    BY <1>1, <1>2, PlanHas DEF ListApps
  <2>2. \/ pc' = "refreshroot"
        \/ pc' = "refresh" /\ todo' = Planned
    BY <1>2, <2>1 DEF ListApps, Annotate
  <2> QED
    BY <2>1, <2>2 DEF InHand
<1>3. CASE ListAppsAgain
  <2>1. pc = "relist" /\ a \in Planned
    BY <1>1, <1>3, PlanHas DEF ListAppsAgain
  <2>2. a \in Planned \ {Root}
    BY <1>1, <2>1 DEF InHand
  <2>3. pc' = "refresh" /\ todo' = Planned \ {Root}
    BY <1>3, <2>2 DEF ListAppsAgain, Annotate
  <2> QED
    BY <2>2, <2>3 DEF InHand
<1>4. CASE PlanFails
  BY <1>4, PlanIsMade DEF PlanFails
<1>5. CASE RefreshDone
  BY <1>1, <1>5 DEF RefreshDone, InHand
<1>6. CASE Observed
  BY <1>1, <1>6 DEF Observed, InHand
<1>7. CASE SyncSuperseded
  <2>1. PICK b \in Live : argo[b].observed > commit
    BY <1>7 DEF SyncSuperseded, Superseded
  <2>2. argo[b].observed <= Tip /\ argo[b].observed \in Nat /\ commit = Tip /\ Tip \in Nat
    BY <2>1 DEF TypeOK, Application, TipInv, Tip
  <2> QED
    BY <2>1, <2>2
<1>8. CASE TimesOut
  <2>1. pc = "waitroot"
    BY <1>1, <1>8 DEF TimesOut, InHand
  <2>2. plan = {Root} /\ Root \in Live
    BY <2>1 DEF WaitInv, TypeOK
  <2> QED
    BY <1>8, <2>2, QuietSteps DEF TimesOut
<1> QED
  BY <1>2, <1>3, <1>4, <1>5, <1>6, <1>7, <1>8

(* Who is behind after a step of an application was behind before.         *)
LEMMA HandArgo ==
  ASSUME TypeOK, NEW a \in Units, Behind(a)', NEW u \in Units,
         Observe(u) \/ StartOperation(u) \/ FinishOperation(u)
  PROVE  Behind(a)
<1>1. argo \in [Live -> Application] /\ \A b \in Live : argo[b].observed \in Nat /\ Root \in Live
  BY DEF TypeOK, Application
<1>2. Tip \in Nat /\ owed[a] \in Nat /\ owed[a] <= Tip
  BY DEF TypeOK, Tip
<1>3. UNCHANGED <<commits, owed>>
  BY DEF Observe, StartOperation, FinishOperation, own
<1>4. a \in Live' /\ argo'[a].observed < owed[a] /\ ~argo'[a].annotated /\ argo'[a].observed # 0
  BY <1>3 DEF Behind
<1>5. ASSUME a \in Live, argo'[a].observed = argo[a].observed, argo'[a].annotated = argo[a].annotated
      PROVE  Behind(a)
  BY <1>4, <1>5 DEF Behind
<1>6. CASE Observe(u)
  <2>1. PICK op :
          argo' = [argo EXCEPT ![u] = [observed |-> Tip, annotated |-> FALSE, operation |-> op]]
    BY <1>6 DEF Observe
  <2>2. Live' = Live /\ argo'[u].observed = Tip /\ \A x \in Live \ {u} : argo'[x] = argo[x]
    BY <1>1, <1>6, <2>1 DEF Live, Observe
  <2>3. a # u
    BY <1>2, <1>4, <2>2
  <2> QED
    BY <1>4, <1>5, <2>2, <2>3
<1>7. CASE StartOperation(u)
  <2>1. u \in Live /\ argo' = [argo EXCEPT ![u].operation = "running"]
    BY <1>7 DEF StartOperation
  <2>2. /\ argo' \in [Live -> Application] /\ \A x \in Live : argo'[x].observed = argo[x].observed
        /\ \A x \in Live : argo'[x].annotated = argo[x].annotated
    BY <1>1, <2>1, Started
  <2>3. Live' = Live
    BY <2>2 DEF Live
  <2> QED
    BY <1>4, <1>5, <2>2, <2>3
<1>8. CASE FinishOperation(u)
  <2> DEFINE done == [argo EXCEPT ![u].operation = "none"]
  <2>1. u \in Live
    BY <1>8 DEF FinishOperation
  <2>2. /\ done \in [Live -> Application] /\ \A x \in Live : done[x].observed = argo[x].observed
        /\ \A x \in Live : done[x].annotated = argo[x].annotated
    BY <1>1, <2>1, Finished
  <2>3. a \in Live /\ argo'[a] = done[a]
    <3>1. CASE u = Root
      <4>1. PICK defined : argo' = [b \in defined |-> IF b \in Live THEN done[b] ELSE New]
        BY <1>8, <3>1 DEF FinishOperation
      <4> HIDE DEF done
      <4>2. a \in defined /\ argo'[a] = IF a \in Live THEN done[a] ELSE New
        BY <1>4, <4>1 DEF Live
      <4>3. New.observed = 0
        BY DEF New
      <4> QED
        BY <1>4, <4>2, <4>3
    <3>2. CASE u # Root
      <4>1. argo' = done
        BY <1>8, <3>2 DEF FinishOperation
      <4> HIDE DEF done
      <4> QED
        BY <1>4, <2>2, <4>1 DEF Live
    <3> QED
      BY <3>1, <3>2
  <2> HIDE DEF done
  <2> QED
    BY <1>5, <2>2, <2>3
<1> QED
  BY <1>6, <1>7, <1>8

(* So was who is behind after an annotation, which is of another one.      *)
LEMMA HandTold ==
  ASSUME TypeOK, NEW a \in Units, Behind(a)', NEW u \in Live,
         argo' = [argo EXCEPT ![u].annotated = TRUE], UNCHANGED owed
  PROVE  Behind(a) /\ a # u
<1>1. argo \in [Live -> Application]
  BY DEF TypeOK
<1>2. /\ argo' \in [Live -> Application] /\ argo'[u].annotated = TRUE
      /\ \A x \in Live \ {u} : argo'[x] = argo[x]
  BY <1>1, Annotated
<1>3. Live' = Live
  BY <1>2 DEF Live
<1>4. a # u
  BY <1>2 DEF Behind
<1> QED
  BY <1>2, <1>3, <1>4 DEF Behind

(* Every step keeps who is behind in hand.                                 *)
LEMMA HandNext ==
  ASSUME TypeOK, SnapInv, TextsInv, ReferencesInv, WaitInv, TipInv, HandInv, [Next]_vars
  PROVE  HandInv'
<1>1. scenario' = scenario
  BY ScenarioStays
<1> SUFFICES ASSUME Quiet, NEW a \in Units, Behind(a)'
             PROVE  (/\ commit # 1 /\ ~SameRendering(commits[commit], commits[commit - 1], a)
                     /\ InHand(a))'
  BY <1>1, QuietStays DEF HandInv
<1>2. Behind(a) => /\ commit # 1 /\ ~SameRendering(commits[commit], commits[commit - 1], a)
                   /\ InHand(a)
  BY DEF HandInv
<1>3. ASSUME Behind(a), UNCHANGED <<commits, commit>>, InHand(a)'
      PROVE  (/\ commit # 1 /\ ~SameRendering(commits[commit], commits[commit - 1], a)
              /\ InHand(a))'
  BY <1>2, <1>3
<1>4. UNCHANGED <<argo, owed>> => Behind(a)
  BY DEF Behind, Live
<1>5. InHand(a) /\ UNCHANGED <<pc, todo>> => InHand(a)'
  BY DEF InHand
<1>6. CASE UNCHANGED vars
  BY <1>2, <1>3, <1>4, <1>5, <1>6 DEF vars
<1>7. ASSUME NEW tree \in Worktrees[scenario.worktree].next, Edit(tree) \/ ForeignPush(tree)
      PROVE  (/\ commit # 1 /\ ~SameRendering(commits[commit], commits[commit - 1], a)
              /\ InHand(a))'
  <2>1. Edit(tree)
    BY <1>7, QuietSteps
  <2> QED
    BY <1>2, <1>3, <1>4, <1>5, <2>1 DEF Edit, own, refresh
<1>8. CASE \/ Start \/ TickReverted \/ TickChanged \/ Debounce \/ TickSync \/ HashFails \/ Rehash
           \/ CopyDone \/ Noop \/ PushRefused \/ SyncFails \/ \E i \in DOMAIN Order : Copy(i)
  <2>1. UNCHANGED <<argo, owed>> /\ ~InHand(a)
    BY <1>8
       DEF Start, TickReverted, TickChanged, Debounce, TickSync, HashFails, Rehash,
           CopyDone, Noop, PushRefused, SyncFails, Copy, own, InHand
  <2> QED
    BY <1>2, <1>4, <2>1
<1>9. CASE Push
  <2>1. /\ pc = "push" /\ pc' = "list" /\ UNCHANGED argo /\ commit' = Tip + 1
        /\ commits' = Append(commits, snap)
        /\ owed' = [u \in Units |-> IF SameRendering(snap, commits[Tip], u) THEN owed[u] ELSE Tip + 1]
    BY <1>9, QuietSteps DEF Push, Publish
  <2>2. ~Behind(a)
    BY <1>2, <2>1 DEF InHand
  <2>3. ~SameRendering(snap, commits[Tip], a)
    BY <2>1, <2>2 DEF Behind, Live
  <2>4. commits \in Seq(Trees) /\ Tip \in Nat /\ Tip # 0
    BY DEF TypeOK, Tip
  <2>5. commits'[commit'] = snap /\ commits'[commit' - 1] = commits[Tip] /\ commit' # 1
    BY <2>1, <2>4 DEF Tip
  <2> QED
    BY <2>1, <2>3, <2>5 DEF InHand
<1>10. CASE \/ ListApps \/ ListAppsAgain \/ PlanFails \/ RefreshDone \/ Observed \/ SyncSuperseded
            \/ TimesOut
  <2>1. UNCHANGED <<argo, owed, commits, commit>>
    BY <1>10
       DEF ListApps, ListAppsAgain, PlanFails, RefreshDone, Observed, SyncSuperseded,
           TimesOut, own
  <2> QED
    BY <1>3, <1>4, <1>10, <2>1, HandWatcher
<1>11. ASSUME NEW u \in Units, Observe(u) \/ StartOperation(u) \/ FinishOperation(u)
       PROVE  (/\ commit # 1 /\ ~SameRendering(commits[commit], commits[commit - 1], a)
               /\ InHand(a))'
  <2>1. UNCHANGED <<commits, commit, pc, todo>>
    BY <1>11 DEF Observe, StartOperation, FinishOperation, own, refresh
  <2>2. Behind(a)
    BY <1>11, HandArgo
  <2> QED
    BY <1>2, <1>3, <1>5, <2>1, <2>2
<1>12. CASE RefreshRoot
  <2>1. /\ pc = "refreshroot" /\ pc' = "waitroot" /\ argo' = [argo EXCEPT ![Root].annotated = TRUE]
        /\ UNCHANGED <<commits, commit, owed>>
    BY <1>12 DEF RefreshRoot, own
  <2>2. Root \in Live
    BY DEF TypeOK
  <2>3. Behind(a) /\ a # Root
    BY <2>1, <2>2, HandTold
  <2> QED
    BY <1>3, <2>1, <2>3 DEF InHand
<1>13. ASSUME NEW u \in Units, RefreshApp(u)
       PROVE  (/\ commit # 1 /\ ~SameRendering(commits[commit], commits[commit - 1], a)
               /\ InHand(a))'
  <2>1. /\ pc = "refresh" /\ pc' = "refresh" /\ u \in Live /\ todo' = todo \ {u}
        /\ argo' = [argo EXCEPT ![u].annotated = TRUE] /\ UNCHANGED <<commits, commit, owed>>
    BY <1>13 DEF RefreshApp, own
  <2>2. Behind(a) /\ a # u
    BY <2>1, HandTold
  <2> QED
    BY <1>2, <1>3, <2>1, <2>2 DEF InHand
<1>14. ~PushLostAnswer /\ ~RefreshFails
  BY QuietSteps
<1> QED
  BY <1>6, <1>7, <1>8, <1>9, <1>10, <1>11, <1>12, <1>13, <1>14 DEF Next, Watcher, Faults

----------------------------------------------------------------------------
(* The theorems *)

(* The invariant holds in the beginning,                                   *)
LEMMA InvInit == Init => IInv
<1> SUFFICES ASSUME Init
             PROVE  IInv
  OBVIOUS
<1>1. TypeOK /\ SnapInv /\ TextsInv
  BY TypeInit, TextsInit
<1>2. pc = "start"
  BY DEF Init
<1>3. ReferencesInv /\ WaitInv
  BY <1>2 DEF ReferencesInv, WaitInv
<1>4. TipInv
  BY DEF TipInv, Init, Tip
<1>5. HandInv
  <2> SUFFICES ASSUME NEW a \in Live, a \in Units
               PROVE  ~(argo[a].observed < owed[a])
    BY DEF HandInv, Behind
  <2>1. argo = [u \in {Root} \cup Children(src) |-> [New EXCEPT !.observed = 1]] /\ owed[a] = 1
    BY DEF Init
  <2>2. New \in Application
    BY DEF New, Application
  <2>3. [New EXCEPT !.observed = 1].observed = 1
    BY <2>2 DEF Application
  <2>4. argo[a].observed = 1
    BY <2>1, <2>3 DEF Live
  <2> QED
    BY <2>1, <2>4
<1> QED
  BY <1>1, <1>3, <1>4, <1>5 DEF IInv

(* every step keeps it,                                                    *)
LEMMA InvNext == IInv /\ [Next]_vars => IInv'
<1> SUFFICES ASSUME IInv, [Next]_vars
             PROVE  IInv'
  OBVIOUS
<1>1. TypeOK /\ SnapInv /\ TextsInv /\ ReferencesInv /\ WaitInv /\ TipInv /\ HandInv
  BY DEF IInv
<1> QED
  BY <1>1, TypeNext, TextsNext, ReferencesNext, WaitNext, TipNext, HandNext DEF IInv

(* and at rest it says that nobody is behind.                              *)
LEMMA InvRest == IInv => RestMeansRefreshed
<1> SUFFICES ASSUME IInv, Quiet, pc = "tick", NEW a \in Live
             PROVE  argo[a].observed >= owed[a] \/ argo[a].annotated \/ argo[a].observed = 0
  BY DEF RestMeansRefreshed, Quiet
<1>1. a \in Units /\ argo[a].observed \in Nat /\ owed[a] \in Nat
  BY DEF IInv, TypeOK, Application, Tip
<1>2. ~Behind(a)
  BY <1>1 DEF IInv, HandInv, InHand
<1> QED
  BY <1>1, <1>2 DEF Behind

(* The variables keep their types.                                         *)
THEOREM TypeCorrect == Spec => []TypeOK
<1>1. IInv => TypeOK
  BY DEF IInv
<1> QED
  BY InvInit, InvNext, <1>1, PTL DEF Spec

(* When the loop rests, every application has observed the last commit of  *)
(* this watcher that changed its files, or a later one, or it has been     *)
(* told to look, or it has never looked.                                   *)
THEOREM RestRefreshed == Spec => []RestMeansRefreshed
  BY InvInit, InvNext, InvRest, PTL DEF Spec

=============================================================================
