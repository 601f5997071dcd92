-------------------------- MODULE Namespace_proofs --------------------------
(***************************************************************************)
(* Theorems about Namespace, for all trees and all values of the bounds.   *)
(*                                                                         *)
(* The walk along a path, the tree and the ids are defined by recursion.   *)
(* What is needed of them is proved by induction in the form of sets: the  *)
(* library's principles take a predicate, which no prover here can give    *)
(* them, and here take the set of what has it (NaturalsAreReached,         *)
(* NodesAreReached, WalkIs).                                               *)
(***************************************************************************)
EXTENDS Namespace, FiniteSetTheorems, SequenceTheorems, WellFoundedInduction, TLAPS

(***************************************************************************)
(* Induction.  The library's principle takes a predicate, these take the   *)
(* set of what has it.                                                     *)
(***************************************************************************)

(* Less-than is well-founded on the naturals.                              *)
LEMMA NaturalsAreOrdered ==
  \E R : IsWellFoundedOn(R, Nat) /\ \A x, y \in Nat : <<y, x>> \in R <=> y < x
<1>1. IsWellFoundedOn(OpToRel(<, Nat), Nat)
  BY NatLessThanWellFounded, Zenon
<1>2. \A x, y \in Nat : <<y, x>> \in OpToRel(<, Nat) <=> y < x
  BY DEF OpToRel
<1> QED
  BY <1>1, <1>2, Zenon

(* A set of naturals that is not empty has a least member.                 *)
LEMMA LeastExists ==
  ASSUME NEW S \in SUBSET Nat, S # {}
  PROVE  \E x \in S : \A y \in S : x <= y
<1>1. PICK R : IsWellFoundedOn(R, Nat) /\ \A x, y \in Nat : <<y, x>> \in R <=> y < x
  BY NaturalsAreOrdered
<1>2. PICK x \in S : \A y \in S : ~ (<<y, x>> \in R)
  BY <1>1, WFMin
<1>3. \A y \in S : x \in Nat /\ y \in Nat /\ ~ (y < x)
  BY <1>1, <1>2
<1> QED
  BY <1>3

(* What holds of 0 and of the next number when it holds of one, holds of   *)
(* all.                                                                    *)
LEMMA NaturalsAreReached ==
  ASSUME NEW S, 0 \in S, \A n \in Nat : n \in S => n + 1 \in S
  PROVE  Nat \subseteq S
<1> DEFINE missing == Nat \ S
<1> SUFFICES ASSUME missing # {} PROVE FALSE
  OBVIOUS
<1>1. PICK x \in missing : \A y \in missing : x <= y
  BY LeastExists
<1>2. x # 0 /\ x - 1 \in Nat
  BY <1>1
<1>3. x - 1 \in S
  BY <1>1, <1>2
<1> QED
  BY <1>1, <1>2, <1>3

-----------------------------------------------------------------------------
(***************************************************************************)
(* Trees.                                                                  *)
(***************************************************************************)
WellFormed(t, byPath) ==
  /\ DOMAIN t \subseteq 1..MaxNodes
  /\ t \in [DOMAIN t -> [name : Name, parent : Nodes(t), folder : BOOLEAN]]
  /\ IsTree(t, byPath)

(* The topmost folder is no node of the cloud's own, and NoNode is none at *)
(* all.                                                                    *)
LEMMA TopIs ==
  ASSUME NEW t, NEW byPath, WellFormed(t, byPath)
  PROVE  /\ Top \in Nodes(t) /\ Top \notin DOMAIN t
         /\ NoNode \notin Nodes(t) /\ DOMAIN t \subseteq Nodes(t)
         /\ \A n \in DOMAIN t : /\ t[n].parent \in Nodes(t) /\ t[n].name \in Name
                                /\ t[n].folder \in BOOLEAN /\ n # Top
         /\ \A n \in Nodes(t) : n = Top \/ n \in DOMAIN t
BY NodesAssumption DEF WellFormed, Nodes, Top, NoNode

(* What holds of the topmost folder, and of a node when it does of its     *)
(* folder, holds of all.                                                   *)
LEMMA NodesAreReached ==
  ASSUME NEW t, NEW byPath, WellFormed(t, byPath),
         NEW S, Top \in S, \A n \in DOMAIN t : t[n].parent \in S => n \in S
  PROVE  Nodes(t) \subseteq S
<1> DEFINE missing == DOMAIN t \ S
<1> SUFFICES ASSUME missing # {} PROVE FALSE
  BY DEF Nodes
<1>1. PICK n \in missing : t[n].parent \notin missing
  BY DEF WellFormed, IsTree
<1> QED
  BY <1>1, TopIs

(* A function on the nodes may be defined from the topmost folder down.    *)
LEMMA TreeRecursion ==
  ASSUME NEW t, NEW byPath, WellFormed(t, byPath),
         NEW V, NEW base \in V, NEW step \in [DOMAIN t -> [V -> V]]
  PROVE  \E f \in [Nodes(t) -> V] :
           f[Top] = base /\ \A n \in DOMAIN t : f[n] = step[n][f[t[n].parent]]
<1> DEFINE F == [Nodes(t) -> V]
           Part(D, g) ==
             /\ Top \in D /\ g[Top] = base
             /\ \A n \in D : n # Top => t[n].parent \in D /\ g[n] = step[n][g[t[n].parent]]
           has == {n \in Nodes(t) : \E D \in SUBSET Nodes(t), g \in F : n \in D /\ Part(D, g)}
           same == {n \in Nodes(t) :
                      \A D, E \in SUBSET Nodes(t) : \A g, h \in F :
                        Part(D, g) /\ Part(E, h) /\ n \in D /\ n \in E => g[n] = h[n]}
<1>1. Nodes(t) \subseteq has
  <2>1. Top \in has
    <3>1. {Top} \in SUBSET Nodes(t) /\ [n \in Nodes(t) |-> base] \in F
      BY TopIs
    <3>2. Part({Top}, [n \in Nodes(t) |-> base])
      BY TopIs
    <3> QED
      BY <3>1, <3>2, TopIs
  <2>2. ASSUME NEW n \in DOMAIN t, t[n].parent \in has PROVE n \in has
    <3>1. PICK D \in SUBSET Nodes(t), g \in F : t[n].parent \in D /\ Part(D, g)
      BY <2>2
    <3> DEFINE h == [m \in Nodes(t) |-> IF m \in D THEN g[m] ELSE step[n][g[t[n].parent]]]
    <3>2. g[t[n].parent] \in V /\ step[n] \in [V -> V]
      BY <3>1
    <3>3. h \in F
      BY <3>2
    <3>4. Part(D \cup {n}, h)
      BY <3>1, TopIs
    <3>5. D \cup {n} \in SUBSET Nodes(t)
      BY TopIs
    <3> HIDE DEF h, F
    <3>6. n \in Nodes(t)
      BY TopIs
    <3> QED
      BY <3>3, <3>4, <3>5, <3>6
  <2> HIDE DEF has
  <2> QED
    BY <2>1, <2>2, NodesAreReached
<1>2. Nodes(t) \subseteq same
  <2>1. Top \in same
    BY TopIs
  <2>2. ASSUME NEW n \in DOMAIN t, t[n].parent \in same PROVE n \in same
    <3>1. n \in Nodes(t) /\ n # Top
      BY TopIs
    <3>2. ASSUME NEW D \in SUBSET Nodes(t), NEW E \in SUBSET Nodes(t),
                 NEW g \in F, NEW h \in F,
                 Part(D, g), Part(E, h), n \in D, n \in E
          PROVE  g[n] = h[n]
      <4>1. t[n].parent \in D /\ t[n].parent \in E
        BY <3>1, <3>2
      <4>2. g[t[n].parent] = h[t[n].parent]
        BY <2>2, <3>2, <4>1
      <4>3. g[n] = step[n][g[t[n].parent]] /\ h[n] = step[n][h[t[n].parent]]
        BY <3>1, <3>2
      <4> QED
        BY <4>2, <4>3
    <3> QED
      BY <3>1, <3>2
  <2> HIDE DEF same
  <2> QED
    BY <2>1, <2>2, NodesAreReached
<1> DEFINE Is(n, v) == \E D \in SUBSET Nodes(t), g \in F : n \in D /\ Part(D, g) /\ g[n] = v
           f == [n \in Nodes(t) |-> CHOOSE v \in V : Is(n, v)]
<1>3. ASSUME NEW n \in Nodes(t) PROVE f[n] \in V /\ Is(n, f[n])
  <2>1. \E v \in V : Is(n, v)
    <3>1. PICK D \in SUBSET Nodes(t), g \in F : n \in D /\ Part(D, g)
      BY <1>1
    <3>2. g[n] \in V /\ Is(n, g[n])
      BY <3>1
    <3> QED
      BY <3>2
  <2> HIDE DEF Is
  <2> QED
    BY <2>1
<1>4. ASSUME NEW D \in SUBSET Nodes(t), NEW g \in F, Part(D, g), NEW n \in D
      PROVE  f[n] = g[n]
  <2> HIDE DEF f, Part
  <2>0. n \in Nodes(t)
    OBVIOUS
  <2>1. PICK E \in SUBSET Nodes(t), h \in F : n \in E /\ Part(E, h) /\ h[n] = f[n]
    BY <1>3, <2>0
  <2>2. n \in same
    BY <1>2, <2>0
  <2> QED
    BY <1>4, <2>1, <2>2
<1>5. f[Top] = base
  <2>1. PICK D \in SUBSET Nodes(t), g \in F : Top \in D /\ Part(D, g)
    BY <1>1, TopIs
  <2> HIDE DEF f
  <2> QED
    BY <1>4, <2>1
<1>6. ASSUME NEW n \in DOMAIN t PROVE f[n] = step[n][f[t[n].parent]]
  <2>1. PICK D \in SUBSET Nodes(t), g \in F : n \in D /\ Part(D, g)
    BY <1>1, TopIs
  <2>2. t[n].parent \in D /\ g[n] = step[n][g[t[n].parent]]
    BY <2>1, TopIs
  <2> HIDE DEF f
  <2>3. f[n] = g[n]
    BY <1>4, <2>1
  <2>4. f[t[n].parent] = g[t[n].parent]
    BY <1>4, <2>1, <2>2
  <2> QED
    BY <2>2, <2>3, <2>4
<1>7. f \in [Nodes(t) -> V]
  <2> DEFINE v(n) == CHOOSE x \in V : Is(n, x)
  <2>1. \A n \in Nodes(t) : f[n] = v(n)
    OBVIOUS
  <2>2. \A n \in Nodes(t) : v(n) \in V
    BY <1>3
  <2> HIDE DEF v, Is, Part
  <2> QED
    BY <2>2 DEF v
<1> HIDE DEF f
<1> QED
  BY <1>5, <1>6, <1>7

(* Sequences that are equal with one more at their end were equal before.  *)
LEMMA AppendIsInjective ==
  ASSUME NEW S, NEW s \in Seq(S), NEW u \in Seq(S), NEW x \in S, NEW y \in S,
         Append(s, x) = Append(u, y)
  PROVE  s = u /\ x = y
<1>1. Len(Append(s, x)) = Len(s) + 1 /\ Len(Append(u, y)) = Len(u) + 1
  OBVIOUS
<1>2. Len(s) = Len(u) /\ Len(s) \in Nat
  BY <1>1
<1>3. Append(s, x)[Len(s) + 1] = x /\ Append(u, y)[Len(u) + 1] = y
  OBVIOUS
<1>4. \A i \in 1..Len(s) : Append(s, x)[i] = s[i] /\ Append(u, y)[i] = u[i]
  BY <1>2
<1>5. \A i \in 1..Len(s) : s[i] = u[i]
  BY <1>4
<1> QED
  BY <1>2, <1>3, <1>5, SeqEqual

(* The path of a node is that of its folder and its name.                  *)
LEMMA PathsAre ==
  ASSUME NEW t, NEW byPath, WellFormed(t, byPath)
  PROVE  /\ Paths(t) \in [Nodes(t) -> Seq(Name)]
         /\ Paths(t)[Top] = <<>>
         /\ \A n \in DOMAIN t : Paths(t)[n] = Append(Paths(t)[t[n].parent], t[n].name)
<1> DEFINE V == Seq(Name)
           step == [n \in DOMAIN t |-> [x \in V |-> Append(x, t[n].name)]]
<1>1. step \in [DOMAIN t -> [V -> V]]
  BY TopIs
<1>2. <<>> \in V
  OBVIOUS
<1>3. PICK f \in [Nodes(t) -> V] :
        f[Top] = <<>> /\ \A n \in DOMAIN t : f[n] = step[n][f[t[n].parent]]
  <2> HIDE DEF step, V
  <2>1. \E f \in [Nodes(t) -> V] :
          f[Top] = <<>> /\ \A n \in DOMAIN t : f[n] = step[n][f[t[n].parent]]
    BY <1>1, <1>2, TreeRecursion
  <2> QED
    BY <2>1, Zenon
<1>4. \A n \in DOMAIN t : f[n] = Append(f[t[n].parent], t[n].name)
  BY <1>3, TopIs
<1>5. f = [n \in Nodes(t) |-> IF n = Top THEN <<>> ELSE Append(f[t[n].parent], t[n].name)]
  BY <1>3, <1>4, TopIs
<1> DEFINE p == Paths(t)
<1>6. p = [n \in Nodes(t) |-> IF n = Top THEN <<>> ELSE Append(p[t[n].parent], t[n].name)]
  BY <1>5 DEF Paths
<1> HIDE DEF p
<1>7. p[Top] = <<>> /\ \A n \in DOMAIN t : p[n] = Append(p[t[n].parent], t[n].name)
  BY <1>6, TopIs
<1> DEFINE good == {n \in Nodes(t) : p[n] \in Seq(Name)}
<1>8. Nodes(t) \subseteq good
  <2>1. Top \in good
    BY <1>2, <1>7, TopIs
  <2>2. ASSUME NEW n \in DOMAIN t, t[n].parent \in good PROVE n \in good
    <3>1. p[t[n].parent] \in Seq(Name) /\ t[n].name \in Name /\ n \in Nodes(t)
      BY <2>2, TopIs
    <3>2. Append(p[t[n].parent], t[n].name) \in Seq(Name)
      BY <3>1
    <3> QED
      BY <1>7, <3>1, <3>2, Zenon
  <2> HIDE DEF good
  <2> QED
    BY <2>1, <2>2, NodesAreReached
<1>9. \A n \in Nodes(t) : p[n] \in Seq(Name)
  BY <1>8
<1>10. p \in [Nodes(t) -> Seq(Name)]
  BY <1>6, <1>9
<1> QED
  BY <1>7, <1>10 DEF p

(* The nodes under n are n and those whose folder is under n.              *)
LEMMA UnderIs ==
  ASSUME NEW t, NEW byPath, WellFormed(t, byPath), NEW n \in Nodes(t)
  PROVE  /\ Under(t, n) \subseteq Nodes(t) /\ n \in Under(t, n)
         /\ Top \in Under(t, n) <=> n = Top
         /\ \A m \in DOMAIN t : m \in Under(t, n) <=> m = n \/ t[m].parent \in Under(t, n)
<1> DEFINE V == SUBSET Nodes(t)
           step == [m \in DOMAIN t |-> [x \in V |-> {m} \cup x]]
<1>1. step \in [DOMAIN t -> [V -> V]]
  BY TopIs
<1>2. {Top} \in V
  BY TopIs
<1>3. PICK f \in [Nodes(t) -> V] :
        f[Top] = {Top} /\ \A m \in DOMAIN t : f[m] = step[m][f[t[m].parent]]
  <2> HIDE DEF step, V
  <2>1. \E f \in [Nodes(t) -> V] :
          f[Top] = {Top} /\ \A m \in DOMAIN t : f[m] = step[m][f[t[m].parent]]
    BY <1>1, <1>2, TreeRecursion
  <2> QED
    BY <2>1, Zenon
<1>4. \A m \in DOMAIN t : f[m] = {m} \cup f[t[m].parent]
  BY <1>3, TopIs
<1>5. f = [m \in Nodes(t) |-> IF m = Top THEN {Top} ELSE {m} \cup f[t[m].parent]]
  BY <1>3, <1>4, TopIs
<1> DEFINE above == CHOOSE g : g = [m \in Nodes(t) |-> IF m = Top THEN {Top} ELSE {m} \cup g[t[m].parent]]
<1>6. above = [m \in Nodes(t) |-> IF m = Top THEN {Top} ELSE {m} \cup above[t[m].parent]]
  BY <1>5
<1>7. Under(t, n) = {m \in Nodes(t) : n \in above[m]}
  BY DEF Under
<1> HIDE DEF above
<1>8. above[Top] = {Top} /\ \A m \in DOMAIN t : above[m] = {m} \cup above[t[m].parent]
  BY <1>6, TopIs
<1>9. ASSUME NEW m \in DOMAIN t PROVE m \in Under(t, n) <=> m = n \/ t[m].parent \in Under(t, n)
  <2>1. m \in Nodes(t) /\ t[m].parent \in Nodes(t)
    BY TopIs
  <2> QED
    BY <1>7, <1>8, <2>1
<1>10. n \in above[n]
  BY <1>8, TopIs
<1> QED
  BY <1>7, <1>8, <1>9, <1>10, TopIs

(* A node without children has only itself under it.                       *)
LEMMA UnderLeaf ==
  ASSUME NEW t, NEW byPath, WellFormed(t, byPath), NEW n \in DOMAIN t, Children(t, n) = {}
  PROVE  Under(t, n) = {n}
<1> DEFINE fine == {m \in Nodes(t) : m \in Under(t, n) => m = n}
<1>1. n \in Nodes(t) /\ n # Top
  BY TopIs
<1>2. Top \in fine
  BY <1>1, UnderIs, TopIs
<1>3. ASSUME NEW m \in DOMAIN t, t[m].parent \in fine PROVE m \in fine
  <2>1. t[m].parent # n /\ m \in Nodes(t)
    BY TopIs DEF Children
  <2> QED
    BY <1>1, <1>3, <2>1, UnderIs
<1>4. Nodes(t) \subseteq fine
  <2> HIDE DEF fine
  <2> QED
    BY <1>2, <1>3, NodesAreReached
<1> QED
  BY <1>1, <1>4, UnderIs

(* Siblings of different names make different paths.                       *)
LEMMA PathsDiffer ==
  ASSUME NEW t, WellFormed(t, TRUE), NEW n \in Nodes(t), NEW m \in Nodes(t),
         Paths(t)[n] = Paths(t)[m]
  PROVE  n = m
<1> DEFINE p == Paths(t)
           only == {k \in Nodes(t) : \A l \in Nodes(t) : p[k] = p[l] => k = l}
<1>1. /\ \A k \in Nodes(t) : p[k] \in Seq(Name)
      /\ p[Top] = <<>> /\ \A k \in DOMAIN t : p[k] = Append(p[t[k].parent], t[k].name)
  BY PathsAre
<1> HIDE DEF p
<1>a. \A s, u \in Seq(Name), x, y \in Name : Append(s, x) = Append(u, y) => s = u /\ x = y
  BY AppendIsInjective
<1>2. ASSUME NEW k \in DOMAIN t PROVE p[k] # <<>>
  <2>1. p[t[k].parent] \in Seq(Name) /\ t[k].name \in Name
    BY <1>1, TopIs
  <2> QED
    BY <1>1, <2>1
<1>3. Top \in only
  BY <1>1, <1>2, TopIs
<1>4. ASSUME NEW k \in DOMAIN t, t[k].parent \in only PROVE k \in only
  <2>1. k \in Nodes(t)
    BY TopIs
  <2>2. ASSUME NEW l \in Nodes(t), p[k] = p[l] PROVE k = l
    <3>1. l \in DOMAIN t
      BY <1>1, <1>2, <2>2, TopIs
    <3>2. /\ p[t[k].parent] \in Seq(Name) /\ t[k].name \in Name
          /\ p[t[l].parent] \in Seq(Name) /\ t[l].name \in Name
      BY <1>1, <3>1, TopIs
    <3>3. Append(p[t[k].parent], t[k].name) = Append(p[t[l].parent], t[l].name)
      BY <1>1, <2>2, <3>1
    <3>4. p[t[k].parent] = p[t[l].parent] /\ t[k].name = t[l].name
      BY <3>2, <3>3, <1>a, SMTT(30)
    <3>5. t[k].parent = t[l].parent
      BY <1>4, <3>1, <3>4, TopIs
    <3> QED
      BY <3>1, <3>4, <3>5 DEF WellFormed, IsTree
  <2> QED
    BY <2>1, <2>2
<1>5. Nodes(t) \subseteq only
  <2> HIDE DEF only
  <2> QED
    BY <1>3, <1>4, NodesAreReached
<1> QED
  BY <1>5 DEF p

(* A node is known by its id.                                              *)
LEMMA IdsAre ==
  ASSUME NEW t, NEW byPath \in BOOLEAN, WellFormed(t, byPath)
  PROVE  /\ IdOf(t, byPath, Top) = <<>>
         /\ \A n \in Nodes(t) : IdOf(t, byPath, n) \in Id
         /\ \A n \in DOMAIN t : IdOf(t, byPath, n) # <<>>
         /\ \A m, n \in Nodes(t) : IdOf(t, byPath, m) = IdOf(t, byPath, n) => m = n
<1>1. CASE byPath = TRUE
  <2>1. \A n : IdOf(t, byPath, n) = Paths(t)[n]
    BY <1>1 DEF IdOf, Ids
  <2>2. \A n \in DOMAIN t : Paths(t)[n] # <<>>
    <3> TAKE n \in DOMAIN t
    <3>1. Paths(t)[t[n].parent] \in Seq(Name) /\ t[n].name \in Name
      BY PathsAre, TopIs
    <3>2. \A s \in Seq(Name), x \in Name : Append(s, x) # <<>>
      OBVIOUS
    <3>3. Append(Paths(t)[t[n].parent], t[n].name) # <<>>
      BY <3>1, <3>2, Zenon
    <3> QED
      BY <3>3, PathsAre, Zenon
  <2>3. \A n \in Nodes(t) : Paths(t)[n] \in Id
    <3> TAKE n \in Nodes(t)
    <3>1. Paths(t)[n] \in Seq(Name)
      BY PathsAre
    <3>2. \A s \in Seq(Name) : s \in Seq(Name \cup 1..MaxNodes)
      OBVIOUS
    <3> QED
      BY <3>1, <3>2, Zenon DEF Id
  <2>4. \A m, n \in Nodes(t) : Paths(t)[m] = Paths(t)[n] => m = n
    BY <1>1, PathsDiffer
  <2> QED
    BY <2>1, <2>2, <2>3, <2>4, PathsAre
<1>2. CASE byPath = FALSE
  <2>1. IdOf(t, byPath, Top) = <<>> /\ \A n \in DOMAIN t : IdOf(t, byPath, n) = <<n>>
    BY <1>2, TopIs DEF IdOf, Ids
  <2>2. \A n \in DOMAIN t : n \in 1..MaxNodes
    BY DEF WellFormed
  <2>3. \A n \in 1..MaxNodes : <<n>> \in Seq(Name \cup 1..MaxNodes) /\ <<n>> # <<>>
    OBVIOUS
  <2>4. <<>> \in Seq(Name \cup 1..MaxNodes)
    OBVIOUS
  <2>5. \A m, n : <<m>> = <<n>> => m = n
    OBVIOUS
  <2>6. \A n \in Nodes(t) : IdOf(t, byPath, n) \in Id
    BY <2>1, <2>2, <2>3, <2>4, TopIs DEF Id
  <2>7. \A n \in DOMAIN t : IdOf(t, byPath, n) # <<>>
    BY <2>1, <2>2, <2>3
  <2>8. ASSUME NEW m \in Nodes(t), NEW n \in Nodes(t), IdOf(t, byPath, m) = IdOf(t, byPath, n)
        PROVE  m = n
    <3>1. CASE m = Top
      BY <2>1, <2>7, <2>8, <3>1, TopIs
    <3>2. CASE n = Top
      BY <2>1, <2>7, <2>8, <3>2, TopIs
    <3>3. CASE m \in DOMAIN t /\ n \in DOMAIN t
      BY <2>1, <2>5, <2>8, <3>3, SMTT(30)
    <3> QED
      BY <3>1, <3>2, <3>3, TopIs
  <2> QED
    BY <2>1, <2>6, <2>7, <2>8
<1> QED
  BY <1>1, <1>2

(* NodeWithId is the inverse of IdOf.                                      *)
LEMMA NodeWithIdIs ==
  ASSUME NEW t, NEW byPath \in BOOLEAN, WellFormed(t, byPath)
  PROVE  /\ \A n \in Nodes(t) : NodeWithId(t, byPath, IdOf(t, byPath, n)) = n
         /\ \A id : NodeWithId(t, byPath, id) \in Nodes(t)
                      => IdOf(t, byPath, NodeWithId(t, byPath, id)) = id
         /\ \A id : NodeWithId(t, byPath, id) \in Nodes(t) \cup {NoNode}
         /\ \A id : (\A n \in Nodes(t) : IdOf(t, byPath, n) # id) => NodeWithId(t, byPath, id) = NoNode
<1> DEFINE known(id) == {n \in Nodes(t) : IdOf(t, byPath, n) = id}
<1>1. \A id : NodeWithId(t, byPath, id) = IF known(id) = {} THEN NoNode ELSE CHOOSE n \in known(id) : TRUE
  BY DEF NodeWithId, IdOf
<1>2. \A id : known(id) # {} => (CHOOSE n \in known(id) : TRUE) \in known(id)
  <2> TAKE id
  <2> DEFINE k == known(id)
  <2> HIDE DEF k
  <2>1. k # {} => (CHOOSE n \in k : TRUE) \in k
    OBVIOUS
  <2> QED
    BY <2>1 DEF k
<1>3. \A n \in Nodes(t) : n \in known(IdOf(t, byPath, n))
  OBVIOUS
<1>4. \A id : \A n \in known(id) : n \in Nodes(t) /\ IdOf(t, byPath, n) = id
  OBVIOUS
<1>5. \A id : known(id) = {} <=> \A n \in Nodes(t) : IdOf(t, byPath, n) # id
  OBVIOUS
<1> HIDE DEF known
<1>6. \A id : known(id) # {} => NodeWithId(t, byPath, id) \in known(id)
  BY <1>1, <1>2
<1>7. \A id : known(id) = {} => NodeWithId(t, byPath, id) = NoNode
  BY <1>1
<1>8. ASSUME NEW n \in Nodes(t) PROVE NodeWithId(t, byPath, IdOf(t, byPath, n)) = n
  BY <1>3, <1>4, <1>6, IdsAre
<1>9. ASSUME NEW id, NodeWithId(t, byPath, id) \in Nodes(t)
      PROVE  IdOf(t, byPath, NodeWithId(t, byPath, id)) = id
  BY <1>4, <1>6, <1>7, <1>9, TopIs
<1>10. ASSUME NEW id PROVE NodeWithId(t, byPath, id) \in Nodes(t) \cup {NoNode}
  BY <1>4, <1>6, <1>7
<1>11. ASSUME NEW id, \A n \in Nodes(t) : IdOf(t, byPath, n) # id
       PROVE  NodeWithId(t, byPath, id) = NoNode
  BY <1>5, <1>7, <1>11
<1> QED
  BY <1>8, <1>9, <1>10, <1>11

(* Where two trees have the same nodes they have the same ids.             *)
LEMMA IdsAgree ==
  ASSUME NEW t, NEW u, NEW byPath \in BOOLEAN, WellFormed(t, byPath), WellFormed(u, byPath),
         NEW S, S \subseteq Nodes(t) \cap Nodes(u),
         byPath => /\ Top \in S
                   /\ \A n \in S \ {Top} : /\ t[n].parent \in S
                                           /\ t[n].parent = u[n].parent /\ t[n].name = u[n].name,
         NEW n \in S
  PROVE  IdOf(t, byPath, n) = IdOf(u, byPath, n)
<1>1. CASE byPath = FALSE
  BY <1>1 DEF IdOf, Ids
<1>2. CASE byPath = TRUE
  <2> DEFINE same == {m \in Nodes(t) : m \in S => Paths(t)[m] = Paths(u)[m]}
  <2>1. Top \in same
    BY PathsAre, TopIs
  <2>2. ASSUME NEW m \in DOMAIN t, t[m].parent \in same PROVE m \in same
    <3>1. SUFFICES ASSUME m \in S PROVE Paths(t)[m] = Paths(u)[m]
      BY TopIs
    <3>2. m # Top /\ m \in DOMAIN u
      BY <3>1, TopIs
    <3>3. t[m].parent \in S /\ t[m].parent = u[m].parent /\ t[m].name = u[m].name
      BY <1>2, <3>1, <3>2
    <3>4. Paths(t)[t[m].parent] = Paths(u)[t[m].parent]
      BY <2>2, <3>3
    <3>5. /\ Paths(t)[m] = Append(Paths(t)[t[m].parent], t[m].name)
          /\ Paths(u)[m] = Append(Paths(u)[u[m].parent], u[m].name)
      BY <3>2, PathsAre
    <3> QED
      BY <3>3, <3>4, <3>5
  <2>3. Nodes(t) \subseteq same
    <3> HIDE DEF same
    <3> QED
      BY <2>1, <2>2, NodesAreReached
  <2>4. Paths(t)[n] = Paths(u)[n]
    BY <2>3
  <2> QED
    BY <1>2, <2>4 DEF IdOf, Ids
<1> QED
  BY <1>1, <1>2

(***************************************************************************)
(* What the three requests do to a tree.                                   *)
(***************************************************************************)
IsMade(t, u, byPath, n, parent, name, folder) ==
  /\ WellFormed(u, byPath)
  /\ DOMAIN u = DOMAIN t \cup {n}
  /\ u[n] = [name |-> name, parent |-> parent, folder |-> folder]
  /\ \A m \in DOMAIN t : u[m] = t[m]
  /\ \A m \in Nodes(t) : IdOf(u, byPath, m) = IdOf(t, byPath, m)

IsMoved(t, u, byPath, n, parent, name) ==
  /\ WellFormed(u, byPath)
  /\ DOMAIN u = DOMAIN t
  /\ u[n] = [name |-> name, parent |-> parent, folder |-> t[n].folder]
  /\ \A m \in DOMAIN t \ {n} : u[m] = t[m]
  /\ byPath /\ Children(t, n) = {} =>
       \A m \in Nodes(t) \ {n} : IdOf(u, byPath, m) = IdOf(t, byPath, m)
  /\ ~byPath => \A m \in Nodes(t) : IdOf(u, byPath, m) = IdOf(t, byPath, m)

IsTrashed(t, u, byPath, n) ==
  /\ WellFormed(u, byPath)
  /\ DOMAIN u \subseteq DOMAIN t \ {n}
  /\ \A m \in DOMAIN u : u[m] = t[m]
  /\ \A m \in Nodes(u) : IdOf(u, byPath, m) = IdOf(t, byPath, m)
  /\ Children(t, n) = {} => DOMAIN u = DOMAIN t \ {n}

(* A new node in a folder leaves a tree, and all ids as they were.         *)
LEMMA TreeMade ==
  ASSUME NEW t, NEW byPath \in BOOLEAN, WellFormed(t, byPath),
         NEW n \in 1..MaxNodes \ DOMAIN t, NEW parent, NEW name \in Name, NEW folder \in BOOLEAN,
         MayMake(t, byPath, parent, name)
  PROVE  IsMade(t, Made(t, n, parent, name, folder), byPath, n, parent, name, folder)
<1> DEFINE u == Made(t, n, parent, name, folder)
<1>1. /\ DOMAIN u = DOMAIN t \cup {n}
      /\ u[n] = [name |-> name, parent |-> parent, folder |-> folder]
      /\ \A m \in DOMAIN t : u[m] = t[m]
  BY DEF Made
<1>2. u = [m \in DOMAIN u |-> u[m]]
  BY DEF Made
<1> HIDE DEF u
<1>3. Nodes(u) = Nodes(t) \cup {n} /\ parent \in Nodes(t) /\ parent # n /\ n # Top
  BY <1>1, NodesAssumption DEF Nodes, MayMake, IsFolder, WellFormed, Top
<1>4. u \in [DOMAIN u -> [name : Name, parent : Nodes(u), folder : BOOLEAN]]
  <2>1. \A m \in DOMAIN u : u[m] \in [name : Name, parent : Nodes(u), folder : BOOLEAN]
    BY <1>1, <1>3 DEF WellFormed
  <2> QED
    BY <1>2, <2>1
<1>5. IsTree(u, byPath)
  <2>1. \A m \in DOMAIN u : IsFolder(u, u[m].parent)
    BY <1>1, <1>3 DEF WellFormed, IsTree, IsFolder, MayMake
  <2>2. ASSUME NEW set \in SUBSET DOMAIN u, set # {} PROVE \E m \in set : u[m].parent \notin set
    <3>1. CASE set \ {n} = {}
      BY <1>1, <1>3, <2>2, <3>1
    <3>2. CASE set \ {n} # {}
      <4>1. PICK m \in set \ {n} : t[m].parent \notin set \ {n}
        BY <1>1, <3>2 DEF WellFormed, IsTree
      <4>2. t[m].parent \in Nodes(t) /\ n \notin Nodes(t)
        BY <1>1, <1>3, <4>1, TopIs DEF Nodes
      <4> QED
        BY <1>1, <4>1, <4>2
    <3> QED
      BY <3>1, <3>2
  <2>3. ASSUME byPath, NEW m \in DOMAIN u, NEW k \in DOMAIN u,
               u[m].parent = u[k].parent, u[m].name = u[k].name
        PROVE  m = k
    BY <1>1, <2>3 DEF WellFormed, IsTree, MayMake, NameIsFree, Children
  <2> QED
    BY <2>1, <2>2, <2>3 DEF IsTree
<1>6. WellFormed(u, byPath)
  BY <1>1, <1>4, <1>5 DEF WellFormed
<1>7. ASSUME NEW m \in Nodes(t) PROVE IdOf(u, byPath, m) = IdOf(t, byPath, m)
  <2>1. Nodes(t) \subseteq Nodes(t) \cap Nodes(u)
    BY <1>3
  <2>2. Top \in Nodes(t) /\ \A k \in Nodes(t) \ {Top} :
          t[k].parent \in Nodes(t) /\ t[k].parent = u[k].parent /\ t[k].name = u[k].name
    BY <1>1, TopIs
  <2> QED
    BY <1>6, <2>1, <2>2, IdsAgree
<1> QED
  BY <1>1, <1>6, <1>7 DEF IsMade, u

(* A move that the service may make leaves a tree; with Dropbox only a     *)
(* node without children keeps the ids of the others.                      *)
LEMMA TreeMoved ==
  ASSUME NEW t, NEW byPath \in BOOLEAN, WellFormed(t, byPath),
         NEW n, NEW parent, NEW name \in Name, MayMove(t, byPath, n, parent, name)
  PROVE  IsMoved(t, Moved(t, n, parent, name), byPath, n, parent, name)
<1> DEFINE u == Moved(t, n, parent, name)
<1>0. n \in DOMAIN t /\ t[n] \in [name : Name, parent : Nodes(t), folder : BOOLEAN]
  BY DEF MayMove, WellFormed
<1>1. /\ DOMAIN u = DOMAIN t
      /\ \A m \in DOMAIN t \ {n} : u[m] = t[m]
  BY DEF Moved
<1>a. u[n] = [name |-> name, parent |-> parent, folder |-> t[n].folder]
  BY <1>0 DEF Moved
<1>2. u = [m \in DOMAIN u |-> u[m]]
  BY DEF Moved
<1> HIDE DEF u
<1>3. /\ Nodes(u) = Nodes(t) /\ parent \in Nodes(t) /\ n # Top /\ n \in Nodes(t)
      /\ parent \notin Under(t, n)
  BY <1>0, <1>1, TopIs DEF Nodes, MayMove, MayMake, IsFolder
<1>4. u \in [DOMAIN u -> [name : Name, parent : Nodes(u), folder : BOOLEAN]]
  <2>1. \A m \in DOMAIN u : u[m] \in [name : Name, parent : Nodes(u), folder : BOOLEAN]
    BY <1>0, <1>1, <1>a, <1>3 DEF WellFormed
  <2> QED
    BY <1>2, <2>1
<1>5. IsTree(u, byPath)
  <2>1. \A m \in DOMAIN u : IsFolder(u, u[m].parent)
    BY <1>1, <1>a, <1>3 DEF WellFormed, IsTree, IsFolder, MayMove, MayMake
  <2>2. ASSUME NEW set \in SUBSET DOMAIN u, set # {}, \A m \in set : u[m].parent \in set PROVE FALSE
    <3> DEFINE outside == set \ Under(t, n)
    <3>1. n \in set
      <4>1. PICK m \in set : t[m].parent \notin set
        BY <1>1, <2>2 DEF WellFormed, IsTree
      <4> QED
        BY <1>1, <2>2, <4>1
    <3>2. parent \in outside
      BY <1>a, <1>3, <2>2, <3>1
    <3>3. PICK m \in outside : t[m].parent \notin outside
      BY <1>1, <3>2 DEF WellFormed, IsTree
    <3>4. m # n /\ t[m].parent \notin Under(t, n) /\ m \in DOMAIN t
      BY <1>1, <1>3, <3>3, UnderIs
    <3> QED
      BY <1>1, <2>2, <3>3, <3>4
  <2>3. ASSUME byPath, NEW m \in DOMAIN u, NEW k \in DOMAIN u,
               u[m].parent = u[k].parent, u[m].name = u[k].name
        PROVE  m = k
    BY <1>1, <1>a, <2>3 DEF WellFormed, IsTree, MayMove, MayMake, NameIsFree, Children
  <2> QED
    BY <2>1, <2>2, <2>3 DEF IsTree
<1>6. WellFormed(u, byPath)
  BY <1>1, <1>4, <1>5 DEF WellFormed
<1>7. ASSUME byPath, Children(t, n) = {}, NEW m \in Nodes(t) \ {n}
      PROVE  IdOf(u, byPath, m) = IdOf(t, byPath, m)
  <2> DEFINE S == Nodes(t) \ {n}
  <2>1. S \subseteq Nodes(t) \cap Nodes(u)
    BY <1>3
  <2>2. Top \in S /\ \A k \in S \ {Top} :
          t[k].parent \in S /\ t[k].parent = u[k].parent /\ t[k].name = u[k].name
    BY <1>1, <1>3, <1>7, TopIs DEF Children
  <2> HIDE DEF S
  <2>3. m \in S
    BY DEF S
  <2> QED
    BY <1>6, <2>1, <2>2, <2>3, IdsAgree
<1>8. ASSUME ~byPath, NEW m \in Nodes(t) PROVE IdOf(u, byPath, m) = IdOf(t, byPath, m)
  BY <1>3, <1>8 DEF IdOf, Ids
<1> QED
  BY <1>1, <1>a, <1>6, <1>7, <1>8 DEF IsMoved, u

(* Trashing a node leaves a tree, and the ids of the nodes that stay.      *)
LEMMA TreeTrashed ==
  ASSUME NEW t, NEW byPath \in BOOLEAN, WellFormed(t, byPath), NEW n \in DOMAIN t
  PROVE  IsTrashed(t, Trashed(t, n), byPath, n)
<1> DEFINE u == Trashed(t, n)
<1>0. n \in Nodes(t) /\ n # Top
  BY TopIs
<1>1. DOMAIN u = DOMAIN t \ Under(t, n) /\ \A m \in DOMAIN u : u[m] = t[m]
  BY DEF Trashed
<1>2. u = [m \in DOMAIN u |-> u[m]]
  BY DEF Trashed
<1> HIDE DEF u
<1>3. DOMAIN u \subseteq DOMAIN t \ {n} /\ Nodes(u) \subseteq Nodes(t)
  BY <1>0, <1>1, UnderIs DEF Nodes
<1>4. \A m \in DOMAIN u : t[m].parent \in Nodes(u)
  <2> TAKE m \in DOMAIN u
  <2>1. m \in DOMAIN t /\ m \notin Under(t, n)
    BY <1>1
  <2>2. t[m].parent \notin Under(t, n) /\ t[m].parent \in Nodes(t)
    BY <1>0, <2>1, UnderIs, TopIs
  <2> QED
    BY <1>1, <2>2 DEF Nodes
<1>5. u \in [DOMAIN u -> [name : Name, parent : Nodes(u), folder : BOOLEAN]]
  <2>1. \A m \in DOMAIN u : u[m] \in [name : Name, parent : Nodes(u), folder : BOOLEAN]
    BY <1>1, <1>4 DEF WellFormed
  <2> QED
    BY <1>2, <2>1
<1>6. IsTree(u, byPath)
  <2>1. \A m \in DOMAIN u : IsFolder(u, u[m].parent)
    <3> TAKE m \in DOMAIN u
    <3>1. IsFolder(t, t[m].parent)
      BY <1>1 DEF WellFormed, IsTree
    <3> QED
      BY <1>1, <1>4, <3>1 DEF IsFolder, Nodes
  <2>2. ASSUME NEW set \in SUBSET DOMAIN u, set # {} PROVE \E m \in set : u[m].parent \notin set
    <3>1. PICK m \in set : t[m].parent \notin set
      BY <1>3, <2>2 DEF WellFormed, IsTree
    <3> QED
      BY <1>1, <3>1
  <2>3. ASSUME byPath, NEW m \in DOMAIN u, NEW k \in DOMAIN u,
               u[m].parent = u[k].parent, u[m].name = u[k].name
        PROVE  m = k
    BY <1>1, <2>3 DEF WellFormed, IsTree
  <2> QED
    BY <2>1, <2>2, <2>3 DEF IsTree
<1>7. WellFormed(u, byPath)
  BY <1>3, <1>5, <1>6 DEF WellFormed
<1>8. ASSUME NEW m \in Nodes(u) PROVE IdOf(u, byPath, m) = IdOf(t, byPath, m)
  <2>1. Nodes(u) \subseteq Nodes(u) \cap Nodes(t)
    BY <1>3
  <2>2. Top \in Nodes(u) /\ \A k \in Nodes(u) \ {Top} :
          u[k].parent \in Nodes(u) /\ u[k].parent = t[k].parent /\ u[k].name = t[k].name
    BY <1>1, <1>4, <1>7, TopIs
  <2> QED
    BY <1>7, <2>1, <2>2, IdsAgree
<1>9. Children(t, n) = {} => DOMAIN u = DOMAIN t \ {n}
  BY <1>1, UnderLeaf
<1> QED
  BY <1>1, <1>3, <1>7, <1>8, <1>9 DEF IsTrashed, u

(***************************************************************************)
(* Lists.                                                                  *)
(***************************************************************************)
Before(l, o, p) == \E i, j \in DOMAIN l : i < j /\ l[i] = o /\ l[j] = p

(* A list without repetitions orders its members.                          *)
LEMMA BeforeIsAnOrder ==
  ASSUME NEW l \in Seq(Nat), IsInjective(l), NEW o, NEW p, NEW q
  PROVE  /\ Before(l, o, p) => o \in ToSet(l) /\ p \in ToSet(l) /\ o # p /\ ~ Before(l, p, o)
         /\ Before(l, o, p) /\ Before(l, p, q) => Before(l, o, q)
         /\ o \in ToSet(l) /\ p \in ToSet(l) => o = p \/ Before(l, o, p) \/ Before(l, p, o)
<1>1. \A i, j \in DOMAIN l : i \in Nat /\ j \in Nat /\ (l[i] = l[j] => i = j)
  BY DEF IsInjective
<1> QED
  BY <1>1 DEF Before, ToSet

(* FirstOf is the first member of the list that is wanted, or Null.        *)
LEMMA FirstOfIs ==
  ASSUME NEW l \in Seq(Nat), NEW wanted, NEW o, o = FirstOf(l, wanted), Null \notin ToSet(l)
  PROVE  \/ o = Null /\ ToSet(l) \cap wanted = {}
         \/ /\ o # Null /\ o \in ToSet(l) /\ o \in wanted
            /\ IsInjective(l) => \A p \in ToSet(l) \cap wanted : p = o \/ Before(l, o, p)
<1> DEFINE at == {i \in 1..Len(l) : l[i] \in wanted}
<1>1. o = LET i == IF at # {} THEN Min(at) ELSE 0 IN IF i = 0 THEN Null ELSE l[i]
  BY DEF FirstOf, SelectInSeq
<1>2. CASE at = {}
  BY <1>1, <1>2 DEF ToSet
<1>3. CASE at # {}
  <2>1. \E x \in at : \A y \in at : x <= y
    <3>1. at \in SUBSET Nat
      OBVIOUS
    <3> HIDE DEF at
    <3> QED
      BY <1>3, <3>1, LeastExists
  <2>2. Min(at) \in at /\ \A y \in at : Min(at) <= y
    <3> HIDE DEF at
    <3> QED
      BY <2>1 DEF Min
  <2> DEFINE m == Min(at)
  <2>3. m \in 1..Len(l) /\ l[m] \in wanted /\ o = l[m]
    BY <1>1, <1>3, <2>2
  <2>4. \A i \in 1..Len(l) : l[i] \in wanted => m <= i
    BY <2>2
  <2> HIDE DEF m
  <2>5. o \in ToSet(l)
    BY <2>3 DEF ToSet
  <2>6. ASSUME NEW p \in ToSet(l) \cap wanted PROVE p = o \/ Before(l, o, p)
    <3>1. PICK i \in 1..Len(l) : l[i] = p
      BY DEF ToSet
    <3>2. m <= i /\ m \in Nat /\ i \in Nat
      BY <2>3, <2>4, <3>1
    <3> QED
      BY <2>3, <3>1, <3>2 DEF Before
  <2> QED
    BY <2>3, <2>5, <2>6
<1> QED
  BY <1>2, <1>3

(* Removing an object keeps the others and their order.                    *)
LEMMA RemoveFirstIs ==
  ASSUME NEW l \in Seq(Nat), IsInjective(l), NEW o, NEW r, r = RemoveFirst(l, o)
  PROVE  /\ r \in Seq(Nat) /\ IsInjective(r) /\ ToSet(r) = ToSet(l) \ {o}
         /\ \A p, q \in ToSet(r) : Before(l, p, q) => Before(r, p, q)
<1>1. CASE o \notin ToSet(l)
  <2>1. r = l
    BY <1>1 DEF RemoveFirst, ToSet
  <2> QED
    BY <1>1, <2>1
<1>2. CASE o \in ToSet(l)
  <2> DEFINE at == {i \in 1..Len(l) : l[i] = o}
  <2>1. r = RemoveAt(l, IF at # {} THEN Min(at) ELSE 0)
    BY <1>2 DEF RemoveFirst, SelectInSeq, ToSet
  <2>2. PICK k \in 1..Len(l) : l[k] = o
    BY <1>2 DEF ToSet
  <2>3. at = {k}
    BY <2>2 DEF IsInjective
  <2>4. Min({k}) = k
    BY DEF Min
  <2> HIDE DEF at
  <2>5. r = SubSeq(l, 1, k - 1) \o SubSeq(l, k + 1, Len(l))
    BY <2>1, <2>3, <2>4 DEF RemoveAt
  <2> DEFINE a == SubSeq(l, 1, k - 1)
             b == SubSeq(l, k + 1, Len(l))
  <2>6. /\ a \in Seq(Nat) /\ Len(a) = k - 1 /\ \A i \in 1..(k - 1) : a[i] = l[i]
        /\ b \in Seq(Nat) /\ Len(b) = Len(l) - k /\ \A i \in 1..(Len(l) - k) : b[i] = l[k + i]
    <3>1. /\ k \in Nat /\ Len(l) \in Nat /\ 1 <= k /\ k <= Len(l)
          /\ \A i \in 1..Len(l) : l[i] \in Nat
      BY <2>2
    <3>2. /\ a \in Seq(Nat) /\ Len(a) = IF 1 <= k - 1 THEN k - 1 - 1 + 1 ELSE 0
          /\ \A i \in 1..(k - 1 - 1 + 1) : a[i] = l[1 + i - 1]
      BY <3>1, SubSeqProperties
    <3>3. /\ b \in Seq(Nat) /\ Len(b) = IF k + 1 <= Len(l) THEN Len(l) - (k + 1) + 1 ELSE 0
          /\ \A i \in 1..(Len(l) - (k + 1) + 1) : b[i] = l[k + 1 + i - 1]
      BY <3>1, SubSeqProperties
    <3> HIDE DEF a, b
    <3> QED
      BY <3>1, <3>2, <3>3
  <2> HIDE DEF a, b
  <2>7. r = a \o b
    BY <2>5 DEF a, b
  <2>8. /\ r \in Seq(Nat) /\ Len(r) = Len(l) - 1
        /\ \A i \in 1..Len(r) : r[i] = IF i < k THEN l[i] ELSE l[i + 1]
    <3>1. /\ a \o b \in Seq(Nat) /\ Len(a \o b) = Len(a) + Len(b)
          /\ \A i \in 1..Len(a) + Len(b) : (a \o b)[i] = IF i <= Len(a) THEN a[i] ELSE b[i - Len(a)]
      BY <2>6, ConcatProperties, Zenon
    <3>2. k \in Nat /\ Len(l) \in Nat /\ 1 <= k /\ k <= Len(l)
      BY <2>2
    <3>3. Len(r) = Len(l) - 1 /\ Len(a) + Len(b) = Len(l) - 1
      BY <2>6, <2>7, <3>1, <3>2
    <3>4. ASSUME NEW i \in 1..Len(r) PROVE r[i] = IF i < k THEN l[i] ELSE l[i + 1]
      <4>1. r[i] = IF i <= k - 1 THEN a[i] ELSE b[i - (k - 1)]
        BY <2>6, <2>7, <3>1, <3>3
      <4>2. CASE i < k
        BY <2>6, <3>2, <4>1, <4>2
      <4>3. CASE ~ (i < k)
        <5>1. i - (k - 1) \in 1..Len(l) - k /\ k + (i - (k - 1)) = i + 1
          BY <3>2, <3>3, <4>3
        <5> QED
          BY <2>6, <3>2, <4>1, <4>3, <5>1
      <4> QED
        BY <4>2, <4>3
    <3> QED
      BY <2>7, <3>1, <3>3, <3>4
  <2>a. /\ DOMAIN l = 1..Len(l) /\ DOMAIN r = 1..Len(r) /\ Len(l) \in Nat /\ k \in 1..Len(l)
        /\ \A i, j \in 1..Len(l) : l[i] = l[j] => i = j
    <3>1. DOMAIN l = 1..Len(l) /\ DOMAIN r = 1..Len(r) /\ Len(l) \in Nat
      BY <2>8
    <3> QED
      BY <2>2, <3>1 DEF IsInjective
  <2>9. IsInjective(r)
    <3> SUFFICES ASSUME NEW i \in DOMAIN r, NEW j \in DOMAIN r, r[i] = r[j] PROVE i = j
      BY DEF IsInjective
    <3>1. /\ i \in 1..Len(r) /\ j \in 1..Len(r)
          /\ r[i] = l[IF i < k THEN i ELSE i + 1] /\ r[j] = l[IF j < k THEN j ELSE j + 1]
      BY <2>8, <2>a
    <3> DEFINE x == IF i < k THEN i ELSE i + 1
               y == IF j < k THEN j ELSE j + 1
    <3>a. Len(r) = Len(l) - 1 /\ Len(l) \in Nat /\ i \in 1..Len(r) /\ j \in 1..Len(r)
      BY <2>8, <2>a, <3>1
    <3>2. x \in 1..Len(l) /\ y \in 1..Len(l)
      BY <3>a
    <3>3. l[x] = l[y]
      BY <3>1
    <3>4. x = y
      BY <2>a, <3>2, <3>3
    <3> QED
      BY <2>a, <3>1, <3>4
  <2>10. ToSet(r) \subseteq ToSet(l) \ {o}
    <3> SUFFICES ASSUME NEW i \in 1..Len(r) PROVE r[i] \in ToSet(l) /\ r[i] # o
      BY <2>8 DEF ToSet
    <3>1. r[i] = l[IF i < k THEN i ELSE i + 1]
      BY <2>8
    <3>2. (IF i < k THEN i ELSE i + 1) \in 1..Len(l) \ {k}
      BY <2>8, <2>a
    <3> QED
      BY <2>2, <2>a, <3>1, <3>2 DEF ToSet
  <2>11. \A i \in 1..Len(l) : l[i] # o =>
           \E j \in 1..Len(r) : r[j] = l[i] /\ j = (IF i < k THEN i ELSE i - 1) /\ i # k
    <3> TAKE i \in 1..Len(l)
    <3> HAVE l[i] # o
    <3> DEFINE j == IF i < k THEN i ELSE i - 1
    <3>1. j \in 1..Len(r) /\ i # k
      BY <2>2, <2>8
    <3>2. r[j] = l[IF j < k THEN j ELSE j + 1]
      BY <2>8, <3>1
    <3>3. (IF j < k THEN j ELSE j + 1) = i
      BY <2>a, <3>1
    <3> QED
      BY <3>1, <3>2, <3>3
  <2>12. ToSet(l) \ {o} \subseteq ToSet(r)
    BY <2>11, <2>a DEF ToSet
  <2>13. ASSUME NEW p \in ToSet(r), NEW q \in ToSet(r), Before(l, p, q) PROVE Before(r, p, q)
    <3>1. PICK i \in 1..Len(l), j \in 1..Len(l) : i < j /\ l[i] = p /\ l[j] = q
      BY <2>13 DEF Before
    <3>2. p # o /\ q # o
      BY <2>10
    <3>3. PICK i2 \in 1..Len(r) : r[i2] = p /\ i2 = (IF i < k THEN i ELSE i - 1) /\ i # k
      BY <2>11, <3>1, <3>2
    <3>4. PICK j2 \in 1..Len(r) : r[j2] = q /\ j2 = (IF j < k THEN j ELSE j - 1) /\ j # k
      BY <2>11, <3>1, <3>2
    <3>5. i2 < j2
      BY <2>a, <3>1, <3>3, <3>4
    <3> QED
      BY <2>a, <3>3, <3>4, <3>5 DEF Before
  <2> QED
    BY <2>8, <2>9, <2>10, <2>12, <2>13
<1> QED
  BY <1>1, <1>2

(* SetToSeq lists a finite set, each member once.                          *)
LEMMA SetToSeqIs ==
  ASSUME NEW S, IsFiniteSet(S), NEW s, s = SetToSeq(S)
  PROVE  s \in Seq(S) /\ ToSet(s) = S /\ IsInjective(s)
<1>1. Cardinality(S) \in Nat /\ ExistsBijection(1..Cardinality(S), S)
  BY FS_CardinalityType
<1>2. PICK f \in [1..Cardinality(S) -> S] : IsInjective(f)
  BY <1>1 DEF ExistsBijection, Bijection, Injection
<1>3. s \in [1..Cardinality(S) -> S] /\ IsInjective(s)
  BY <1>2 DEF SetToSeq
<1>4. s \in Seq(S)
  BY <1>1, <1>3
<1>5. ToSet(s) = S
  <2>1. IsFiniteSet(1..Cardinality(S)) /\ Cardinality(1..Cardinality(S)) = Cardinality(S)
    BY <1>1, FS_Interval
  <2>2. s \in Injection(1..Cardinality(S), S)
    BY <1>3 DEF Injection
  <2>3. s \in Surjection(1..Cardinality(S), S)
    BY <2>1, <2>2, FS_Injection
  <2> QED
    BY <1>3, <2>3 DEF Surjection, ToSet
<1> QED
  BY <1>3, <1>4, <1>5

Joined(a, b, r) ==
  /\ Len(r) = Len(a) + Len(b)
  /\ \A i \in 1..Len(a) : r[i] = a[i]
  /\ \A i \in 1..Len(b) : r[Len(a) + i] = b[i]
  /\ \A i \in 1..Len(r) : i \in 1..Len(a) \/ \E j \in 1..Len(b) : i = Len(a) + j

(* The members of two sequences after each other.                          *)
LEMMA ConcatIs ==
  ASSUME NEW S, NEW a \in Seq(S), NEW b \in Seq(S)
  PROVE  a \o b \in Seq(S) /\ Joined(a, b, a \o b)
<1> DEFINE r == a \o b
<1>1. /\ a \o b \in Seq(S) /\ Len(a \o b) = Len(a) + Len(b)
      /\ \A i \in 1..Len(a) + Len(b) : (a \o b)[i] = IF i <= Len(a) THEN a[i] ELSE b[i - Len(a)]
  BY ConcatProperties, Zenon
<1>2. Len(a) \in Nat /\ Len(b) \in Nat
  OBVIOUS
<1>3. /\ r \in Seq(S) /\ Len(r) = Len(a) + Len(b)
      /\ \A i \in 1..Len(a) + Len(b) : r[i] = IF i <= Len(a) THEN a[i] ELSE b[i - Len(a)]
  BY <1>1
<1> HIDE DEF r
<1>4. ASSUME NEW i \in 1..Len(a) PROVE r[i] = a[i]
  BY <1>2, <1>3
<1>5. ASSUME NEW i \in 1..Len(b) PROVE r[Len(a) + i] = b[i]
  <2>1. Len(a) + i \in 1..Len(a) + Len(b) /\ ~ (Len(a) + i <= Len(a)) /\ Len(a) + i - Len(a) = i
    BY <1>2
  <2>2. r[Len(a) + i] = b[Len(a) + i - Len(a)]
    BY <1>3, <2>1
  <2> QED
    BY <2>1, <2>2
<1>6. ASSUME NEW i \in 1..Len(r) PROVE i \in 1..Len(a) \/ \E j \in 1..Len(b) : i = Len(a) + j
  <2>1. i \in 1..Len(a) \/ (i - Len(a) \in 1..Len(b) /\ i = Len(a) + (i - Len(a)))
    BY <1>2, <1>3
  <2> QED
    BY <2>1
<1> QED
  BY <1>3, <1>4, <1>5, <1>6 DEF Joined, r

(* New addresses after the old ones keep the list without repetitions.     *)
LEMMA ListsJoin ==
  ASSUME NEW a \in Seq(Nat), NEW b \in Seq(Nat), IsInjective(a), IsInjective(b),
         ToSet(a) \cap ToSet(b) = {}, NEW r, r = a \o b
  PROVE  /\ r \in Seq(Nat) /\ IsInjective(r) /\ ToSet(r) = ToSet(a) \cup ToSet(b)
         /\ \A p, q : Before(a, p, q) => Before(r, p, q)
<1>0. a \o b \in Seq(Nat) /\ Joined(a, b, a \o b)
  BY ConcatIs, Zenon
<1>1. /\ r \in Seq(Nat) /\ Len(r) = Len(a) + Len(b)
      /\ \A i \in 1..Len(a) : r[i] = a[i]
      /\ \A i \in 1..Len(b) : r[Len(a) + i] = b[i]
      /\ \A i \in 1..Len(r) : i \in 1..Len(a) \/ \E j \in 1..Len(b) : i = Len(a) + j
  BY <1>0 DEF Joined
<1>2. /\ Len(a) \in Nat /\ Len(b) \in Nat
      /\ DOMAIN a = 1..Len(a) /\ DOMAIN b = 1..Len(b) /\ DOMAIN r = 1..Len(r)
  BY <1>1
<1>a. \A i \in 1..Len(a) : i \in 1..Len(r)
  BY <1>1, <1>2
<1>b. \A i \in 1..Len(b) : Len(a) + i \in 1..Len(r)
  BY <1>1, <1>2
<1>3. ToSet(r) = ToSet(a) \cup ToSet(b)
  <2>1. ASSUME NEW x \in ToSet(r) PROVE x \in ToSet(a) \cup ToSet(b)
    <3>1. PICK i \in 1..Len(r) : r[i] = x
      BY <1>2, <2>1 DEF ToSet
    <3>2. CASE i \in 1..Len(a)
      BY <1>1, <1>2, <3>1, <3>2 DEF ToSet
    <3>3. CASE \E j \in 1..Len(b) : i = Len(a) + j
      <4>1. PICK j \in 1..Len(b) : i = Len(a) + j
        BY <3>3
      <4>2. b[j] = x
        BY <1>1, <3>1, <4>1
      <4> QED
        BY <1>2, <4>2 DEF ToSet
    <3> QED
      BY <1>1, <3>2, <3>3
  <2>2. ASSUME NEW x \in ToSet(a) PROVE x \in ToSet(r)
    BY <1>1, <1>2, <1>a DEF ToSet
  <2>3. ASSUME NEW x \in ToSet(b) PROVE x \in ToSet(r)
    <3>1. PICK i \in 1..Len(b) : b[i] = x
      BY <1>2 DEF ToSet
    <3>2. r[Len(a) + i] = x
      BY <1>1, <3>1
    <3> QED
      BY <1>2, <1>b, <3>2 DEF ToSet
  <2> QED
    BY <2>1, <2>2, <2>3
<1>4. IsInjective(r)
  <2> SUFFICES ASSUME NEW i \in 1..Len(r), NEW j \in 1..Len(r), r[i] = r[j] PROVE i = j
    BY <1>2 DEF IsInjective
  <2>1. CASE i \in 1..Len(a) /\ j \in 1..Len(a)
    BY <1>1, <1>2, <2>1 DEF IsInjective
  <2>2. ASSUME NEW k \in 1..Len(b), NEW l \in 1..Len(b), i = Len(a) + k, j = Len(a) + l PROVE i = j
    <3>1. b[k] = b[l]
      BY <1>1, <2>2
    <3> QED
      BY <1>2, <2>2, <3>1 DEF IsInjective
  <2>3. ASSUME NEW k \in 1..Len(a), NEW l \in 1..Len(b) PROVE r[k] # r[Len(a) + l]
    <3>1. r[k] \in ToSet(a) /\ r[Len(a) + l] \in ToSet(b)
      BY <1>1, <1>2 DEF ToSet
    <3> QED
      BY <3>1
  <2> QED
    BY <1>1, <2>1, <2>2, <2>3, SMTT(30)
<1>5. ASSUME NEW p, NEW q, Before(a, p, q) PROVE Before(r, p, q)
  <2>1. PICK i \in 1..Len(a), j \in 1..Len(a) : i < j /\ a[i] = p /\ a[j] = q
    BY <1>2, <1>5 DEF Before
  <2> QED
    BY <1>1, <1>2, <1>a, <2>1 DEF Before
<1> QED
  BY <1>1, <1>3, <1>4, <1>5

(* One new address at the end keeps the order of the others.               *)
LEMMA ListsGrow ==
  ASSUME NEW l \in Seq(Nat), IsInjective(l), NEW x \in Nat, x \notin ToSet(l),
         NEW r, r = Append(l, x)
  PROVE  /\ r \in Seq(Nat) /\ IsInjective(r) /\ ToSet(r) = ToSet(l) \cup {x}
         /\ \A p, q : Before(l, p, q) => Before(r, p, q)
<1>1. /\ r \in Seq(Nat) /\ Len(r) = Len(l) + 1 /\ Len(l) \in Nat
      /\ DOMAIN l = 1..Len(l) /\ DOMAIN r = 1..Len(r)
      /\ r[Len(l) + 1] = x /\ \A i \in 1..Len(l) : r[i] = l[i]
  OBVIOUS
<1>2. \A i \in 1..Len(r) : i \in 1..Len(l) \/ i = Len(l) + 1
  BY <1>1
<1>3. \A i \in 1..Len(l) : i \in 1..Len(r) /\ l[i] # x
  BY <1>1 DEF ToSet
<1>4. ToSet(r) = ToSet(l) \cup {x}
  BY <1>1, <1>2, <1>3 DEF ToSet
<1>5. IsInjective(r)
  BY <1>1, <1>2, <1>3 DEF IsInjective
<1>6. \A p, q : Before(l, p, q) => Before(r, p, q)
  BY <1>1, <1>3 DEF Before
<1> QED
  BY <1>1, <1>4, <1>5, <1>6

-----------------------------------------------------------------------------
(***************************************************************************)
(* The objects of an action.                                               *)
(***************************************************************************)
Same(rec, other) ==
  /\ rec.id = other.id /\ rec.parentId = other.parentId
  /\ rec.title = other.title /\ rec.titleLC = other.titleLC /\ rec.folder = other.folder

ObjectsAre(ob, l) ==
  /\ ob \in Seq(ObjectRecord) /\ Len(ob) >= 1
  /\ l \in Seq(Nat) /\ IsInjective(l) /\ ToSet(l) \subseteq 2..Len(ob)
  /\ ob[Root].id = <<>> /\ ob[Root].titleLC = NoName /\ ob[Root].folder

OrderKept(l, r) ==
  \A p, q : p \in ToSet(r) /\ q \in ToSet(r) /\ Before(l, p, q) => Before(r, p, q)

Grown(ob, l, ob2, l2) ==
  /\ Len(ob) <= Len(ob2)
  /\ \A o \in 1..Len(ob) : Same(ob2[o], ob[o]) /\ (ob[o].listed => ob2[o].listed)
  /\ ToSet(l) \subseteq ToSet(l2)
  /\ \A o \in ToSet(l2) : o \in ToSet(l) \/ o > Len(ob)
  /\ OrderKept(l, l2)

(* To grow is a preorder.                                                  *)
LEMMA GrownIs ==
  ASSUME NEW ob, NEW l, ObjectsAre(ob, l)
  PROVE  /\ Grown(ob, l, ob, l)
         /\ \A ob2, l2, ob3, l3 :
              ObjectsAre(ob2, l2) /\ ObjectsAre(ob3, l3) /\ Grown(ob, l, ob2, l2) /\ Grown(ob2, l2, ob3, l3)
                => Grown(ob, l, ob3, l3)
<1>1. Grown(ob, l, ob, l)
  BY DEF Grown, Same, ObjectsAre, OrderKept
<1>2. ASSUME NEW ob2, NEW l2, NEW ob3, NEW l3, ObjectsAre(ob2, l2), ObjectsAre(ob3, l3),
             Grown(ob, l, ob2, l2), Grown(ob2, l2, ob3, l3)
      PROVE  Grown(ob, l, ob3, l3)
  <2>1. Len(ob) \in Nat /\ Len(ob2) \in Nat /\ Len(ob3) \in Nat
    BY <1>2 DEF ObjectsAre
  <2>2. Len(ob) <= Len(ob2) /\ Len(ob2) <= Len(ob3)
    BY <1>2 DEF Grown
  <2>3. \A o \in 1..Len(ob) : Same(ob3[o], ob[o]) /\ (ob[o].listed => ob3[o].listed)
    BY <1>2, <2>1, <2>2 DEF Grown, Same
  <2>4. ToSet(l) \subseteq ToSet(l2) /\ ToSet(l2) \subseteq ToSet(l3)
    BY <1>2 DEF Grown
  <2>5. \A o \in ToSet(l3) : o \in ToSet(l) \/ o > Len(ob)
    <3> TAKE o \in ToSet(l3)
    <3>1. o \in Nat
      BY <1>2 DEF ObjectsAre
    <3>2. o \in ToSet(l2) \/ o > Len(ob2)
      BY <1>2 DEF Grown
    <3>3. o \in ToSet(l2) => o \in ToSet(l) \/ o > Len(ob)
      BY <1>2 DEF Grown
    <3> QED
      BY <2>1, <2>2, <3>1, <3>2, <3>3
  <2>6. OrderKept(l, l3)
    <3> SUFFICES ASSUME NEW p, NEW q, p \in ToSet(l3), q \in ToSet(l3), Before(l, p, q)
                 PROVE  Before(l3, p, q)
      BY DEF OrderKept
    <3>1. p \in ToSet(l) /\ q \in ToSet(l)
      BY BeforeIsAnOrder DEF ObjectsAre
    <3> QED
      BY <1>2, <2>4, <3>1 DEF Grown, OrderKept
  <2> QED
    BY <2>1, <2>2, <2>3, <2>4, <2>5, <2>6 DEF Grown
<1> QED
  BY <1>1, <1>2

(* What an entry of a listing says of a node.                              *)
LEMMA EntryIs ==
  ASSUME pathIds \in BOOLEAN, NEW t, WellFormed(t, pathIds), NEW n \in DOMAIN t
  PROVE  /\ Entry(t, n) \in ObjectRecord
         /\ Entry(t, n).id = IdOf(t, pathIds, n)
         /\ Entry(t, n).parentId = IdOf(t, pathIds, t[n].parent)
         /\ Entry(t, n).title = t[n].name /\ Entry(t, n).titleLC = t[n].name
         /\ Entry(t, n).folder = t[n].folder /\ Entry(t, n).listed = FALSE
<1>1. n \in Nodes(t) /\ t[n].parent \in Nodes(t) /\ t[n].name \in Name /\ t[n].folder \in BOOLEAN
  BY TopIs
<1>2. IdOf(t, pathIds, n) \in Id /\ IdOf(t, pathIds, t[n].parent) \in Id
  BY <1>1, IdsAre
<1> QED
  BY <1>1, <1>2 DEF Entry, ObjectRecord, Titles

Nets == {"up", "down", "unheard", "refusing", "unparsed", "garbled"}
Walkers == [obj : Seq(ObjectRecord), list : Seq(Nat), ok : BOOLEAN, file : Nat, parent : Nat]

(* The entries of a folder come after the objects there are.               *)
Listed(st, s, o, got) ==
  /\ \A p \in 1..Len(st.obj) \ {o} : s.obj[p] = st.obj[p]
  /\ s.obj[o].listed = s.ok
  /\ \A i \in DOMAIN got : /\ Len(st.obj) + i \in ToSet(s.list)
                           /\ s.obj[Len(st.obj) + i] = Entry(tree, got[i])
  /\ \A p \in ToSet(s.list) :
       p \in ToSet(st.list) \/ \E i \in DOMAIN got : p = Len(st.obj) + i

(* The entries of an answer are added after the objects there are.         *)
LEMMA WithEntriesIs ==
  ASSUME pathIds \in BOOLEAN, WellFormed(tree, pathIds),
         NEW st \in Walkers, ObjectsAre(st.obj, st.list),
         NEW o \in {Root} \cup ToSet(st.list), ~ st.obj[o].listed,
         NEW got \in Seq(DOMAIN tree), NEW ok \in BOOLEAN,
         NEW s, s = WithEntries(st, o, got, ok)
  PROVE  /\ s \in Walkers /\ s.ok = ok /\ s.file = st.file /\ s.parent = st.parent
         /\ ObjectsAre(s.obj, s.list) /\ Grown(st.obj, st.list, s.obj, s.list)
         /\ Listed(st, s, o, got)
<1> DEFINE n == Len(st.obj)
           old == [st.obj EXCEPT ![o].listed = ok]
           new == [i \in DOMAIN got |-> Entry(tree, got[i])]
           at == [i \in DOMAIN got |-> n + i]
<1>1. /\ s.obj = old \o new /\ s.list = st.list \o at /\ s.ok = ok
      /\ s.file = st.file /\ s.parent = st.parent
      /\ s = [obj |-> s.obj, list |-> s.list, ok |-> s.ok, file |-> s.file, parent |-> s.parent]
  BY DEF WithEntries, Walkers
<1>2. /\ n \in Nat /\ n >= 1 /\ o \in 1..n /\ DOMAIN st.obj = 1..n
      /\ \A p \in ToSet(st.list) : p \in 1..n
      /\ \A p \in 1..n : st.obj[p] \in ObjectRecord
  BY DEF ObjectsAre, Root
<1>3. /\ old \in Seq(ObjectRecord) /\ Len(old) = n
      /\ \A p \in 1..n \ {o} : old[p] = st.obj[p]
      /\ Same(old[o], st.obj[o]) /\ old[o].listed = ok
  <2>1. /\ old = [p \in 1..n |-> IF p = o THEN [st.obj[o] EXCEPT !.listed = ok] ELSE st.obj[p]]
    BY <1>2 DEF Walkers
  <2>2. [st.obj[o] EXCEPT !.listed = ok] \in ObjectRecord
    BY <1>2 DEF ObjectRecord
  <2>3. Same([st.obj[o] EXCEPT !.listed = ok], st.obj[o]) /\ [st.obj[o] EXCEPT !.listed = ok].listed = ok
    BY <1>2 DEF ObjectRecord, Same
  <2> DEFINE changed == [st.obj[o] EXCEPT !.listed = ok]
  <2> HIDE DEF old, changed
  <2>4. old = [p \in 1..n |-> IF p = o THEN changed ELSE st.obj[p]] /\ changed \in ObjectRecord
    BY <2>1, <2>2 DEF changed
  <2>5. old \in Seq(ObjectRecord) /\ Len(old) = n
    BY <1>2, <2>4
  <2>6. old[o] = changed /\ \A p \in 1..n \ {o} : old[p] = st.obj[p]
    BY <1>2, <2>4
  <2> QED
    BY <2>3, <2>5, <2>6 DEF changed
<1>4. /\ new \in Seq(ObjectRecord) /\ Len(new) = Len(got) /\ DOMAIN got = 1..Len(got)
      /\ Len(got) \in Nat /\ \A i \in DOMAIN got : new[i] = Entry(tree, got[i])
  <2>1. \A m \in DOMAIN tree : Entry(tree, m) \in ObjectRecord
    BY EntryIs
  <2>2. \A i \in 1..Len(got) : got[i] \in DOMAIN tree
    OBVIOUS
  <2>3. \A i \in 1..Len(got) : Entry(tree, got[i]) \in ObjectRecord
    BY <2>1, <2>2
  <2> QED
    BY <2>3
<1>5. /\ at \in Seq(Nat) /\ Len(at) = Len(got) /\ IsInjective(at) /\ DOMAIN at = DOMAIN got
      /\ \A i \in DOMAIN got : at[i] = n + i
  <2>1. \A i \in DOMAIN got : n + i \in Nat /\ i \in Nat
    BY <1>2, <1>4
  <2>2. at \in Seq(Nat) /\ Len(at) = Len(got) /\ DOMAIN at = DOMAIN got
    BY <1>4, <2>1
  <2>3. \A i, j \in DOMAIN got : n + i = n + j => i = j
    BY <1>2, <2>1
  <2> QED
    BY <2>2, <2>3 DEF IsInjective
<1> HIDE DEF old, new, at
<1>6. s.obj \in Seq(ObjectRecord) /\ Joined(old, new, s.obj)
  <2>1. old \o new \in Seq(ObjectRecord) /\ Joined(old, new, old \o new)
    BY <1>3, <1>4, ConcatIs, Zenon
  <2> QED
    BY <1>1, <2>1
<1>7. /\ Len(s.obj) = n + Len(got) /\ \A p \in 1..n : s.obj[p] = old[p]
      /\ \A i \in DOMAIN got : s.obj[n + i] = Entry(tree, got[i])
  BY <1>3, <1>4, <1>6 DEF Joined
<1>8. \A x \in ToSet(at) : x > n /\ x \in Nat /\ \E i \in DOMAIN got : x = n + i
  BY <1>2, <1>4, <1>5 DEF ToSet
<1>9. /\ s.list \in Seq(Nat) /\ IsInjective(s.list) /\ ToSet(s.list) = ToSet(st.list) \cup ToSet(at)
      /\ \A p, q : Before(st.list, p, q) => Before(s.list, p, q)
  <2>1. ToSet(st.list) \cap ToSet(at) = {}
    BY <1>2, <1>8
  <2>2. st.list \in Seq(Nat) /\ IsInjective(st.list)
    BY DEF ObjectsAre
  <2> QED
    BY <1>1, <1>5, <2>1, <2>2, ListsJoin
<1>10. Same(s.obj[Root], st.obj[Root])
  BY <1>2, <1>3, <1>7 DEF Same, Root
<1>a. \A i \in DOMAIN got : n + i \in ToSet(at)
  BY <1>5 DEF ToSet
<1>b. ToSet(at) \subseteq 2..Len(s.obj) /\ n <= Len(s.obj)
  <2>1. \A i \in DOMAIN got : n + i \in 2..(n + Len(got))
    BY <1>2, <1>4
  <2> QED
    BY <1>2, <1>4, <1>7, <1>8, <2>1
<1>11. ObjectsAre(s.obj, s.list)
  <2>1. ToSet(st.list) \subseteq 2..Len(s.obj)
    BY <1>2, <1>4, <1>7 DEF ObjectsAre
  <2>2. Len(s.obj) >= 1
    BY <1>2, <1>4, <1>7
  <2> QED
    BY <1>6, <1>9, <1>10, <1>b, <2>1, <2>2 DEF ObjectsAre, Same
<1>12. Grown(st.obj, st.list, s.obj, s.list)
  <2>1. \A p \in 1..n : Same(s.obj[p], st.obj[p]) /\ (st.obj[p].listed => s.obj[p].listed)
    <3> TAKE p \in 1..n
    <3>1. CASE p = o
      BY <1>3, <1>7, <3>1
    <3>2. CASE p # o
      BY <1>3, <1>7, <3>2 DEF Same
    <3> QED
      BY <3>1, <3>2
  <2>2. OrderKept(st.list, s.list)
    BY <1>9 DEF OrderKept
  <2> QED
    BY <1>8, <1>9, <1>b, <2>1, <2>2 DEF Grown
<1>13. Listed(st, s, o, got)
  <2>1. s.obj[o].listed = s.ok /\ \A p \in 1..Len(st.obj) \ {o} : s.obj[p] = st.obj[p]
    BY <1>1, <1>2, <1>3, <1>7
  <2> QED
    BY <1>7, <1>8, <1>9, <1>a, <2>1 DEF Listed
<1>14. s \in Walkers
  BY <1>1, <1>6, <1>9 DEF Walkers
<1> QED
  BY <1>1, <1>11, <1>12, <1>13, <1>14

(* What arrives of a listing are entries of it; all of them when the       *)
(* service answers.                                                        *)
LEMMA DeliveredIs ==
  ASSUME NEW S, NEW entries \in Seq(S), NEW net \in Nets, NEW pages \in Nat, pathIds \in BOOLEAN
  PROVE  /\ Delivered(entries, net, pages) \in Seq(S)
         /\ net = "up" => Delivered(entries, net, pages) = entries
<1> DEFINE last == IF pages < Len(entries) THEN pages ELSE Len(entries)
           some == SubSeq(entries, 1, last)
<1>1. some \in Seq(S)
  <2>1. last \in Nat /\ last <= Len(entries) /\ Len(entries) \in Nat
    OBVIOUS
  <2> HIDE DEF last
  <2>2. \A i \in 1..last : entries[i] \in S
    BY <2>1
  <2> QED
    BY <2>1, <2>2, SubSeqProperties
<1>2. <<>> \in Seq(S)
  OBVIOUS
<1>3. Delivered(entries, net, pages) =
        CASE net = "up"                     -> entries
          [] net \in {"refusing"} \cup Page -> some
          [] net \in {"down", "unheard"}    -> IF pathIds THEN <<>> ELSE some
  BY DEF Delivered
<1> HIDE DEF some
<1> QED
  BY <1>1, <1>2, <1>3 DEF Nets, Page

(* Listing a folder adds nodes of the cloud, and when the service answers  *)
(* exactly its children.                                                   *)
LEMMA ListFolderIs ==
  ASSUME pathIds \in BOOLEAN, WellFormed(tree, pathIds),
         NEW st \in Walkers, ObjectsAre(st.obj, st.list),
         NEW o \in {Root} \cup ToSet(st.list), ~ st.obj[o].listed,
         NEW net \in Nets, NEW pages \in Nat,
         NEW s, s = ListFolder(st, o, net, pages)
  PROVE  /\ s \in Walkers /\ s.file = st.file /\ s.parent = st.parent
         /\ s.ok = ListSucceeds(st.obj[o].id, net)
         /\ ObjectsAre(s.obj, s.list) /\ Grown(st.obj, st.list, s.obj, s.list)
         /\ \E got \in Seq(DOMAIN tree) :
              /\ Listed(st, s, o, got)
              /\ net = "up" => IsInjective(got) /\ ToSet(got) = NodesListed(st.obj[o].id, o)
<1> DEFINE id == st.obj[o].id
           nodes == NodesListed(id, o)
           entries == SetToSeq(nodes)
           got == Delivered(entries, net, pages)
           ok == ListSucceeds(id, net)
<1>1. s = WithEntries(st, o, got, ok)
  BY DEF ListFolder
<1>2. nodes \subseteq DOMAIN tree
  BY DEF NodesListed, Children
<1>3. IsFiniteSet(nodes)
  <2>1. IsFiniteSet(1..MaxNodes)
    BY FS_Interval, NodesAssumption
  <2> QED
    BY <1>2, <2>1, FS_Subset DEF WellFormed
<1> HIDE DEF nodes
<1>4. entries \in Seq(nodes) /\ ToSet(entries) = nodes /\ IsInjective(entries)
  BY <1>3, SetToSeqIs
<1> HIDE DEF entries
<1>5. entries \in Seq(DOMAIN tree)
  BY <1>2, <1>4
<1>6. got \in Seq(DOMAIN tree) /\ (net = "up" => got = entries)
  BY <1>5, DeliveredIs
<1> HIDE DEF got
<1>7. ok \in BOOLEAN
  BY DEF ListSucceeds
<1> HIDE DEF ok
<1>8. /\ s \in Walkers /\ s.ok = ok /\ s.file = st.file /\ s.parent = st.parent
      /\ ObjectsAre(s.obj, s.list) /\ Grown(st.obj, st.list, s.obj, s.list)
      /\ Listed(st, s, o, got)
  BY <1>1, <1>6, <1>7, WithEntriesIs
<1> QED
  BY <1>4, <1>6, <1>8 DEF ok, nodes

(* __checkFolder lists a folder or changes nothing.                        *)
LEMMA CheckFolderIs ==
  ASSUME pathIds \in BOOLEAN, WellFormed(tree, pathIds),
         NEW st \in Walkers, ObjectsAre(st.obj, st.list),
         NEW o \in {Root} \cup ToSet(st.list), NEW net \in Nets, NEW pages \in Nat,
         NEW s, s = CheckFolder(st, o, net, pages)
  PROVE  /\ s \in Walkers /\ s.file = st.file /\ s.parent = st.parent
         /\ ObjectsAre(s.obj, s.list) /\ Grown(st.obj, st.list, s.obj, s.list)
<1>1. CASE st.obj[o].folder /\ ~ st.obj[o].listed
  BY <1>1, ListFolderIs DEF CheckFolder
<1>2. CASE ~ (st.obj[o].folder /\ ~ st.obj[o].listed)
  BY <1>2, GrownIs DEF CheckFolder
<1> QED
  BY <1>1, <1>2

(***************************************************************************)
(* What makes the objects a copy of the cloud.                             *)
(***************************************************************************)
Known(ob, o) == ob[o].titleLC # NoName
Settled(ob, q) == (q = Root \/ Known(ob, q)) /\ (ob[q].folder => ob[q].listed)

KnownAreReal(t, ob, l) ==
  \A o \in ToSet(l) : Known(ob, o) => \E n \in DOMAIN t : Same(ob[o], Entry(t, n))
KnownOnce(ob, l) ==
  \A o, p \in ToSet(l) : Known(ob, o) /\ Known(ob, p) /\ ob[o].id = ob[p].id => o = p
ListedAreWhole(t, ob, l) ==
  \A q \in {Root} \cup ToSet(l), m \in DOMAIN t :
    ob[q].folder /\ ob[q].listed /\ ob[q].id = IdOf(t, pathIds, t[m].parent) =>
      \E p \in ToSet(l) : Known(ob, p) /\ ob[p].id = IdOf(t, pathIds, m)
FoldersAreSettled(ob, l) ==
  \A p \in ToSet(l) : \E q \in {Root} \cup ToSet(l) :
    Settled(ob, q) /\ ob[q].id = ob[p].parentId
UnknownAreFiles(ob, l) ==
  \A o \in ToSet(l) : ~ Known(ob, o) => ~ ob[o].folder /\ ob[o].id = <<>>

Faithful(t, ob, l) ==
  /\ KnownAreReal(t, ob, l) /\ KnownOnce(ob, l)
  /\ ListedAreWhole(t, ob, l) /\ FoldersAreSettled(ob, l)

(* An object with a name is that of the node with its id.                  *)
LEMMA KnownIs ==
  ASSUME pathIds \in BOOLEAN, NEW t, WellFormed(t, pathIds),
         NEW ob, NEW l, ObjectsAre(ob, l), KnownAreReal(t, ob, l),
         NEW o \in ToSet(l), Known(ob, o)
  PROVE  \E n \in DOMAIN t :
           /\ n = NodeWithId(t, pathIds, ob[o].id)
           /\ ob[o].id = IdOf(t, pathIds, n) /\ ob[o].id # <<>>
           /\ ob[o].parentId = IdOf(t, pathIds, t[n].parent)
           /\ ob[o].title = t[n].name /\ ob[o].titleLC = t[n].name /\ ob[o].folder = t[n].folder
<1>1. PICK n \in DOMAIN t : Same(ob[o], Entry(t, n))
  BY DEF KnownAreReal
<1>2. /\ ob[o].id = IdOf(t, pathIds, n)
      /\ ob[o].parentId = IdOf(t, pathIds, t[n].parent)
      /\ ob[o].title = t[n].name /\ ob[o].titleLC = t[n].name /\ ob[o].folder = t[n].folder
  BY <1>1, EntryIs DEF Same
<1>3. IdOf(t, pathIds, n) # <<>> /\ n = NodeWithId(t, pathIds, IdOf(t, pathIds, n))
  BY IdsAre, NodeWithIdIs, TopIs
<1> QED
  BY <1>2, <1>3

(* The folder an object names as its parent is one object.                 *)
LEMMA FolderIsOne ==
  ASSUME pathIds \in BOOLEAN, NEW t, WellFormed(t, pathIds),
         NEW ob, NEW l, ObjectsAre(ob, l), KnownAreReal(t, ob, l), KnownOnce(ob, l),
         NEW q \in {Root} \cup ToSet(l), NEW r \in {Root} \cup ToSet(l),
         q = Root \/ Known(ob, q), r = Root \/ Known(ob, r), ob[q].id = ob[r].id
  PROVE  q = r
<1>1. ob[Root].id = <<>>
  BY DEF ObjectsAre
<1>2. \A o \in ToSet(l) : Known(ob, o) => ob[o].id # <<>>
  BY KnownIs
<1> QED
  BY <1>1, <1>2 DEF KnownOnce

(* Listing a folder for the first time keeps the copy true, as long as the *)
(* service answers.                                                        *)
LEMMA ListFolderMirrors ==
  ASSUME pathIds \in BOOLEAN, WellFormed(tree, pathIds),
         NEW st \in Walkers, ObjectsAre(st.obj, st.list),
         Faithful(tree, st.obj, st.list), UnknownAreFiles(st.obj, st.list),
         NEW o \in {Root} \cup ToSet(st.list), o = Root \/ Known(st.obj, o),
         st.obj[o].folder, ~ st.obj[o].listed,
         NEW pages \in Nat, NEW s, s = ListFolder(st, o, "up", pages)
  PROVE  /\ Faithful(tree, s.obj, s.list) /\ UnknownAreFiles(s.obj, s.list)
         /\ Settled(s.obj, o) /\ s.ok
<1> DEFINE id == st.obj[o].id
           n == Len(st.obj)
<1>0. /\ s \in Walkers /\ s.ok = ListSucceeds(id, "up")
      /\ ObjectsAre(s.obj, s.list) /\ Grown(st.obj, st.list, s.obj, s.list)
      /\ \E got \in Seq(DOMAIN tree) :
           Listed(st, s, o, got) /\ IsInjective(got) /\ ToSet(got) = NodesListed(id, o)
  <2> DEFINE net == "up"
  <2>1. net \in Nets /\ net = "up"
    BY DEF Nets
  <2>2. s = ListFolder(st, o, net, pages)
    OBVIOUS
  <2> HIDE DEF net
  <2>3. /\ s \in Walkers /\ s.ok = ListSucceeds(st.obj[o].id, net)
        /\ ObjectsAre(s.obj, s.list) /\ Grown(st.obj, st.list, s.obj, s.list)
        /\ \E got \in Seq(DOMAIN tree) :
             /\ Listed(st, s, o, got)
             /\ net = "up" => IsInjective(got) /\ ToSet(got) = NodesListed(st.obj[o].id, o)
    BY <2>1, <2>2, ListFolderIs
  <2> QED
    BY <2>1, <2>3
<1>1. /\ s \in Walkers /\ s.ok = ListSucceeds(id, "up")
      /\ ObjectsAre(s.obj, s.list) /\ Grown(st.obj, st.list, s.obj, s.list)
  BY <1>0
<1>2. PICK got \in Seq(DOMAIN tree) :
        Listed(st, s, o, got) /\ IsInjective(got) /\ ToSet(got) = NodesListed(id, o)
  BY <1>0
<1>3. PICK k \in Nodes(tree) : id = IdOf(tree, pathIds, k) /\ (o # Root => id # <<>>)
  <2>1. CASE o = Root
    BY <2>1, IdsAre, TopIs DEF ObjectsAre
  <2>2. CASE o # Root
    BY <2>2, KnownIs, TopIs DEF Faithful
  <2> QED
    BY <2>1, <2>2
<1>4. Node(id) = k
  BY <1>3, NodeWithIdIs DEF Node
<1>5. NodesListed(id, o) = {m \in DOMAIN tree : tree[m].parent = k}
  BY <1>3, <1>4 DEF NodesListed, Children
<1>6. s.ok
  BY <1>1, <1>3, <1>4, TopIs DEF ListSucceeds, Page
<1>7. \A m \in DOMAIN tree : m \in ToSet(got) <=> IdOf(tree, pathIds, tree[m].parent) = id
  BY <1>2, <1>3, <1>5, IdsAre, TopIs
<1>a. DOMAIN got = 1..Len(got) /\ Len(got) \in Nat /\ n \in Nat /\ n >= 1
  BY DEF ObjectsAre
<1>b. /\ o \in 1..n /\ \A p \in {Root} \cup ToSet(st.list) : p \in 1..n
  BY <1>a DEF ObjectsAre, Root
<1>8. \A p \in 1..n : Same(s.obj[p], st.obj[p]) /\ (p # o => s.obj[p] = st.obj[p])
  BY <1>1, <1>2 DEF Grown, Listed
<1>9. \A p \in ToSet(s.list) : p \in ToSet(st.list) \/ \E i \in DOMAIN got : p = n + i
  BY <1>2 DEF Listed
<1>c. \A m \in DOMAIN tree : /\ Entry(tree, m).id = IdOf(tree, pathIds, m)
                             /\ Entry(tree, m).parentId = IdOf(tree, pathIds, tree[m].parent)
                             /\ Entry(tree, m).titleLC \in Name /\ Entry(tree, m).listed = FALSE
  <2> TAKE m \in DOMAIN tree
  <2>1. tree[m].name \in Name
    BY TopIs
  <2>2. /\ Entry(tree, m).id = IdOf(tree, pathIds, m)
        /\ Entry(tree, m).parentId = IdOf(tree, pathIds, tree[m].parent)
        /\ Entry(tree, m).titleLC = tree[m].name /\ Entry(tree, m).listed = FALSE
    BY EntryIs
  <2> QED
    BY <2>1, <2>2
<1>d. \A m, j \in DOMAIN tree : IdOf(tree, pathIds, m) = IdOf(tree, pathIds, j) => m = j
  BY IdsAre, TopIs
<1>10. ASSUME NEW i \in DOMAIN got
       PROVE  /\ got[i] \in DOMAIN tree /\ n + i \in ToSet(s.list) /\ n + i \notin 1..n
              /\ s.obj[n + i] = Entry(tree, got[i]) /\ Known(s.obj, n + i)
              /\ s.obj[n + i].id = IdOf(tree, pathIds, got[i]) /\ s.obj[n + i].parentId = id
  <2>1. got[i] \in DOMAIN tree /\ got[i] \in ToSet(got) /\ n + i \notin 1..n
    BY <1>a DEF ToSet
  <2>2. n + i \in ToSet(s.list) /\ s.obj[n + i] = Entry(tree, got[i])
    BY <1>2 DEF Listed
  <2>3. /\ Entry(tree, got[i]).id = IdOf(tree, pathIds, got[i])
        /\ Entry(tree, got[i]).parentId = id
        /\ Entry(tree, got[i]).titleLC \in Name
    BY <1>7, <1>c, <2>1
  <2> QED
    BY <2>1, <2>2, <2>3, NamesAssumption DEF Known
(* Nothing of the folder is there before it is listed.                     *)
<1>11. ASSUME NEW p \in ToSet(st.list), Known(st.obj, p), NEW i \in DOMAIN got
       PROVE  st.obj[p].id # IdOf(tree, pathIds, got[i])
  <2> SUFFICES ASSUME st.obj[p].id = IdOf(tree, pathIds, got[i]) PROVE FALSE
    OBVIOUS
  <2>1. PICK m \in DOMAIN tree : /\ st.obj[p].id = IdOf(tree, pathIds, m)
                                 /\ st.obj[p].parentId = IdOf(tree, pathIds, tree[m].parent)
    BY <1>11, KnownIs DEF Faithful
  <2>2. m = got[i]
    BY <1>10, <1>d, <2>1
  <2>3. st.obj[p].parentId = id
    BY <1>7, <2>1, <2>2 DEF ToSet
  <2>4. PICK q \in {Root} \cup ToSet(st.list) : Settled(st.obj, q) /\ st.obj[q].id = id
    BY <2>3 DEF Faithful, FoldersAreSettled
  <2>5. q = o
    BY <2>4, FolderIsOne DEF Faithful, Settled
  <2> QED
    BY <2>4, <2>5 DEF Settled
<1>12. KnownAreReal(tree, s.obj, s.list)
  <2> SUFFICES ASSUME NEW p \in ToSet(s.list), Known(s.obj, p)
               PROVE  \E m \in DOMAIN tree : Same(s.obj[p], Entry(tree, m))
    BY DEF KnownAreReal
  <2>1. CASE p \in ToSet(st.list)
    <3>1. Same(s.obj[p], st.obj[p])
      BY <1>b, <1>8, <2>1
    <3>2. PICK m \in DOMAIN tree : Same(st.obj[p], Entry(tree, m))
      BY <2>1, <3>1 DEF Faithful, KnownAreReal, Known, Same
    <3> QED
      BY <3>1, <3>2 DEF Same
  <2>2. ASSUME NEW i \in DOMAIN got, p = n + i PROVE \E m \in DOMAIN tree : Same(s.obj[p], Entry(tree, m))
    BY <1>10, <2>2 DEF Same
  <2> QED
    BY <1>9, <2>1, <2>2
<1>13. KnownOnce(s.obj, s.list)
  <2> SUFFICES ASSUME NEW p \in ToSet(s.list), NEW q \in ToSet(s.list),
                      Known(s.obj, p), Known(s.obj, q), s.obj[p].id = s.obj[q].id
               PROVE  p = q
    BY DEF KnownOnce
  <2>1. \A r \in ToSet(st.list) : Known(s.obj, r) => Known(st.obj, r) /\ s.obj[r].id = st.obj[r].id
    BY <1>b, <1>8 DEF Same, Known
  <2>2. CASE p \in ToSet(st.list) /\ q \in ToSet(st.list)
    BY <2>1, <2>2 DEF Faithful, KnownOnce
  <2>3. CASE p \in ToSet(st.list) /\ \E i \in DOMAIN got : q = n + i
    BY <1>10, <1>11, <2>1, <2>3, SMTT(30)
  <2>4. CASE q \in ToSet(st.list) /\ \E i \in DOMAIN got : p = n + i
    BY <1>10, <1>11, <2>1, <2>4
  <2>5. ASSUME NEW i \in DOMAIN got, NEW j \in DOMAIN got, p = n + i, q = n + j PROVE p = q
    <3>1. got[i] = got[j]
      BY <1>10, <1>d, <2>5
    <3> QED
      BY <1>2, <2>5, <3>1 DEF IsInjective
  <2> QED
    BY <1>9, <2>2, <2>3, <2>4, <2>5
<1>14. ListedAreWhole(tree, s.obj, s.list)
  <2> SUFFICES ASSUME NEW q \in {Root} \cup ToSet(s.list), NEW m \in DOMAIN tree,
                      s.obj[q].folder, s.obj[q].listed,
                      s.obj[q].id = IdOf(tree, pathIds, tree[m].parent)
               PROVE  \E p \in ToSet(s.list) :
                        Known(s.obj, p) /\ s.obj[p].id = IdOf(tree, pathIds, m)
    BY DEF ListedAreWhole
  <2>1. CASE q = o
    <3>1. m \in ToSet(got)
      BY <1>7, <1>8, <1>b, <2>1 DEF Same
    <3>2. PICK i \in DOMAIN got : got[i] = m
      BY <3>1 DEF ToSet
    <3> QED
      BY <1>10, <3>2
  <2>2. CASE q # o /\ q \in {Root} \cup ToSet(st.list)
    <3>1. s.obj[q] = st.obj[q]
      BY <1>8, <1>b, <2>2
    <3>2. PICK p \in ToSet(st.list) : Known(st.obj, p) /\ st.obj[p].id = IdOf(tree, pathIds, m)
      BY <2>2, <3>1 DEF Faithful, ListedAreWhole
    <3>3. p \in ToSet(s.list) /\ Same(s.obj[p], st.obj[p])
      BY <1>1, <1>8, <1>b DEF Grown
    <3> QED
      BY <3>2, <3>3 DEF Same, Known
  <2>3. ASSUME NEW i \in DOMAIN got, q = n + i PROVE FALSE
    BY <1>10, <1>c, <2>3
  <2> QED
    BY <1>9, <2>1, <2>2, <2>3
<1>15. Settled(s.obj, o)
  BY <1>2, <1>6, <1>8, <1>b DEF Settled, Listed, Known, Same
<1>16. FoldersAreSettled(s.obj, s.list)
  <2> SUFFICES ASSUME NEW p \in ToSet(s.list)
               PROVE  \E q \in {Root} \cup ToSet(s.list) : Settled(s.obj, q) /\ s.obj[q].id = s.obj[p].parentId
    BY DEF FoldersAreSettled
  <2>1. CASE p \in ToSet(st.list)
    <3>1. PICK q \in {Root} \cup ToSet(st.list) : Settled(st.obj, q) /\ st.obj[q].id = st.obj[p].parentId
      BY <2>1 DEF Faithful, FoldersAreSettled
    <3>2. Settled(s.obj, q)
      BY <1>8, <1>b, <1>15, <3>1 DEF Settled, Known
    <3>3. s.obj[q].id = st.obj[q].id /\ s.obj[p].parentId = st.obj[p].parentId
      BY <1>8, <1>b, <2>1 DEF Same
    <3>4. q \in {Root} \cup ToSet(s.list)
      BY <1>1 DEF Grown
    <3> QED
      BY <3>1, <3>2, <3>3, <3>4
  <2>2. ASSUME NEW i \in DOMAIN got, p = n + i
        PROVE  o \in {Root} \cup ToSet(s.list) /\ s.obj[o].id = s.obj[p].parentId
    BY <1>1, <1>8, <1>10, <1>b, <2>2 DEF Grown, Same
  <2> QED
    BY <1>9, <1>15, <2>1, <2>2
<1>17. UnknownAreFiles(s.obj, s.list)
  <2> SUFFICES ASSUME NEW p \in ToSet(s.list), ~ Known(s.obj, p)
               PROVE  ~ s.obj[p].folder /\ s.obj[p].id = <<>>
    BY DEF UnknownAreFiles
  <2>1. p \in ToSet(st.list)
    BY <1>9, <1>10
  <2> QED
    BY <1>8, <1>b, <2>1 DEF UnknownAreFiles, Same, Known
<1> QED
  BY <1>6, <1>12, <1>13, <1>14, <1>15, <1>16, <1>17 DEF Faithful

(* ... and so does __checkFolder, which leaves the folder settled.         *)
LEMMA CheckFolderMirrors ==
  ASSUME pathIds \in BOOLEAN, WellFormed(tree, pathIds),
         NEW st \in Walkers, ObjectsAre(st.obj, st.list), st.ok,
         Faithful(tree, st.obj, st.list), UnknownAreFiles(st.obj, st.list),
         NEW o \in {Root} \cup ToSet(st.list), o = Root \/ Known(st.obj, o),
         NEW pages \in Nat, NEW s, s = CheckFolder(st, o, "up", pages)
  PROVE  /\ Faithful(tree, s.obj, s.list) /\ UnknownAreFiles(s.obj, s.list)
         /\ Settled(s.obj, o) /\ s.ok
<1>1. CASE st.obj[o].folder /\ ~ st.obj[o].listed
  BY <1>1, ListFolderMirrors DEF CheckFolder
<1>2. CASE ~ (st.obj[o].folder /\ ~ st.obj[o].listed)
  BY <1>2 DEF CheckFolder, Settled
<1> QED
  BY <1>1, <1>2

(***************************************************************************)
(* The walk of __getObject.                                                *)
(***************************************************************************)
Walking(st, s) ==
  /\ s \in Walkers /\ ObjectsAre(s.obj, s.list) /\ Grown(st.obj, st.list, s.obj, s.list)
  /\ s.file \in {Null, Root} \cup ToSet(s.list)
  /\ s.parent \in {Root} \cup ToSet(s.list)

Clear(s) ==
  /\ s.ok /\ Faithful(tree, s.obj, s.list) /\ UnknownAreFiles(s.obj, s.list)
  /\ s.file # Null => s.parent = s.file
  /\ s.parent = Root \/ Known(s.obj, s.parent)
  /\ s.file = Null => Settled(s.obj, s.parent)

(* Neither Null nor the root is in the list.                               *)
LEMMA NullIsNoObject ==
  ASSUME NEW ob, NEW l, ObjectsAre(ob, l)
  PROVE  Null \notin ToSet(l) /\ Root \notin ToSet(l) /\ Null # Root
BY DEF ObjectsAre, Null, Root

(* The parent of an object is an object, and one with a name if this one   *)
(* has.                                                                    *)
LEMMA ParentOfIs ==
  ASSUME NEW s \in Walkers, ObjectsAre(s.obj, s.list),
         NEW o \in {Root} \cup ToSet(s.list), NEW p, p = ParentOf(s, o)
  PROVE  /\ p \in {Root} \cup ToSet(s.list)
         /\ UnknownAreFiles(s.obj, s.list) /\ (o = Root \/ Known(s.obj, o)) =>
              p = Root \/ Known(s.obj, p)
<1> DEFINE wanted == {q \in ToSet(s.list) : s.obj[q].id = s.obj[o].parentId}
           found == FirstOf(s.list, wanted)
<1>1. CASE o = Root \/ s.obj[o].parentId = <<>>
  BY <1>1 DEF ParentOf
<1>2. CASE ~ (o = Root \/ s.obj[o].parentId = <<>>)
  <2>1. p = IF found = Null THEN o ELSE found
    BY <1>2 DEF ParentOf
  <2>2. Null \notin ToSet(s.list) /\ s.list \in Seq(Nat)
    BY NullIsNoObject DEF ObjectsAre
  <2>3. found = Null \/ (found \in ToSet(s.list) /\ found \in wanted)
    <3> HIDE DEF wanted
    <3> QED
      BY <2>2, FirstOfIs
  <2> HIDE DEF found
  <2> QED
    BY <1>2, <2>1, <2>3 DEF UnknownAreFiles
<1> QED
  BY <1>1, <1>2

(* A component that is found is in the list and has that name.             *)
LEMMA NamedIs ==
  ASSUME NEW s \in Walkers, ObjectsAre(s.obj, s.list), NEW part,
         NEW o, o = Named(s, part)
  PROVE  o = Null \/ (o \in ToSet(s.list) /\ s.obj[o].titleLC = part)
<1> DEFINE wanted == {q \in InFolder(s, s.obj[s.parent].id) : s.obj[q].titleLC = part}
<1>1. o = FirstOf(s.list, wanted)
  BY DEF Named
<1>2. Null \notin ToSet(s.list) /\ s.list \in Seq(Nat)
  BY NullIsNoObject DEF ObjectsAre
<1>3. o = Null \/ (o \in ToSet(s.list) /\ o \in wanted)
  <2> HIDE DEF wanted
  <2> QED
    BY <1>1, <1>2, FirstOfIs
<1> QED
  BY <1>3

(* The walk goes on from the object it has found.                          *)
LEMMA GotoIs ==
  ASSUME NEW st, NEW s, s \in Walkers, ObjectsAre(s.obj, s.list),
         Grown(st.obj, st.list, s.obj, s.list), s.parent \in {Root} \cup ToSet(s.list),
         NEW o \in {Null, Root} \cup ToSet(s.list), NEW r, r = Goto(s, o)
  PROVE  /\ Walking(st, r) /\ r.file = o /\ r.obj = s.obj /\ r.list = s.list /\ r.ok = s.ok
         /\ r.parent = IF o = Null THEN s.parent ELSE o
<1>1. s.list \in Seq(Nat) /\ Null \in Nat /\ o \in Nat
  <2>1. \A p \in ToSet(s.list) : p \in Nat
    BY DEF ObjectsAre
  <2> QED
    BY <2>1 DEF Null, Root, ObjectsAre
<1>2. /\ r \in Walkers /\ r.file = o /\ r.obj = s.obj /\ r.list = s.list /\ r.ok = s.ok
      /\ r.parent = IF o = Null THEN s.parent ELSE o
  BY <1>1 DEF Goto, Walkers
<1> QED
  BY <1>2 DEF Walking

(* A step of the walk only adds objects, and keeps the copy true as long   *)
(* as the service answers.                                                 *)
LEMMA StepIs ==
  ASSUME pathIds \in BOOLEAN, WellFormed(tree, pathIds),
         NEW st, ObjectsAre(st.obj, st.list), NEW s, Walking(st, s),
         NEW part \in Name \cup {Up}, NEW net \in Nets, NEW pages \in Nat,
         NEW r, r = Step(s, part, net, pages)
  PROVE  /\ Walking(st, r)
         /\ part \in Name => r.file = Null \/ (r.file \in ToSet(r.list) /\ r.obj[r.file].titleLC = part)
         /\ net = "up" /\ Clear(s) => Clear(r)
<1>0. /\ s \in Walkers /\ ObjectsAre(s.obj, s.list) /\ Grown(st.obj, st.list, s.obj, s.list)
      /\ s.file \in {Null, Root} \cup ToSet(s.list) /\ s.parent \in {Root} \cup ToSet(s.list)
      /\ Null # Root /\ Null \notin ToSet(s.list)
  BY NullIsNoObject DEF Walking
<1>1. CASE s.file = Null
  BY <1>1 DEF Step
<1>2. CASE s.file # Null /\ part = Up
  <2> DEFINE p == ParentOf(s, s.file)
  <2>1. r = Goto(s, p)
    BY <1>2 DEF Step
  <2>2. /\ p \in {Root} \cup ToSet(s.list)
        /\ UnknownAreFiles(s.obj, s.list) /\ (s.file = Root \/ Known(s.obj, s.file)) =>
             p = Root \/ Known(s.obj, p)
    BY <1>0, <1>2, ParentOfIs
  <2> HIDE DEF p
  <2>3. /\ Walking(st, r) /\ r.file = p /\ r.obj = s.obj /\ r.list = s.list /\ r.ok = s.ok
        /\ r.parent = p
    BY <1>0, <2>1, <2>2, GotoIs
  <2>4. Clear(s) => Clear(r)
    BY <1>0, <1>2, <2>2, <2>3 DEF Clear
  <2> QED
    BY <1>2, <2>3, <2>4, NamesAssumption
<1>3. CASE s.file # Null /\ part # Up
  <2> DEFINE c == CheckFolder(s, s.file, net, pages)
             o == Named(c, part)
  <2>1. r = Enter(c, part)
    BY <1>3 DEF Step
  <2>2. /\ c \in Walkers /\ c.file = s.file /\ c.parent = s.parent
        /\ ObjectsAre(c.obj, c.list) /\ Grown(s.obj, s.list, c.obj, c.list)
    BY <1>0, <1>3, CheckFolderIs
  <2>3. /\ Grown(st.obj, st.list, c.obj, c.list)
        /\ \A p \in {Root} \cup ToSet(s.list) : p \in {Root} \cup ToSet(c.list)
    BY <1>0, <2>2, GrownIs DEF Grown
  <2>4. Clear(s) /\ net = "up" =>
          /\ Faithful(tree, c.obj, c.list) /\ UnknownAreFiles(c.obj, c.list)
          /\ Settled(c.obj, s.file) /\ c.ok
    BY <1>0, <1>3, CheckFolderMirrors DEF Clear
  <2> HIDE DEF c
  <2>5. CASE ~ c.ok
    <3>1. r = [c EXCEPT !.file = Null]
      BY <2>1, <2>5 DEF Enter, IfListed
    <3>2. /\ r \in Walkers /\ r.file = Null /\ r.obj = c.obj /\ r.list = c.list
          /\ r.parent = c.parent
      BY <2>2, <3>1 DEF Walkers, Null
    <3>3. Walking(st, r)
      BY <1>0, <2>2, <2>3, <3>2 DEF Walking
    <3> QED
      BY <2>4, <2>5, <3>2, <3>3
  <2>6. CASE c.ok
    <3>1. r = Goto(c, o)
      BY <2>1, <2>6 DEF Enter
    <3>2. o = Null \/ (o \in ToSet(c.list) /\ c.obj[o].titleLC = part)
      BY <2>2, NamedIs
    <3> HIDE DEF o
    <3>3. c.parent \in {Root} \cup ToSet(c.list)
      BY <1>0, <2>2, <2>3
    <3>4. /\ Walking(st, r) /\ r.file = o /\ r.obj = c.obj /\ r.list = c.list /\ r.ok = c.ok
          /\ r.parent = IF o = Null THEN c.parent ELSE o
      BY <2>2, <2>3, <3>1, <3>2, <3>3, GotoIs
    <3>5. ASSUME net = "up", Clear(s) PROVE Clear(r)
      <4>1. CASE o = Null
        <5>1. r.parent = s.file
          BY <1>3, <2>2, <3>4, <3>5, <4>1 DEF Clear
        <5> QED
          BY <2>4, <3>4, <3>5, <4>1, <5>1 DEF Clear, Settled
      <4>2. CASE o # Null
        <5>1. Known(r.obj, o)
          BY <1>3, <3>2, <3>4, <4>2, NamesAssumption DEF Known
        <5> QED
          BY <2>4, <3>4, <3>5, <4>2, <5>1 DEF Clear
      <4> QED
        BY <4>1, <4>2
    <3> QED
      BY <3>2, <3>4, <3>5
  <2> QED
    BY <2>5, <2>6
<1> QED
  BY <1>1, <1>2, <1>3

(* What holds where a walk begins, and after a step when it does before it,*)
(* holds where it arrives.                                                 *)
LEMMA WalkIs ==
  ASSUME NEW st, NEW base, NEW path, NEW net, NEW pages, Len(path) \in Nat,
         NEW S, Goto([st EXCEPT !.ok = TRUE], base) \in S,
         \A s \in S, i \in 1..Len(path) : Step(s, path[i], net, pages) \in S
  PROVE  \E s \in S :
           /\ GetObject(st, base, path, net, pages) = Arrive(s, net, pages)
           /\ Len(path) > 0 => \E r \in S : s = Step(r, path[Len(path)], net, pages)
<1> DEFINE b == Goto([st EXCEPT !.ok = TRUE], base)
           Walk(m, f) ==
             f = [i \in 0..m |-> IF i = 0 THEN b ELSE Step(f[i - 1], path[i], net, pages)]
           reached == {m \in Nat : \E f : Walk(m, f)}
<1>1. Nat \subseteq reached
  <2>1. 0 \in reached
    <3>1. Walk(0, [i \in 0..0 |-> b])
      OBVIOUS
    <3> QED
      BY <3>1
  <2>2. ASSUME NEW m \in Nat, m \in reached PROVE m + 1 \in reached
    <3>1. PICK f : Walk(m, f)
      BY <2>2
    <3> DEFINE g == [i \in 0..(m + 1) |-> IF i <= m THEN f[i] ELSE Step(f[m], path[m + 1], net, pages)]
    <3> HIDE DEF b
    <3>2. \A i \in 0..m : f[i] = IF i = 0 THEN b ELSE Step(f[i - 1], path[i], net, pages)
      BY <3>1
    <3>3. \A i \in 0..(m + 1) : g[i] = IF i = 0 THEN b ELSE Step(g[i - 1], path[i], net, pages)
      BY <3>2
    <3>4. Walk(m + 1, g)
      BY <3>3
    <3> HIDE DEF g
    <3> QED
      BY <3>4, SMTT(30)
  <2> HIDE DEF reached
  <2> QED
    BY <2>1, <2>2, NaturalsAreReached
<1> DEFINE walk == CHOOSE f : Walk(Len(path), f)
<1>2. Walk(Len(path), walk)
  <2>1. \E f : Walk(Len(path), f)
    BY <1>1
  <2> HIDE DEF Walk
  <2> QED
    BY <2>1
<1>3. GetObject(st, base, path, net, pages) = Arrive(walk[Len(path)], net, pages)
  BY DEF GetObject
<1> HIDE DEF walk, b
<1>4. /\ walk[0] = b
      /\ \A i \in 1..Len(path) : walk[i] = Step(walk[i - 1], path[i], net, pages)
  BY <1>2
<1> DEFINE fine == {i \in Nat : i <= Len(path) => walk[i] \in S}
<1>5. Nat \subseteq fine
  <2>1. 0 \in fine
    BY <1>4 DEF b
  <2>2. ASSUME NEW i \in Nat, i \in fine PROVE i + 1 \in fine
    <3> SUFFICES ASSUME i + 1 <= Len(path) PROVE walk[i + 1] \in S
      OBVIOUS
    <3>1. walk[i] \in S /\ i + 1 \in 1..Len(path) /\ i + 1 - 1 = i
      BY <2>2
    <3>2. walk[i + 1] = Step(walk[i + 1 - 1], path[i + 1], net, pages)
      BY <1>4, <3>1
    <3> QED
      BY <3>1, <3>2
  <2> HIDE DEF fine
  <2> QED
    BY <2>1, <2>2, NaturalsAreReached
<1>6. \A i \in 0..Len(path) : walk[i] \in S
  BY <1>5
<1>7. ASSUME Len(path) > 0
      PROVE  walk[Len(path) - 1] \in S
             /\ walk[Len(path)] = Step(walk[Len(path) - 1], path[Len(path)], net, pages)
  BY <1>4, <1>6, <1>7
<1> QED
  BY <1>3, <1>6, <1>7

(* __getObject                                                             *)
LEMMA GetObjectIs ==
  ASSUME pathIds \in BOOLEAN, WellFormed(tree, pathIds),
         NEW st \in Walkers, ObjectsAre(st.obj, st.list),
         NEW base \in {Root} \cup ToSet(st.list),
         NEW path \in Seq(Name \cup {Up}), NEW net \in Nets, NEW pages \in Nat,
         NEW w, w = GetObject(st, base, path, net, pages)
  PROVE  /\ Walking(st, w)
         /\ path # <<>> /\ Last(path) \in Name =>
              w.file = Null \/ (w.file \in ToSet(w.list) /\ w.obj[w.file].titleLC = Last(path))
         /\ net = "up" /\ Faithful(tree, st.obj, st.list) /\ UnknownAreFiles(st.obj, st.list)
              /\ (base = Root \/ Known(st.obj, base)) =>
              Clear(w) /\ Settled(w.obj, w.parent)
<1> DEFINE mirrored == /\ net = "up" /\ Faithful(tree, st.obj, st.list)
                       /\ UnknownAreFiles(st.obj, st.list) /\ (base = Root \/ Known(st.obj, base))
           S == {s \in Walkers : Walking(st, s) /\ (mirrored => Clear(s))}
           start == [st EXCEPT !.ok = TRUE]
           b == Goto(start, base)
<1>0. Len(path) \in Nat /\ DOMAIN path = 1..Len(path) /\ \A i \in 1..Len(path) : path[i] \in Name \cup {Up}
  OBVIOUS
<1>1. b \in S
  <2>1. base # Null /\ base \in Nat
    <3>1. \A o \in ToSet(st.list) : o \in Nat /\ o # Null
      BY NullIsNoObject DEF ObjectsAre
    <3> QED
      BY <3>1 DEF Null, Root
  <2>2. b = [st EXCEPT !.ok = TRUE, !.file = base, !.parent = base]
    BY <2>1 DEF Goto, Walkers
  <2>3. /\ b \in Walkers /\ b.file = base /\ b.obj = st.obj /\ b.list = st.list /\ b.ok = TRUE
        /\ b.parent = base
    BY <2>1, <2>2 DEF Walkers
  <2> HIDE DEF b
  <2>4. Walking(st, b)
    BY <2>3, GrownIs DEF Walking
  <2>5. mirrored => Clear(b)
    BY <2>1, <2>3 DEF Clear
  <2> QED
    BY <2>3, <2>4, <2>5
<1>2. ASSUME NEW s \in S, NEW i \in 1..Len(path) PROVE Step(s, path[i], net, pages) \in S
  <2> DEFINE r == Step(s, path[i], net, pages)
  <2>1. Walking(st, s) /\ (mirrored => Clear(s)) /\ path[i] \in Name \cup {Up}
    BY <1>0
  <2>2. Walking(st, r) /\ (net = "up" /\ Clear(s) => Clear(r))
    BY <2>1, StepIs, SMTT(30)
  <2> QED
    BY <2>1, <2>2 DEF Walking
<1>3. PICK s \in S :
        /\ w = Arrive(s, net, pages)
        /\ Len(path) > 0 => \E r \in S : s = Step(r, path[Len(path)], net, pages)
  <2> HIDE DEF S
  <2>1. \E s \in S :
          /\ GetObject(st, base, path, net, pages) = Arrive(s, net, pages)
          /\ Len(path) > 0 => \E r \in S : s = Step(r, path[Len(path)], net, pages)
    BY <1>0, <1>1, <1>2, WalkIs
  <2> QED
    BY <2>1
<1>4. Walking(st, s) /\ (mirrored => Clear(s))
  OBVIOUS
<1>5. path # <<>> /\ Last(path) \in Name =>
        s.file = Null \/ (s.file \in ToSet(s.list) /\ s.obj[s.file].titleLC = Last(path))
  <2> SUFFICES ASSUME path # <<>>, Last(path) \in Name
               PROVE  s.file = Null \/ (s.file \in ToSet(s.list) /\ s.obj[s.file].titleLC = Last(path))
    OBVIOUS
  <2>1. Len(path) > 0 /\ Last(path) = path[Len(path)]
    BY <1>0 DEF Last
  <2>2. PICK r \in S : s = Step(r, path[Len(path)], net, pages)
    BY <1>3, <2>1
  <2>3. Walking(st, r)
    OBVIOUS
  <2> HIDE DEF S
  <2>4. path[Len(path)] \in Name
    BY <2>1
  <2> QED
    BY <2>1, <2>2, <2>3, <2>4, StepIs
<1> HIDE DEF S
<1>6. CASE s.file = Null
  BY <1>3, <1>4, <1>5, <1>6 DEF Arrive, Clear
<1>7. CASE s.file # Null
  <2> DEFINE c == CheckFolder(s, s.file, net, pages)
  <2>0. /\ s \in Walkers /\ ObjectsAre(s.obj, s.list) /\ Grown(st.obj, st.list, s.obj, s.list)
        /\ s.file \in {Root} \cup ToSet(s.list) /\ s.parent \in {Root} \cup ToSet(s.list)
    BY <1>4, <1>7 DEF Walking
  <2>1. /\ c \in Walkers /\ c.file = s.file /\ c.parent = s.parent
        /\ ObjectsAre(c.obj, c.list) /\ Grown(s.obj, s.list, c.obj, c.list)
    BY <2>0, CheckFolderIs
  <2> HIDE DEF c
  <2>a. Grown(st.obj, st.list, c.obj, c.list)
    BY <2>0, <2>1, GrownIs
  <2>2. \A p \in {Root} \cup ToSet(s.list) : p \in {Root} \cup ToSet(c.list)
    BY <2>1 DEF Grown
  <2>3. mirrored =>
          /\ Faithful(tree, c.obj, c.list) /\ UnknownAreFiles(c.obj, c.list)
          /\ Settled(c.obj, s.file) /\ c.ok
    BY <1>4, <1>7, <2>0, CheckFolderMirrors DEF Clear, c
  <2>4. w = IfListed(c)
    BY <1>3, <1>7 DEF Arrive, c
  <2>5. /\ w \in Walkers /\ w.obj = c.obj /\ w.list = c.list /\ w.parent = c.parent /\ w.ok = c.ok
        /\ w.file = IF c.ok THEN c.file ELSE Null
    <3>1. CASE c.ok
      BY <2>1, <2>4, <3>1 DEF IfListed
    <3>2. CASE ~ c.ok
      <4>1. w = [c EXCEPT !.file = Null] /\ Null \in Nat
        BY <2>4, <3>2 DEF IfListed, Null
      <4> QED
        BY <2>1, <3>2, <4>1 DEF Walkers
    <3> QED
      BY <3>1, <3>2
  <2>6. Walking(st, w)
    BY <2>0, <2>1, <2>a, <2>2, <2>5 DEF Walking
  <2>7. path # <<>> /\ Last(path) \in Name =>
          w.file = Null \/ (w.file \in ToSet(w.list) /\ w.obj[w.file].titleLC = Last(path))
    <3>1. \A p \in ToSet(s.list) : p \in ToSet(c.list) /\ c.obj[p].titleLC = s.obj[p].titleLC
      BY <2>0, <2>1 DEF Grown, ObjectsAre, Same
    <3> QED
      BY <1>5, <1>7, <2>1, <2>5, <3>1
  <2>8. mirrored => Clear(w) /\ Settled(w.obj, w.parent)
    BY <1>4, <1>7, <2>1, <2>3, <2>5 DEF Clear, Settled
  <2> QED
    BY <2>6, <2>7, <2>8
<1> QED
  BY <1>6, <1>7

(***************************************************************************)
(* What the requests do to the objects.                                    *)
(***************************************************************************)
OthersAreFiles(ob, l, o) ==
  \A p \in ToSet(l) \ {o} : ~ Known(ob, p) => ~ ob[p].folder /\ ob[p].id = <<>>

Added(ob, l, rec, o, ob2, l2) ==
  o = Len(ob) + 1 /\ ob2 = Append(ob, rec) /\ l2 = Append(l, o)

(* A new object comes last in the list.                                    *)
LEMMA NewIs ==
  ASSUME NEW ob, NEW l, ObjectsAre(ob, l), NEW rec \in ObjectRecord,
         NEW o, NEW ob2, NEW l2, Added(ob, l, rec, o, ob2, l2)
  PROVE  /\ ObjectsAre(ob2, l2) /\ Grown(ob, l, ob2, l2)
         /\ o \in ToSet(l2) /\ ToSet(l2) = ToSet(l) \cup {o} /\ o \notin ToSet(l) /\ o # Root
         /\ ob2[o] = rec /\ Len(ob2) = o /\ \A p \in {Root} \cup ToSet(l) : ob2[p] = ob[p]
<1>0. o = Len(ob) + 1 /\ ob2 = Append(ob, rec) /\ l2 = Append(l, o)
  BY DEF Added
<1>1. /\ Len(ob) \in Nat /\ Len(ob) >= 1 /\ ob \in Seq(ObjectRecord)
      /\ l \in Seq(Nat) /\ IsInjective(l) /\ ToSet(l) \subseteq 2..Len(ob)
  BY DEF ObjectsAre
<1>2. /\ ob2 \in Seq(ObjectRecord) /\ Len(ob2) = o /\ ob2[o] = rec
      /\ \A p \in 1..Len(ob) : ob2[p] = ob[p]
  BY <1>0, <1>1
<1>3. o \notin ToSet(l) /\ o \in Nat /\ o # Root /\ o \in 2..Len(ob2)
  BY <1>0, <1>1, <1>2 DEF Root
<1>4. /\ l2 \in Seq(Nat) /\ IsInjective(l2) /\ ToSet(l2) = ToSet(l) \cup {o}
      /\ \A p, q : Before(l, p, q) => Before(l2, p, q)
  BY <1>0, <1>1, <1>3, ListsGrow
<1>5. \A p \in {Root} \cup ToSet(l) : p \in 1..Len(ob)
  BY <1>1 DEF Root
<1>6. ObjectsAre(ob2, l2)
  <2>1. ToSet(l2) \subseteq 2..Len(ob2)
    BY <1>0, <1>1, <1>2, <1>3, <1>4
  <2>2. Len(ob2) >= 1
    BY <1>0, <1>1, <1>2
  <2> QED
    BY <1>2, <1>4, <1>5, <2>1, <2>2 DEF ObjectsAre
<1>7. Grown(ob, l, ob2, l2)
  BY <1>0, <1>1, <1>2, <1>4 DEF Grown, Same, OrderKept
<1> QED
  BY <1>2, <1>3, <1>4, <1>5, <1>6, <1>7

(* A new object without a name in a settled folder keeps the copy true.    *)
LEMMA NewMirrors ==
  ASSUME NEW t, NEW ob, NEW l, ObjectsAre(ob, l), Faithful(t, ob, l), UnknownAreFiles(ob, l),
         NEW q \in {Root} \cup ToSet(l), Settled(ob, q),
         NEW rec \in ObjectRecord, rec.titleLC = NoName, ~ rec.listed, rec.parentId = ob[q].id,
         NEW o, NEW ob2, NEW l2, Added(ob, l, rec, o, ob2, l2)
  PROVE  Faithful(t, ob2, l2) /\ OthersAreFiles(ob2, l2, o) /\ ~ Known(ob2, o)
<1>1. /\ o \in ToSet(l2) /\ ToSet(l2) = ToSet(l) \cup {o} /\ o \notin ToSet(l) /\ o # Root
      /\ ob2[o] = rec /\ \A p \in {Root} \cup ToSet(l) : ob2[p] = ob[p]
  BY NewIs
<1>2. ~ Known(ob2, o)
  BY <1>1 DEF Known
<1>3. \A p \in ToSet(l2) : Known(ob2, p) => p \in ToSet(l) /\ Known(ob, p) /\ ob2[p] = ob[p]
  BY <1>1, <1>2 DEF Known
<1>4. KnownAreReal(t, ob2, l2)
  BY <1>3 DEF Faithful, KnownAreReal
<1>5. KnownOnce(ob2, l2)
  BY <1>3 DEF Faithful, KnownOnce
<1>6. ListedAreWhole(t, ob2, l2)
  <2> SUFFICES ASSUME NEW r \in {Root} \cup ToSet(l2), NEW m \in DOMAIN t,
                      ob2[r].folder, ob2[r].listed, ob2[r].id = IdOf(t, pathIds, t[m].parent)
               PROVE  \E p \in ToSet(l2) : Known(ob2, p) /\ ob2[p].id = IdOf(t, pathIds, m)
    BY DEF ListedAreWhole
  <2>1. r \in {Root} \cup ToSet(l) /\ ob2[r] = ob[r]
    BY <1>1
  <2>2. PICK p \in ToSet(l) : Known(ob, p) /\ ob[p].id = IdOf(t, pathIds, m)
    BY <2>1 DEF Faithful, ListedAreWhole
  <2> QED
    BY <1>1, <2>2 DEF Known
<1>7. FoldersAreSettled(ob2, l2)
  <2> SUFFICES ASSUME NEW p \in ToSet(l2)
               PROVE  \E r \in {Root} \cup ToSet(l2) : Settled(ob2, r) /\ ob2[r].id = ob2[p].parentId
    BY DEF FoldersAreSettled
  <2>1. PICK r \in {Root} \cup ToSet(l) : Settled(ob, r) /\ ob[r].id = ob2[p].parentId
    BY <1>1 DEF Faithful, FoldersAreSettled
  <2> QED
    BY <1>1, <2>1 DEF Settled, Known
<1>8. OthersAreFiles(ob2, l2, o)
  BY <1>1 DEF OthersAreFiles, UnknownAreFiles, Known
<1> QED
  BY <1>2, <1>4, <1>5, <1>6, <1>7, <1>8 DEF Faithful

(* The object that gets its name when its file is made in the cloud keeps  *)
(* the copy true.                                                          *)
LEMMA MakeMirrors ==
  ASSUME pathIds \in BOOLEAN, NEW t, WellFormed(t, pathIds), NEW u, WellFormed(u, pathIds),
         NEW n, n \notin DOMAIN t, DOMAIN u = DOMAIN t \cup {n},
         \A m \in DOMAIN t : u[m] = t[m],
         \A m \in Nodes(t) : IdOf(u, pathIds, m) = IdOf(t, pathIds, m),
         NEW ob, NEW l, ObjectsAre(ob, l), Faithful(t, ob, l),
         NEW o \in ToSet(l), ~ Known(ob, o), OthersAreFiles(ob, l, o),
         NEW ob2, \A p \in {Root} \cup ToSet(l) : p # o => ob2[p] = ob[p],
         Same(ob2[o], Entry(u, n)), ~ ob2[o].listed, ob2[o].parentId = ob[o].parentId
  PROVE  Faithful(u, ob2, l) /\ UnknownAreFiles(ob2, l) /\ Known(ob2, o) /\ ob2[o].id # <<>>
<1>1. o # Root
  BY NullIsNoObject
<1>2. \A m \in DOMAIN t : m \in DOMAIN u /\ Entry(u, m) = Entry(t, m)
  <2> TAKE m \in DOMAIN t
  <2>1. m \in Nodes(t) /\ t[m].parent \in Nodes(t)
    BY TopIs
  <2> QED
    BY <2>1 DEF Entry
<1>3. n \in DOMAIN u /\ ob2[o].id = IdOf(u, pathIds, n) /\ ob2[o].id # <<>> /\ ob2[o].titleLC \in Name
  <2>1. n \in DOMAIN u
    OBVIOUS
  <2>2. Entry(u, n).id = IdOf(u, pathIds, n) /\ Entry(u, n).titleLC = u[n].name
    BY <2>1, EntryIs
  <2>3. u[n].name \in Name /\ IdOf(u, pathIds, n) # <<>>
    BY <2>1, TopIs, IdsAre
  <2> QED
    BY <2>1, <2>2, <2>3 DEF Same
<1>4. Known(ob2, o)
  BY <1>3, NamesAssumption DEF Known
<1>5. \A p \in ToSet(l) : p # o => (Known(ob2, p) <=> Known(ob, p))
  BY DEF Known
<1>6. \A m \in DOMAIN t : IdOf(u, pathIds, m) # ob2[o].id
  <2> TAKE m \in DOMAIN t
  <2>1. m \in Nodes(u) /\ n \in Nodes(u) /\ m # n
    BY TopIs
  <2> QED
    BY <1>3, <2>1, IdsAre
<1>7. KnownAreReal(u, ob2, l)
  <2> SUFFICES ASSUME NEW p \in ToSet(l), Known(ob2, p) PROVE \E m \in DOMAIN u : Same(ob2[p], Entry(u, m))
    BY DEF KnownAreReal
  <2>1. CASE p = o
    BY <1>3, <2>1
  <2>2. CASE p # o
    <3>1. PICK m \in DOMAIN t : Same(ob[p], Entry(t, m))
      BY <1>5, <2>2 DEF Faithful, KnownAreReal
    <3> QED
      BY <1>2, <2>2, <3>1
  <2> QED
    BY <2>1, <2>2
<1>8. \A p \in ToSet(l) : p # o /\ Known(ob, p) => ob[p].id # ob2[o].id
  <2> TAKE p \in ToSet(l)
  <2> HAVE p # o /\ Known(ob, p)
  <2>1. PICK m \in DOMAIN t : ob[p].id = IdOf(t, pathIds, m)
    BY KnownIs DEF Faithful
  <2>2. IdOf(t, pathIds, m) = IdOf(u, pathIds, m)
    BY TopIs
  <2> QED
    BY <1>6, <2>1, <2>2
<1>9. KnownOnce(ob2, l)
  <2> SUFFICES ASSUME NEW p \in ToSet(l), NEW q \in ToSet(l), Known(ob2, p), Known(ob2, q),
                      ob2[p].id = ob2[q].id
               PROVE  p = q
    BY DEF KnownOnce
  <2>1. CASE p # o /\ q # o
    BY <1>5, <2>1 DEF Faithful, KnownOnce
  <2>2. CASE p = o \/ q = o
    BY <1>5, <1>8, <2>2
  <2> QED
    BY <2>1, <2>2
<1>10. ListedAreWhole(u, ob2, l)
  <2> SUFFICES ASSUME NEW q \in {Root} \cup ToSet(l), NEW m \in DOMAIN u,
                      ob2[q].folder, ob2[q].listed, ob2[q].id = IdOf(u, pathIds, u[m].parent)
               PROVE  \E p \in ToSet(l) : Known(ob2, p) /\ ob2[p].id = IdOf(u, pathIds, m)
    BY DEF ListedAreWhole
  <2>1. CASE m = n
    BY <1>3, <1>4, <2>1
  <2>2. CASE m # n
    <3>1. m \in DOMAIN t /\ u[m].parent = t[m].parent
      BY <2>2
    <3>2. /\ IdOf(u, pathIds, u[m].parent) = IdOf(t, pathIds, t[m].parent)
          /\ IdOf(u, pathIds, m) = IdOf(t, pathIds, m)
      BY <3>1, TopIs
    <3>3. q # o /\ ob2[q] = ob[q]
      OBVIOUS
    <3>4. PICK p \in ToSet(l) : Known(ob, p) /\ ob[p].id = IdOf(t, pathIds, m)
      BY <3>1, <3>2, <3>3 DEF Faithful, ListedAreWhole
    <3>5. p # o
      BY <3>4
    <3> QED
      BY <1>5, <3>2, <3>4, <3>5
  <2> QED
    BY <2>1, <2>2
<1>11. FoldersAreSettled(ob2, l)
  <2> SUFFICES ASSUME NEW p \in ToSet(l)
               PROVE  \E q \in {Root} \cup ToSet(l) : Settled(ob2, q) /\ ob2[q].id = ob2[p].parentId
    BY DEF FoldersAreSettled
  <2>1. PICK q \in {Root} \cup ToSet(l) : Settled(ob, q) /\ ob[q].id = ob[p].parentId
    BY DEF Faithful, FoldersAreSettled
  <2>2. q # o /\ ob2[q] = ob[q]
    BY <1>1, <2>1 DEF Settled
  <2>3. ob2[p].parentId = ob[p].parentId
    OBVIOUS
  <2> QED
    BY <2>1, <2>2, <2>3 DEF Settled, Known
<1>12. UnknownAreFiles(ob2, l)
  BY <1>4, <1>5 DEF UnknownAreFiles, OthersAreFiles
<1> QED
  BY <1>3, <1>4, <1>7, <1>9, <1>10, <1>11, <1>12 DEF Faithful

(* A folder in which nothing is seen is empty, and a file is no folder.    *)
LEMMA EmptyIsEmpty ==
  ASSUME pathIds \in BOOLEAN, NEW t, WellFormed(t, pathIds),
         NEW ob, NEW l, ObjectsAre(ob, l), Faithful(t, ob, l),
         NEW o \in ToSet(l), Known(ob, o), ob[o].folder => ob[o].listed,
         \A p \in ToSet(l) : ob[p].parentId # ob[o].id
  PROVE  /\ NodeWithId(t, pathIds, ob[o].id) \in DOMAIN t
         /\ Children(t, NodeWithId(t, pathIds, ob[o].id)) = {}
<1>1. PICK n \in DOMAIN t : /\ n = NodeWithId(t, pathIds, ob[o].id)
                            /\ ob[o].id = IdOf(t, pathIds, n) /\ ob[o].folder = t[n].folder
  BY KnownIs DEF Faithful
<1>2. ASSUME NEW m \in DOMAIN t, t[m].parent = n PROVE FALSE
  <2>1. t[n].folder
    BY <1>1, <1>2, TopIs DEF WellFormed, IsTree, IsFolder
  <2>2. PICK p \in ToSet(l) : Known(ob, p) /\ ob[p].id = IdOf(t, pathIds, m)
    BY <1>1, <1>2, <2>1 DEF Faithful, ListedAreWhole
  <2>3. PICK k \in DOMAIN t : /\ ob[p].id = IdOf(t, pathIds, k)
                              /\ ob[p].parentId = IdOf(t, pathIds, t[k].parent)
    BY <2>2, KnownIs DEF Faithful
  <2>4. k = m
    <3>1. \A i, j \in Nodes(t) : IdOf(t, pathIds, i) = IdOf(t, pathIds, j) => i = j
      BY IdsAre
    <3>2. k \in Nodes(t) /\ m \in Nodes(t)
      BY TopIs
    <3> QED
      BY <2>2, <2>3, <3>1, <3>2
  <2> QED
    BY <1>1, <1>2, <2>3, <2>4
<1> QED
  BY <1>1, <1>2 DEF Children

(* Trashing a file, or a folder without entries, keeps the copy true.      *)
LEMMA TrashMirrors ==
  ASSUME pathIds \in BOOLEAN, NEW t, WellFormed(t, pathIds), NEW u, WellFormed(u, pathIds),
         NEW n \in DOMAIN t, DOMAIN u = DOMAIN t \ {n},
         \A m \in DOMAIN u : u[m] = t[m],
         \A m \in Nodes(u) : IdOf(u, pathIds, m) = IdOf(t, pathIds, m),
         NEW ob, NEW l, ObjectsAre(ob, l), Faithful(t, ob, l), UnknownAreFiles(ob, l),
         NEW o \in ToSet(l), ob[o].id = IdOf(t, pathIds, n),
         \A p \in ToSet(l) : ob[p].parentId # ob[o].id,
         NEW l2, ToSet(l2) = ToSet(l) \ {o}
  PROVE  Faithful(u, ob, l2) /\ UnknownAreFiles(ob, l2)
<1>1. o # Root
  BY NullIsNoObject
<1>2. \A m \in DOMAIN u : m \in DOMAIN t /\ m # n /\ Entry(u, m) = Entry(t, m)
  <2> TAKE m \in DOMAIN u
  <2>1. m \in Nodes(u) /\ u[m].parent \in Nodes(u) /\ u[m] = t[m]
    BY TopIs
  <2> QED
    BY <2>1 DEF Entry
<1>3. Known(ob, o)
  <2>1. ob[o].id # <<>>
    BY IdsAre
  <2> QED
    BY <2>1 DEF UnknownAreFiles
<1>4. KnownAreReal(u, ob, l2)
  <2> SUFFICES ASSUME NEW p \in ToSet(l2), Known(ob, p) PROVE \E m \in DOMAIN u : Same(ob[p], Entry(u, m))
    BY DEF KnownAreReal
  <2>1. PICK m \in DOMAIN t : Same(ob[p], Entry(t, m))
    BY DEF Faithful, KnownAreReal
  <2>2. m # n
    <3>1. Entry(t, m).id = IdOf(t, pathIds, m)
      BY EntryIs
    <3> QED
      BY <1>3, <2>1, <3>1 DEF Faithful, KnownOnce, Same
  <2>3. m \in DOMAIN u
    BY <2>2
  <2> QED
    BY <1>2, <2>1, <2>3
<1>5. KnownOnce(ob, l2)
  BY DEF Faithful, KnownOnce
<1>6. ListedAreWhole(u, ob, l2)
  <2> SUFFICES ASSUME NEW q \in {Root} \cup ToSet(l2), NEW m \in DOMAIN u,
                      ob[q].folder, ob[q].listed, ob[q].id = IdOf(u, pathIds, u[m].parent)
               PROVE  \E p \in ToSet(l2) : Known(ob, p) /\ ob[p].id = IdOf(u, pathIds, m)
    BY DEF ListedAreWhole
  <2>1. m \in DOMAIN t /\ m # n /\ u[m] = t[m]
    BY <1>2
  <2>2. m \in Nodes(u) /\ u[m].parent \in Nodes(u) /\ m \in Nodes(t) /\ n \in Nodes(t)
    BY <2>1, TopIs
  <2>3. /\ IdOf(u, pathIds, u[m].parent) = IdOf(t, pathIds, t[m].parent)
        /\ IdOf(u, pathIds, m) = IdOf(t, pathIds, m)
    BY <2>1, <2>2
  <2>4. PICK p \in ToSet(l) : Known(ob, p) /\ ob[p].id = IdOf(t, pathIds, m)
    BY <2>1, <2>3 DEF Faithful, ListedAreWhole
  <2>5. p # o
    BY <2>1, <2>2, <2>4, IdsAre
  <2> QED
    BY <2>3, <2>4, <2>5
<1>7. FoldersAreSettled(ob, l2)
  BY DEF Faithful, FoldersAreSettled
<1>8. UnknownAreFiles(ob, l2)
  BY DEF UnknownAreFiles
<1> QED
  BY <1>4, <1>5, <1>6, <1>7, <1>8 DEF Faithful

(* Moving one keeps the copy true when the folder it goes to is settled.   *)
LEMMA MoveMirrors ==
  ASSUME pathIds \in BOOLEAN, NEW t, WellFormed(t, pathIds), NEW u, WellFormed(u, pathIds),
         NEW n \in DOMAIN t, DOMAIN u = DOMAIN t,
         \A m \in DOMAIN t \ {n} : u[m] = t[m],
         pathIds => Children(t, n) = {} /\ \A m \in Nodes(t) \ {n} : IdOf(u, pathIds, m) = IdOf(t, pathIds, m),
         ~ pathIds => \A m \in Nodes(t) : IdOf(u, pathIds, m) = IdOf(t, pathIds, m),
         u[n].parent \in Nodes(t) \ {n},
         NEW ob, NEW l, ObjectsAre(ob, l), Faithful(t, ob, l), UnknownAreFiles(ob, l),
         NEW o \in ToSet(l), ob[o].id = IdOf(t, pathIds, n),
         pathIds => \A p \in ToSet(l) : ob[p].parentId # ob[o].id,
         NEW r \in {Root} \cup ToSet(l), r # o, Settled(ob, r),
         ob[r].id = IdOf(t, pathIds, u[n].parent),
         NEW ob2, \A p \in {Root} \cup ToSet(l) : p # o => ob2[p] = ob[p],
         Same(ob2[o], Entry(u, n)), ob2[o].folder = ob[o].folder, ob2[o].listed = ob[o].listed
  PROVE  Faithful(u, ob2, l) /\ UnknownAreFiles(ob2, l)
<1>1. o # Root
  BY NullIsNoObject
<1>a. /\ \A m \in Nodes(t) \ {n} : IdOf(u, pathIds, m) = IdOf(t, pathIds, m)
      /\ \A m \in DOMAIN t : m \in Nodes(t) /\ t[m].parent \in Nodes(t)
      /\ Nodes(u) = Nodes(t)
      /\ \A k, m \in Nodes(t) : IdOf(u, pathIds, k) = IdOf(u, pathIds, m) => k = m
      /\ \A k, m \in Nodes(t) : IdOf(t, pathIds, k) = IdOf(t, pathIds, m) => k = m
  <2>1. Nodes(u) = Nodes(t)
    BY DEF Nodes
  <2> QED
    BY <2>1, TopIs, IdsAre
<1>b. \A m \in DOMAIN t \ {n} : IdOf(u, pathIds, t[m].parent) = IdOf(t, pathIds, t[m].parent)
  BY <1>a DEF Children
<1>2. \A m \in DOMAIN t \ {n} : Entry(u, m) = Entry(t, m)
  BY <1>a, <1>b DEF Entry
<1>3. Known(ob, o)
  <2>1. ob[o].id # <<>>
    BY IdsAre
  <2> QED
    BY <2>1 DEF UnknownAreFiles
<1>4. /\ ob2[o].id = IdOf(u, pathIds, n) /\ Known(ob2, o)
      /\ ob2[o].parentId = IdOf(u, pathIds, u[n].parent)
  <2>1. /\ Entry(u, n).id = IdOf(u, pathIds, n) /\ Entry(u, n).titleLC = u[n].name
        /\ Entry(u, n).parentId = IdOf(u, pathIds, u[n].parent)
    <3>1. n \in DOMAIN u
      OBVIOUS
    <3> HIDE DEF Entry
    <3> QED
      BY <3>1, EntryIs
  <2>2. u[n].name \in Name
    BY TopIs
  <2> QED
    BY <2>1, <2>2, NamesAssumption DEF Same, Known
<1>5. \A p \in ToSet(l) : p # o => (Known(ob2, p) <=> Known(ob, p))
  BY DEF Known
<1>6. ASSUME NEW p \in ToSet(l), p # o, Known(ob, p)
      PROVE  \E m \in DOMAIN t \ {n} : /\ Same(ob[p], Entry(t, m))
                                       /\ ob[p].id = IdOf(t, pathIds, m) /\ ob[p].id = IdOf(u, pathIds, m)
  <2>1. PICK m \in DOMAIN t : Same(ob[p], Entry(t, m))
    BY <1>6 DEF Faithful, KnownAreReal
  <2>2. ob[p].id = IdOf(t, pathIds, m)
    BY <2>1, EntryIs DEF Same
  <2>3. m # n
    BY <1>3, <1>6, <2>2 DEF Faithful, KnownOnce
  <2> QED
    BY <1>a, <2>1, <2>2, <2>3
<1>7. KnownAreReal(u, ob2, l)
  <2> SUFFICES ASSUME NEW p \in ToSet(l), Known(ob2, p) PROVE \E m \in DOMAIN u : Same(ob2[p], Entry(u, m))
    BY DEF KnownAreReal
  <2>1. CASE p = o
    BY <2>1
  <2>2. CASE p # o
    <3>1. PICK m \in DOMAIN t \ {n} : Same(ob[p], Entry(t, m))
      BY <1>5, <1>6, <2>2
    <3> QED
      BY <1>2, <2>2, <3>1
  <2> QED
    BY <2>1, <2>2
<1>8. \A p \in ToSet(l) : p # o /\ Known(ob, p) => ob[p].id # ob2[o].id
  BY <1>4, <1>6, <1>a
<1>9. KnownOnce(ob2, l)
  <2> SUFFICES ASSUME NEW p \in ToSet(l), NEW q \in ToSet(l), Known(ob2, p), Known(ob2, q),
                      ob2[p].id = ob2[q].id
               PROVE  p = q
    BY DEF KnownOnce
  <2>1. CASE p # o /\ q # o
    BY <1>5, <2>1 DEF Faithful, KnownOnce
  <2>2. CASE p = o \/ q = o
    BY <1>5, <1>8, <2>2
  <2> QED
    BY <2>1, <2>2
<1>10. ListedAreWhole(u, ob2, l)
  <2> SUFFICES ASSUME NEW q \in {Root} \cup ToSet(l), NEW m \in DOMAIN u,
                      ob2[q].folder, ob2[q].listed, ob2[q].id = IdOf(u, pathIds, u[m].parent)
               PROVE  \E p \in ToSet(l) : Known(ob2, p) /\ ob2[p].id = IdOf(u, pathIds, m)
    BY DEF ListedAreWhole
  <2>1. CASE m = n
    BY <1>4, <2>1
  <2>2. CASE m # n
    <3>1. m \in DOMAIN t \ {n} /\ u[m].parent = t[m].parent
      BY <2>2
    <3>2. IdOf(u, pathIds, u[m].parent) = IdOf(t, pathIds, t[m].parent)
      BY <1>b, <3>1
    <3>3. ob[q].id = IdOf(t, pathIds, t[m].parent) /\ ob[q].folder /\ ob[q].listed
      <4>1. CASE q # o
        BY <3>2, <4>1
      <4>2. CASE q = o
        <5>1. t[m].parent = n
          BY <1>4, <1>a, <3>1, <4>2
        <5> QED
          BY <4>2, <5>1
      <4> QED
        BY <4>1, <4>2
    <3>4. PICK p \in ToSet(l) : Known(ob, p) /\ ob[p].id = IdOf(t, pathIds, m)
      BY <3>1, <3>3 DEF Faithful, ListedAreWhole
    <3>5. p # o
      BY <1>a, <3>1, <3>4
    <3>6. IdOf(t, pathIds, m) = IdOf(u, pathIds, m)
      BY <1>a, <3>1
    <3> QED
      BY <1>5, <3>4, <3>5, <3>6
  <2> QED
    BY <2>1, <2>2
<1>11. FoldersAreSettled(ob2, l)
  <2> SUFFICES ASSUME NEW p \in ToSet(l)
               PROVE  \E q \in {Root} \cup ToSet(l) : Settled(ob2, q) /\ ob2[q].id = ob2[p].parentId
    BY DEF FoldersAreSettled
  <2>1. CASE p = o
    <3>1. ob2[r] = ob[r] /\ ob2[o].parentId = ob[r].id
      BY <1>4, <1>a
    <3> QED
      BY <2>1, <3>1 DEF Settled, Known
  <2>2. CASE p # o
    <3>1. PICK q \in {Root} \cup ToSet(l) : Settled(ob, q) /\ ob[q].id = ob[p].parentId
      BY DEF Faithful, FoldersAreSettled
    <3>2. ob2[p] = ob[p]
      BY <2>2
    <3>3. CASE q # o
      BY <3>1, <3>2, <3>3 DEF Settled, Known
    <3>4. CASE q = o
      <4>1. ob2[o].id = ob[o].id
        BY <1>4, <1>a, <3>1, <3>4
      <4> QED
        BY <1>4, <3>1, <3>2, <3>4, <4>1 DEF Settled
    <3> QED
      BY <3>3, <3>4
  <2> QED
    BY <2>1, <2>2
<1>12. UnknownAreFiles(ob2, l)
  BY <1>4, <1>5 DEF UnknownAreFiles
<1> QED
  BY <1>7, <1>9, <1>10, <1>11, <1>12 DEF Faithful

(***************************************************************************)
(* The invariant.                                                          *)
(***************************************************************************)

(* The list has addresses of objects, each once; the root is nameless.     *)
ObjectsInv == ObjectsAre(obj, list) /\ Len(obj) <= MaxObjects /\ uploading \subseteq 2..Len(obj)

(* The cloud is a tree whose nodes were all born.                          *)
TreeInv ==
  /\ pathIds \in Services /\ WellFormed(tree, pathIds)
  /\ born \in 0..MaxNodes /\ DOMAIN tree \subseteq 1..born
  /\ failures \in 0..MaxFailures /\ misread \in BOOLEAN

ScanType ==
  /\ scan \in [on : BOOLEAN, folder : Id, key : Nat, seen : SUBSET Nat, owed : SUBSET Nat,
               astray : BOOLEAN]
  /\ scan.key \in 0..Len(obj) /\ scan.seen \cup scan.owed \subseteq 2..Len(obj)

(* The entries reported come before the key in the list, those owed are    *)
(* the key and what comes after it.                                        *)
InFolderScanned(o) == o \in ToSet(list) /\ obj[o].parentId = scan.folder

ScanInv ==
  /\ scan.key \notin scan.seen
  /\ scan.key \in ToSet(list) =>
       \A o \in scan.seen \cap ToSet(list) : Before(list, o, scan.key)
  /\ \A o \in scan.owed : InFolderScanned(o)
  /\ scan.on /\ ~ scan.astray =>
       /\ scan.key # Null => InFolderScanned(scan.key)
       /\ \A o \in scan.owed : scan.key # Null /\ (o = scan.key \/ Before(list, scan.key, o))

(* While no request has failed: the objects with names are nodes of the    *)
(* cloud, one each; a folder marked as listed has all its nodes; an object *)
(* lies in a folder that was listed; one without a name is a file that is  *)
(* not in the cloud yet.                                                   *)
MirrorInv ==
  failures = 0 => /\ Faithful(tree, obj, list) /\ UnknownAreFiles(obj, list)
                  /\ \A o \in uploading \cap ToSet(list) : ~ Known(obj, o)

Inv == ObjectsInv /\ TreeInv /\ ScanType /\ ScanInv /\ MirrorInv

(***************************************************************************)
(* What every action does to the objects and to the tree.                  *)
(***************************************************************************)
Stepped ==
  /\ pathIds' = pathIds
  /\ ObjectsAre(obj', list') /\ Len(obj) <= Len(obj') /\ Len(obj') <= MaxObjects
  /\ \A o \in ToSet(list') : o \in ToSet(list) \/ o > Len(obj)
  /\ OrderKept(list, list')
  /\ uploading' \subseteq 2..Len(obj')
  /\ WellFormed(tree', pathIds) /\ born' \in 0..MaxNodes /\ DOMAIN tree' \subseteq 1..born'
  /\ failures' \in 0..MaxFailures /\ failures <= failures' /\ misread' \in BOOLEAN

Mirroring ==
  failures' = 0 => /\ Faithful(tree', obj', list') /\ UnknownAreFiles(obj', list')
                   /\ \A o \in uploading' \cap ToSet(list') : ~ Known(obj', o)

Erasing ==
  ~ misread' => \A o \in ToSet(list) \ ToSet(list') : NodeWithId(tree', pathIds, obj[o].id) = NoNode

Trashing == failures' = 0 => \A n \in DOMAIN tree \ DOMAIN tree' : Children(tree, n) = {}

Good == Stepped /\ Mirroring /\ Erasing /\ Trashing

(* A lookup under the conditions of an action.                             *)
Looked(w, net) ==
  /\ Walking(Now, w) /\ net \in Nets
  /\ failures = 0 /\ net = "up" => Clear(w) /\ Settled(w.obj, w.parent)

(* The objects an action starts with.                                      *)
LEMMA NowIs ==
  ASSUME Inv
  PROVE  /\ Now \in Walkers /\ Now.obj = obj /\ Now.list = list
         /\ ObjectsAre(Now.obj, Now.list) /\ Grown(obj, list, obj, list)
         /\ pathIds \in BOOLEAN /\ WellFormed(tree, pathIds)
         /\ Len(obj) \in Nat /\ born \in Nat /\ failures \in Nat
         /\ MaxNodes \in Nat /\ MaxObjects \in Nat /\ MaxFailures \in Nat
<1>1. ObjectsAre(obj, list) /\ Null \in Nat
  BY DEF Inv, ObjectsInv, Null
<1>2. /\ pathIds \in BOOLEAN /\ WellFormed(tree, pathIds)
      /\ born \in 0..MaxNodes /\ failures \in 0..MaxFailures
  BY ServicesAssumption DEF Inv, TreeInv
<1>3. MaxNodes \in Nat /\ MaxObjects \in Nat /\ MaxFailures \in Nat
  BY NodesAssumption, BoundsAssumption
<1>4. obj \in Seq(ObjectRecord) /\ list \in Seq(Nat) /\ Len(obj) \in Nat
  BY <1>1 DEF ObjectsAre
<1> QED
  BY <1>1, <1>2, <1>3, <1>4, GrownIs DEF Now, Walkers

(* What a lookup leaves behind.                                            *)
LEMMA LookedIs ==
  ASSUME Inv, NEW w, NEW net, Looked(w, net)
  PROVE  /\ w \in Walkers /\ ObjectsAre(w.obj, w.list) /\ Grown(obj, list, w.obj, w.list)
         /\ w.file \in {Null, Root} \cup ToSet(w.list) /\ w.parent \in {Root} \cup ToSet(w.list)
         /\ Len(w.obj) \in Nat /\ Len(obj) <= Len(w.obj)
         /\ \A o \in ToSet(list) : o \in ToSet(w.list) /\ Same(w.obj[o], obj[o])
         /\ failures = 0 /\ net = "up" =>
              \A o \in uploading \cap ToSet(w.list) : o \in ToSet(list) /\ ~ Known(w.obj, o)
<1>1. /\ w \in Walkers /\ ObjectsAre(w.obj, w.list) /\ Grown(obj, list, w.obj, w.list)
      /\ w.file \in {Null, Root} \cup ToSet(w.list) /\ w.parent \in {Root} \cup ToSet(w.list)
  BY NowIs DEF Looked, Walking
<1>2. Len(w.obj) \in Nat /\ Len(obj) <= Len(w.obj) /\ Len(obj) \in Nat
  BY <1>1, NowIs DEF ObjectsAre, Grown
<1>3. \A o \in ToSet(list) : o \in ToSet(w.list) /\ Same(w.obj[o], obj[o])
  BY <1>1, NowIs DEF Grown, ObjectsAre
<1>4. \A o \in uploading \cap ToSet(w.list) : o \in ToSet(list)
  BY <1>1, <1>2 DEF Grown, Inv, ObjectsInv
<1>5. failures = 0 => \A o \in uploading \cap ToSet(list) : ~ Known(obj, o)
  BY DEF Inv, MirrorInv
<1> QED
  BY <1>1, <1>2, <1>3, <1>4, <1>5 DEF Same, Known

(* An action after which there are more objects and no fewer nodes.        *)
LEMMA GrowingSteps ==
  ASSUME Inv, NEW ob, NEW l, ObjectsAre(ob, l), Len(obj) <= Len(ob), Len(ob) <= MaxObjects,
         ToSet(list) \subseteq ToSet(l), \A o \in ToSet(l) : o \in ToSet(list) \/ o > Len(obj),
         OrderKept(list, l),
         obj' = ob, list' = l, pathIds' = pathIds,
         uploading' \subseteq 2..Len(ob),
         WellFormed(tree', pathIds), born' \in 0..MaxNodes, DOMAIN tree' \subseteq 1..born',
         DOMAIN tree \subseteq DOMAIN tree',
         NEW net, NEW good \in BOOLEAN, Spend(net, good)
  PROVE  Stepped /\ Erasing /\ Trashing /\ (failures' = 0 => good /\ failures = 0)
<1>1. failures' \in 0..MaxFailures /\ failures <= failures' /\ (failures' = 0 => good /\ failures = 0)
  BY NowIs DEF Spend
<1>2. ToSet(list) \ ToSet(list') = {}
  OBVIOUS
<1>3. misread' \in BOOLEAN
  BY DEF Spend
<1>4. Stepped
  BY <1>1, <1>3 DEF Stepped
<1> QED
  BY <1>1, <1>2, <1>4 DEF Erasing, Trashing

(* __lock and the others that only look up a name (Locate).                *)
LEMMA LocateIsGood ==
  ASSUME Inv, NEW w, NEW net, Looked(w, net), Locate(w, net)
  PROVE  Good
<1>1. /\ obj' = w.obj /\ list' = w.list /\ Len(w.obj) <= MaxObjects /\ pathIds' = pathIds
      /\ tree' = tree /\ born' = born /\ uploading' = uploading /\ Spend(net, net = "up")
  BY DEF Locate, Objects, treeVars
<1>2. /\ ObjectsAre(w.obj, w.list) /\ Grown(obj, list, w.obj, w.list)
      /\ Len(w.obj) \in Nat /\ Len(obj) <= Len(w.obj)
      /\ failures = 0 /\ net = "up" =>
           \A o \in uploading \cap ToSet(w.list) : o \in ToSet(list) /\ ~ Known(w.obj, o)
  BY LookedIs
<1>3. uploading \subseteq 2..Len(w.obj)
  BY <1>2, NowIs DEF Inv, ObjectsInv
<1>4. born \in 0..MaxNodes /\ DOMAIN tree \subseteq 1..born
  BY DEF Inv, TreeInv
<1>5. Stepped /\ Erasing /\ Trashing /\ (failures' = 0 => net = "up" /\ failures = 0)
  BY <1>1, <1>2, <1>3, <1>4, NowIs, GrowingSteps DEF Grown
<1>6. Mirroring
  BY <1>1, <1>2, <1>5 DEF Mirroring, Looked, Clear
<1> QED
  BY <1>5, <1>6 DEF Good

(* What __createObject adds.                                               *)
LEMMA WithNewIs ==
  ASSUME NEW w \in Walkers, ObjectsAre(w.obj, w.list), w.parent \in {Root} \cup ToSet(w.list),
         NEW path \in PathSet, NEW folder \in BOOLEAN, NEW st, st = WithNew(w, path, folder)
  PROVE  /\ st \in Walkers
         /\ \E rec \in ObjectRecord :
              /\ Added(w.obj, w.list, rec, Len(w.obj) + 1, st.obj, st.list)
              /\ rec.titleLC = NoName /\ ~ rec.listed /\ rec.folder = folder
              /\ rec.id = <<>> /\ rec.parentId = w.obj[w.parent].id
<1> DEFINE rec == NewObject(w, path, folder)
           o == Len(w.obj) + 1
           ob == Append(w.obj, rec)
           l == Append(w.list, o)
<1>1. st = [w EXCEPT !.obj = ob, !.list = l]
  BY DEF WithNew
<1>2. /\ rec \in ObjectRecord /\ rec.titleLC = NoName /\ ~ rec.listed /\ rec.folder = folder
      /\ rec.id = <<>> /\ rec.parentId = w.obj[w.parent].id
  <2>1. w.obj[w.parent] \in ObjectRecord
    BY DEF ObjectsAre, Root
  <2>2. w.obj[w.parent].id \in Id /\ Last(path) \in Titles /\ NoName \in Titles /\ <<>> \in Id
    BY <2>1, PathsAssumption DEF ObjectRecord, Titles, Id
  <2> QED
    BY <2>2 DEF NewObject, ObjectRecord
<1> HIDE DEF rec
<1>3. ob \in Seq(ObjectRecord) /\ l \in Seq(Nat)
  <2>1. w.obj \in Seq(ObjectRecord) /\ w.list \in Seq(Nat)
    BY DEF Walkers
  <2>2. o \in Nat
    BY <2>1
  <2> QED
    BY <1>2, <2>1, <2>2
<1>4. Added(w.obj, w.list, rec, o, ob, l)
  BY DEF Added
<1> HIDE DEF ob, l
<1>5. st \in Walkers /\ st.obj = ob /\ st.list = l
  BY <1>1, <1>3 DEF Walkers
<1> QED
  BY <1>2, <1>4, <1>5 DEF o

(* __open with MODE_NEWFILE (CreateFile).                                  *)
LEMMA CreateFileIsGood ==
  ASSUME Inv, NEW w, NEW net, Looked(w, net), NEW path \in PathSet, CreateFile(w, path, net)
  PROVE  Good
<1> DEFINE st == WithNew(w, path, FALSE)
           o == Len(w.obj) + 1
<1>1. /\ obj' = st.obj /\ list' = st.list /\ Len(obj') <= MaxObjects
      /\ pathIds' = pathIds /\ tree' = tree /\ born' = born
      /\ uploading' = uploading \cup {o} /\ Spend(net, net = "up")
  BY DEF CreateFile, Objects, treeVars
<1>2. /\ w \in Walkers /\ ObjectsAre(w.obj, w.list) /\ Grown(obj, list, w.obj, w.list)
      /\ Len(w.obj) \in Nat /\ Len(obj) <= Len(w.obj) /\ w.parent \in {Root} \cup ToSet(w.list)
      /\ failures = 0 /\ net = "up" =>
           \A p \in uploading \cap ToSet(w.list) : p \in ToSet(list) /\ ~ Known(w.obj, p)
  BY LookedIs
<1>3. PICK rec \in ObjectRecord :
        /\ Added(w.obj, w.list, rec, o, obj', list')
        /\ rec.titleLC = NoName /\ ~ rec.listed /\ ~ rec.folder
        /\ rec.id = <<>> /\ rec.parentId = w.obj[w.parent].id
  <2> HIDE DEF st
  <2>1. st = WithNew(w, path, FALSE)
    BY DEF st
  <2>2. \E rec \in ObjectRecord :
          /\ Added(w.obj, w.list, rec, o, st.obj, st.list)
          /\ rec.titleLC = NoName /\ ~ rec.listed /\ rec.folder = FALSE
          /\ rec.id = <<>> /\ rec.parentId = w.obj[w.parent].id
    BY <1>2, <2>1, WithNewIs
  <2> QED
    BY <1>1, <2>2
<1>4. Added(w.obj, w.list, rec, o, obj', list')
  BY <1>3
<1> HIDE DEF o, st
<1>5. /\ ObjectsAre(obj', list') /\ Grown(w.obj, w.list, obj', list')
      /\ ToSet(list') = ToSet(w.list) \cup {o} /\ obj'[o] = rec /\ Len(obj') = o
      /\ \A p \in {Root} \cup ToSet(w.list) : obj'[p] = w.obj[p]
      /\ o \in ToSet(list') /\ o \notin ToSet(w.list)
  BY <1>2, <1>3, <1>4, NewIs
<1>6. Grown(obj, list, obj', list')
  BY <1>2, <1>5, GrownIs, NowIs
<1>7. uploading' \subseteq 2..Len(obj')
  <2>1. uploading \subseteq 2..Len(obj) /\ Len(obj) <= Len(w.obj) /\ Len(obj) \in Nat /\ Len(w.obj) \in Nat
    BY <1>2, NowIs DEF Inv, ObjectsInv
  <2>2. o \in 2..Len(obj')
    BY <1>5 DEF ObjectsAre
  <2>3. o = Len(w.obj) + 1
    BY DEF o
  <2>4. \A n \in 2..Len(obj) : n \in 2..o
    BY <1>2, <2>1, <2>3
  <2> QED
    BY <1>1, <1>5, <2>1, <2>2, <2>4
<1>8. born \in 0..MaxNodes /\ DOMAIN tree \subseteq 1..born
  BY DEF Inv, TreeInv
<1>9. Stepped /\ Erasing /\ Trashing /\ (failures' = 0 => net = "up" /\ failures = 0)
  BY <1>1, <1>5, <1>6, <1>7, <1>8, NowIs, GrowingSteps DEF Grown
<1>10. ASSUME failures' = 0
       PROVE  /\ Faithful(tree, obj', list') /\ UnknownAreFiles(obj', list')
              /\ \A p \in uploading' \cap ToSet(list') : ~ Known(obj', p)
  <2>1. Clear(w) /\ Settled(w.obj, w.parent)
    BY <1>9, <1>10 DEF Looked
  <2>2. Faithful(tree, obj', list') /\ OthersAreFiles(obj', list', o) /\ ~ Known(obj', o)
    <3>1. Faithful(tree, w.obj, w.list) /\ UnknownAreFiles(w.obj, w.list)
      BY <2>1 DEF Clear
    <3> QED
      BY <1>2, <1>3, <1>4, <2>1, <3>1, NewMirrors
  <2>3. UnknownAreFiles(obj', list')
    BY <1>3, <1>5, <2>2 DEF UnknownAreFiles, OthersAreFiles
  <2>4. \A p \in uploading' \cap ToSet(list') : ~ Known(obj', p)
    BY <1>1, <1>2, <1>5, <1>9, <1>10, <2>2 DEF Known
  <2> QED
    BY <2>2, <2>3, <2>4
<1> QED
  BY <1>1, <1>9, <1>10 DEF Good, Mirroring

Replaced(ob, o, rec, ob2) == ob2 = [ob EXCEPT ![o] = rec]

(* Changing one object leaves the others and the list.                     *)
LEMMA ChangedIs ==
  ASSUME NEW ob, NEW l, ObjectsAre(ob, l), NEW o \in ToSet(l), NEW rec \in ObjectRecord,
         NEW ob2, Replaced(ob, o, rec, ob2)
  PROVE  /\ ObjectsAre(ob2, l) /\ Len(ob2) = Len(ob) /\ ob2[o] = rec
         /\ \A p \in {Root} \cup ToSet(l) : p # o => ob2[p] = ob[p]
<1>1. /\ ob \in Seq(ObjectRecord) /\ Len(ob) >= 1 /\ Len(ob) \in Nat
      /\ l \in Seq(Nat) /\ IsInjective(l) /\ ToSet(l) \subseteq 2..Len(ob)
  BY DEF ObjectsAre
<1>2. o \in 1..Len(ob) /\ o # Root /\ \A p \in {Root} \cup ToSet(l) : p \in 1..Len(ob)
  BY <1>1 DEF Root
<1>3. /\ ob2 \in Seq(ObjectRecord) /\ Len(ob2) = Len(ob) /\ ob2[o] = rec
      /\ \A p \in 1..Len(ob) : p # o => ob2[p] = ob[p]
  <2>0. DOMAIN ob = 1..Len(ob)
    BY <1>1
  <2>1. ob2 = [p \in 1..Len(ob) |-> IF p = o THEN rec ELSE ob[p]]
    BY <2>0 DEF Replaced
  <2> QED
    BY <1>1, <1>2, <2>1
<1>4. ob2[Root] = ob[Root]
  BY <1>2, <1>3
<1> QED
  BY <1>1, <1>2, <1>3, <1>4 DEF ObjectsAre

(* The request that makes an object in the cloud (MakeInCloud).            *)
LEMMA MakeIs ==
  ASSUME Inv, NEW st \in Walkers, ObjectsAre(st.obj, st.list), Len(obj) <= Len(st.obj),
         ToSet(list) \subseteq ToSet(st.list),
         \A o \in ToSet(st.list) : o \in ToSet(list) \/ o > Len(obj),
         OrderKept(list, st.list),
         NEW o \in ToSet(st.list), NEW net \in Nets, MakeInCloud(st, o, net),
         uploading' \subseteq 2..Len(st.obj)
  PROVE  /\ Stepped /\ Erasing /\ Trashing /\ list' = st.list
         /\ failures' = 0 => net = "up" /\ failures = 0
         /\ failures' = 0 /\ Faithful(tree, st.obj, st.list) /\ OthersAreFiles(st.obj, st.list, o)
              /\ ~ Known(st.obj, o) =>
              /\ Faithful(tree', obj', list') /\ UnknownAreFiles(obj', list')
              /\ obj'[o].id # <<>>
              /\ \A p \in ToSet(list') : p # o => obj'[p] = st.obj[p]
<1> DEFINE rec == st.obj[o]
           parent == Node(rec.parentId)
           possible == MayMake(tree, pathIds, parent, rec.title) /\ rec.title # NoName
           grown == Made(tree, born + 1, parent, rec.title, rec.folder)
           known == [Entry(grown, born + 1) EXCEPT !.folder = rec.folder]
           st2 == IF Accepted(net, possible)
                    THEN [st EXCEPT !.obj = [@ EXCEPT ![o] = known]]
                  ELSE IF net \in Page \/ (Refused(net, possible) /\ ~pathIds)
                    THEN [st EXCEPT !.obj = [@ EXCEPT ![o] = Nameless(rec)]]
                  ELSE st
<1>1. /\ IF Effective(net, possible)
           THEN born < MaxNodes /\ tree' = grown /\ born' = born + 1
           ELSE tree' = tree /\ born' = born
      /\ Len(st2.obj) <= MaxObjects /\ obj' = st2.obj /\ list' = st2.list /\ pathIds' = pathIds
      /\ Spend(net, Accepted(net, possible))
  BY DEF MakeInCloud, Objects, treeVars
<1>2. /\ pathIds \in BOOLEAN /\ WellFormed(tree, pathIds) /\ born \in 0..MaxNodes
      /\ DOMAIN tree \subseteq 1..born /\ MaxNodes \in Nat
  BY NowIs DEF Inv, TreeInv
<1>3. rec \in ObjectRecord
  BY DEF ObjectsAre
<1> HIDE DEF rec
<1>4. Accepted(net, possible) => Effective(net, possible) /\ net = "up"
  BY DEF Accepted, Effective
<1>5. Effective(net, possible) => possible
  BY DEF Effective
<1> DEFINE n == born + 1
<1>6. ASSUME Effective(net, possible)
      PROVE  /\ tree' = grown /\ born' = n /\ n \in 1..MaxNodes /\ n \notin DOMAIN tree
             /\ WellFormed(grown, pathIds) /\ DOMAIN grown = DOMAIN tree \cup {n}
             /\ grown[n] = [name |-> rec.title, parent |-> parent, folder |-> rec.folder]
             /\ \A m \in DOMAIN tree : grown[m] = tree[m]
             /\ \A m \in Nodes(tree) : IdOf(grown, pathIds, m) = IdOf(tree, pathIds, m)
             /\ IdOf(grown, pathIds, parent) = rec.parentId
  <2>1. tree' = grown /\ born' = n /\ born < MaxNodes
    BY <1>1, <1>6
  <2>2. n \in 1..MaxNodes \ DOMAIN tree
    BY <1>2, <2>1
  <2>3. rec.title \in Name /\ rec.folder \in BOOLEAN /\ MayMake(tree, pathIds, parent, rec.title)
    BY <1>3, <1>5, <1>6 DEF ObjectRecord, Titles
  <2>4. parent \in Nodes(tree)
    BY <2>3 DEF MayMake, IsFolder, Nodes
  <2>5. IdOf(tree, pathIds, parent) = rec.parentId
    BY <1>2, <2>4, NodeWithIdIs DEF Node
  <2>g. grown = Made(tree, n, parent, rec.title, rec.folder)
    OBVIOUS
  <2> HIDE DEF n, parent, grown
  <2>a. IsMade(tree, grown, pathIds, n, parent, rec.title, rec.folder)
    BY <1>2, <2>2, <2>3, <2>g, TreeMade
  <2>6. /\ WellFormed(grown, pathIds) /\ DOMAIN grown = DOMAIN tree \cup {n}
        /\ grown[n] = [name |-> rec.title, parent |-> parent, folder |-> rec.folder]
        /\ \A m \in DOMAIN tree : grown[m] = tree[m]
        /\ \A m \in Nodes(tree) : IdOf(grown, pathIds, m) = IdOf(tree, pathIds, m)
    BY <2>a DEF IsMade
  <2> QED
    BY <2>1, <2>2, <2>4, <2>5, <2>6
<1> HIDE DEF grown, possible, parent
<1>7. Effective(net, possible) =>
        /\ known \in ObjectRecord /\ Same(known, Entry(grown, n)) /\ known.listed = FALSE
        /\ known.parentId = rec.parentId
  <2> SUFFICES ASSUME Effective(net, possible)
               PROVE  /\ known \in ObjectRecord /\ Same(known, Entry(grown, n))
                      /\ known.listed = FALSE /\ known.parentId = rec.parentId
    OBVIOUS
  <2>1. n \in DOMAIN grown /\ WellFormed(grown, pathIds) /\ grown[n].folder = rec.folder
        /\ grown[n].parent = parent
    BY <1>6
  <2> DEFINE e == Entry(grown, n)
  <2>2. /\ e \in ObjectRecord /\ e.parentId = IdOf(grown, pathIds, grown[n].parent)
        /\ e.folder = grown[n].folder /\ e.listed = FALSE
    BY <1>2, <2>1, EntryIs
  <2>3. known = [e EXCEPT !.folder = rec.folder]
    OBVIOUS
  <2> HIDE DEF e, known, n
  <2>4. e.parentId = rec.parentId /\ e.folder = rec.folder
    BY <1>6, <2>1, <2>2
  <2>5. known = e
    BY <2>2, <2>3, <2>4 DEF ObjectRecord
  <2> QED
    BY <2>2, <2>4, <2>5 DEF e, Same
<1> HIDE DEF known
<1>8. Nameless(rec) \in ObjectRecord
  <2>1. <<>> \in Id /\ NoName \in Titles
    BY DEF Id, Titles
  <2> QED
    BY <1>3, <2>1 DEF Nameless, ObjectRecord
<1>9. \/ Accepted(net, possible) /\ Replaced(st.obj, o, known, obj')
      \/ ~ Accepted(net, possible) /\ Replaced(st.obj, o, Nameless(rec), obj')
      \/ ~ Accepted(net, possible) /\ obj' = st.obj
  <2>3. CASE Accepted(net, possible)
    <3>1. st2 = [st EXCEPT !.obj = [st.obj EXCEPT ![o] = known]]
      BY <2>3
    <3> HIDE DEF st2
    <3> QED
      BY <1>1, <2>3, <3>1 DEF Walkers, Replaced
  <2>4. CASE ~ Accepted(net, possible) /\ (net \in Page \/ (Refused(net, possible) /\ ~pathIds))
    <3>1. st2 = [st EXCEPT !.obj = [st.obj EXCEPT ![o] = Nameless(rec)]]
      BY <2>4 DEF rec
    <3> HIDE DEF st2
    <3> QED
      BY <1>1, <2>4, <3>1 DEF Walkers, Replaced
  <2>5. CASE ~ Accepted(net, possible) /\ ~ (net \in Page \/ (Refused(net, possible) /\ ~pathIds))
    BY <1>1, <2>5
  <2> QED
    BY <2>3, <2>4, <2>5
<1>10. list' = st.list
  BY <1>1 DEF Walkers
<1>11. ObjectsAre(obj', list') /\ Len(obj') = Len(st.obj)
  BY <1>4, <1>7, <1>8, <1>9, <1>10, ChangedIs
<1>12. /\ WellFormed(tree', pathIds) /\ born' \in 0..MaxNodes /\ DOMAIN tree' \subseteq 1..born'
       /\ DOMAIN tree \subseteq DOMAIN tree'
  <2>1. CASE Effective(net, possible)
    <3>1. \A m \in 1..born : m \in 1..n
      BY <1>2
    <3> QED
      BY <1>2, <1>6, <2>1, <3>1
  <2>2. CASE ~ Effective(net, possible)
    BY <1>1, <1>2, <2>2
  <2> QED
    BY <2>1, <2>2
<1>13. Accepted(net, possible) \in BOOLEAN
  BY DEF Accepted, possible
<1>a. Len(obj') <= MaxObjects
  BY <1>1
<1>14. Stepped /\ Erasing /\ Trashing /\ (failures' = 0 => Accepted(net, possible) /\ failures = 0)
  BY <1>1, <1>10, <1>11, <1>12, <1>13, <1>a, GrowingSteps
<1>15. ASSUME failures' = 0, Faithful(tree, st.obj, st.list),
              OthersAreFiles(st.obj, st.list, o), ~ Known(st.obj, o)
       PROVE  /\ Faithful(tree', obj', list') /\ UnknownAreFiles(obj', list')
              /\ obj'[o].id # <<>>
              /\ \A p \in ToSet(list') : p # o => obj'[p] = st.obj[p]
  <2>1. Accepted(net, possible) /\ Effective(net, possible) /\ Replaced(st.obj, o, known, obj')
    BY <1>4, <1>9, <1>14, <1>15
  <2>2. /\ obj'[o] = known
        /\ \A p \in {Root} \cup ToSet(st.list) : p # o => obj'[p] = st.obj[p]
    <3>1. known \in ObjectRecord
      BY <1>7, <2>1
    <3> QED
      BY <2>1, <3>1, ChangedIs
  <2>3. /\ Same(obj'[o], Entry(grown, n)) /\ ~ obj'[o].listed
        /\ obj'[o].parentId = st.obj[o].parentId
    BY <1>7, <2>1, <2>2 DEF rec
  <2> HIDE DEF n
  <2>a. /\ pathIds \in BOOLEAN /\ WellFormed(tree, pathIds) /\ WellFormed(grown, pathIds)
        /\ n \notin DOMAIN tree /\ DOMAIN grown = DOMAIN tree \cup {n}
        /\ \A m \in DOMAIN tree : grown[m] = tree[m]
        /\ \A m \in Nodes(tree) : IdOf(grown, pathIds, m) = IdOf(tree, pathIds, m)
    BY <1>2, <1>6, <2>1
  <2>4. Faithful(grown, obj', st.list) /\ UnknownAreFiles(obj', st.list) /\ obj'[o].id # <<>>
    BY <1>15, <2>a, <2>2, <2>3, MakeMirrors
  <2> QED
    BY <1>6, <1>10, <2>1, <2>2, <2>4
<1> QED
  BY <1>4, <1>10, <1>14, <1>15

(* __createdir (CreateDir).                                                *)
LEMMA CreateDirIsGood ==
  ASSUME Inv, NEW w, NEW net, Looked(w, net), NEW path \in PathSet, CreateDir(w, path, net)
  PROVE  Good
<1> DEFINE st == WithNew(w, path, TRUE)
           o == Len(w.obj) + 1
<1>1. MakeInCloud(st, o, net) /\ uploading' = uploading /\ net \in Nets
  BY DEF CreateDir, Looked
<1>2. /\ w \in Walkers /\ ObjectsAre(w.obj, w.list) /\ Grown(obj, list, w.obj, w.list)
      /\ Len(w.obj) \in Nat /\ Len(obj) <= Len(w.obj) /\ w.parent \in {Root} \cup ToSet(w.list)
      /\ failures = 0 /\ net = "up" =>
           \A p \in uploading \cap ToSet(w.list) : p \in ToSet(list) /\ ~ Known(w.obj, p)
  BY LookedIs
<1>s. st = WithNew(w, path, TRUE)
  OBVIOUS
<1> HIDE DEF st
<1>3. st \in Walkers /\ \E rec \in ObjectRecord :
        /\ Added(w.obj, w.list, rec, o, st.obj, st.list)
        /\ rec.titleLC = NoName /\ ~ rec.listed
        /\ rec.id = <<>> /\ rec.parentId = w.obj[w.parent].id
  BY <1>2, <1>s, WithNewIs
<1>4. PICK rec \in ObjectRecord :
        /\ Added(w.obj, w.list, rec, o, st.obj, st.list)
        /\ rec.titleLC = NoName /\ ~ rec.listed
        /\ rec.id = <<>> /\ rec.parentId = w.obj[w.parent].id
  BY <1>3
<1>o. o = Len(w.obj) + 1
  OBVIOUS
<1> HIDE DEF o
<1>5. /\ ObjectsAre(st.obj, st.list) /\ Grown(w.obj, w.list, st.obj, st.list)
      /\ ToSet(st.list) = ToSet(w.list) \cup {o} /\ st.obj[o] = rec /\ Len(st.obj) = o
      /\ \A p \in {Root} \cup ToSet(w.list) : st.obj[p] = w.obj[p]
      /\ o \in ToSet(st.list) /\ o \notin ToSet(w.list)
  BY <1>2, <1>4, NewIs
<1>6. Grown(obj, list, st.obj, st.list)
  BY <1>2, <1>5, GrownIs, NowIs
<1>7. uploading' \subseteq 2..Len(st.obj) /\ o \notin uploading
  <2>1. uploading \subseteq 2..Len(obj) /\ Len(obj) \in Nat
    BY NowIs DEF Inv, ObjectsInv
  <2>2. \A n \in 2..Len(obj) : n \in 2..o /\ n # o
    BY <1>2, <1>o, <2>1
  <2> QED
    BY <1>1, <1>5, <2>1, <2>2
<1>8. /\ Len(obj) <= Len(st.obj) /\ ToSet(list) \subseteq ToSet(st.list)
      /\ \A p \in ToSet(st.list) : p \in ToSet(list) \/ p > Len(obj)
      /\ OrderKept(list, st.list)
  BY <1>6 DEF Grown
<1>9. /\ Stepped /\ Erasing /\ Trashing /\ list' = st.list
      /\ failures' = 0 => net = "up" /\ failures = 0
      /\ failures' = 0 /\ Faithful(tree, st.obj, st.list) /\ OthersAreFiles(st.obj, st.list, o)
           /\ ~ Known(st.obj, o) =>
           /\ Faithful(tree', obj', list') /\ UnknownAreFiles(obj', list')
           /\ obj'[o].id # <<>>
           /\ \A p \in ToSet(list') : p # o => obj'[p] = st.obj[p]
  BY <1>1, <1>3, <1>5, <1>7, <1>8, MakeIs
<1>10. ASSUME failures' = 0
       PROVE  /\ Faithful(tree', obj', list') /\ UnknownAreFiles(obj', list')
              /\ \A p \in uploading' \cap ToSet(list') : ~ Known(obj', p)
  <2>1. Clear(w) /\ Settled(w.obj, w.parent) /\ net = "up" /\ failures = 0
    BY <1>9, <1>10 DEF Looked
  <2>2. Faithful(tree, w.obj, w.list) /\ UnknownAreFiles(w.obj, w.list)
    BY <2>1 DEF Clear
  <2>3. Faithful(tree, st.obj, st.list) /\ OthersAreFiles(st.obj, st.list, o) /\ ~ Known(st.obj, o)
    BY <1>2, <1>4, <2>1, <2>2, NewMirrors
  <2>4. /\ Faithful(tree', obj', list') /\ UnknownAreFiles(obj', list')
        /\ \A p \in ToSet(list') : p # o => obj'[p] = st.obj[p]
    BY <1>9, <1>10, <2>3
  <2>5. ASSUME NEW p \in uploading' \cap ToSet(list') PROVE ~ Known(obj', p)
    <3>1. p # o /\ p \in ToSet(w.list) /\ p \in uploading
      BY <1>1, <1>5, <1>7, <1>9
    <3>2. obj'[p] = w.obj[p]
      BY <1>5, <2>4, <3>1
    <3> QED
      BY <1>2, <2>1, <3>1, <3>2 DEF Known
  <2> QED
    BY <2>4, <2>5
<1> QED
  BY <1>9, <1>10 DEF Good, Mirroring

(* The requests of __write and __close (Upload).                           *)
LEMMA UploadIsGood ==
  ASSUME Inv, NEW o, NEW net \in Nets, Upload(o, net)
  PROVE  Good
<1>1. /\ o \in uploading /\ o \in ToSet(list) /\ MakeInCloud(Now, o, net)
      /\ uploading' = uploading \ {o} \/ (obj'[o].id = <<>> /\ uploading' = uploading)
  BY DEF Upload
<1>2. /\ Now \in Walkers /\ Now.obj = obj /\ Now.list = list /\ ObjectsAre(obj, list)
      /\ Len(obj) \in Nat /\ Len(obj) <= Len(obj) /\ OrderKept(list, list)
  BY NowIs DEF OrderKept
<1>3. uploading' \subseteq 2..Len(obj)
  BY <1>1 DEF Inv, ObjectsInv
<1>4. /\ Stepped /\ Erasing /\ Trashing /\ list' = list
      /\ failures' = 0 => net = "up" /\ failures = 0
      /\ failures' = 0 /\ Faithful(tree, obj, list) /\ OthersAreFiles(obj, list, o)
           /\ ~ Known(obj, o) =>
           /\ Faithful(tree', obj', list') /\ UnknownAreFiles(obj', list')
           /\ obj'[o].id # <<>>
           /\ \A p \in ToSet(list') : p # o => obj'[p] = obj[p]
  <2> DEFINE st == Now
  <2>1. /\ st \in Walkers /\ st.obj = obj /\ st.list = list /\ MakeInCloud(st, o, net)
    BY <1>1, <1>2
  <2> HIDE DEF st
  <2>2. /\ ObjectsAre(st.obj, st.list) /\ Len(obj) <= Len(st.obj)
        /\ ToSet(list) \subseteq ToSet(st.list)
        /\ \A p \in ToSet(st.list) : p \in ToSet(list) \/ p > Len(obj)
        /\ OrderKept(list, st.list) /\ o \in ToSet(st.list)
        /\ uploading' \subseteq 2..Len(st.obj)
    BY <1>1, <1>2, <1>3, <2>1
  <2>3. /\ Stepped /\ Erasing /\ Trashing /\ list' = st.list
        /\ failures' = 0 => net = "up" /\ failures = 0
        /\ failures' = 0 /\ Faithful(tree, st.obj, st.list) /\ OthersAreFiles(st.obj, st.list, o)
             /\ ~ Known(st.obj, o) =>
             /\ Faithful(tree', obj', list') /\ UnknownAreFiles(obj', list')
             /\ obj'[o].id # <<>>
             /\ \A p \in ToSet(list') : p # o => obj'[p] = st.obj[p]
    BY <2>1, <2>2, MakeIs
  <2> QED
    BY <2>1, <2>3
<1>5. ASSUME failures' = 0
      PROVE  /\ Faithful(tree', obj', list') /\ UnknownAreFiles(obj', list')
             /\ \A p \in uploading' \cap ToSet(list') : ~ Known(obj', p)
  <2>1. /\ Faithful(tree, obj, list) /\ UnknownAreFiles(obj, list)
        /\ \A p \in uploading \cap ToSet(list) : ~ Known(obj, p)
    BY <1>4, <1>5 DEF Inv, MirrorInv
  <2>2. OthersAreFiles(obj, list, o) /\ ~ Known(obj, o)
    BY <1>1, <2>1 DEF OthersAreFiles, UnknownAreFiles
  <2> QED
    BY <1>1, <1>4, <1>5, <2>1, <2>2 DEF Known
<1> QED
  BY <1>4, <1>5 DEF Good, Mirroring

(* __delete (Delete).                                                      *)
LEMMA DeleteIsGood ==
  ASSUME Inv, NEW w, NEW net, Looked(w, net), Delete(w, net)
  PROVE  Good
<1> DEFINE o == w.file
           n == Node(w.obj[o].id)
           possible == n \in DOMAIN tree
<1>1. /\ o # Null
      /\ IF Effective(net, possible) THEN tree' = Trashed(tree, n) ELSE tree' = tree
      /\ Spend(net, Accepted(net, possible) /\ (w.obj[o].folder \/ InFolder(w, w.obj[o].id) = {}))
      /\ born' = born /\ uploading' = uploading \cap ToSet(list')
      /\ w.obj[o].folder => InFolder(w, w.obj[o].id) = {}
  BY DEF Delete, Deletable
<1>2. /\ obj' = w.obj /\ Len(w.obj) <= MaxObjects /\ pathIds' = pathIds
      /\ list' = IF Believed(net, possible) THEN RemoveFirst(w.list, o) ELSE w.list
  BY LookedIs DEF Delete, Objects, MayErase, Walkers
<1>3. /\ w \in Walkers /\ ObjectsAre(w.obj, w.list) /\ Grown(obj, list, w.obj, w.list)
      /\ o \in {Root} \cup ToSet(w.list)
      /\ Len(w.obj) \in Nat /\ Len(obj) <= Len(w.obj)
      /\ \A p \in ToSet(list) : p \in ToSet(w.list) /\ Same(w.obj[p], obj[p])
      /\ failures = 0 /\ net = "up" =>
           \A p \in uploading \cap ToSet(w.list) : p \in ToSet(list) /\ ~ Known(w.obj, p)
  BY <1>1, LookedIs
<1>4. /\ pathIds \in BOOLEAN /\ WellFormed(tree, pathIds) /\ born \in 0..MaxNodes
      /\ DOMAIN tree \subseteq 1..born /\ ObjectsAre(obj, list) /\ Len(obj) \in Nat
      /\ uploading \subseteq 2..Len(obj) /\ failures \in Nat
  BY NowIs DEF Inv, TreeInv, ObjectsInv
<1>5. /\ Accepted(net, possible) => Effective(net, possible) /\ net = "up" /\ n \in DOMAIN tree
      /\ Accepted(net, possible) => Believed(net, possible)
      /\ Believed(net, possible) => Accepted(net, possible) \/ net \in Page
  BY DEF Accepted, Effective, Believed
<1>6. Effective(net, possible) => n \in DOMAIN tree
  BY DEF Effective
<1>n. n = NodeWithId(tree, pathIds, w.obj[o].id)
  BY DEF Node
<1> HIDE DEF possible, n
<1>7. ASSUME n \in DOMAIN tree
      PROVE  /\ IsTrashed(tree, Trashed(tree, n), pathIds, n) /\ o \in ToSet(w.list)
             /\ w.obj[o].id = IdOf(tree, pathIds, n)
  <2>1. IsTrashed(tree, Trashed(tree, n), pathIds, n)
    BY <1>4, <1>7, TreeTrashed
  <2>2. n \in Nodes(tree) /\ n # Top /\ Top \in Nodes(tree)
    BY <1>4, <1>7, TopIs
  <2>3. w.obj[o].id = IdOf(tree, pathIds, n)
    BY <1>4, <1>n, <2>2, NodeWithIdIs
  <2>4. IdOf(tree, pathIds, n) # <<>>
    BY <1>4, <1>7, IdsAre
  <2>5. w.obj[Root].id = <<>>
    BY <1>3 DEF ObjectsAre
  <2> QED
    BY <1>3, <2>1, <2>3, <2>4, <2>5
<1>8. /\ list' \in Seq(Nat) /\ IsInjective(list')
      /\ ToSet(list') = IF Believed(net, possible) THEN ToSet(w.list) \ {o} ELSE ToSet(w.list)
      /\ \A p, q \in ToSet(list') : Before(w.list, p, q) => Before(list', p, q)
  <2>1. w.list \in Seq(Nat) /\ IsInjective(w.list)
    BY <1>3 DEF ObjectsAre
  <2>2. CASE Believed(net, possible)
    <3> DEFINE r == RemoveFirst(w.list, o)
    <3>1. /\ r \in Seq(Nat) /\ IsInjective(r) /\ ToSet(r) = ToSet(w.list) \ {o}
          /\ \A p, q \in ToSet(r) : Before(w.list, p, q) => Before(r, p, q)
      BY <2>1, RemoveFirstIs
    <3> QED
      BY <1>2, <2>2, <3>1
  <2>3. CASE ~ Believed(net, possible)
    BY <1>2, <2>1, <2>3
  <2> QED
    BY <2>2, <2>3
<1>9. ObjectsAre(obj', list')
  BY <1>2, <1>3, <1>8 DEF ObjectsAre
<1>10. OrderKept(list, list')
  <2> SUFFICES ASSUME NEW p, NEW q, p \in ToSet(list'), q \in ToSet(list'), Before(list, p, q)
               PROVE  Before(list', p, q)
    BY DEF OrderKept
  <2>1. p \in ToSet(w.list) /\ q \in ToSet(w.list)
    BY <1>8
  <2>2. Before(w.list, p, q)
    BY <1>3, <2>1 DEF Grown, OrderKept
  <2> QED
    BY <1>8, <2>2
<1>11. /\ WellFormed(tree', pathIds) /\ DOMAIN tree' \subseteq 1..born'
  <2>1. CASE Effective(net, possible)
    BY <1>1, <1>4, <1>6, <1>7, <2>1 DEF IsTrashed
  <2>2. CASE ~ Effective(net, possible)
    BY <1>1, <1>4, <2>2
  <2> QED
    BY <2>1, <2>2
<1>12. /\ failures' \in 0..MaxFailures /\ failures <= failures'
       /\ failures' = 0 => Accepted(net, possible) /\ failures = 0 /\ InFolder(w, w.obj[o].id) = {}
       /\ misread' = (net \in Page)
  BY <1>1, NowIs DEF Spend
<1>13. Stepped
  <2>1. \A p \in ToSet(list') : p \in ToSet(list) \/ p > Len(obj)
    BY <1>3, <1>8 DEF Grown
  <2>2. uploading' \subseteq 2..Len(obj')
    <3>1. \A p \in 2..Len(obj) : p \in 2..Len(w.obj)
      BY <1>3, <1>4
    <3> QED
      BY <1>1, <1>2, <1>4, <3>1
  <2> QED
    BY <1>1, <1>2, <1>3, <1>4, <1>9, <1>10, <1>11, <1>12, <2>1, <2>2 DEF Stepped
<1>14. Erasing
  <2> SUFFICES ASSUME ~ misread', NEW p \in ToSet(list) \ ToSet(list')
               PROVE  NodeWithId(tree', pathIds, obj[p].id) = NoNode
    BY DEF Erasing
  <2>1. Accepted(net, possible) /\ p = o /\ Same(w.obj[p], obj[p])
    BY <1>3, <1>5, <1>8, <1>12
  <2>2. tree' = Trashed(tree, n) /\ n \in DOMAIN tree /\ obj[p].id = IdOf(tree, pathIds, n)
    BY <1>1, <1>5, <1>7, <2>1 DEF Same
  <2>3. IsTrashed(tree, tree', pathIds, n)
    BY <1>7, <2>2
  <2>4. \A m \in Nodes(tree') : m \in Nodes(tree) /\ m # n /\ IdOf(tree', pathIds, m) = IdOf(tree, pathIds, m)
    <3>1. n # Top
      BY <1>4, <2>2, TopIs
    <3> QED
      BY <2>3, <3>1 DEF IsTrashed, Nodes
  <2>5. n \in Nodes(tree)
    BY <1>4, <2>2, TopIs
  <2>6. \A m \in Nodes(tree') : IdOf(tree', pathIds, m) # obj[p].id
    <3>1. \A j, k \in Nodes(tree) : IdOf(tree, pathIds, j) = IdOf(tree, pathIds, k) => j = k
      BY <1>4, IdsAre
    <3> QED
      BY <2>2, <2>4, <2>5, <3>1
  <2> QED
    BY <1>4, <1>11, <2>6, NodeWithIdIs
<1>15. ASSUME failures' = 0
       PROVE  /\ Faithful(tree', obj', list') /\ UnknownAreFiles(obj', list')
              /\ \A p \in uploading' \cap ToSet(list') : ~ Known(obj', p)
              /\ \A m \in DOMAIN tree \ DOMAIN tree' : Children(tree, m) = {}
  <2>1. /\ Accepted(net, possible) /\ net = "up" /\ failures = 0 /\ n \in DOMAIN tree
        /\ tree' = Trashed(tree, n)
    BY <1>1, <1>5, <1>12, <1>15
  <2>2. Clear(w) /\ Settled(w.obj, w.parent) /\ o = w.parent
    BY <1>1, <2>1 DEF Looked, Clear
  <2>3. Faithful(tree, w.obj, w.list) /\ UnknownAreFiles(w.obj, w.list)
    BY <2>2 DEF Clear
  <2>4. /\ o \in ToSet(w.list) /\ w.obj[o].id = IdOf(tree, pathIds, n)
        /\ IsTrashed(tree, tree', pathIds, n)
    BY <1>7, <2>1
  <2>5. o # Root /\ Known(w.obj, o) /\ (w.obj[o].folder => w.obj[o].listed)
    BY <1>3, <2>2, <2>4, NullIsNoObject DEF Settled
  <2>6. \A p \in ToSet(w.list) : w.obj[p].parentId # w.obj[o].id
    BY <1>12, <1>15 DEF InFolder
  <2>7. Children(tree, n) = {}
    BY <1>3, <1>4, <1>n, <2>3, <2>4, <2>5, <2>6, EmptyIsEmpty
  <2>8. DOMAIN tree' = DOMAIN tree \ {n}
    BY <2>4, <2>7 DEF IsTrashed
  <2>a. ToSet(list') = ToSet(w.list) \ {o}
    BY <1>5, <1>8, <2>1
  <2>b. /\ \A m \in DOMAIN tree' : tree'[m] = tree[m]
        /\ \A m \in Nodes(tree') : IdOf(tree', pathIds, m) = IdOf(tree, pathIds, m)
    BY <2>4 DEF IsTrashed
  <2>9. Faithful(tree', w.obj, list') /\ UnknownAreFiles(w.obj, list')
    BY <1>3, <1>4, <1>11, <2>1, <2>3, <2>4, <2>6, <2>8, <2>a, <2>b, TrashMirrors
  <2>10. \A p \in uploading' \cap ToSet(list') : ~ Known(obj', p)
    BY <1>1, <1>2, <1>3, <2>1, <2>a
  <2> QED
    BY <1>2, <2>7, <2>8, <2>9, <2>10
<1> QED
  BY <1>13, <1>14, <1>15 DEF Good, Mirroring, Trashing

(* __rename (Rename); the second lookup may add objects after the first    *)
(* has found its own.                                                      *)
LEMMA RenameIsGood ==
  ASSUME Inv, NEW w1, NEW w, NEW o, NEW net, Looked(w1, net), Looked(w, net),
         Grown(w1.obj, w1.list, w.obj, w.list), o = w1.file,
         o \in ToSet(w1.list), w1.obj[o].titleLC \in Name,
         NEW to \in PathSet, Rename(w, o, to, net)
  PROVE  Good
<1> DEFINE n == Node(w.obj[o].id)
           parentId == w.obj[w.parent].id
           possible == MayMove(tree, pathIds, n, Node(parentId), Last(to))
           moved == Moved(tree, n, Node(parentId), Last(to))
           renamed == [w.obj[o] EXCEPT !.title = Last(to), !.parentId = parentId]
           known == [Entry(moved, n) EXCEPT !.folder = renamed.folder, !.listed = renamed.listed]
           rec == IF Accepted(net, possible) THEN known
                  ELSE IF net \in Page THEN Nameless(renamed)
                  ELSE renamed
<1>1. /\ w.file \in {Null, o}
      /\ IF Effective(net, possible) THEN tree' = moved ELSE tree' = tree
      /\ Spend(net, Accepted(net, possible) /\ (pathIds => InFolder(w, w.obj[o].id) = {}))
      /\ born' = born /\ uploading' = uploading
  BY DEF Rename
<1>2. /\ w \in Walkers /\ ObjectsAre(w.obj, w.list) /\ Grown(obj, list, w.obj, w.list)
      /\ w.parent \in {Root} \cup ToSet(w.list)
      /\ Len(w.obj) \in Nat /\ Len(obj) <= Len(w.obj)
      /\ \A p \in ToSet(list) : p \in ToSet(w.list) /\ Same(w.obj[p], obj[p])
      /\ failures = 0 /\ net = "up" =>
           \A p \in uploading \cap ToSet(w.list) : p \in ToSet(list) /\ ~ Known(w.obj, p)
  BY LookedIs
<1>3. Replaced(w.obj, o, rec, obj') /\ list' = w.list /\ pathIds' = pathIds /\ Len(obj') <= MaxObjects
  <2> DEFINE st == [w EXCEPT !.obj = [w.obj EXCEPT ![o] = rec]]
  <2>1. Objects(st)
    BY DEF Rename
  <2>2. st.obj = [w.obj EXCEPT ![o] = rec] /\ st.list = w.list
    BY <1>2 DEF Walkers
  <2> HIDE DEF st
  <2> QED
    BY <2>1, <2>2 DEF Objects, Replaced
<1>4. /\ pathIds \in BOOLEAN /\ WellFormed(tree, pathIds) /\ born \in 0..MaxNodes
      /\ DOMAIN tree \subseteq 1..born /\ ObjectsAre(obj, list) /\ Len(obj) \in Nat
      /\ uploading \subseteq 2..Len(obj) /\ failures \in Nat
  BY NowIs DEF Inv, TreeInv, ObjectsInv
<1>5. /\ ObjectsAre(w1.obj, w1.list) /\ o \in ToSet(w.list) /\ o \in 1..Len(w1.obj)
      /\ Same(w.obj[o], w1.obj[o]) /\ (w1.obj[o].listed => w.obj[o].listed)
      /\ Known(w.obj, o)
  <2>1. ObjectsAre(w1.obj, w1.list)
    BY LookedIs
  <2>2. o \in 1..Len(w1.obj)
    BY <2>1 DEF ObjectsAre
  <2>3. /\ o \in ToSet(w.list)
        /\ Same(w.obj[o], w1.obj[o]) /\ (w1.obj[o].listed => w.obj[o].listed)
    BY <2>2 DEF Grown
  <2> QED
    BY <2>1, <2>2, <2>3, NamesAssumption DEF Same, Known
<1>6. Last(to) \in Name /\ Last(to) \in Titles
  BY PathsAssumption DEF Titles
<1>7. /\ Accepted(net, possible) => Effective(net, possible) /\ net = "up"
      /\ Effective(net, possible) => possible
      /\ Accepted(net, possible) \in BOOLEAN
  BY DEF Accepted, Effective, MayMove
<1> HIDE DEF possible
<1>8. w.obj[o] \in ObjectRecord /\ w.obj[w.parent] \in ObjectRecord
  BY <1>2, <1>5 DEF ObjectsAre, Root
<1>9. renamed \in ObjectRecord /\ renamed.folder = w.obj[o].folder /\ renamed.listed = w.obj[o].listed
  BY <1>6, <1>8 DEF ObjectRecord
<1> HIDE DEF renamed
<1>k. moved = Moved(tree, n, Node(parentId), Last(to)) /\ n = NodeWithId(tree, pathIds, w.obj[o].id)
  BY DEF Node
<1>p. possible => MayMove(tree, pathIds, n, Node(parentId), Last(to))
  BY DEF possible
<1> DEFINE parent == Node(parentId)
<1> HIDE DEF n, moved
<1>10. ASSUME Effective(net, possible)
       PROVE  /\ IsMoved(tree, moved, pathIds, n, parent, Last(to)) /\ n \in DOMAIN tree
              /\ parent \in Nodes(tree) /\ parent # n
              /\ w.obj[o].id = IdOf(tree, pathIds, n)
              /\ parentId = IdOf(tree, pathIds, parent)
  <2> HIDE DEF parent
  <2>1. MayMove(tree, pathIds, n, parent, Last(to)) /\ moved = Moved(tree, n, parent, Last(to))
    BY <1>7, <1>10, <1>k, <1>p DEF parent
  <2>2. n \in DOMAIN tree /\ parent \in Nodes(tree) /\ parent \notin Under(tree, n)
    BY <2>1 DEF MayMove, MayMake, IsFolder, Nodes
  <2>3. n \in Nodes(tree) /\ n \in Under(tree, n)
    <3>1. n \in Nodes(tree)
      BY <1>4, <2>2, TopIs
    <3> QED
      BY <1>4, <3>1, UnderIs
  <2>4. IsMoved(tree, moved, pathIds, n, parent, Last(to))
    BY <1>4, <1>6, <2>1, TreeMoved
  <2>5. w.obj[o].id = IdOf(tree, pathIds, n)
    BY <1>4, <1>k, <2>3, NodeWithIdIs
  <2>6. parentId = IdOf(tree, pathIds, parent)
    <3>1. parent = NodeWithId(tree, pathIds, parentId)
      BY DEF parent, Node
    <3> HIDE DEF parentId
    <3> QED
      BY <1>4, <2>2, <3>1, NodeWithIdIs
  <2> QED
    BY <2>2, <2>3, <2>4, <2>5, <2>6
<1> HIDE DEF parent, parentId
<1>11. Effective(net, possible) =>
         /\ known \in ObjectRecord
         /\ known.folder = w.obj[o].folder /\ known.listed = w.obj[o].listed
         /\ \A r : r = Entry(moved, n) /\ r.folder = w.obj[o].folder => Same(known, r)
  <2> SUFFICES ASSUME Effective(net, possible)
               PROVE  /\ known \in ObjectRecord
                      /\ known.folder = w.obj[o].folder /\ known.listed = w.obj[o].listed
                      /\ \A r : r = Entry(moved, n) /\ r.folder = w.obj[o].folder => Same(known, r)
    OBVIOUS
  <2>1. n \in DOMAIN moved /\ WellFormed(moved, pathIds)
    BY <1>10 DEF IsMoved
  <2> DEFINE e == Entry(moved, n)
  <2>2. e \in ObjectRecord
    BY <1>4, <2>1, EntryIs
  <2>3. known = [e EXCEPT !.folder = renamed.folder, !.listed = renamed.listed]
    OBVIOUS
  <2>4. renamed.folder \in BOOLEAN /\ renamed.listed \in BOOLEAN
    BY <1>9 DEF ObjectRecord
  <2> HIDE DEF e, known
  <2>5. /\ known \in ObjectRecord
        /\ known.folder = w.obj[o].folder /\ known.listed = w.obj[o].listed
        /\ known.id = e.id /\ known.parentId = e.parentId /\ known.title = e.title
        /\ known.titleLC = e.titleLC
    BY <1>9, <2>2, <2>3, <2>4 DEF ObjectRecord
  <2> QED
    BY <2>5 DEF Same, e
<1> HIDE DEF known
<1>12. rec \in ObjectRecord
  <2>1. <<>> \in Id /\ NoName \in Titles
    BY DEF Id, Titles
  <2>2. Nameless(renamed) \in ObjectRecord
    BY <1>9, <2>1 DEF Nameless, ObjectRecord
  <2> QED
    BY <1>7, <1>9, <1>11, <2>2
<1> HIDE DEF rec
<1>13. /\ ObjectsAre(obj', list') /\ Len(obj') = Len(w.obj) /\ obj'[o] = rec
       /\ \A p \in {Root} \cup ToSet(w.list) : p # o => obj'[p] = w.obj[p]
  BY <1>2, <1>3, <1>5, <1>12, ChangedIs
<1>14. /\ WellFormed(tree', pathIds) /\ born' \in 0..MaxNodes /\ DOMAIN tree' \subseteq 1..born'
       /\ DOMAIN tree \subseteq DOMAIN tree'
  <2>1. CASE Effective(net, possible)
    BY <1>1, <1>4, <1>10, <2>1 DEF IsMoved
  <2>2. CASE ~ Effective(net, possible)
    BY <1>1, <1>4, <2>2
  <2> QED
    BY <2>1, <2>2
<1>15. uploading' \subseteq 2..Len(obj')
  <2>1. \A p \in 2..Len(obj) : p \in 2..Len(w.obj)
    BY <1>2, <1>4
  <2> QED
    BY <1>1, <1>4, <1>13, <2>1
<1> DEFINE good == Accepted(net, possible) /\ (pathIds => InFolder(w, w.obj[o].id) = {})
<1>16. good \in BOOLEAN /\ Spend(net, good)
  BY <1>1, <1>7
<1>g. good => Accepted(net, possible) /\ (pathIds => InFolder(w, w.obj[o].id) = {})
  OBVIOUS
<1> HIDE DEF good
<1>17. Stepped /\ Erasing /\ Trashing /\ (failures' = 0 => good /\ failures = 0)
  <2>1. /\ Len(obj) <= Len(obj') /\ Len(obj') <= MaxObjects /\ ToSet(list) \subseteq ToSet(list')
        /\ \A p \in ToSet(list') : p \in ToSet(list) \/ p > Len(obj)
        /\ OrderKept(list, list')
    BY <1>2, <1>3, <1>13 DEF Grown
  <2> QED
    BY <1>3, <1>13, <1>14, <1>15, <1>16, <2>1, GrowingSteps
<1>18. ASSUME failures' = 0
       PROVE  /\ Faithful(tree', obj', list') /\ UnknownAreFiles(obj', list')
              /\ \A p \in uploading' \cap ToSet(list') : ~ Known(obj', p)
  <2>1. /\ Accepted(net, possible) /\ Effective(net, possible) /\ net = "up" /\ failures = 0
        /\ pathIds => \A p \in ToSet(w.list) : w.obj[p].parentId # w.obj[o].id
    BY <1>7, <1>17, <1>18, <1>g DEF InFolder
  <2>2. /\ Clear(w1) /\ Settled(w1.obj, w1.parent) /\ Clear(w) /\ Settled(w.obj, w.parent)
    BY <2>1 DEF Looked
  <2>3. /\ Faithful(tree, w.obj, w.list) /\ UnknownAreFiles(w.obj, w.list)
        /\ o # Null /\ o # Root
    <3>1. o # Null /\ o # Root
      BY <1>5, NullIsNoObject
    <3> QED
      BY <2>2, <3>1 DEF Clear
  <2>4. w.obj[o].folder => w.obj[o].listed
    BY <1>5, <2>2, <2>3 DEF Clear, Settled, Same
  <2>5. /\ IsMoved(tree, moved, pathIds, n, parent, Last(to)) /\ n \in DOMAIN tree
        /\ parent \in Nodes(tree) /\ parent # n /\ tree' = moved
        /\ w.obj[o].id = IdOf(tree, pathIds, n) /\ parentId = IdOf(tree, pathIds, parent)
    BY <1>1, <1>10, <2>1
  <2>6. /\ moved[n].parent = parent /\ moved[n].folder = tree[n].folder
        /\ DOMAIN moved = DOMAIN tree /\ WellFormed(moved, pathIds)
        /\ \A m \in DOMAIN tree \ {n} : moved[m] = tree[m]
        /\ ~ pathIds => \A m \in Nodes(tree) : IdOf(moved, pathIds, m) = IdOf(tree, pathIds, m)
    BY <2>5 DEF IsMoved
  <2>7. pathIds => /\ Children(tree, n) = {}
                   /\ \A m \in Nodes(tree) \ {n} : IdOf(moved, pathIds, m) = IdOf(tree, pathIds, m)
    <3>1. pathIds => Children(tree, n) = {}
      BY <1>2, <1>4, <1>5, <1>k, <2>1, <2>3, <2>4, EmptyIsEmpty
    <3> QED
      BY <2>5, <3>1 DEF IsMoved
  <2>8. w.obj[o].folder = tree[n].folder
    <3>1. PICK m \in DOMAIN tree : m = NodeWithId(tree, pathIds, w.obj[o].id) /\ w.obj[o].folder = tree[m].folder
      BY <1>2, <1>4, <1>5, <2>3, KnownIs DEF Faithful
    <3> QED
      BY <1>k, <3>1
  <2>9. /\ Same(obj'[o], Entry(moved, n))
        /\ obj'[o].folder = w.obj[o].folder /\ obj'[o].listed = w.obj[o].listed
    <3>1. obj'[o] = known
      BY <1>13, <2>1 DEF rec
    <3>2. Entry(moved, n).folder = w.obj[o].folder
      <4>1. n \in DOMAIN moved /\ WellFormed(moved, pathIds) /\ pathIds \in BOOLEAN
        BY <1>4, <2>5, <2>6
      <4>2. Entry(moved, n).folder = moved[n].folder
        BY <4>1, EntryIs
      <4> QED
        BY <2>6, <2>8, <4>2
    <3> QED
      BY <1>11, <2>1, <3>1, <3>2
  <2>10. w.parent # o /\ w.obj[w.parent].id = IdOf(tree, pathIds, parent)
    <3>1. w.obj[w.parent].id = IdOf(tree, pathIds, parent)
      BY <2>5 DEF parentId
    <3>2. IdOf(tree, pathIds, parent) # IdOf(tree, pathIds, n)
      <4>1. n \in Nodes(tree)
        BY <1>4, <2>5, TopIs
      <4>2. \A j, k \in Nodes(tree) : IdOf(tree, pathIds, j) = IdOf(tree, pathIds, k) => j = k
        BY <1>4, IdsAre
      <4> QED
        BY <2>5, <4>1, <4>2
    <3> QED
      BY <2>5, <3>1, <3>2
  <2>11. Faithful(moved, obj', w.list) /\ UnknownAreFiles(obj', w.list)
    <3> DEFINE r == w.parent
    <3>1. /\ pathIds => Children(tree, n) = {}
                        /\ \A m \in Nodes(tree) \ {n} : IdOf(moved, pathIds, m) = IdOf(tree, pathIds, m)
          /\ pathIds => \A p \in ToSet(w.list) : w.obj[p].parentId # w.obj[o].id
          /\ ~ pathIds => \A m \in Nodes(tree) : IdOf(moved, pathIds, m) = IdOf(tree, pathIds, m)
      BY <2>1, <2>6, <2>7
    <3>2. /\ DOMAIN moved = DOMAIN tree /\ \A m \in DOMAIN tree \ {n} : moved[m] = tree[m]
          /\ moved[n].parent \in Nodes(tree) \ {n} /\ n \in DOMAIN tree
          /\ WellFormed(tree, pathIds) /\ WellFormed(moved, pathIds) /\ pathIds \in BOOLEAN
      BY <1>4, <2>5, <2>6
    <3>3. /\ r \in {Root} \cup ToSet(w.list) /\ r # o /\ Settled(w.obj, r)
          /\ w.obj[r].id = IdOf(tree, pathIds, moved[n].parent)
      BY <1>2, <2>2, <2>6, <2>10
    <3>4. /\ ObjectsAre(w.obj, w.list) /\ Faithful(tree, w.obj, w.list) /\ UnknownAreFiles(w.obj, w.list)
          /\ o \in ToSet(w.list) /\ w.obj[o].id = IdOf(tree, pathIds, n)
          /\ \A p \in {Root} \cup ToSet(w.list) : p # o => obj'[p] = w.obj[p]
      BY <1>2, <1>5, <1>13, <2>3, <2>5
    <3> HIDE DEF r
    <3> QED
      BY <2>9, <3>1, <3>2, <3>3, <3>4, MoveMirrors
  <2>12. \A p \in uploading' \cap ToSet(list') : ~ Known(obj', p)
    BY <1>1, <1>2, <1>3, <1>5, <1>13, <2>1 DEF Known
  <2> QED
    BY <1>3, <2>5, <2>11, <2>12
<1> QED
  BY <1>17, <1>18 DEF Good, Mirroring

(* __examine with a lock on a folder (Examine) ...                         *)
LEMMA ExamineIsGood ==
  ASSUME Inv, NEW w, Looked(w, "up"), Examine(w)
  PROVE  Good
<1>1. /\ obj' = w.obj /\ list' = w.list /\ Len(w.obj) <= MaxObjects /\ pathIds' = pathIds
      /\ tree' = tree /\ born' = born /\ uploading' = uploading
      /\ failures = 0 /\ Spend("up", TRUE)
  BY DEF Examine, Objects, treeVars
<1>2. /\ ObjectsAre(w.obj, w.list) /\ Grown(obj, list, w.obj, w.list)
      /\ Len(w.obj) \in Nat /\ Len(obj) <= Len(w.obj)
      /\ \A o \in uploading \cap ToSet(w.list) : o \in ToSet(list) /\ ~ Known(w.obj, o)
  BY <1>1, LookedIs
<1>3. uploading \subseteq 2..Len(w.obj)
  BY <1>2, NowIs DEF Inv, ObjectsInv
<1>4. born \in 0..MaxNodes /\ DOMAIN tree \subseteq 1..born
  BY DEF Inv, TreeInv
<1>5. Stepped /\ Erasing /\ Trashing
  BY <1>1, <1>2, <1>3, <1>4, NowIs, GrowingSteps DEF Grown
<1>6. Mirroring
  BY <1>1, <1>2 DEF Mirroring, Looked, Clear
<1> QED
  BY <1>5, <1>6 DEF Good

(* ... and the steps that change the scan only.                            *)
LEMMA StayingIsGood ==
  ASSUME Inv, UNCHANGED <<pathIds, treeVars, obj, list, uploading, failures, misread>>
  PROVE  Good
<1>1. /\ pathIds' = pathIds /\ tree' = tree /\ born' = born /\ obj' = obj /\ list' = list
      /\ uploading' = uploading /\ failures' = failures /\ misread' = misread
  BY DEF treeVars
<1>2. Stepped
  BY <1>1, NowIs DEF Stepped, Inv, ObjectsInv, TreeInv, OrderKept
<1>3. Mirroring
  BY <1>1 DEF Mirroring, Inv, MirrorInv
<1> QED
  BY <1>1, <1>2, <1>3 DEF Good, Erasing, Trashing

(***************************************************************************)
(* The scan.                                                               *)
(***************************************************************************)

(* What others do between the packets of a scan keeps it in order.         *)
LEMMA ScanKept ==
  ASSUME Inv, Stepped, ScanNotices
  PROVE  ScanType' /\ ScanInv'
<1>1. /\ ObjectsAre(obj, list) /\ Len(obj) \in Nat
      /\ scan \in [on : BOOLEAN, folder : Id, key : Nat, seen : SUBSET Nat, owed : SUBSET Nat,
                   astray : BOOLEAN]
      /\ scan.key \in 0..Len(obj) /\ scan.seen \cup scan.owed \subseteq 2..Len(obj)
  BY NowIs DEF Inv, ScanType
<1>2. /\ scan'.on = scan.on /\ scan'.folder = scan.folder /\ scan'.key = scan.key
      /\ scan'.seen = scan.seen /\ scan'.owed = {o \in scan.owed : InScannedFolder(o)}
      /\ scan'.astray = (scan.astray \/ (scan.key # Null /\ ~ InScannedFolder(scan.key)))
      /\ scan' \in [on : BOOLEAN, folder : Id, key : Nat, seen : SUBSET Nat, owed : SUBSET Nat,
                    astray : BOOLEAN]
  BY <1>1 DEF ScanNotices
<1>3. Len(obj) <= Len(obj') /\ Len(obj') \in Nat
  BY DEF Stepped, ObjectsAre
<1>4. \A o \in 1..Len(obj) : o \in ToSet(list') => o \in ToSet(list)
  BY <1>1 DEF Stepped
<1>5. \A o, p \in ToSet(list') : Before(list, o, p) => Before(list', o, p)
  BY DEF Stepped, OrderKept
<1>6. ScanType'
  <2>1. \A o : o \in 0..Len(obj) => o \in 0..Len(obj')
    BY <1>1, <1>3
  <2>2. \A o : o \in 2..Len(obj) => o \in 2..Len(obj')
    BY <1>1, <1>3
  <2>3. scan'.key \in 0..Len(obj') /\ scan'.seen \cup scan'.owed \subseteq 2..Len(obj')
    BY <1>1, <1>2, <2>1, <2>2
  <2> QED
    BY <1>2, <2>3 DEF ScanType
<1>7. \A o : InFolderScanned(o)' <=> InScannedFolder(o)
  BY <1>2 DEF InFolderScanned, InScannedFolder
<1>8. \A o : InScannedFolder(o) => o \in ToSet(list')
  BY DEF InScannedFolder
<1>9. ASSUME scan.key \in ToSet(list')
      PROVE  \A o \in scan.seen \cap ToSet(list') : Before(list', o, scan.key)
  <2>1. scan.key \in ToSet(list)
    <3>1. ToSet(list') \subseteq 2..Len(obj')
      BY DEF Stepped, ObjectsAre
    <3>2. scan.key \in 1..Len(obj)
      BY <1>1, <1>3, <1>9, <3>1
    <3> QED
      BY <1>4, <1>9, <3>2
  <2>2. \A o \in scan.seen : o \in 1..Len(obj)
    BY <1>1
  <2>3. \A o \in scan.seen \cap ToSet(list') : Before(list, o, scan.key)
    BY <1>4, <2>1, <2>2 DEF Inv, ScanInv
  <2> QED
    BY <1>5, <1>9, <2>3
<1>10. ASSUME scan'.on, ~ scan'.astray
       PROVE  /\ scan.key # Null => InScannedFolder(scan.key)
              /\ \A o \in scan'.owed :
                   scan.key # Null /\ (o = scan.key \/ Before(list', scan.key, o))
  <2>1. /\ scan.on /\ ~ scan.astray /\ (scan.key # Null => InScannedFolder(scan.key))
    BY <1>2, <1>10
  <2>2. \A o \in scan.owed : scan.key # Null /\ (o = scan.key \/ Before(list, scan.key, o))
    BY <2>1 DEF Inv, ScanInv
  <2> QED
    BY <1>2, <1>5, <1>8, <2>1, <2>2
<1>11. scan.key \notin scan.seen
  BY DEF Inv, ScanInv
<1>12. ScanInv'
  BY <1>2, <1>7, <1>9, <1>10, <1>11 DEF ScanInv
<1> QED
  BY <1>6, <1>12

(* A scan begins with the first entry and owes them all.                   *)
LEMMA ScanStarts ==
  ASSUME Inv, NEW w, Looked(w, "up"), Examine(w)
  PROVE  ScanType' /\ ScanInv'
<1> DEFINE o == w.file
           inside == InFolder(w, w.obj[o].id)
           key == FirstOf(list', inside)
<1>1. /\ o # Null /\ obj' = w.obj /\ list' = w.list
      /\ scan' = [NoScan EXCEPT !.on = TRUE, !.folder = w.obj[o].id, !.key = key, !.owed = inside]
  BY DEF Examine, Objects
<1>2. /\ ObjectsAre(w.obj, w.list) /\ o \in {Root} \cup ToSet(w.list) /\ Len(w.obj) \in Nat
  BY <1>1, LookedIs
<1>3. w.obj[o].id \in Id
  <2>1. w.obj[o] \in ObjectRecord
    BY <1>2 DEF ObjectsAre, Root
  <2> QED
    BY <2>1 DEF ObjectRecord
<1>4. inside \subseteq ToSet(list') /\ \A p \in inside : obj'[p].parentId = w.obj[o].id
  BY <1>1 DEF InFolder
<1>5. /\ list' \in Seq(Nat) /\ IsInjective(list') /\ ToSet(list') \subseteq 2..Len(obj')
      /\ Null \notin ToSet(list') /\ Len(obj') \in Nat
  BY <1>1, <1>2, NullIsNoObject DEF ObjectsAre
<1>k. key = FirstOf(list', inside)
  OBVIOUS
<1>i. inside \subseteq Nat
  BY <1>4, <1>5
<1> HIDE DEF inside, key
<1>6. \/ key = Null /\ inside = {}
      \/ /\ key # Null /\ key \in ToSet(list') /\ key \in inside
         /\ \A p \in inside : p = key \/ Before(list', key, p)
  <2>1. \/ key = Null /\ ToSet(list') \cap inside = {}
        \/ /\ key # Null /\ key \in ToSet(list') /\ key \in inside
           /\ IsInjective(list') => \A p \in ToSet(list') \cap inside : p = key \/ Before(list', key, p)
    BY <1>5, <1>k, FirstOfIs
  <2> QED
    BY <1>4, <1>5, <2>1
<1>7. key \in 0..Len(obj') /\ key \in Nat
  BY <1>5, <1>6 DEF Null
<1> DEFINE folder == w.obj[o].id
<1> HIDE DEF folder
<1>8. /\ scan' = [on |-> TRUE, folder |-> folder, key |-> key, seen |-> {}, owed |-> inside,
                  astray |-> FALSE]
      /\ folder \in Id /\ \A p \in inside : obj'[p].parentId = folder
  BY <1>1, <1>3, <1>4 DEF NoScan, folder
<1>9. ScanType'
  BY <1>i, <1>4, <1>5, <1>7, <1>8 DEF ScanType
<1>10. \A p \in inside : InFolderScanned(p)'
  BY <1>4, <1>8 DEF InFolderScanned
<1>11. /\ scan'.key = key /\ scan'.seen = {} /\ scan'.owed = inside
  BY <1>8
<1>12. ScanInv'
  BY <1>6, <1>10, <1>11 DEF ScanInv
<1> QED
  BY <1>9, <1>12

(* What comes after an object in the list.                                 *)
IsRest(l, k, r) == r = SubSeq(l, k + 1, Len(l))

LEMMA RestIs ==
  ASSUME NEW l \in Seq(Nat), IsInjective(l), NEW k \in 1..Len(l),
         NEW r, IsRest(l, k, r)
  PROVE  /\ r \in Seq(Nat) /\ IsInjective(r)
         /\ \A p : p \in ToSet(r) <=> Before(l, l[k], p)
         /\ \A p, q : Before(r, p, q) => Before(l, p, q)
<1>1. k \in Nat /\ Len(l) \in Nat /\ 1 <= k /\ k <= Len(l) /\ \A i \in 1..Len(l) : l[i] \in Nat
  OBVIOUS
<1>2. r \in Seq(Nat) /\ Len(r) = Len(l) - k /\ \A i \in 1..(Len(l) - k) : r[i] = l[k + i]
  <2>1. /\ r \in Seq(Nat) /\ Len(r) = IF k + 1 <= Len(l) THEN Len(l) - (k + 1) + 1 ELSE 0
        /\ \A i \in 1..(Len(l) - (k + 1) + 1) : r[i] = l[k + 1 + i - 1]
    BY <1>1, SubSeqProperties DEF IsRest
  <2> QED
    BY <1>1, <2>1
<1>3. DOMAIN l = 1..Len(l) /\ DOMAIN r = 1..(Len(l) - k)
  BY <1>2
<1>4. \A i \in 1..(Len(l) - k) : k + i \in 1..Len(l)
  BY <1>1
<1>5. \A i, j \in 1..Len(l) : l[i] = l[j] => i = j
  BY <1>3 DEF IsInjective
<1>6. IsInjective(r)
  <2> SUFFICES ASSUME NEW i \in 1..(Len(l) - k), NEW j \in 1..(Len(l) - k), r[i] = r[j]
               PROVE  i = j
    BY <1>3 DEF IsInjective
  <2>1. k + i = k + j
    BY <1>2, <1>4, <1>5
  <2> QED
    BY <1>1, <2>1
<1>7. ASSUME NEW p PROVE p \in ToSet(r) <=> Before(l, l[k], p)
  <2>1. ASSUME p \in ToSet(r) PROVE Before(l, l[k], p)
    <3>1. PICK i \in 1..(Len(l) - k) : p = l[k + i]
      BY <1>2, <1>3, <2>1 DEF ToSet
    <3>2. k + i \in 1..Len(l) /\ k < k + i
      BY <1>1, <1>4
    <3> QED
      BY <1>3, <3>1, <3>2 DEF Before
  <2>2. ASSUME Before(l, l[k], p) PROVE p \in ToSet(r)
    <3>1. PICK i, j \in 1..Len(l) : i < j /\ l[i] = l[k] /\ l[j] = p
      BY <1>3, <2>2 DEF Before
    <3>2. i = k
      BY <1>5, <3>1
    <3>3. j - k \in 1..(Len(l) - k) /\ k + (j - k) = j
      BY <1>1, <3>1, <3>2
    <3> QED
      BY <1>2, <1>3, <3>1, <3>3 DEF ToSet
  <2> QED
    BY <2>1, <2>2
<1>8. ASSUME NEW p, NEW q, Before(r, p, q) PROVE Before(l, p, q)
  <2>1. PICK i, j \in 1..(Len(l) - k) : i < j /\ r[i] = p /\ r[j] = q
    BY <1>3, <1>8 DEF Before
  <2>2. k + i < k + j
    BY <1>1, <2>1
  <2> QED
    BY <1>2, <1>3, <1>4, <2>1, <2>2 DEF Before
<1> QED
  BY <1>2, <1>6, <1>7, <1>8

(* Following is the first of the later entries with the same parent.       *)
LEMMA FollowingIs ==
  ASSUME ObjectsAre(obj, list), NEW o \in ToSet(list), NEW k, k = Following(o)
  PROVE  LET later == {p \in ToSet(list) : Before(list, o, p) /\ obj[p].parentId = obj[o].parentId}
         IN \/ k = Null /\ later = {}
            \/ /\ k # Null /\ k \in later
               /\ \A p \in later : p = k \/ Before(list, k, p)
<1> DEFINE at == Position(o)
           rest == SubSeq(list, at + 1, Len(list))
           inside == InFolder(Now, obj[o].parentId)
<1>1. /\ list \in Seq(Nat) /\ IsInjective(list) /\ Null \notin ToSet(list)
  BY NullIsNoObject DEF ObjectsAre
<1>2. at \in 1..Len(list) /\ list[at] = o
  <2>1. DOMAIN list = 1..Len(list) /\ \E i \in DOMAIN list : list[i] = o
    BY <1>1 DEF ToSet
  <2> QED
    BY <2>1 DEF Position
<1>3. inside = {p \in ToSet(list) : obj[p].parentId = obj[o].parentId}
  BY DEF InFolder, Now
<1>4. k = FirstOf(rest, inside)
  BY DEF Following
<1> HIDE DEF at, inside
<1>r. IsRest(list, at, rest)
  BY DEF IsRest
<1> HIDE DEF rest
<1>5. /\ rest \in Seq(Nat) /\ IsInjective(rest)
      /\ \A p : p \in ToSet(rest) <=> Before(list, o, p)
      /\ \A p, q : Before(rest, p, q) => Before(list, p, q)
  <2>1. /\ rest \in Seq(Nat) /\ IsInjective(rest)
        /\ \A p : p \in ToSet(rest) <=> Before(list, list[at], p)
        /\ \A p, q : Before(rest, p, q) => Before(list, p, q)
    BY <1>1, <1>2, <1>r, RestIs
  <2> QED
    BY <1>2, <2>1
<1>6. \A p : Before(list, o, p) => p \in ToSet(list)
  BY <1>1, BeforeIsAnOrder
<1>7. \/ k = Null /\ ToSet(rest) \cap inside = {}
      \/ /\ k # Null /\ k \in ToSet(rest) /\ k \in inside
         /\ IsInjective(rest) => \A p \in ToSet(rest) \cap inside : p = k \/ Before(rest, k, p)
  BY <1>1, <1>4, <1>5, <1>6, FirstOfIs
<1> QED
  BY <1>3, <1>5, <1>6, <1>7

(* Reporting an entry and going to the next keeps the scan in order.       *)
LEMMA ScanMoves ==
  ASSUME Inv, ExamineNext
  PROVE  ScanType' /\ ScanInv'
<1> DEFINE o == scan.key
           k == Following(o)
           later == {p \in ToSet(list) : Before(list, o, p) /\ obj[p].parentId = obj[o].parentId}
<1>1. /\ scan.on /\ o \in ToSet(list) /\ obj' = obj /\ list' = list
      /\ scan' = [scan EXCEPT !.seen = scan.seen \cup {o}, !.owed = scan.owed \ {o}, !.key = k]
  BY DEF ExamineNext
<1>2. /\ ObjectsAre(obj, list) /\ Len(obj) \in Nat /\ list \in Seq(Nat) /\ IsInjective(list)
      /\ ToSet(list) \subseteq 2..Len(obj) /\ Null \notin ToSet(list)
      /\ scan \in [on : BOOLEAN, folder : Id, key : Nat, seen : SUBSET Nat, owed : SUBSET Nat,
                   astray : BOOLEAN]
      /\ scan.key \in 0..Len(obj) /\ scan.seen \cup scan.owed \subseteq 2..Len(obj)
  BY NowIs, NullIsNoObject DEF Inv, ScanType, ObjectsAre
<1>3. \/ k = Null /\ later = {}
      \/ k # Null /\ k \in later /\ \A p \in later : p = k \/ Before(list, k, p)
  BY <1>1, <1>2, FollowingIs
<1> HIDE DEF k
<1>4. k \in Nat /\ k \in 0..Len(obj)
  BY <1>2, <1>3 DEF Null
<1>5. /\ scan'.on = scan.on /\ scan'.astray = scan.astray /\ scan'.folder = scan.folder
      /\ scan'.key = k /\ scan'.seen = scan.seen \cup {o} /\ scan'.owed = scan.owed \ {o}
      /\ scan' \in [on : BOOLEAN, folder : Id, key : Nat, seen : SUBSET Nat, owed : SUBSET Nat,
                    astray : BOOLEAN]
  BY <1>1, <1>2, <1>4
<1>6. ScanType'
  <2>1. scan'.key \in 0..Len(obj') /\ scan'.seen \cup scan'.owed \subseteq 2..Len(obj')
    BY <1>1, <1>2, <1>4, <1>5
  <2> QED
    BY <1>5, <2>1 DEF ScanType
<1>7. \A p \in (scan.seen \cap ToSet(list)) \cup {o} : p = o \/ Before(list, p, o)
  BY <1>1 DEF Inv, ScanInv
<1>8. ASSUME k # Null
      PROVE  \A p \in (scan.seen \cap ToSet(list)) \cup {o} : Before(list, p, k)
  <2>1. Before(list, o, k)
    BY <1>3, <1>8
  <2> QED
    BY <1>2, <1>7, <2>1, BeforeIsAnOrder
<1>9. k \notin scan.seen \cup {o}
  <2>1. CASE k = Null
    BY <1>1, <1>2, <2>1 DEF Null
  <2>2. CASE k # Null
    <3>1. k \in ToSet(list) /\ ~ Before(list, k, k)
      BY <1>2, <1>3, <2>2, BeforeIsAnOrder
    <3> QED
      BY <1>8, <2>2, <3>1
  <2> QED
    BY <2>1, <2>2
<1>10. \A p \in scan.owed : p \in ToSet(list) /\ obj[p].parentId = scan.folder
  BY DEF Inv, ScanInv, InFolderScanned
<1>11. ASSUME ~ scan.astray
       PROVE  /\ k # Null => k \in ToSet(list) /\ obj[k].parentId = scan.folder
              /\ \A p \in scan.owed \ {o} : k # Null /\ (p = k \/ Before(list, k, p))
  <2>1. o # Null
    BY <1>1, <1>2
  <2>2. obj[o].parentId = scan.folder
    BY <1>1, <1>11, <2>1 DEF Inv, ScanInv, InFolderScanned
  <2>3. \A p \in scan.owed \ {o} : Before(list, o, p)
    BY <1>1, <1>11 DEF Inv, ScanInv
  <2>4. \A p \in scan.owed \ {o} : p \in later
    BY <1>10, <2>2, <2>3
  <2> QED
    BY <1>3, <2>2, <2>4
<1>12. /\ \A p : InFolderScanned(p)' <=> p \in ToSet(list) /\ obj[p].parentId = scan.folder
       /\ list' = list
  BY <1>1, <1>5 DEF InFolderScanned
<1>13. ScanInv'
  <2> HIDE DEF o
  <2>1. /\ scan'.key \notin scan'.seen
        /\ scan'.key \in ToSet(list') => \A p \in scan'.seen \cap ToSet(list') : Before(list', p, scan'.key)
    BY <1>2, <1>5, <1>8, <1>9, <1>12
  <2>2. \A p \in scan'.owed : InFolderScanned(p)'
    BY <1>5, <1>10, <1>12
  <2>3. scan'.on /\ ~ scan'.astray =>
          /\ scan'.key # Null => scan'.key \in ToSet(list') /\ obj'[scan'.key].parentId = scan'.folder
          /\ \A p \in scan'.owed : scan'.key # Null /\ (p = scan'.key \/ Before(list', scan'.key, p))
    BY <1>1, <1>5, <1>11, <1>12
  <2> QED
    BY <2>1, <2>2, <2>3 DEF ScanInv, InFolderScanned
<1> QED
  BY <1>6, <1>13

(* No scan is under way.                                                   *)
LEMMA NoScanIs ==
  ASSUME NEW n \in Nat
  PROVE  /\ NoScan \in [on : BOOLEAN, folder : Id, key : Nat, seen : SUBSET Nat,
                        owed : SUBSET Nat, astray : BOOLEAN]
         /\ NoScan.key = Null /\ NoScan.seen = {} /\ NoScan.owed = {} /\ ~ NoScan.on
         /\ Null \in 0..n
<1>1. <<>> \in Id
  BY DEF Id
<1> QED
  BY <1>1 DEF NoScan, Null

(* "no more entries" ends it.                                              *)
LEMMA ScanEnds ==
  ASSUME Inv, ExamineEnd
  PROVE  ScanType' /\ ScanInv'
<1>1. obj' = obj /\ list' = list /\ scan' = NoScan /\ Len(obj) \in Nat
  BY NowIs DEF ExamineEnd
<1>2. Null \notin ToSet(list)
  BY NowIs, NullIsNoObject
<1>3. ScanType'
  BY <1>1, NoScanIs DEF ScanType
<1>4. ScanInv'
  BY <1>1, <1>2, NoScanIs DEF ScanInv
<1> QED
  BY <1>3, <1>4

(***************************************************************************)
(* The steps.                                                              *)
(***************************************************************************)

(* What a client sends names an object.                                    *)
LEMMA PathSetIs ==
  ASSUME NEW path \in PathSet
  PROVE  path \in Seq(Name \cup {Up}) /\ path # <<>> /\ Last(path) \in Name
BY PathsAssumption

(* What the network may do.                                                *)
LEMMA FatesAre ==
  ASSUME NEW fate \in Fates
  PROVE  fate[1] \in Nets /\ fate[2] \in Nat
BY DEF Fates, Nets

(* The lookup of a request, from the root or from a lock.                  *)
LEMMA FirstLookupIs ==
  ASSUME Inv, NEW base \in {Root} \cup ToSet(list), NEW path \in Seq(Name \cup {Up}),
         NEW net \in Nets, NEW pages \in Nat,
         failures = 0 => base = Root \/ Known(obj, base),
         NEW w, w = GetObject(Now, base, path, net, pages)
  PROVE  /\ Looked(w, net)
         /\ path # <<>> /\ Last(path) \in Name =>
              w.file = Null \/ (w.file \in ToSet(w.list) /\ w.obj[w.file].titleLC = Last(path))
<1> DEFINE st == Now
<1>1. /\ st \in Walkers /\ st.obj = obj /\ st.list = list /\ ObjectsAre(st.obj, st.list)
      /\ pathIds \in BOOLEAN /\ WellFormed(tree, pathIds)
      /\ base \in {Root} \cup ToSet(st.list) /\ w = GetObject(st, base, path, net, pages)
  BY NowIs
<1>2. failures = 0 =>
        /\ Faithful(tree, st.obj, st.list) /\ UnknownAreFiles(st.obj, st.list)
        /\ base = Root \/ Known(st.obj, base)
  BY <1>1 DEF Inv, MirrorInv
<1>t. st = Now
  OBVIOUS
<1> HIDE DEF st
<1>3. /\ Walking(st, w)
      /\ path # <<>> /\ Last(path) \in Name =>
           w.file = Null \/ (w.file \in ToSet(w.list) /\ w.obj[w.file].titleLC = Last(path))
      /\ net = "up" /\ Faithful(tree, st.obj, st.list) /\ UnknownAreFiles(st.obj, st.list)
           /\ (base = Root \/ Known(st.obj, base)) =>
           Clear(w) /\ Settled(w.obj, w.parent)
  BY <1>1, GetObjectIs
<1> QED
  BY <1>2, <1>3, <1>t DEF Looked

(* The second lookup of __rename.                                          *)
LEMMA NextLookupIs ==
  ASSUME Inv, NEW net \in Nets, NEW w1, Looked(w1, net),
         NEW path \in Seq(Name \cup {Up}), NEW pages \in Nat,
         NEW w, w = GetObject(w1, Root, path, net, pages)
  PROVE  Looked(w, net) /\ Grown(w1.obj, w1.list, w.obj, w.list)
<1>1. /\ w1 \in Walkers /\ ObjectsAre(w1.obj, w1.list) /\ Grown(obj, list, w1.obj, w1.list)
      /\ pathIds \in BOOLEAN /\ WellFormed(tree, pathIds) /\ ObjectsAre(obj, list)
      /\ Now.obj = obj /\ Now.list = list
  BY LookedIs, NowIs
<1>2. /\ Walking(w1, w)
      /\ net = "up" /\ Faithful(tree, w1.obj, w1.list) /\ UnknownAreFiles(w1.obj, w1.list) =>
           Clear(w) /\ Settled(w.obj, w.parent)
  BY <1>1, GetObjectIs
<1>3. Grown(w1.obj, w1.list, w.obj, w.list) /\ ObjectsAre(w.obj, w.list)
  BY <1>2 DEF Walking
<1>4. Grown(obj, list, w.obj, w.list)
  BY <1>1, <1>3, GrownIs
<1>5. Walking(Now, w)
  BY <1>1, <1>2, <1>4 DEF Walking
<1>6. failures = 0 /\ net = "up" => Clear(w) /\ Settled(w.obj, w.parent)
  BY <1>2 DEF Looked, Clear
<1> QED
  BY <1>3, <1>5, <1>6 DEF Looked

(* The requests that name a path ...                                       *)
LEMMA PathRequestsAreGood ==
  ASSUME Inv, NEW net \in Nets, NEW pages \in Nat, NEW path \in PathSet,
         NEW w, w = GetObject(Now, Root, path, net, pages),
         \/ Locate(w, net) \/ CreateDir(w, path, net) \/ CreateFile(w, path, net)
         \/ Delete(w, net)
         \/ w.file # Null /\ \E to \in PathSet :
              \E w2 \in {GetObject(w, Root, to, net, pages)} : Rename(w2, w.file, to, net)
  PROVE  Good /\ ScanType' /\ ScanInv'
<1>1. path \in Seq(Name \cup {Up}) /\ path # <<>> /\ Last(path) \in Name
  BY PathSetIs
<1>2. /\ Looked(w, net)
      /\ w.file = Null \/ (w.file \in ToSet(w.list) /\ w.obj[w.file].titleLC = Last(path))
  BY <1>1, FirstLookupIs
<1>3. Good => Stepped
  BY DEF Good
<1>4. CASE Locate(w, net)
  <2>1. ScanNotices
    BY <1>4 DEF Locate
  <2> QED
    BY <1>2, <1>3, <1>4, <2>1, LocateIsGood, ScanKept
<1>5. CASE CreateDir(w, path, net)
  <2>1. ScanNotices
    BY <1>5 DEF CreateDir
  <2> QED
    BY <1>2, <1>3, <1>5, <2>1, CreateDirIsGood, ScanKept
<1>6. CASE CreateFile(w, path, net)
  <2>1. ScanNotices
    BY <1>6 DEF CreateFile
  <2> QED
    BY <1>2, <1>3, <1>6, <2>1, CreateFileIsGood, ScanKept
<1>7. CASE Delete(w, net)
  <2>1. ScanNotices
    BY <1>7 DEF Delete
  <2> QED
    BY <1>2, <1>3, <1>7, <2>1, DeleteIsGood, ScanKept
<1>8. CASE w.file # Null /\ \E to \in PathSet :
             \E w2 \in {GetObject(w, Root, to, net, pages)} : Rename(w2, w.file, to, net)
  <2>1. PICK to \in PathSet :
          \E w2 \in {GetObject(w, Root, to, net, pages)} : Rename(w2, w.file, to, net)
    BY <1>8
  <2>2. PICK w2 \in {GetObject(w, Root, to, net, pages)} : Rename(w2, w.file, to, net)
    BY <2>1
  <2>3. to \in Seq(Name \cup {Up})
    BY PathSetIs
  <2>4. Looked(w2, net) /\ Grown(w.obj, w.list, w2.obj, w2.list)
    BY <1>2, <2>2, <2>3, NextLookupIs
  <2>5. w.file \in ToSet(w.list) /\ w.obj[w.file].titleLC \in Name
    BY <1>1, <1>2, <1>8
  <2>6. ScanNotices
    BY <2>2 DEF Rename
  <2>7. Good
    BY <1>2, <2>2, <2>4, <2>5, RenameIsGood
  <2> QED
    BY <1>3, <2>6, <2>7, ScanKept
<1> QED
  BY <1>4, <1>5, <1>6, <1>7, <1>8

(* ... and those that have a lock.                                         *)
LEMMA LockRequestsAreGood ==
  ASSUME Inv, NEW net \in Nets, NEW pages \in Nat, NEW o \in Bases,
         NEW w, w = GetObject(Now, o, <<>>, net, pages),
         Locate(w, net) \/ (net = "up" /\ Examine(w))
  PROVE  Good /\ ScanType' /\ ScanInv'
<1>1. o \in {Root} \cup ToSet(list) /\ obj[o].folder
  BY DEF Bases, Live
<1>2. failures = 0 => o = Root \/ Known(obj, o)
  BY <1>1 DEF Inv, MirrorInv, UnknownAreFiles
<1>3. <<>> \in Seq(Name \cup {Up})
  OBVIOUS
<1>4. Looked(w, net)
  BY <1>1, <1>2, <1>3, FirstLookupIs
<1>5. CASE Locate(w, net)
  <2>1. ScanNotices
    BY <1>5 DEF Locate
  <2> QED
    BY <1>4, <1>5, <2>1, LocateIsGood, ScanKept DEF Good
<1>6. CASE net = "up" /\ Examine(w)
  BY <1>4, <1>6, ExamineIsGood, ScanStarts
<1> QED
  BY <1>5, <1>6

(* Every step keeps the promises, and the scan.                            *)
LEMMA NextIsGood ==
  ASSUME Inv, [Next]_vars
  PROVE  Good /\ ScanType' /\ ScanInv'
<1>1. ASSUME NEW fate \in Fates, Requests(fate[1], fate[2])
      PROVE  Good /\ ScanType' /\ ScanInv'
  <2> DEFINE net == fate[1]
             pages == fate[2]
  <2>1. net \in Nets /\ pages \in Nat
    BY FatesAre
  <2> HIDE DEF net, pages
  <2>2. Requests(net, pages)
    BY <1>1 DEF net, pages
  <2>3. CASE \E path \in PathSet : \E w \in {GetObject(Now, Root, path, net, pages)} :
               \/ Locate(w, net) \/ CreateDir(w, path, net) \/ CreateFile(w, path, net)
               \/ Delete(w, net)
               \/ w.file # Null /\ \E to \in PathSet :
                    \E w2 \in {GetObject(w, Root, to, net, pages)} : Rename(w2, w.file, to, net)
    BY <2>1, <2>3, PathRequestsAreGood
  <2>4. CASE \E o \in Bases : \E w \in {GetObject(Now, o, <<>>, net, pages)} :
               Locate(w, net) \/ (net = "up" /\ Examine(w))
    BY <2>1, <2>4, LockRequestsAreGood
  <2>5. CASE \E o \in uploading : Upload(o, net)
    <3>1. PICK o \in uploading : Upload(o, net)
      BY <2>5
    <3>2. Good /\ ScanNotices
      BY <2>1, <3>1, UploadIsGood DEF Upload
    <3> QED
      BY <3>2, ScanKept DEF Good
  <2> QED
    BY <2>2, <2>3, <2>4, <2>5 DEF Requests
<1>2. CASE ExamineNext
  <2>1. UNCHANGED <<pathIds, treeVars, obj, list, uploading, failures, misread>>
    BY <1>2 DEF ExamineNext
  <2> QED
    BY <1>2, <2>1, StayingIsGood, ScanMoves
<1>3. CASE ExamineEnd
  <2>1. UNCHANGED <<pathIds, treeVars, obj, list, uploading, failures, misread>>
    BY <1>3 DEF ExamineEnd
  <2> QED
    BY <1>3, <2>1, StayingIsGood, ScanEnds
<1>4. CASE UNCHANGED vars
  <2>1. UNCHANGED <<pathIds, treeVars, obj, list, uploading, failures, misread>> /\ scan' = scan
    BY <1>4 DEF vars
  <2>2. ScanType' /\ ScanInv'
    BY <2>1 DEF Inv, ScanType, ScanInv, InFolderScanned
  <2> QED
    BY <2>1, <2>2, StayingIsGood
<1> QED
  BY <1>1, <1>2, <1>3, <1>4 DEF Next

(* The invariant is inductive ...                                          *)
LEMMA InvNext ==
  ASSUME Inv, [Next]_vars
  PROVE  Inv'
<1>1. Stepped /\ Mirroring /\ ScanType' /\ ScanInv'
  BY NextIsGood DEF Good
<1>2. ObjectsInv'
  BY <1>1 DEF Stepped, ObjectsInv
<1>3. TreeInv'
  BY <1>1 DEF Stepped, TreeInv, Inv
<1>4. MirrorInv'
  <2> SUFFICES ASSUME failures' = 0
               PROVE  /\ Faithful(tree, obj, list)' /\ UnknownAreFiles(obj, list)'
                      /\ \A o \in uploading' \cap ToSet(list') : ~ Known(obj, o)'
    BY DEF MirrorInv
  <2>1. /\ Faithful(tree', obj', list') /\ UnknownAreFiles(obj', list')
        /\ \A o \in uploading' \cap ToSet(list') : ~ Known(obj', o)
        /\ pathIds' = pathIds
    BY <1>1 DEF Stepped, Mirroring
  <2>2. \A n : Entry(tree, n)' = Entry(tree', n)
    BY <2>1 DEF Entry
  <2>3. KnownAreReal(tree, obj, list)'
    BY <2>1, <2>2 DEF Faithful, KnownAreReal, Known
  <2>4. KnownOnce(obj, list)' /\ FoldersAreSettled(obj, list)' /\ UnknownAreFiles(obj, list)'
    BY <2>1 DEF Faithful, KnownOnce, FoldersAreSettled, UnknownAreFiles, Known, Settled
  <2>5. ListedAreWhole(tree, obj, list)'
    BY <2>1 DEF Faithful, ListedAreWhole, Known
  <2> QED
    BY <2>1, <2>3, <2>4, <2>5 DEF Faithful, Known
<1> QED
  BY <1>1, <1>2, <1>3, <1>4 DEF Inv

(* ... and holds at the start.                                             *)
LEMMA InitInv ==
  ASSUME Init
  PROVE  Inv
<1>1. /\ pathIds \in Services /\ tree = FirstTree /\ born = Cardinality(DOMAIN FirstTree)
      /\ obj = <<RootObject>> /\ list = <<>> /\ uploading = {} /\ scan = NoScan /\ failures = 0
      /\ misread = FALSE
  BY DEF Init
<1>2. PICK n \in 0..MaxNodes : FirstTree \in [1..n -> [name : Name, parent : 0..n, folder : BOOLEAN]]
  BY TreeAssumption
<1>3. n \in Nat /\ n <= MaxNodes /\ MaxNodes \in Nat /\ MaxObjects \in Nat \ {0} /\ MaxFailures \in Nat
  BY NodesAssumption, BoundsAssumption
<1>4. born = n
  <2>1. Cardinality(1..n) = IF 1 > n THEN 0 ELSE n - 1 + 1
    BY <1>3, FS_Interval
  <2> QED
    BY <1>1, <1>2, <1>3, <2>1
<1>5. TreeInv
  <2>1. Nodes(tree) = 0..n /\ DOMAIN tree = 1..n
    BY <1>1, <1>2, <1>3 DEF Nodes, Top
  <2>2. WellFormed(tree, pathIds)
    BY <1>1, <1>2, <1>3, <2>1, TreeAssumption DEF WellFormed
  <2>3. misread \in BOOLEAN
    BY <1>1
  <2> QED
    BY <1>1, <1>3, <1>4, <2>1, <2>2, <2>3 DEF TreeInv
<1>6. ToSet(list) = {} /\ list \in Seq(Nat) /\ IsInjective(list)
  BY <1>1 DEF ToSet, IsInjective
<1>7. RootObject \in ObjectRecord
  BY DEF RootObject, ObjectRecord, Titles, Id
<1>8. ObjectsAre(obj, list)
  <2>1. obj \in Seq(ObjectRecord) /\ Len(obj) = 1 /\ obj[1] = RootObject
    BY <1>1, <1>7
  <2> QED
    BY <1>6, <2>1 DEF ObjectsAre, Root, RootObject
<1>9. Len(obj) = 1
  BY <1>1
<1>10. ObjectsInv
  BY <1>1, <1>3, <1>8, <1>9 DEF ObjectsInv
<1>11. ScanType /\ ScanInv
  BY <1>1, <1>6, <1>9, NoScanIs DEF ScanType, ScanInv
<1>12. MirrorInv
  <2>1. obj[Root].listed = FALSE
    BY <1>1 DEF Root, RootObject
  <2> QED
    BY <1>6, <2>1 DEF MirrorInv, Faithful, KnownAreReal, KnownOnce, ListedAreWhole,
       FoldersAreSettled, UnknownAreFiles
<1> QED
  BY <1>5, <1>10, <1>11, <1>12 DEF Inv

(* The strengthened invariant: the objects, the cloud and the scan are     *)
(* well formed, the scan is in order (ScanInv), and while no request has   *)
(* failed the objects with names are the nodes listed so far (MirrorInv).  *)
THEOREM InvHolds == Spec => []Inv
BY InitInv, InvNext, PTL DEF Spec

(***************************************************************************)
(* The properties.                                                         *)
(***************************************************************************)

(* In every reachable state the copy of the tree and the scan are well     *)
(* formed: the list has each object once, all addresses are those of       *)
(* objects made (_fileList of dos_handler.h).                              *)
THEOREM TypeCorrect == Spec => []TypeOK
<1>1. ASSUME Inv PROVE TypeOK
  <2>1. /\ \A n \in DOMAIN tree :
             tree[n] \in [name : Name, parent : Nodes(tree), folder : BOOLEAN]
        /\ pathIds \in Services /\ born \in 0..MaxNodes /\ DOMAIN tree \subseteq 1..born
        /\ failures \in 0..MaxFailures /\ misread \in BOOLEAN
    BY <1>1 DEF Inv, TreeInv, WellFormed
  <2>2. /\ obj \in Seq(ObjectRecord) /\ Len(obj) <= MaxObjects
        /\ IsInjective(list) /\ ToSet(list) \subseteq 2..Len(obj) /\ uploading \subseteq 2..Len(obj)
    BY <1>1 DEF Inv, ObjectsInv, ObjectsAre
  <2>3. /\ scan.folder \in Id /\ scan.key \in 0..Len(obj)
        /\ scan.seen \cup scan.owed \subseteq 2..Len(obj)
        /\ scan.on \in BOOLEAN /\ scan.astray \in BOOLEAN
    BY <1>1 DEF Inv, ScanType
  <2> QED
    BY <2>1, <2>2, <2>3 DEF TypeOK
<1> QED
  BY <1>1, InvHolds, PTL

(* A scan to its end has given every entry that was there all the time     *)
(* (__examine, __getNextObjectWithSameParent).                             *)
THEOREM ScanComplete == Spec => []ScanIsComplete
<1>1. ASSUME Inv PROVE ScanIsComplete
  BY <1>1 DEF Inv, ScanInv, ScanIsComplete
<1> QED
  BY <1>1, InvHolds, PTL

(* What a listed folder shows is, one to one, what the cloud has in it.    *)
LEMMA FolderMirrors ==
  ASSUME Inv, failures = 0, NEW o \in Live, obj[o].folder, obj[o].listed,
         NEW shown, NEW real,
         shown = {p \in ToSet(list) : obj[p].parentId = obj[o].id /\ obj[p].titleLC # NoName},
         real = Children(tree, Node(obj[o].id))
  PROVE  /\ {Shown(p) : p \in shown} = {Real(n) : n \in real}
         /\ Cardinality(shown) = Cardinality(real)
<1> DEFINE q == Node(obj[o].id)
<1>1. /\ pathIds \in BOOLEAN /\ WellFormed(tree, pathIds) /\ ObjectsAre(obj, list)
      /\ KnownAreReal(tree, obj, list) /\ KnownOnce(obj, list) /\ ListedAreWhole(tree, obj, list)
      /\ UnknownAreFiles(obj, list) /\ o \in {Root} \cup ToSet(list)
  BY NowIs DEF Inv, MirrorInv, Faithful, Live
<1>q. q = NodeWithId(tree, pathIds, obj[o].id)
  BY DEF Node
<1>r. real = {m \in DOMAIN tree : tree[m].parent = q}
  BY DEF Children
<1> HIDE DEF q
<1>2. q \in Nodes(tree) /\ obj[o].id = IdOf(tree, pathIds, q)
  <2>1. CASE o = Root
    <3>1. obj[o].id = IdOf(tree, pathIds, Top) /\ Top \in Nodes(tree)
      BY <1>1, <2>1, IdsAre, TopIs DEF ObjectsAre
    <3> QED
      BY <1>1, <1>q, <3>1, NodeWithIdIs
  <2>2. CASE o \in ToSet(list)
    <3>1. Known(obj, o)
      BY <1>1, <2>2 DEF UnknownAreFiles
    <3>2. \E n \in DOMAIN tree : n = NodeWithId(tree, pathIds, obj[o].id) /\ obj[o].id = IdOf(tree, pathIds, n)
      BY <1>1, <2>2, <3>1, KnownIs
    <3> QED
      BY <1>1, <1>q, <3>2, TopIs
  <2> QED
    BY <1>1, <2>1, <2>2
<1> DEFINE f == [p \in shown |-> NodeWithId(tree, pathIds, obj[p].id)]
<1>3. ASSUME NEW p \in shown
      PROVE  /\ f[p] \in real /\ obj[p].id = IdOf(tree, pathIds, f[p]) /\ Shown(p) = Real(f[p])
  <2>1. p \in ToSet(list) /\ Known(obj, p) /\ obj[p].parentId = obj[o].id
    BY DEF Known
  <2>2. PICK m \in DOMAIN tree :
          /\ m = NodeWithId(tree, pathIds, obj[p].id)
          /\ obj[p].id = IdOf(tree, pathIds, m)
          /\ obj[p].parentId = IdOf(tree, pathIds, tree[m].parent)
          /\ obj[p].title = tree[m].name /\ obj[p].folder = tree[m].folder
    BY <1>1, <2>1, KnownIs
  <2>3. tree[m].parent = q
    <3>1. tree[m].parent \in Nodes(tree)
      BY <1>1, TopIs
    <3>2. IdOf(tree, pathIds, tree[m].parent) = IdOf(tree, pathIds, q)
      BY <1>2, <2>1, <2>2
    <3>3. \A j, k \in Nodes(tree) : IdOf(tree, pathIds, j) = IdOf(tree, pathIds, k) => j = k
      BY <1>1, IdsAre
    <3> QED
      BY <1>2, <3>1, <3>2, <3>3
  <2>4. f[p] = m
    BY <2>2
  <2> HIDE DEF f
  <2> QED
    BY <1>r, <2>2, <2>3, <2>4 DEF Shown, Real
<1>4. ASSUME NEW m \in real PROVE \E p \in shown : f[p] = m
  <2>1. m \in DOMAIN tree /\ tree[m].parent = q /\ m \in Nodes(tree)
    BY <1>1, <1>r, TopIs
  <2>2. PICK p \in ToSet(list) : Known(obj, p) /\ obj[p].id = IdOf(tree, pathIds, m)
    BY <1>1, <1>2, <2>1 DEF ListedAreWhole
  <2>3. PICK n \in DOMAIN tree : /\ n = NodeWithId(tree, pathIds, obj[p].id)
                                 /\ obj[p].parentId = IdOf(tree, pathIds, tree[n].parent)
    BY <1>1, <2>2, KnownIs
  <2>4. NodeWithId(tree, pathIds, obj[p].id) = m
    BY <1>1, <2>1, <2>2, NodeWithIdIs
  <2>5. p \in shown
    BY <1>2, <2>1, <2>2, <2>3, <2>4 DEF Known
  <2> QED
    BY <2>4, <2>5
<1>5. {Shown(p) : p \in shown} = {Real(n) : n \in real}
  <2> HIDE DEF f
  <2> QED
    BY <1>3, <1>4
<1>6. Cardinality(shown) = Cardinality(real)
  <2>1. IsFiniteSet(real)
    <3>1. IsFiniteSet(1..MaxNodes)
      BY NodesAssumption, FS_Interval
    <3>2. real \in SUBSET (1..MaxNodes)
      BY <1>1, <1>r DEF WellFormed
    <3> QED
      BY <3>1, <3>2, FS_Subset
  <2>2. f \in [shown -> real]
    BY <1>3
  <2>3. ASSUME NEW p \in shown, NEW r \in shown, f[p] = f[r] PROVE p = r
    <3>1. obj[p].id = obj[r].id
      BY <1>3, <2>3
    <3> QED
      BY <1>1, <3>1 DEF KnownOnce, Known
  <2> HIDE DEF f
  <2>4. f \in Injection(shown, real)
    BY <2>2, <2>3 DEF Injection, IsInjective
  <2>5. f \in Surjection(shown, real)
    BY <1>4, <2>2 DEF Surjection
  <2> QED
    BY <2>1, <2>4, <2>5, FS_Injection
<1> QED
  BY <1>5, <1>6

(* While every request succeeds, a folder that was listed shows what the   *)
(* cloud has in it, each file once (getFileList, __rename, updateFile).    *)
THEOREM MirrorHolds == Spec => []Mirror
<1>1. ASSUME Inv PROVE Mirror
  BY <1>1, FolderMirrors DEF Mirror
<1> QED
  BY <1>1, InvHolds, PTL

(* Whatever fails, an object leaves the list only when its file has left   *)
(* the cloud, or when updateFile took a page without "error": in it for    *)
(* the answer to the deletion (__deleteObject, updateFile).                *)
THEOREM ErasedAreTrashed == Spec => ErasedIsTrashed
<1>1. ASSUME Inv, [Next]_vars
      PROVE  [~ misread' => \A o \in ToSet(list) \ ToSet(list') :
                NodeWithId(tree', pathIds, obj[o].id) = NoNode]_vars
  BY <1>1, NextIsGood DEF Good, Erasing
<1> QED
  BY <1>1, InvHolds, PTL DEF Spec, ErasedIsTrashed

(* Only folders that are empty in the cloud are trashed, while every       *)
(* request succeeds (__deleteObject).                                      *)
THEOREM EmptyFoldersAreTrashed == Spec => EmptyFolderIsTrashed
<1>1. ASSUME Inv, [Next]_vars
      PROVE  [failures' = 0 => TrashesOneNode]_vars
  BY <1>1, NextIsGood DEF Good, Trashing, TrashesOneNode
<1> QED
  BY <1>1, InvHolds, PTL DEF Spec, EmptyFolderIsTrashed
=============================================================================
