--------------------------- MODULE SharingProofs ---------------------------
(***************************************************************************)
(* Theorems about Sharing: the types, the closure of the permissions under *)
(* the relations, the references, and what a request can take away; and     *)
(* that the recursion of uninherit_share does what Sharing says of it.      *)
(***************************************************************************)
EXTENDS UninheritSteps, TLAPS

-----------------------------------------------------------------------------
(* Reach contains its start, is closed under the relations, and contains   *)
(* nothing that is not reached from another of its objects.                *)

LEMMA ReachStart ==
    ASSUME NEW E, NEW s, NEW W, s \in W
    PROVE  s \in Reach(E, s, W)
BY DEF Reach

LEMMA ReachStep ==
    ASSUME NEW E, NEW s, NEW W, NEW a \in Reach(E, s, W), NEW b \in W, <<a, b>> \in E
    PROVE  b \in Reach(E, s, W)
<1>1. s \in W /\ a \in W
  BY DEF Reach
<1>2. ASSUME NEW S \in SUBSET W, s \in S,
             \A x \in S, y \in W : <<x, y>> \in E => y \in S
      PROVE  b \in S
  <2>1. a \in S
    BY <1>2 DEF Reach
  <2>2. QED
    BY <1>2, <2>1
<1>3. QED
  BY <1>1, <1>2 DEF Reach

(* An object that a closed set of objects must contain is in that set.     *)
LEMMA ReachLeast ==
    ASSUME NEW E, NEW s, NEW W, NEW S \in SUBSET W, s \in W => s \in S,
           \A x \in S, y \in W : <<x, y>> \in E => y \in S
    PROVE  Reach(E, s, W) \subseteq S
BY DEF Reach

LEMMA ReachOrigin ==
    ASSUME NEW E, NEW s, NEW W, NEW b \in Reach(E, s, W), b # s
    PROVE  \E a \in Reach(E, s, W) : <<a, b>> \in E
<1> DEFINE R == Reach(E, s, W)
           S == {o \in R : o = s \/ \E a \in R : <<a, o>> \in E}
<1>1. R \subseteq W
  BY DEF Reach
<1>2. S \in SUBSET W
  BY <1>1
<1>3. s \in W => s \in S
  BY ReachStart
<1>4. \A x \in S, y \in W : <<x, y>> \in E => y \in S
  BY ReachStep
<1>5. R \subseteq S
  <2> HIDE DEF S
  <2> QED BY <1>2, <1>3, <1>4, ReachLeast
<1>6. QED
  BY <1>5

-----------------------------------------------------------------------------
(* give_access leaves what is there, and closes the relations again that   *)
(* were only broken at the object it starts from.                          *)

LEMMA PermIsNotNoPerm == \A p \in Perm : p # NoPerm
BY DEF Perm, NoPerm, Reason

LEMMA GiveAccessKeeps ==
    ASSUME NEW E, NEW col \in Column, NEW o, NEW p \in Perm, NEW x \in Objects,
           col[x] # NoPerm
    PROVE  GiveAccess(E, col, o, p)[x] = col[x]
BY DEF GiveAccess, Reach

LEMMA GiveAccessType ==
    ASSUME NEW E, NEW col \in Column, NEW o, NEW p \in Perm
    PROVE  GiveAccess(E, col, o, p) \in Column
BY DEF GiveAccess, Column

LEMMA GiveAccessCloses ==
    ASSUME NEW E, NEW col \in Column, NEW o \in Objects, NEW p \in Perm,
           \A a, b \in Objects :
              <<a, b>> \in E /\ col[a] # NoPerm /\ b # o => col[b] # NoPerm
    PROVE  /\ Closed(E, GiveAccess(E, col, o, p))
           /\ GiveAccess(E, col, o, p)[o] # NoPerm
<1> DEFINE missing == {x \in Objects : col[x] = NoPerm}
           R == Reach(E, o, missing)
           new == GiveAccess(E, col, o, p)
<1>1. p # NoPerm
  BY PermIsNotNoPerm
<1>2. \A x \in Objects : new[x] = IF x \in R THEN p ELSE col[x]
  BY DEF GiveAccess
<1>3. new[o] # NoPerm
  <2>1. CASE o \in missing
    BY <2>1, <1>1, <1>2, ReachStart
  <2>2. CASE o \notin missing
    BY <2>2, <1>1, <1>2
  <2>3. QED
    BY <2>1, <2>2
<1>4. ASSUME NEW a \in Objects, NEW b \in Objects, <<a, b>> \in E, new[a] # NoPerm
      PROVE  new[b] # NoPerm
  <2>1. CASE b = o
    BY <2>1, <1>3
  <2>2. CASE b # o /\ a \notin R
    <3>1. col[a] # NoPerm
      BY <2>2, <1>2, <1>4
    <3>2. col[b] # NoPerm
      BY <2>2, <3>1, <1>4
    <3>3. QED
      BY <3>2, <1>1, <1>2
  <2>3. CASE a \in R
    <3>1. CASE b \in missing
      <4>1. b \in R
        BY <2>3, <3>1, <1>4, ReachStep
      <4>2. QED
        BY <4>1, <1>1, <1>2
    <3>2. CASE b \notin missing
      BY <3>2, <1>1, <1>2
    <3>3. QED
      BY <3>1, <3>2
  <2>4. QED
    BY <2>1, <2>2, <2>3
<1>5. Closed(E, new)
  BY <1>4 DEF Closed
<1>6. QED
  BY <1>3, <1>5

(* The same for every group of a set at once.                              *)
LEMMA GiveAllType ==
    ASSUME NEW E, NEW pm \in [Groups -> Column], NEW o, NEW G, NEW P,
           \A g \in G \cap Groups : P[g] \in Perm
    PROVE  GiveAll(E, pm, o, G, P) \in [Groups -> Column]
BY GiveAccessType DEF GiveAll

LEMMA GiveAllKeeps ==
    ASSUME NEW E, NEW pm \in [Groups -> Column], NEW o, NEW G, NEW P,
           \A g \in G \cap Groups : P[g] \in Perm,
           NEW g \in Groups, NEW x \in Objects, pm[g][x] # NoPerm
    PROVE  GiveAll(E, pm, o, G, P)[g][x] = pm[g][x]
<1>1. CASE g \in G
  BY <1>1, GiveAccessKeeps, pm[g] \in Column, P[g] \in Perm DEF GiveAll
<1>2. CASE g \notin G
  BY <1>2 DEF GiveAll
<1>3. QED
  BY <1>1, <1>2

LEMMA GiveAllCloses ==
    ASSUME NEW E, NEW pm \in [Groups -> Column], NEW o \in Objects, NEW G, NEW P,
           \A g \in G \cap Groups : P[g] \in Perm,
           \A g \in Groups : Closed(E, pm[g])
    PROVE  \A g \in Groups : Closed(E, GiveAll(E, pm, o, G, P)[g])
<1> SUFFICES ASSUME NEW g \in Groups
             PROVE  Closed(E, GiveAll(E, pm, o, G, P)[g])
  OBVIOUS
<1>1. CASE g \in G
  <2>1. GiveAll(E, pm, o, G, P)[g] = GiveAccess(E, pm[g], o, P[g])
    BY <1>1 DEF GiveAll
  <2>2. \A a, b \in Objects :
           <<a, b>> \in E /\ pm[g][a] # NoPerm /\ b # o => pm[g][b] # NoPerm
    BY DEF Closed
  <2>3. pm[g] \in Column /\ P[g] \in Perm
    BY <1>1
  <2>4. QED
    BY <2>1, <2>2, <2>3, GiveAccessCloses
<1>2. CASE g \notin G
  BY <1>2 DEF GiveAll
<1>3. QED
  BY <1>1, <1>2

-----------------------------------------------------------------------------
(* Opening an object, and linking a child to a parent.                     *)

(* What a request has read or written so far: permissions of the right     *)
(* type that are closed under the relations.                               *)
Sound(E, pm) ==
    /\ pm \in [Groups -> Column]
    /\ \A g \in Groups : Closed(E, pm[g])

LEMMA OpenedSound ==
    ASSUME NEW u \in Users, NEW o \in Objects, NEW pm, Sound(rels, pm)
    PROVE  Sound(rels, Opened(pm, u, o))
<1> DEFINE P == [g \in Groups |-> [reason |-> "queried", rel |-> o, by |-> u]]
           G == MyGroups(u) \cap CapGroups["share_queried_objects"]
<1>1. \A g \in G \cap Groups : P[g] \in Perm
  BY DEF Perm, Reason
<1>2. Sound(rels, GiveAll(rels, pm, o, G, P))
  <2> HIDE DEF P, G
  <2> QED BY <1>1, GiveAllType, GiveAllCloses DEF Sound
<1>3. QED
  BY <1>2 DEF Opened

LEMMA OpenedKeeps ==
    ASSUME NEW u \in Users, NEW o \in Objects, NEW pm \in [Groups -> Column],
           NEW g \in Groups, NEW x \in Objects, pm[g][x] # NoPerm
    PROVE  Opened(pm, u, o)[g][x] = pm[g][x]
<1> DEFINE P == [h \in Groups |-> [reason |-> "queried", rel |-> o, by |-> u]]
           G == MyGroups(u) \cap CapGroups["share_queried_objects"]
<1>1. \A h \in G \cap Groups : P[h] \in Perm
  BY DEF Perm, Reason
<1>2. GiveAll(rels, pm, o, G, P)[g][x] = pm[g][x]
  <2> HIDE DEF P, G
  <2> QED BY <1>1, GiveAllKeeps
<1>3. QED
  BY <1>2 DEF Opened

(* The permissions of an upload. *)
LEMMA UploadKeyType ==
    ASSUME NEW u \in Users, NEW o \in Objects
    PROVE  \A g \in Groups : UploadKey(u, o)[g] \in Perm
BY DEF UploadKey, Perm, Reason

LEMMA LinkedSound ==
    ASSUME NEW p \in Objects, NEW c \in Objects, NEW pm, Sound(rels, pm)
    PROVE  Sound(rels \cup {<<p, c>>}, Linked(pm, p, c))
<1> DEFINE E == rels \cup {<<p, c>>}
           G == {g \in Groups : pm[g][p] # NoPerm}
           P == [g \in Groups |-> pm[g][p]]
           new == GiveAll(E, pm, c, G, P)
<1>1. CASE <<p, c>> \in rels
  <2>1. rels \cup {<<p, c>>} = rels
    BY <1>1
  <2>2. QED
    BY <1>1, <2>1 DEF Linked
<1>2. CASE <<p, c>> \notin rels
  <2>1. \A g \in G \cap Groups : P[g] \in Perm
    BY DEF Sound, Column
  <2>2. new \in [Groups -> Column]
    <3> HIDE DEF G, P, E
    <3> QED BY <2>1, GiveAllType DEF Sound
  <2>3. ASSUME NEW g \in Groups
        PROVE  Closed(E, new[g])
    <3>1. CASE g \in G
      <4>1. new[g] = GiveAccess(E, pm[g], c, P[g])
        BY <3>1 DEF GiveAll
      <4>2. pm[g] \in Column /\ P[g] \in Perm
        BY <3>1, <2>1 DEF Sound
      <4>3. \A a, b \in Objects :
               <<a, b>> \in E /\ pm[g][a] # NoPerm /\ b # c => pm[g][b] # NoPerm
        BY DEF Sound, Closed
      <4>4. QED
        <5> HIDE DEF E, P, new
        <5> QED BY <4>1, <4>2, <4>3, GiveAccessCloses
    <3>2. CASE g \notin G
      <4>1. new[g] = pm[g] /\ pm[g][p] = NoPerm
        BY <3>2 DEF GiveAll
      <4>2. QED
        BY <4>1 DEF Sound, Closed
    <3>3. QED
      BY <3>1, <3>2
  <2>4. QED
    BY <1>2, <2>2, <2>3 DEF Linked, Sound
<1>3. QED
  BY <1>1, <1>2

-----------------------------------------------------------------------------
(* uninherit_share: what any outcome of the walk looks like.               *)

LEMMA MakeInheritedType ==
    ASSUME NEW a \in Perm, NEW b \in Perm
    PROVE  MakeInherited(a, b) \in Perm
BY DEF MakeInherited, Perm

(* What is handed over is a permission, for objects that inherited from p. *)
LEMMA HeirsType ==
    ASSUME NEW E, NEW col \in Column, NEW p \in Objects, NEW c \in Objects,
           NEW heir \in Heirs(E, col, p, c)
    PROVE  /\ DOMAIN heir \subseteq Kin(col, p)
           /\ \A o \in DOMAIN heir : heir[o] \in Perm
<1>1. PICK left : heir \in HeirsLeaving(E, col, p, c, left)
  BY DEF Heirs
<1> DEFINE M == Moved(E, col, p, c, left)
<1>2. PICK dev \in Devisors(E, col, p, c), head \in HeadOf(E, col, p, c, left) :
         heir = [o \in M |-> col[dev[head[o]]]]
  BY <1>1 DEF HeirsLeaving
<1>3. M \subseteq Kin(col, p)
  BY DEF Moved, Reach
<1>4. ASSUME NEW o \in M
      PROVE  heir[o] \in Perm
  <2>1. head[o] \in Heads(E, col, p, c)
    BY <1>4 DEF HeadOf
  <2> HIDE DEF M
  <2>2. dev[head[o]] \in Objects /\ col[dev[head[o]]] # NoPerm
    BY <2>1 DEF Devisors, Sharing, Parents
  <2>3. QED
    BY <1>2, <1>4, <2>2 DEF Column
<1>5. QED
  <2> HIDE DEF M
  <2> QED BY <1>2, <1>3, <1>4

(* A permission is only deleted where it inherits the one of the removed   *)
(* parent, and where every parent that shares with the group either loses  *)
(* its permission as well or is the removed one.                           *)
LEMMA UninheritOutcome ==
    ASSUME NEW E, NEW col \in Column, NEW p \in Objects, NEW c \in Objects,
           <<p, c>> \in E, NEW out \in Uninherit(E, col, p, c)
    PROVE  /\ out \in Column
           /\ \A o \in Objects : out[o] # NoPerm => col[o] # NoPerm
           /\ \A o \in Objects : out[o] = NoPerm /\ col[o] # NoPerm =>
                 /\ Inherits(col[o], col[p])
                 /\ \A q \in Objects :
                       <<q, o>> \in E /\ col[q] # NoPerm =>
                          out[q] = NoPerm \/ <<q, o>> = <<p, c>>
<1> DEFINE K == Kin(col, p)
           D == Deleted(E, col, p, c)
<1>1. CASE out = col
  BY <1>1
<1>2. CASE out # col
  <2>1. p # c /\ col[p] # NoPerm /\ c \in K
    BY <1>2 DEF Uninherit
  <2>2. PICK heir \in Heirs(E, col, p, c) : out = Uninherited(E, col, p, c, heir)
    BY <2>1 DEF Uninherit
  <2>7. DOMAIN heir \subseteq K /\ \A o \in DOMAIN heir : heir[o] \in Perm
    BY HeirsType
  <2>3. ASSUME NEW o \in Objects
        PROVE  out[o] = NoPerm <=> o \in D \/ col[o] = NoPerm
    <3>1. CASE o \in DOMAIN heir \ D
      <4>1. col[o] \in Perm
        BY <2>7, <3>1 DEF Kin, Column
      <4>2. MakeInherited(col[o], heir[o]) \in Perm
        BY <2>7, <3>1, <4>1, MakeInheritedType
      <4>3. QED
        BY <2>2, <3>1, <4>1, <4>2, PermIsNotNoPerm DEF Uninherited
    <3>2. CASE o \notin DOMAIN heir \/ o \in D
      BY <2>2, <3>2 DEF Uninherited
    <3>3. QED
      BY <3>1, <3>2
  <2>4. out \in Column
    <3>1. \A o \in DOMAIN heir : MakeInherited(col[o], heir[o]) \in Perm
      BY <2>7, MakeInheritedType DEF Kin, Column
    <3>2. QED
      BY <2>2, <3>1 DEF Uninherited, Column
  <2>5. ASSUME NEW o \in Objects, out[o] = NoPerm, col[o] # NoPerm
        PROVE  /\ Inherits(col[o], col[p])
               /\ \A q \in Objects : <<q, o>> \in E /\ col[q] # NoPerm =>
                     out[q] = NoPerm \/ <<q, o>> = <<p, c>>
    <3>1. o \in D
      BY <2>3, <2>5
    <3>2. o \in K
      BY <3>1 DEF Deleted, Reach
    <3>3. PICK a \in K : Sharing(E, col, o) = {a}
      BY <3>1 DEF Deleted, Reach
    <3>4. CASE o = c
      BY <2>1, <3>2, <3>3, <3>4 DEF Kin, Sharing, Parents
    <3>5. CASE o # c
      <4>1. PICK b \in D : <<b, o>> \in E
        BY <3>1, <3>5, ReachOrigin DEF Deleted
      <4>2. b \in Objects /\ col[b] # NoPerm
        BY DEF Deleted, Reach, Kin
      <4>3. b = a
        BY <3>3, <4>1, <4>2 DEF Sharing, Parents
      <4>4. out[b] = NoPerm
        BY <2>3, <4>2
      <4>5. QED
        BY <3>2, <3>3, <4>3, <4>4 DEF Kin, Sharing, Parents
    <3>6. QED
      BY <3>4, <3>5
  <2>6. QED
    BY <2>3, <2>4, <2>5
<1>3. QED
  BY <1>1, <1>2

LEMMA UninheritSound ==
    ASSUME NEW p \in Objects, NEW c \in Objects, <<p, c>> \in rels,
           NEW pm, Sound(rels, pm), NEW out, NEW S, out \in [Groups -> S],
           \A g \in Groups : out[g] \in Uninherit(rels, pm[g], p, c)
    PROVE  Sound(rels \ {<<p, c>>}, out)
<1> SUFFICES ASSUME NEW g \in Groups
             PROVE  out[g] \in Column /\ Closed(rels \ {<<p, c>>}, out[g])
  BY DEF Sound
<1>1. pm[g] \in Column /\ Closed(rels, pm[g])
  BY DEF Sound
<1>2. /\ out[g] \in Column
      /\ \A o \in Objects : out[g][o] # NoPerm => pm[g][o] # NoPerm
      /\ \A o \in Objects : out[g][o] = NoPerm /\ pm[g][o] # NoPerm =>
            \A q \in Objects : <<q, o>> \in rels /\ pm[g][q] # NoPerm =>
               out[g][q] = NoPerm \/ <<q, o>> = <<p, c>>
  <2> DEFINE col == pm[g]
             new == out[g]
  <2>1. col \in Column /\ new \in Uninherit(rels, col, p, c)
    BY <1>1
  <2> HIDE DEF col, new
  <2>2. /\ new \in Column
        /\ \A o \in Objects : new[o] # NoPerm => col[o] # NoPerm
        /\ \A o \in Objects : new[o] = NoPerm /\ col[o] # NoPerm =>
              \A q \in Objects : <<q, o>> \in rels /\ col[q] # NoPerm =>
                 new[q] = NoPerm \/ <<q, o>> = <<p, c>>
    BY <2>1, UninheritOutcome
  <2>3. QED
    BY <2>2 DEF col, new
<1>3. QED
  BY <1>1, <1>2 DEF Closed

-----------------------------------------------------------------------------
(* The types, for any number of objects, groups, users and relations.      *)
Typed == TypeOK /\ InheritanceClosure

LEMMA TypedIsSound ==
    Typed <=> /\ TypeOK
              /\ Sound(rels, perm)
BY DEF Typed, TypeOK, InheritanceClosure, Sound

LEMMA TypedInit == Init => Typed
BY DEF Init, Typed, TypeOK, InheritanceClosure, Closed, Column

LEMMA TypedStep == Typed /\ [Next]_vars => Typed'
<1> SUFFICES ASSUME Typed, [Next]_vars
             PROVE  Typed'
  OBVIOUS
<1> USE DEF TypeOK
<1>0. TypeOK /\ Sound(rels, perm)
  BY TypedIsSound
<1> SUFFICES TypeOK' /\ Sound(rels', perm')
  BY DEF Typed, InheritanceClosure, Sound
<1>1. ASSUME NEW u \in Users, NEW o \in Objects, Upload(u, o)
      PROVE  TypeOK' /\ Sound(rels', perm')
  <2>1. PICK sw \in SharesForUpload(u) :
           perm' = GiveAll(rels, perm, o, sw, UploadKey(u, o))
    BY <1>1 DEF Upload
  <2>2. Sound(rels, perm')
    BY <1>0, <2>1, UploadKeyType, GiveAllType, GiveAllCloses DEF Sound
  <2>3. QED
    BY <1>0, <1>1, <2>2 DEF Upload, Sound
<1>2. ASSUME NEW u \in Users, NEW o \in Objects, NEW p \in Objects, UploadUnder(u, o, p)
      PROVE  TypeOK' /\ Sound(rels', perm')
  <2>1. PICK sw \in SharesForUpload(u) :
           perm' = Linked(GiveAll(rels, Opened(perm, u, p), o, sw, UploadKey(u, o)), p, o)
    BY <1>2 DEF UploadUnder
  <2>2. Sound(rels, Opened(perm, u, p))
    BY <1>0, OpenedSound
  <2>3. Sound(rels, GiveAll(rels, Opened(perm, u, p), o, sw, UploadKey(u, o)))
    BY <2>2, UploadKeyType, GiveAllType, GiveAllCloses DEF Sound
  <2>4. Sound(rels \cup {<<p, o>>}, perm')
    BY <2>1, <2>3, LinkedSound
  <2>5. QED
    BY <1>0, <1>2, <2>4 DEF UploadUnder, Sound
<1>3. ASSUME NEW u \in Users, NEW o \in Objects, Open(u, o)
      PROVE  TypeOK' /\ Sound(rels', perm')
  <2>1. Sound(rels, perm')
    BY <1>0, <1>3, OpenedSound DEF Open
  <2>2. QED
    BY <1>0, <1>3, <2>1 DEF Open, Sound
<1>4. ASSUME NEW u \in Users, NEW o \in Objects, NEW g \in Groups, Share(u, o, g)
      PROVE  TypeOK' /\ Sound(rels', perm')
  <2> DEFINE P == [x \in Groups |-> [reason |-> "shared", rel |-> o, by |-> u]]
  <2>1. Sound(rels, Opened(perm, u, o))
    BY <1>0, OpenedSound
  <2>2. \A x \in {g} \cap Groups : P[x] \in Perm
    BY DEF Perm, Reason
  <2>3. perm' = GiveAll(rels, Opened(perm, u, o), o, {g}, P)
    BY <1>4 DEF Share
  <2>4. Sound(rels, perm')
    <3> HIDE DEF P
    <3> QED BY <2>1, <2>2, <2>3, GiveAllType, GiveAllCloses DEF Sound
  <2>5. QED
    BY <1>0, <1>4, <2>4 DEF Share, Sound
<1>5. ASSUME NEW u \in Users, NEW p \in Objects, NEW c \in Objects, AddParent(u, p, c)
      PROVE  TypeOK' /\ Sound(rels', perm')
  <2>1. Sound(rels, Opened(Opened(perm, u, p), u, c))
    BY <1>0, OpenedSound
  <2>2. Sound(rels \cup {<<p, c>>}, perm')
    BY <1>5, <2>1, LinkedSound DEF AddParent
  <2>3. QED
    BY <1>0, <1>5, <2>2 DEF AddParent, Sound
<1>6. ASSUME NEW u \in Users, NEW p \in Objects, NEW c \in Objects, RemoveParent(u, p, c)
      PROVE  TypeOK' /\ Sound(rels', perm')
  <2> DEFINE opened == Opened(Opened(perm, u, p), u, c)
  <2>1. Sound(rels, opened)
    BY <1>0, OpenedSound
  <2>2. /\ perm' \in [Groups -> UNION {Uninherit(rels, opened[g], p, c) : g \in Groups}]
        /\ \A g \in Groups : perm'[g] \in Uninherit(rels, opened[g], p, c)
    BY <1>6 DEF RemoveParent
  <2>3. Sound(rels \ {<<p, c>>}, perm')
    <3> HIDE DEF opened
    <3> QED BY <1>6, <2>1, <2>2, UninheritSound DEF RemoveParent
  <2>4. QED
    BY <1>0, <1>6, <2>3 DEF RemoveParent, Sound
<1>7. ASSUME NEW u \in Users, NEW o \in Objects, DeleteObject(u, o)
      PROVE  TypeOK' /\ Sound(rels', perm')
  <2> DEFINE opened == Opened(perm, u, o)
  <2>1. Sound(rels, opened)
    BY <1>0, OpenedSound
  <2>2. perm' = [g \in Groups |-> [x \in Objects |->
                   IF x = o THEN NoPerm
                   ELSE IF opened[g][x].rel = o
                   THEN [opened[g][x] EXCEPT !.rel = NoObject]
                   ELSE opened[g][x]]]
    BY <1>7 DEF DeleteObject
  <2> HIDE DEF opened
  <2>3. ASSUME NEW g \in Groups, NEW x \in Objects
        PROVE  /\ perm'[g][x] \in Perm \cup {NoPerm}
               /\ x # o => (perm'[g][x] = NoPerm <=> opened[g][x] = NoPerm)
    <3>1. opened[g][x] \in Perm \cup {NoPerm}
      BY <2>1 DEF Sound, Column
    <3>2. opened[g][x] = NoPerm => opened[g][x].rel # o
      BY NullAssumption DEF NoPerm
    <3>3. opened[g][x] \in Perm => [opened[g][x] EXCEPT !.rel = NoObject] \in Perm
      BY DEF Perm
    <3>4. QED
      BY <2>2, <3>1, <3>2, <3>3, PermIsNotNoPerm
  <2>4. perm' \in [Groups -> Column]
    BY <2>2, <2>3 DEF Column
  <2>5. rels' \subseteq rels /\ \A e \in rels' : o \notin {e[1], e[2]}
    BY <1>7 DEF DeleteObject
  <2>6. \A g \in Groups : Closed(rels', perm'[g])
    BY <2>1, <2>2, <2>3, <2>5 DEF Sound, Closed
  <2>7. QED
    BY <1>0, <1>7, <2>4, <2>5, <2>6 DEF DeleteObject, Sound
<1>8. ASSUME NEW u \in Users, NEW g \in Groups, DeleteGroup(u, g)
      PROVE  TypeOK' /\ Sound(rels', perm')
  BY <1>0, <1>8 DEF DeleteGroup, Sound, Closed, Column
<1>9. ASSUME NEW u \in Users, NEW v \in Users, DeleteUser(u, v)
      PROVE  TypeOK' /\ Sound(rels', perm')
  <2>1. perm' = [g \in Groups |-> [o \in Objects |->
                   IF g = Private[v] THEN NoPerm
                   ELSE IF perm[g][o].by = v THEN [perm[g][o] EXCEPT !.by = NoUser]
                   ELSE perm[g][o]]]
    BY <1>9 DEF DeleteUser
  <2>2. ASSUME NEW g \in Groups, NEW x \in Objects
        PROVE  /\ perm'[g][x] \in Perm \cup {NoPerm}
               /\ g # Private[v] => (perm'[g][x] = NoPerm <=> perm[g][x] = NoPerm)
    <3>1. perm[g][x] \in Perm \cup {NoPerm}
      BY <1>0 DEF Column
    <3>2. perm[g][x] = NoPerm => perm[g][x].by # v
      BY NullAssumption DEF NoPerm
    <3>3. perm[g][x] \in Perm => [perm[g][x] EXCEPT !.by = NoUser] \in Perm
      BY DEF Perm
    <3>4. QED
      BY <2>1, <3>1, <3>2, <3>3, PermIsNotNoPerm
  <2>3. perm' \in [Groups -> Column]
    BY <2>1, <2>2 DEF Column
  <2>4. \A g \in Groups : Closed(rels, perm'[g])
    BY <1>0, <2>1, <2>2 DEF Sound, Closed
  <2>5. QED
    BY <1>0, <1>9, <2>3, <2>4 DEF DeleteUser, Sound
<1>10. CASE UNCHANGED vars
  BY <1>0, <1>10 DEF vars, Sound, Closed
<1>11. QED
  BY <1>1, <1>2, <1>3, <1>4, <1>5, <1>6, <1>7, <1>8, <1>9, <1>10 DEF Next

(* Every reachable state is well typed: type correctness of Sharing.       *)
THEOREM TypeCorrect == Spec => []TypeOK
<1>1. Typed => TypeOK
  BY DEF Typed
<1>2. QED
  BY TypedInit, TypedStep, <1>1, PTL DEF Spec

(* Whoever may see a parent may see its children, after any sequence of    *)
(* uploads, shares, links, unlinks and deletions that do not overlap.      *)
THEOREM ClosureHolds == Spec => []InheritanceClosure
<1>1. Typed => InheritanceClosure
  BY DEF Typed
<1>2. QED
  BY TypedInit, TypedStep, <1>1, PTL DEF Spec

-----------------------------------------------------------------------------
(* References: the permissions pm name groups, objects and users that have *)
(* a row, when O are the rows of object.                                   *)
RefersTo(O, p) == p.rel \in O \cup {NoObject} /\ p.by \in users \cup {NoUser}

Rows(O, pm) ==
    \A g \in Groups, o \in Objects :
        pm[g][o] # NoPerm => g \in groups /\ o \in O /\ RefersTo(O, pm[g][o])

(* An account keeps its private group, so an upload shares with a group     *)
(* that is there.                                                          *)
Owned == \A u \in users : Private[u] \in groups

(* The walk along relations of existing objects meets existing objects.    *)
LEMMA ReachInside ==
    ASSUME NEW O, NEW E, E \subseteq O \X O, NEW o \in O, NEW W
    PROVE  Reach(E, o, W) \subseteq O
<1> DEFINE S == W \cap O
<1>1. \A x \in S, y \in W : <<x, y>> \in E => y \in S
  OBVIOUS
<1>2. S \in SUBSET W /\ (o \in W => o \in S)
  OBVIOUS
<1>3. Reach(E, o, W) \subseteq S
  <2> HIDE DEF S
  <2> QED BY <1>1, <1>2, ReachLeast
<1>4. QED
  BY <1>3

LEMMA RowsGiveAll ==
    ASSUME NEW O, O \subseteq Objects, NEW E, E \subseteq O \X O, NEW o \in O,
           NEW pm \in [Groups -> Column], Rows(O, pm),
           NEW G, G \subseteq groups, NEW P,
           \A g \in G \cap Groups : RefersTo(O, P[g])
    PROVE  Rows(O, GiveAll(E, pm, o, G, P))
<1> SUFFICES ASSUME NEW g \in Groups, NEW x \in Objects,
                    GiveAll(E, pm, o, G, P)[g][x] # NoPerm
             PROVE  /\ g \in groups /\ x \in O
                    /\ RefersTo(O, GiveAll(E, pm, o, G, P)[g][x])
  BY DEF Rows
<1> DEFINE R == Reach(E, o, {y \in Objects : pm[g][y] = NoPerm})
<1>1. R \subseteq O
  BY ReachInside
<1>2. CASE g \in G /\ x \in R
  <2>1. GiveAll(E, pm, o, G, P)[g][x] = P[g]
    BY <1>2 DEF GiveAll, GiveAccess
  <2>2. QED
    BY <1>1, <1>2, <2>1
<1>3. CASE ~(g \in G /\ x \in R)
  <2>1. GiveAll(E, pm, o, G, P)[g][x] = pm[g][x]
    BY <1>3 DEF GiveAll, GiveAccess
  <2>2. QED
    BY <2>1 DEF Rows
<1>4. QED
  BY <1>2, <1>3

LEMMA RowsOpened ==
    ASSUME objects \subseteq Objects, rels \subseteq objects \X objects,
           NEW u \in users, NEW o \in objects,
           NEW pm \in [Groups -> Column], Rows(objects, pm)
    PROVE  Rows(objects, Opened(pm, u, o))
<1> DEFINE P == [g \in Groups |-> [reason |-> "queried", rel |-> o, by |-> u]]
           G == MyGroups(u) \cap CapGroups["share_queried_objects"]
<1>1. \A g \in G \cap Groups : RefersTo(objects, P[g])
  BY DEF RefersTo
<1>2. G \subseteq groups
  BY DEF MyGroups
<1>3. Rows(objects, GiveAll(rels, pm, o, G, P))
  <2> HIDE DEF P, G
  <2> QED BY <1>1, <1>2, RowsGiveAll
<1>4. QED
  BY <1>3 DEF Opened

LEMMA RowsLinked ==
    ASSUME NEW O, O \subseteq Objects, rels \subseteq O \X O,
           NEW p \in O, NEW c \in O,
           NEW pm \in [Groups -> Column], Rows(O, pm)
    PROVE  Rows(O, Linked(pm, p, c))
<1> DEFINE E == rels \cup {<<p, c>>}
           G == {g \in Groups : pm[g][p] # NoPerm}
           P == [g \in Groups |-> pm[g][p]]
<1>1. E \subseteq O \X O
  OBVIOUS
<1>2. G \subseteq groups /\ \A g \in G \cap Groups : RefersTo(O, P[g])
  BY DEF Rows
<1>3. Rows(O, GiveAll(E, pm, c, G, P))
  <2> HIDE DEF E, G, P
  <2> QED BY <1>1, <1>2, RowsGiveAll
<1>4. QED
  BY <1>3 DEF Linked

LEMMA SharesExist ==
    ASSUME Owned, NEW u \in users, NEW sw \in SharesForUpload(u)
    PROVE  sw \subseteq groups
BY DEF Owned, SharesForUpload, MyGroups

(* What the walk of uninherit_share hands over is a permission of another  *)
(* object of the same group.                                               *)
LEMMA RowsUninherit ==
    ASSUME NEW E, NEW p \in Objects, NEW c \in Objects, <<p, c>> \in E,
           NEW pm \in [Groups -> Column], Rows(objects, pm),
           NEW out, \A g \in Groups : out[g] \in Uninherit(E, pm[g], p, c)
    PROVE  Rows(objects, out)
<1> SUFFICES ASSUME NEW g \in Groups, NEW x \in Objects, out[g][x] # NoPerm
             PROVE  /\ g \in groups /\ x \in objects
                    /\ RefersTo(objects, out[g][x])
  BY DEF Rows
<1> DEFINE col == pm[g]
           new == out[g]
<1>1. col \in Column /\ new \in Uninherit(E, col, p, c)
  OBVIOUS
<1>2. \A y \in Objects : col[y] # NoPerm =>
         g \in groups /\ y \in objects /\ RefersTo(objects, col[y])
  BY DEF Rows
<1> HIDE DEF col, new
<1>3. col[x] # NoPerm
  <2>1. new[x] # NoPerm
    BY DEF new
  <2>2. QED
    BY <1>1, <2>1, UninheritOutcome
<1>4. RefersTo(objects, new[x])
  <2>1. CASE new = col
    BY <1>2, <1>3, <2>1
  <2>2. CASE new # col
    <3>1. PICK heir \in Heirs(E, col, p, c) : new = Uninherited(E, col, p, c, heir)
      BY <1>1, <2>2 DEF Uninherit
    <3>2. CASE x \in DOMAIN heir /\ x \notin Deleted(E, col, p, c)
      <4>1. PICK left : heir \in HeirsLeaving(E, col, p, c, left)
        BY <3>1 DEF Heirs
      <4> DEFINE M == Moved(E, col, p, c, left)
      <4>2. PICK dev \in Devisors(E, col, p, c), head \in HeadOf(E, col, p, c, left) :
               heir = [o \in M |-> col[dev[head[o]]]]
        BY <4>1 DEF HeirsLeaving
      <4>3. head[x] \in Heads(E, col, p, c)
        BY <3>2, <4>2 DEF HeadOf
      <4>4. dev[head[x]] \in Objects /\ col[dev[head[x]]] # NoPerm
        BY <4>3 DEF Devisors, Sharing, Parents
      <4>5. heir[x] = col[dev[head[x]]]
        <5> HIDE DEF M
        <5> QED BY <3>2, <4>2
      <4>6. col[x] \in Perm /\ heir[x] \in Perm
        BY <1>1, <1>3, <4>4, <4>5 DEF Column
      <4>7. RefersTo(objects, col[x]) /\ RefersTo(objects, heir[x])
        BY <1>2, <1>3, <4>4, <4>5
      <4>8. new[x] = MakeInherited(col[x], heir[x])
        BY <3>1, <3>2 DEF Uninherited
      <4>9. QED
        BY <4>6, <4>7, <4>8 DEF MakeInherited, RefersTo, Perm
    <3>3. CASE ~(x \in DOMAIN heir /\ x \notin Deleted(E, col, p, c))
      <4>1. new[x] = col[x] \/ new[x] = NoPerm
        BY <3>1, <3>3 DEF Uninherited
      <4>2. new[x] # NoPerm
        BY DEF new
      <4>3. QED
        BY <1>2, <1>3, <4>1, <4>2
    <3>4. QED
      BY <3>2, <3>3
  <2>3. QED
    BY <2>1, <2>2
<1>5. QED
  BY <1>2, <1>3, <1>4 DEF new

Whole == Typed /\ NoDanglingRow /\ Owned

LEMMA WholeInit == Init => Whole
<1>1. Init => NoDanglingRow /\ Owned
  BY UsersAssumption DEF Init, NoDanglingRow, Owned
<1>2. QED
  BY <1>1, TypedInit DEF Whole

(* A request that keeps groups and users keeps the references, if the      *)
(* permissions it leaves name what is there.                               *)
LEMMA RowsStay ==
    ASSUME Whole, groups' = groups, users' = users,
           rels' \subseteq objects' \X objects', Rows(objects', perm')
    PROVE  NoDanglingRow' /\ Owned'
BY DEF Whole, Owned, NoDanglingRow, Rows, RefersTo

LEMMA WholeStep == Whole /\ [Next]_vars => Whole'
<1> SUFFICES ASSUME Whole, [Next]_vars
             PROVE  Whole'
  OBVIOUS
<1>0. /\ Typed' /\ Sound(rels, perm) /\ perm \in [Groups -> Column]
      /\ objects \subseteq Objects /\ users \subseteq Users /\ Owned
      /\ rels \subseteq objects \X objects /\ Rows(objects, perm)
  <2>1. Typed'
    BY TypedStep DEF Whole
  <2>2. Rows(objects, perm)
    BY DEF Whole, NoDanglingRow, Rows, RefersTo
  <2>3. QED
    BY <2>1, <2>2, TypedIsSound DEF Whole, NoDanglingRow, Sound, TypeOK
<1> SUFFICES NoDanglingRow' /\ Owned'
  BY <1>0 DEF Whole
<1>1. ASSUME NEW u \in Users, NEW o \in Objects, Upload(u, o)
      PROVE  NoDanglingRow' /\ Owned'
  <2>1. PICK sw \in SharesForUpload(u) :
           perm' = GiveAll(rels, perm, o, sw, UploadKey(u, o))
    BY <1>1 DEF Upload
  <2>2. /\ u \in users /\ objects' = objects \cup {o} /\ rels' = rels
        /\ groups' = groups /\ users' = users
    BY <1>1 DEF Upload
  <2>3. Rows(objects', perm)
    BY <1>0, <2>2 DEF Rows, RefersTo
  <2>4. \A g \in sw \cap Groups : RefersTo(objects', UploadKey(u, o)[g])
    BY <2>2 DEF UploadKey, RefersTo
  <2>5. sw \subseteq groups
    BY <1>0, <2>2, SharesExist
  <2>6. Rows(objects', perm')
    BY <1>0, <2>1, <2>2, <2>3, <2>4, <2>5, RowsGiveAll
  <2>7. QED
    BY <1>0, <2>2, <2>6, RowsStay
<1>2. ASSUME NEW u \in Users, NEW o \in Objects, NEW p \in Objects, UploadUnder(u, o, p)
      PROVE  NoDanglingRow' /\ Owned'
  <2> DEFINE opened == Opened(perm, u, p)
  <2>1. PICK sw \in SharesForUpload(u) :
           perm' = Linked(GiveAll(rels, opened, o, sw, UploadKey(u, o)), p, o)
    BY <1>2 DEF UploadUnder
  <2>2. /\ u \in users /\ objects' = objects \cup {o} /\ rels' = rels \cup {<<p, o>>}
        /\ groups' = groups /\ users' = users /\ p \in objects
    BY <1>2 DEF UploadUnder, MayOpen
  <2>3. Sound(rels, opened) /\ Rows(objects, opened)
    BY <1>0, <2>2, OpenedSound, RowsOpened
  <2>4. Rows(objects', opened)
    BY <2>2, <2>3 DEF Rows, RefersTo
  <2>5. \A g \in sw \cap Groups : RefersTo(objects', UploadKey(u, o)[g])
    BY <2>2 DEF UploadKey, RefersTo
  <2>6. sw \subseteq groups
    BY <1>0, <2>2, SharesExist
  <2> HIDE DEF opened
  <2>7. /\ Rows(objects', GiveAll(rels, opened, o, sw, UploadKey(u, o)))
        /\ GiveAll(rels, opened, o, sw, UploadKey(u, o)) \in [Groups -> Column]
    BY <1>0, <2>2, <2>3, <2>4, <2>5, <2>6, RowsGiveAll, UploadKeyType, GiveAllType DEF Sound
  <2>8. Rows(objects', perm')
    BY <1>0, <2>1, <2>2, <2>7, RowsLinked
  <2>9. QED
    BY <1>0, <2>2, <2>8, RowsStay
<1>3. ASSUME NEW u \in Users, NEW o \in Objects, Open(u, o)
      PROVE  NoDanglingRow' /\ Owned'
  <2>1. u \in users /\ o \in objects /\ perm' = Opened(perm, u, o)
        /\ UNCHANGED <<objects, groups, users, rels>>
    BY <1>3 DEF Open, MayOpen
  <2>2. Rows(objects', perm')
    BY <1>0, <2>1, RowsOpened
  <2>3. QED
    BY <1>0, <2>1, <2>2, RowsStay
<1>4. ASSUME NEW u \in Users, NEW o \in Objects, NEW g \in Groups, Share(u, o, g)
      PROVE  NoDanglingRow' /\ Owned'
  <2> DEFINE P == [x \in Groups |-> [reason |-> "shared", rel |-> o, by |-> u]]
  <2>1. /\ u \in users /\ o \in objects /\ UNCHANGED <<objects, groups, users, rels>>
        /\ perm' = GiveAll(rels, Opened(perm, u, o), o, {g}, P)
    BY <1>4 DEF Share, MayOpen
  <2>2. g \in groups
    BY <1>4 DEF Share, MyGroups
  <2>3. Sound(rels, Opened(perm, u, o)) /\ Rows(objects, Opened(perm, u, o))
    BY <1>0, <2>1, OpenedSound, RowsOpened
  <2>4. \A x \in {g} \cap Groups : RefersTo(objects, P[x])
    BY <2>1 DEF RefersTo
  <2>5. Rows(objects', perm')
    <3> HIDE DEF P
    <3> QED BY <1>0, <2>1, <2>2, <2>3, <2>4, RowsGiveAll DEF Sound
  <2>6. QED
    BY <1>0, <2>1, <2>5, RowsStay
<1>5. ASSUME NEW u \in Users, NEW p \in Objects, NEW c \in Objects, AddParent(u, p, c)
      PROVE  NoDanglingRow' /\ Owned'
  <2>1. /\ u \in users /\ p \in objects /\ c \in objects
        /\ UNCHANGED <<objects, groups, users>> /\ rels' = rels \cup {<<p, c>>}
        /\ perm' = Linked(Opened(Opened(perm, u, p), u, c), p, c)
    BY <1>5 DEF AddParent, MayOpen
  <2>2. Sound(rels, Opened(perm, u, p)) /\ Rows(objects, Opened(perm, u, p))
    BY <1>0, <2>1, OpenedSound, RowsOpened
  <2>3. /\ Sound(rels, Opened(Opened(perm, u, p), u, c))
        /\ Rows(objects, Opened(Opened(perm, u, p), u, c))
    BY <1>0, <2>1, <2>2, OpenedSound, RowsOpened DEF Sound
  <2>4. Rows(objects', perm')
    BY <1>0, <2>1, <2>3, RowsLinked DEF Sound
  <2>5. QED
    BY <1>0, <2>1, <2>4, RowsStay
<1>6. ASSUME NEW u \in Users, NEW p \in Objects, NEW c \in Objects, RemoveParent(u, p, c)
      PROVE  NoDanglingRow' /\ Owned'
  <2> DEFINE opened == Opened(Opened(perm, u, p), u, c)
  <2>1. /\ u \in users /\ p \in objects /\ c \in objects /\ <<p, c>> \in rels
        /\ UNCHANGED <<objects, groups, users>> /\ rels' = rels \ {<<p, c>>}
        /\ \A g \in Groups : perm'[g] \in Uninherit(rels, opened[g], p, c)
    BY <1>6 DEF RemoveParent, MayOpen
  <2>2. Sound(rels, Opened(perm, u, p)) /\ Rows(objects, Opened(perm, u, p))
    BY <1>0, <2>1, OpenedSound, RowsOpened
  <2>3. Sound(rels, opened) /\ Rows(objects, opened)
    BY <1>0, <2>1, <2>2, OpenedSound, RowsOpened DEF Sound
  <2> HIDE DEF opened
  <2>4. Rows(objects, perm')
    BY <2>1, <2>3, RowsUninherit DEF Sound
  <2>5. QED
    BY <1>0, <2>1, <2>4, RowsStay
<1>7. ASSUME NEW u \in Users, NEW o \in Objects, DeleteObject(u, o)
      PROVE  NoDanglingRow' /\ Owned'
  <2> DEFINE opened == Opened(perm, u, o)
  <2>1. /\ u \in users /\ o \in objects /\ UNCHANGED <<groups, users>>
        /\ objects' = objects \ {o} /\ rels' = {e \in rels : o \notin {e[1], e[2]}}
        /\ perm' = [g \in Groups |-> [x \in Objects |->
                      IF x = o THEN NoPerm
                      ELSE IF opened[g][x].rel = o
                      THEN [opened[g][x] EXCEPT !.rel = NoObject]
                      ELSE opened[g][x]]]
    BY <1>7 DEF DeleteObject, MayOpen
  <2>2. Sound(rels, opened) /\ Rows(objects, opened)
    BY <1>0, <2>1, OpenedSound, RowsOpened
  <2> HIDE DEF opened
  <2>3. ASSUME NEW g \in Groups, NEW x \in Objects, perm'[g][x] # NoPerm
        PROVE  g \in groups /\ x \in objects' /\ RefersTo(objects', perm'[g][x])
    <3>1. opened[g][x] \in Perm \cup {NoPerm} /\ x # o
      BY <2>1, <2>2, <2>3 DEF Sound, Column
    <3>2. opened[g][x] # NoPerm
      BY <2>1, <2>3, <3>1, NullAssumption DEF NoPerm
    <3>3. g \in groups /\ x \in objects /\ RefersTo(objects, opened[g][x])
      BY <2>2, <3>2 DEF Rows
    <3>4. perm'[g][x] = IF opened[g][x].rel = o
                        THEN [opened[g][x] EXCEPT !.rel = NoObject] ELSE opened[g][x]
      BY <2>1, <3>1
    <3>5. opened[g][x] \in Perm
      BY <3>1, <3>2
    <3>6. QED
      BY <2>1, <3>1, <3>3, <3>4, <3>5 DEF RefersTo, Perm
  <2>4. Rows(objects', perm')
    BY <2>3 DEF Rows
  <2>5. rels' \subseteq objects' \X objects'
    BY <1>0, <2>1
  <2>6. QED
    BY <2>1, <2>4, <2>5, RowsStay
<1>8. ASSUME NEW u \in Users, NEW g \in Groups, DeleteGroup(u, g)
      PROVE  NoDanglingRow' /\ Owned'
  <2>1. /\ groups' = groups \ {g} /\ g \notin FixedGroups
        /\ UNCHANGED <<objects, users, rels>>
        /\ perm' = [perm EXCEPT ![g] = [o \in Objects |-> NoPerm]]
    BY <1>8 DEF DeleteGroup
  <2>2. Owned'
    BY <1>0, <2>1, UsersAssumption DEF Owned
  <2>3. NoDanglingRow'
    BY <1>0, <2>1 DEF NoDanglingRow, Rows, RefersTo
  <2>4. QED
    BY <2>2, <2>3
<1>9. ASSUME NEW u \in Users, NEW v \in Users, DeleteUser(u, v)
      PROVE  NoDanglingRow' /\ Owned'
  <2>1. /\ users' = users \ {v} /\ groups' = groups \ {Private[v]}
        /\ UNCHANGED <<objects, rels>>
        /\ perm' = [g \in Groups |-> [o \in Objects |->
                      IF g = Private[v] THEN NoPerm
                      ELSE IF perm[g][o].by = v THEN [perm[g][o] EXCEPT !.by = NoUser]
                      ELSE perm[g][o]]]
    BY <1>9 DEF DeleteUser
  <2>2. Owned'
    BY <1>0, <2>1, UsersAssumption DEF Owned
  <2>3. ASSUME NEW g \in Groups, NEW x \in Objects, perm'[g][x] # NoPerm
        PROVE  /\ g \in groups' /\ x \in objects'
               /\ perm'[g][x].rel \in objects' \cup {NoObject}
               /\ perm'[g][x].by \in users' \cup {NoUser}
    <3>1. perm[g][x] \in Perm \cup {NoPerm} /\ g # Private[v]
      BY <1>0, <2>1, <2>3 DEF Column
    <3>2. perm[g][x] # NoPerm
      BY <2>1, <2>3, <3>1, NullAssumption DEF NoPerm
    <3>3. g \in groups /\ x \in objects /\ RefersTo(objects, perm[g][x])
      BY <1>0, <3>2 DEF Rows
    <3>4. perm'[g][x] = IF perm[g][x].by = v
                        THEN [perm[g][x] EXCEPT !.by = NoUser] ELSE perm[g][x]
      BY <2>1, <3>1
    <3>5. perm[g][x] \in Perm
      BY <3>1, <3>2
    <3>6. QED
      BY <2>1, <3>1, <3>3, <3>4, <3>5 DEF RefersTo, Perm
  <2>4. QED
    BY <1>0, <2>1, <2>2, <2>3 DEF NoDanglingRow
<1>10. CASE UNCHANGED vars
  BY <1>0, <1>10, RowsStay DEF vars
<1>11. QED
  BY <1>1, <1>2, <1>3, <1>4, <1>5, <1>6, <1>7, <1>8, <1>9, <1>10 DEF Next

(* The rows keep their types and refer to rows that exist, through every    *)
(* cascade and SET NULL of a deletion.                                     *)
THEOREM ReferencesHold == Spec => []TablesSound
<1>1. Whole => TablesSound
  BY DEF Whole, Typed, TablesSound
<1>2. QED
  BY WholeInit, WholeStep, <1>1, PTL DEF Spec

-----------------------------------------------------------------------------
(* What a group has stays as it is, whatever is given to it again.         *)
Kept(pm, new) ==
    \A g \in Groups, x \in Objects : pm[g][x] # NoPerm => new[g][x] = pm[g][x]

LEMMA OpenedIsKept ==
    ASSUME NEW u \in Users, NEW o \in Objects, NEW pm \in [Groups -> Column]
    PROVE  Kept(pm, Opened(pm, u, o))
BY OpenedKeeps DEF Kept

LEMMA LinkedIsKept ==
    ASSUME NEW p \in Objects, NEW c \in Objects, NEW pm \in [Groups -> Column]
    PROVE  Kept(pm, Linked(pm, p, c))
<1> DEFINE E == rels \cup {<<p, c>>}
           G == {g \in Groups : pm[g][p] # NoPerm}
           P == [g \in Groups |-> pm[g][p]]
<1>1. \A g \in G \cap Groups : P[g] \in Perm
  BY DEF Column
<1>2. Kept(pm, GiveAll(E, pm, c, G, P))
  <2> HIDE DEF E, G, P
  <2> QED BY <1>1, GiveAllKeeps DEF Kept
<1>3. QED
  BY <1>2 DEF Linked, Kept

LEMMA KeptTwice ==
    ASSUME NEW a, NEW b, NEW c, Kept(a, b), Kept(b, c)
    PROVE  Kept(a, c)
BY DEF Kept

(* A step that removes no relation, object or user leaves the permissions   *)
(* of the groups that stay.                                                *)
Final ==
    rels \subseteq rels' /\ objects \subseteq objects' /\ users = users' =>
      \A g \in groups', o \in Objects : perm[g][o] # NoPerm => perm'[g][o] = perm[g][o]

LEMMA FinalStep == Whole /\ [Next]_vars => Final
<1> SUFFICES ASSUME Whole, [Next]_vars, rels \subseteq rels', objects \subseteq objects',
                    users = users'
             PROVE  \A g \in groups', o \in Objects :
                       perm[g][o] # NoPerm => perm'[g][o] = perm[g][o]
  BY DEF Final
<1>0. /\ Sound(rels, perm) /\ perm \in [Groups -> Column] /\ groups \subseteq Groups
      /\ users \subseteq Users
  BY TypedIsSound DEF Whole, Sound, TypeOK
<1>1. ASSUME NEW u \in Users, NEW o \in Objects, Upload(u, o)
      PROVE  Kept(perm, perm') /\ groups' = groups
  <2>1. PICK sw \in SharesForUpload(u) :
           perm' = GiveAll(rels, perm, o, sw, UploadKey(u, o))
    BY <1>1 DEF Upload
  <2>2. QED
    BY <1>0, <1>1, <2>1, UploadKeyType, GiveAllKeeps DEF Upload, Kept
<1>2. ASSUME NEW u \in Users, NEW o \in Objects, NEW p \in Objects, UploadUnder(u, o, p)
      PROVE  Kept(perm, perm') /\ groups' = groups
  <2> DEFINE opened == Opened(perm, u, p)
  <2>1. PICK sw \in SharesForUpload(u) :
           perm' = Linked(GiveAll(rels, opened, o, sw, UploadKey(u, o)), p, o)
    BY <1>2 DEF UploadUnder
  <2> DEFINE given == GiveAll(rels, opened, o, sw, UploadKey(u, o))
  <2>2. Kept(perm, opened) /\ opened \in [Groups -> Column]
    BY <1>0, OpenedIsKept, OpenedSound DEF Sound
  <2> HIDE DEF opened
  <2>3. Kept(opened, given) /\ given \in [Groups -> Column]
    BY <2>2, UploadKeyType, GiveAllKeeps, GiveAllType DEF Kept
  <2> HIDE DEF given
  <2>4. Kept(given, perm')
    BY <2>1, <2>3, LinkedIsKept DEF given
  <2>5. QED
    BY <1>2, <2>2, <2>3, <2>4, KeptTwice DEF UploadUnder
<1>3. ASSUME NEW u \in Users, NEW o \in Objects, Open(u, o)
      PROVE  Kept(perm, perm') /\ groups' = groups
  BY <1>0, <1>3, OpenedIsKept DEF Open
<1>4. ASSUME NEW u \in Users, NEW o \in Objects, NEW g \in Groups, Share(u, o, g)
      PROVE  Kept(perm, perm') /\ groups' = groups
  <2> DEFINE P == [x \in Groups |-> [reason |-> "shared", rel |-> o, by |-> u]]
  <2>1. perm' = GiveAll(rels, Opened(perm, u, o), o, {g}, P)
    BY <1>4 DEF Share
  <2>2. \A x \in {g} \cap Groups : P[x] \in Perm
    BY DEF Perm, Reason
  <2>3. Kept(perm, Opened(perm, u, o)) /\ Opened(perm, u, o) \in [Groups -> Column]
    BY <1>0, OpenedIsKept, OpenedSound DEF Sound
  <2> HIDE DEF P
  <2>4. Kept(Opened(perm, u, o), perm')
    BY <2>1, <2>2, <2>3, GiveAllKeeps DEF Kept
  <2>5. QED
    BY <1>4, <2>3, <2>4, KeptTwice DEF Share
<1>5. ASSUME NEW u \in Users, NEW p \in Objects, NEW c \in Objects, AddParent(u, p, c)
      PROVE  Kept(perm, perm') /\ groups' = groups
  <2> DEFINE first == Opened(perm, u, p)
             second == Opened(first, u, c)
  <2>1. Kept(perm, first) /\ Sound(rels, first)
    BY <1>0, OpenedIsKept, OpenedSound
  <2> HIDE DEF first
  <2>2. Kept(first, second) /\ Sound(rels, second)
    BY <2>1, OpenedIsKept, OpenedSound DEF Sound
  <2>3. perm' = Linked(second, p, c)
    BY <1>5 DEF AddParent, first
  <2> HIDE DEF second
  <2>4. Kept(second, perm')
    BY <2>2, <2>3, LinkedIsKept DEF Sound
  <2>5. QED
    BY <1>5, <2>1, <2>2, <2>4, KeptTwice DEF AddParent
<1>6. ASSUME NEW u \in Users, NEW p \in Objects, NEW c \in Objects, RemoveParent(u, p, c)
      PROVE  FALSE
  BY <1>6 DEF RemoveParent
<1>7. ASSUME NEW u \in Users, NEW o \in Objects, DeleteObject(u, o)
      PROVE  FALSE
  BY <1>7 DEF DeleteObject, MayOpen
<1>8. ASSUME NEW u \in Users, NEW g \in Groups, DeleteGroup(u, g)
      PROVE  \A x \in groups', o \in Objects : perm'[x][o] = perm[x][o]
  BY <1>0, <1>8 DEF DeleteGroup
<1>9. ASSUME NEW u \in Users, NEW v \in Users, DeleteUser(u, v)
      PROVE  FALSE
  BY <1>9 DEF DeleteUser
<1>10. CASE UNCHANGED vars
  BY <1>10 DEF vars
<1>11. QED
  BY <1>0, <1>1, <1>2, <1>3, <1>4, <1>5, <1>6, <1>7, <1>8, <1>9, <1>10 DEF Next, Kept

(* Only the removal of a relation, an object or a user rewrites a           *)
(* permission that stays, and the removal of a group takes those of the    *)
(* group only.                                                             *)
THEOREM GrantsStay == Spec => GrantsAreFinal
BY WholeInit, WholeStep, FinalStep, PTL DEF Spec, GrantsAreFinal, Final

-----------------------------------------------------------------------------
(* Graphs without cycles: every relation goes forward in one strict order. *)
StrictOrder(B) ==
    /\ \A x, y, z \in Objects : <<x, y>> \in B /\ <<y, z>> \in B => <<x, z>> \in B
    /\ \A x \in Objects : <<x, x>> \notin B

UpTo(B, x, y) == x = y \/ <<x, y>> \in B

(* Every inherited permission names an object before its own, which has    *)
(* the permission by its own upload or share.                              *)
Roots(B, col, r, x) == r # NoObject => UpTo(B, r, x) /\ col[r].rel = r

Rooted(B, col) == \A x \in Objects : Roots(B, col, col[x].rel, x)

AllRooted(B, pm) == \A g \in Groups : Rooted(B, pm[g])

(* A permission that may be given to o and to everything below it.         *)
Passes(B, col, o, p) ==
    p.rel # NoObject /\ p.rel # o => <<p.rel, o>> \in B /\ col[p.rel].rel = p.rel

LEMMA ReachForward ==
    ASSUME NEW B, StrictOrder(B), NEW E, E \subseteq B, NEW s \in Objects,
           NEW W, W \subseteq Objects, NEW x \in Reach(E, s, W)
    PROVE  UpTo(B, s, x)
<1> DEFINE S == {y \in W : UpTo(B, s, y)}
<1>1. S \in SUBSET W /\ (s \in W => s \in S)
  BY DEF UpTo
<1>2. \A y \in S, z \in W : <<y, z>> \in E => z \in S
  BY DEF UpTo, StrictOrder
<1>3. Reach(E, s, W) \subseteq S
  <2> HIDE DEF S
  <2> QED BY <1>1, <1>2, ReachLeast
<1>4. QED
  BY <1>3

LEMMA UpToBack ==
    ASSUME NEW B, StrictOrder(B), NEW x \in Objects, NEW y \in Objects, NEW z \in Objects,
           UpTo(B, x, y), UpTo(B, y, z)
    PROVE  UpTo(B, x, z) /\ (z = x => x = y)
BY DEF UpTo, StrictOrder

LEMMA RelIsObject ==
    ASSUME NEW col \in Column, NEW x \in Objects
    PROVE  /\ col[x].rel \in Objects \cup {NoObject}
           /\ col[x].rel # NoObject => col[x] # NoPerm /\ col[x].rel \in Objects
BY DEF Column, Perm, NoPerm

LEMMA RootedGiveAccess ==
    ASSUME NEW B, StrictOrder(B), NEW E, E \subseteq B,
           NEW col \in Column, Rooted(B, col), NEW o \in Objects,
           NEW p \in Perm, Passes(B, col, o, p)
    PROVE  Rooted(B, GiveAccess(E, col, o, p))
<1> DEFINE missing == {x \in Objects : col[x] = NoPerm}
           R == Reach(E, o, missing)
           new == GiveAccess(E, col, o, p)
<1>1. \A x \in Objects : new[x] = IF x \in R THEN p ELSE col[x]
  BY DEF GiveAccess
<1>2. \A x \in R : x \in missing
  BY DEF Reach
<1>3. ASSUME NEW r \in Objects, col[r].rel = r
      PROVE  new[r] = col[r]
  <2>1. col[r] # NoPerm
    BY <1>3, NullAssumption DEF NoPerm
  <2>2. r \notin R
    BY <1>2, <2>1
  <2>3. QED
    BY <1>1, <2>2
<1> SUFFICES ASSUME NEW x \in Objects, new[x].rel # NoObject
             PROVE  UpTo(B, new[x].rel, x) /\ new[new[x].rel].rel = new[x].rel
  BY DEF Rooted, Roots
<1>4. CASE x \in R
  <2>1. new[x] = p /\ p.rel \in Objects
    BY <1>1, <1>4 DEF Perm
  <2>2. UpTo(B, o, x)
    BY <1>4, ReachForward
  <2>3. UpTo(B, p.rel, o)
    BY <2>1 DEF Passes, UpTo
  <2>4. CASE p.rel = o
    <3>1. o \in R
      BY <1>4, ReachStart DEF Reach
    <3>2. QED
      BY <1>1, <2>1, <2>2, <2>4, <3>1
  <2>5. CASE p.rel # o
    <3>1. col[p.rel].rel = p.rel
      BY <2>1, <2>5 DEF Passes
    <3>2. new[p.rel].rel = p.rel
      BY <1>3, <2>1, <3>1
    <3>3. QED
      BY <2>1, <2>2, <2>3, <3>2, UpToBack
  <2>6. QED
    BY <2>4, <2>5
<1>5. CASE x \notin R
  <2>1. new[x] = col[x]
    BY <1>1, <1>5
  <2>2. col[x].rel \in Objects
    BY <2>1, RelIsObject
  <2>3. UpTo(B, col[x].rel, x) /\ col[col[x].rel].rel = col[x].rel
    BY <2>1 DEF Rooted, Roots
  <2>4. QED
    BY <1>3, <2>1, <2>2, <2>3
<1>6. QED
  BY <1>4, <1>5

LEMMA RootedGiveAll ==
    ASSUME NEW B, StrictOrder(B), NEW E, E \subseteq B,
           NEW pm \in [Groups -> Column], AllRooted(B, pm), NEW o \in Objects,
           NEW G, NEW P,
           \A g \in G \cap Groups : P[g] \in Perm /\ Passes(B, pm[g], o, P[g])
    PROVE  AllRooted(B, GiveAll(E, pm, o, G, P))
<1> SUFFICES ASSUME NEW g \in Groups
             PROVE  Rooted(B, GiveAll(E, pm, o, G, P)[g])
  BY DEF AllRooted
<1>1. CASE g \in G
  <2>1. GiveAll(E, pm, o, G, P)[g] = GiveAccess(E, pm[g], o, P[g])
    BY <1>1 DEF GiveAll
  <2>2. pm[g] \in Column /\ Rooted(B, pm[g]) /\ P[g] \in Perm /\ Passes(B, pm[g], o, P[g])
    BY <1>1 DEF AllRooted
  <2>3. QED
    BY <2>1, <2>2, RootedGiveAccess
<1>2. CASE g \notin G
  BY <1>2 DEF GiveAll, AllRooted
<1>3. QED
  BY <1>1, <1>2

LEMMA RootedOpened ==
    ASSUME NEW B, StrictOrder(B), rels \subseteq B, NEW u \in Users, NEW o \in Objects,
           NEW pm \in [Groups -> Column], AllRooted(B, pm)
    PROVE  AllRooted(B, Opened(pm, u, o))
<1> DEFINE P == [g \in Groups |-> [reason |-> "queried", rel |-> o, by |-> u]]
           G == MyGroups(u) \cap CapGroups["share_queried_objects"]
<1>1. \A g \in G \cap Groups : P[g] \in Perm /\ Passes(B, pm[g], o, P[g])
  BY DEF Perm, Reason, Passes
<1>2. AllRooted(B, GiveAll(rels, pm, o, G, P))
  <2> HIDE DEF P, G
  <2> QED BY <1>1, RootedGiveAll
<1>3. QED
  BY <1>2 DEF Opened

(* Opening an object adds permissions that start from it.                  *)
LEMMA OpenedAdds ==
    ASSUME NEW u \in Users, NEW o \in Objects, NEW pm \in [Groups -> Column],
           NEW g \in Groups, NEW x \in Objects
    PROVE  Opened(pm, u, o)[g][x] = pm[g][x] \/ Opened(pm, u, o)[g][x].rel = o
BY DEF Opened, GiveAll, GiveAccess

LEMMA RootedLinked ==
    ASSUME NEW B, StrictOrder(B), rels \subseteq B, NEW p \in Objects, NEW c \in Objects,
           <<p, c>> \in B, NEW pm \in [Groups -> Column], AllRooted(B, pm)
    PROVE  AllRooted(B, Linked(pm, p, c))
<1> DEFINE E == rels \cup {<<p, c>>}
           G == {g \in Groups : pm[g][p] # NoPerm}
           P == [g \in Groups |-> pm[g][p]]
<1>1. E \subseteq B
  OBVIOUS
<1>2. ASSUME NEW g \in G \cap Groups
      PROVE  P[g] \in Perm /\ Passes(B, pm[g], c, P[g])
  <2>1. P[g] = pm[g][p] /\ pm[g][p] \in Perm
    BY DEF Column
  <2>2. Rooted(B, pm[g]) /\ pm[g] \in Column
    BY DEF AllRooted
  <2>3. ASSUME pm[g][p].rel # NoObject
        PROVE  <<pm[g][p].rel, c>> \in B /\ pm[g][pm[g][p].rel].rel = pm[g][p].rel
    <3>1. UpTo(B, pm[g][p].rel, p) /\ pm[g][pm[g][p].rel].rel = pm[g][p].rel
      BY <2>2, <2>3 DEF Rooted, Roots
    <3>2. pm[g][p].rel \in Objects
      BY <2>2, <2>3, RelIsObject
    <3>3. QED
      BY <3>1, <3>2 DEF UpTo, StrictOrder
  <2>4. QED
    BY <2>1, <2>3 DEF Passes
<1>3. AllRooted(B, GiveAll(E, pm, c, G, P))
  <2> HIDE DEF E, G, P
  <2> QED BY <1>1, <1>2, RootedGiveAll
<1>4. QED
  BY <1>3 DEF Linked

-----------------------------------------------------------------------------
(* The walk of uninherit_share, when the relations go forward.             *)

LEMMA RootedMakeInherited ==
    ASSUME NEW B, StrictOrder(B), NEW E, E \subseteq B,
           NEW col \in Column, Rooted(B, col),
           NEW h \in Objects, NEW d \in Parents(E, h), NEW W \in SUBSET Objects,
           NEW x \in Reach(E, h, W)
    PROVE  Roots(B, col, col[d].rel, x)
<1> SUFFICES ASSUME col[d].rel # NoObject
             PROVE  UpTo(B, col[d].rel, x) /\ col[col[d].rel].rel = col[d].rel
  BY DEF Roots
<1>1. d \in Objects /\ <<d, h>> \in B
  BY DEF Parents
<1>2. x \in Objects
  BY DEF Reach
<1>3. UpTo(B, h, x)
  BY ReachForward
<1>4. /\ UpTo(B, col[d].rel, d) /\ col[d].rel \in Objects
      /\ col[col[d].rel].rel = col[d].rel
  BY <1>1, RelIsObject DEF Rooted, Roots
<1>5. UpTo(B, d, h)
  BY <1>1 DEF UpTo
<1>6. QED
  BY <1>1, <1>2, <1>3, <1>4, <1>5, UpToBack

(* It starts below the object that has the permissions it looks for by      *)
(* itself, so it never meets that object.                                  *)
LEMMA WalkForward ==
    ASSUME NEW B, StrictOrder(B), NEW E, E \subseteq B,
           NEW col \in Column, Rooted(B, col), NEW p \in Objects, NEW c \in Objects,
           <<p, c>> \in E, NEW x \in Objects, UpTo(B, c, x), x \in Kin(col, p)
    PROVE  col[x].rel # x
<1> SUFFICES ASSUME col[x].rel = x
             PROVE  FALSE
  OBVIOUS
<1>1. col[p].rel = x
  BY DEF Kin, Inherits
<1>2. UpTo(B, x, p)
  BY <1>1, NullAssumption DEF Rooted, Roots
<1>3. UpTo(B, p, c) /\ p # c
  BY DEF UpTo, StrictOrder
<1>4. UpTo(B, x, c)
  BY <1>2, <1>3, UpToBack
<1>5. x = c
  BY <1>4, UpToBack
<1>6. QED
  BY <1>2, <1>3, <1>5, UpToBack

LEMMA WalkMeets ==
    ASSUME NEW B, StrictOrder(B), NEW E, E \subseteq B,
           NEW col \in Column, NEW p \in Objects, NEW c \in Objects
    PROVE  /\ \A x \in Deleted(E, col, p, c) : x \in Kin(col, p) /\ UpTo(B, c, x)
           /\ \A left : \A x \in Moved(E, col, p, c, left) :
                 x \in Kin(col, p) /\ UpTo(B, c, x)
<1> DEFINE K == Kin(col, p)
<1>1. K \subseteq Objects
  BY DEF Kin
<1>2. ASSUME NEW x \in Deleted(E, col, p, c)
      PROVE  x \in K /\ UpTo(B, c, x)
  <2> DEFINE W == {o \in K : \E q \in K : Sharing(E, col, o) = {q}}
  <2>1. x \in Reach(E, c, W) /\ W \subseteq K
    BY <1>2 DEF Deleted
  <2>2. W \subseteq Objects
    BY <1>1
  <2>3. x \in W
    BY <2>1 DEF Reach
  <2> HIDE DEF W, K
  <2>4. QED
    BY <2>1, <2>2, <2>3, ReachForward
<1>3. ASSUME NEW left, NEW x \in Moved(E, col, p, c, left)
      PROVE  x \in K /\ UpTo(B, c, x)
  <2>1. PICK h \in Heads(E, col, p, c) : x \in Reach(E, h, K \ left)
    BY <1>3 DEF Moved
  <2>2. x \in K /\ h \in K
    BY <2>1 DEF Reach, Heads, Met
  <2>3. UpTo(B, h, x)
    <3>1. K \ left \subseteq Objects /\ h \in Objects
      BY <1>1, <2>2
    <3> HIDE DEF K
    <3>2. QED
      BY <2>1, <3>1, ReachForward
  <2>4. UpTo(B, c, h)
    <3>1. CASE h = c
      BY <3>1 DEF UpTo
    <3>2. CASE h # c
      <4>1. PICK a \in Deleted(E, col, p, c) : <<a, h>> \in E
        BY <2>1, <3>2 DEF Heads, Met
      <4>2. a \in Objects /\ UpTo(B, c, a) /\ UpTo(B, a, h)
        BY <1>1, <1>2, <4>1 DEF UpTo
      <4>3. QED
        BY <1>1, <2>2, <4>2, UpToBack
    <3>3. QED
      BY <3>1, <3>2
  <2>5. QED
    BY <1>1, <2>2, <2>3, <2>4, UpToBack
<1>4. QED
  BY <1>2, <1>3

LEMMA UninheritForward ==
    ASSUME NEW B, StrictOrder(B), NEW E, E \subseteq B,
           NEW col \in Column, Rooted(B, col), NEW p \in Objects, NEW c \in Objects,
           <<p, c>> \in E, NEW out \in Uninherit(E, col, p, c)
    PROVE  /\ \A x \in Objects : col[x].rel = x => out[x] = col[x]
           /\ Rooted(B, out)
<1>1. CASE out = col
  BY <1>1
<1>2. CASE out # col
  <2> DEFINE D == Deleted(E, col, p, c)
  <2>1. PICK heir \in Heirs(E, col, p, c) : out = Uninherited(E, col, p, c, heir)
    BY <1>2 DEF Uninherit
  <2>2. PICK left : heir \in HeirsLeaving(E, col, p, c, left)
    BY <2>1 DEF Heirs
  <2> DEFINE M == Moved(E, col, p, c, left)
  <2>3. PICK dev \in Devisors(E, col, p, c), head \in HeadOf(E, col, p, c, left) :
           heir = [o \in M |-> col[dev[head[o]]]]
    BY <2>2 DEF HeirsLeaving
  <2>4. \A x \in Objects : out[x] = IF x \in D THEN NoPerm
                                    ELSE IF x \in M THEN MakeInherited(col[x], heir[x])
                                    ELSE col[x]
    BY <2>1, <2>3 DEF Uninherited
  <2>5. \A x \in M : heir[x] = col[dev[head[x]]] /\ head[x] \in Heads(E, col, p, c)
                     /\ x \in Reach(E, head[x], Kin(col, p) \ left)
    BY <2>3 DEF HeadOf
  <2>6. \A x \in D \cup M : x \in Kin(col, p) /\ UpTo(B, c, x)
    BY WalkMeets
  <2> HIDE DEF D, M
  <2>7. ASSUME NEW x \in Objects, col[x].rel = x
        PROVE  out[x] = col[x]
    <3>1. x \notin D \cup M
      BY <2>6, <2>7, WalkForward
    <3>2. QED
      BY <2>4, <3>1
  <2>8. ASSUME NEW x \in Objects, out[x].rel # NoObject
        PROVE  UpTo(B, out[x].rel, x) /\ out[out[x].rel].rel = out[x].rel
    <3>1. /\ out[x].rel \in Objects
          /\ UpTo(B, out[x].rel, x) /\ col[out[x].rel].rel = out[x].rel
      <4>1. CASE x \in M \ D
        <5>1. col[x] \in Perm
          BY <2>6, <4>1 DEF Kin, Column
        <5>2. out[x].rel = col[dev[head[x]]].rel
          <6>1. out[x] = MakeInherited(col[x], col[dev[head[x]]])
            BY <2>4, <2>5, <4>1
          <6>2. QED
            BY <5>1, <6>1 DEF MakeInherited, Perm
        <5>3. dev[head[x]] \in Objects
          BY <2>5, <4>1 DEF Devisors, Sharing, Parents
        <5>4. out[x].rel \in Objects
          BY <2>8, <5>2, <5>3, RelIsObject
        <5>5. /\ UpTo(B, col[dev[head[x]]].rel, x)
              /\ col[col[dev[head[x]]].rel].rel = col[dev[head[x]]].rel
          <6> DEFINE h == head[x]
                     d == dev[h]
                     W == Kin(col, p) \ left
          <6>1. h \in Heads(E, col, p, c) /\ x \in Reach(E, h, W)
            BY <2>5, <4>1
          <6>2. h \in Objects /\ d \in Parents(E, h)
            BY <6>1 DEF Devisors, Sharing, Heads, Met, Kin
          <6>3. W \in SUBSET Objects
            BY DEF Kin
          <6> HIDE DEF h, d, W
          <6>4. Roots(B, col, col[d].rel, x)
            BY <6>1, <6>2, <6>3, RootedMakeInherited
          <6>5. Roots(B, col, col[dev[head[x]]].rel, x)
            BY <6>4 DEF h, d
          <6>6. QED
            BY <2>8, <5>2, <6>5 DEF Roots
        <5>6. QED
          BY <5>2, <5>4, <5>5
      <4>2. CASE x \notin M \ D
        <5>1. out[x] = col[x]
          BY <2>4, <2>8, <4>2 DEF NoPerm
        <5>2. QED
          BY <2>8, <5>1, RelIsObject DEF Rooted, Roots
      <4>3. QED
        BY <4>1, <4>2
    <3>2. QED
      BY <2>7, <3>1
  <2>9. QED
    BY <2>7, <2>8 DEF Rooted, Roots
<1>3. QED
  BY <1>1, <1>2

-----------------------------------------------------------------------------
(* What is lost, and through which request.                                *)

(* While the relations go forward, every permission is rooted.             *)
Forward(B) == Whole /\ rels \subseteq B /\ AllRooted(B, perm)

LEMMA ForwardInit == ASSUME NEW B PROVE Init => Forward(B)
<1>1. Init => rels \subseteq B /\ AllRooted(B, perm)
  BY DEF Init, AllRooted, Rooted, Roots, NoPerm
<1>2. QED
  BY <1>1, WholeInit DEF Forward

LEMMA ForwardStep ==
    ASSUME NEW B, StrictOrder(B)
    PROVE  Forward(B) /\ [Next]_vars /\ rels' \subseteq B => Forward(B)'
<1> SUFFICES ASSUME Forward(B), [Next]_vars, rels' \subseteq B
             PROVE  AllRooted(B, perm')
  BY WholeStep DEF Forward
<1>0. Whole /\ Sound(rels, perm) /\ perm \in [Groups -> Column]
      /\ rels \subseteq B /\ AllRooted(B, perm)
  BY TypedIsSound DEF Forward, Whole, Sound
<1>u. ASSUME NEW u \in Users, NEW o \in Objects, NEW sw \in SharesForUpload(u),
             NEW pm \in [Groups -> Column], AllRooted(B, pm)
      PROVE  AllRooted(B, GiveAll(rels, pm, o, sw, UploadKey(u, o)))
  <2>1. \A g \in sw \cap Groups :
           UploadKey(u, o)[g] \in Perm /\ Passes(B, pm[g], o, UploadKey(u, o)[g])
    BY UploadKeyType DEF UploadKey, Passes
  <2>2. QED
    BY <1>0, <1>u, <2>1, RootedGiveAll
<1>1. ASSUME NEW u \in Users, NEW o \in Objects, Upload(u, o)
      PROVE  AllRooted(B, perm')
  BY <1>0, <1>1, <1>u DEF Upload
<1>2. ASSUME NEW u \in Users, NEW o \in Objects, NEW p \in Objects, UploadUnder(u, o, p)
      PROVE  AllRooted(B, perm')
  <2> DEFINE opened == Opened(perm, u, p)
  <2>1. PICK sw \in SharesForUpload(u) :
           perm' = Linked(GiveAll(rels, opened, o, sw, UploadKey(u, o)), p, o)
    BY <1>2 DEF UploadUnder
  <2>2. opened \in [Groups -> Column] /\ AllRooted(B, opened)
    BY <1>0, OpenedSound, RootedOpened DEF Sound
  <2> HIDE DEF opened
  <2> DEFINE given == GiveAll(rels, opened, o, sw, UploadKey(u, o))
  <2>3. given \in [Groups -> Column] /\ AllRooted(B, given)
    BY <1>u, <2>2, UploadKeyType, GiveAllType
  <2>4. perm' = Linked(given, p, o) /\ <<p, o>> \in B
    BY <1>2, <2>1 DEF UploadUnder
  <2> HIDE DEF given
  <2>5. QED
    BY <1>0, <2>3, <2>4, RootedLinked
<1>3. ASSUME NEW u \in Users, NEW o \in Objects, Open(u, o)
      PROVE  AllRooted(B, perm')
  BY <1>0, <1>3, RootedOpened DEF Open
<1>4. ASSUME NEW u \in Users, NEW o \in Objects, NEW g \in Groups, Share(u, o, g)
      PROVE  AllRooted(B, perm')
  <2> DEFINE P == [x \in Groups |-> [reason |-> "shared", rel |-> o, by |-> u]]
             opened == Opened(perm, u, o)
  <2>1. perm' = GiveAll(rels, opened, o, {g}, P)
    BY <1>4 DEF Share
  <2>2. opened \in [Groups -> Column] /\ AllRooted(B, opened)
    BY <1>0, OpenedSound, RootedOpened DEF Sound
  <2> HIDE DEF opened
  <2>3. \A x \in {g} \cap Groups : P[x] \in Perm /\ Passes(B, opened[x], o, P[x])
    BY DEF Perm, Reason, Passes
  <2> HIDE DEF P
  <2>4. QED
    BY <1>0, <2>1, <2>2, <2>3, RootedGiveAll
<1>5. ASSUME NEW u \in Users, NEW p \in Objects, NEW c \in Objects, AddParent(u, p, c)
      PROVE  AllRooted(B, perm')
  <2> DEFINE first == Opened(perm, u, p)
             second == Opened(first, u, c)
  <2>1. Sound(rels, first) /\ AllRooted(B, first)
    BY <1>0, OpenedSound, RootedOpened
  <2>2. perm' = Linked(second, p, c) /\ <<p, c>> \in B
    BY <1>5 DEF AddParent
  <2> HIDE DEF first
  <2>3. second \in [Groups -> Column] /\ AllRooted(B, second)
    BY <1>0, <2>1, OpenedSound, RootedOpened DEF Sound
  <2> HIDE DEF second
  <2>4. QED
    BY <1>0, <2>2, <2>3, RootedLinked
<1>6. ASSUME NEW u \in Users, NEW p \in Objects, NEW c \in Objects, RemoveParent(u, p, c)
      PROVE  AllRooted(B, perm')
  <2> DEFINE first == Opened(perm, u, p)
             opened == Opened(first, u, c)
  <2>1. Sound(rels, first) /\ AllRooted(B, first)
    BY <1>0, OpenedSound, RootedOpened
  <2>2. <<p, c>> \in rels /\ \A g \in Groups : perm'[g] \in Uninherit(rels, opened[g], p, c)
    BY <1>6 DEF RemoveParent
  <2> HIDE DEF first
  <2>3. opened \in [Groups -> Column] /\ AllRooted(B, opened)
    BY <1>0, <2>1, OpenedSound, RootedOpened DEF Sound
  <2> HIDE DEF opened
  <2>4. ASSUME NEW g \in Groups
        PROVE  Rooted(B, perm'[g])
    <3> DEFINE col == opened[g]
               out == perm'[g]
    <3>1. col \in Column /\ Rooted(B, col) /\ out \in Uninherit(rels, col, p, c)
      BY <2>2, <2>3 DEF AllRooted
    <3> HIDE DEF col, out
    <3>2. Rooted(B, out)
      BY <1>0, <2>2, <3>1, UninheritForward
    <3>3. QED
      BY <3>2 DEF out
  <2>5. QED
    BY <2>4 DEF AllRooted
<1>7. ASSUME NEW u \in Users, NEW o \in Objects, DeleteObject(u, o)
      PROVE  AllRooted(B, perm')
  <2> DEFINE opened == Opened(perm, u, o)
  <2>1. opened \in [Groups -> Column] /\ AllRooted(B, opened)
    BY <1>0, OpenedSound, RootedOpened DEF Sound
  <2>2. perm' = [g \in Groups |-> [x \in Objects |->
                   IF x = o THEN NoPerm
                   ELSE IF opened[g][x].rel = o
                   THEN [opened[g][x] EXCEPT !.rel = NoObject]
                   ELSE opened[g][x]]]
    BY <1>7 DEF DeleteObject
  <2> HIDE DEF opened
  <2>3. ASSUME NEW g \in Groups, NEW x \in Objects
        PROVE  perm'[g][x].rel = IF x = o \/ opened[g][x].rel = o THEN NoObject
                                 ELSE opened[g][x].rel
    <3>1. CASE x # o /\ opened[g][x].rel = o
      <4>1. opened[g][x] \in Perm
        BY <2>1, <3>1, NullAssumption DEF Column, NoPerm
      <4>2. QED
        BY <2>2, <3>1, <4>1 DEF Perm
    <3>2. CASE x = o \/ opened[g][x].rel # o
      BY <2>2, <3>2 DEF NoPerm
    <3>3. QED
      BY <3>1, <3>2
  <2>4. ASSUME NEW g \in Groups, NEW x \in Objects, perm'[g][x].rel # NoObject
        PROVE  /\ UpTo(B, perm'[g][x].rel, x)
               /\ perm'[g][perm'[g][x].rel].rel = perm'[g][x].rel
    <3>1. perm'[g][x].rel = opened[g][x].rel /\ opened[g][x].rel # o
      BY <2>3, <2>4
    <3>2. /\ UpTo(B, opened[g][x].rel, x)
          /\ opened[g][opened[g][x].rel].rel = opened[g][x].rel
      BY <2>1, <2>4, <3>1 DEF AllRooted, Rooted, Roots
    <3>3. opened[g][x].rel \in Objects
      BY <2>1, <2>4, <3>1, RelIsObject
    <3>4. QED
      BY <2>3, <3>1, <3>2, <3>3
  <2>5. QED
    BY <2>4 DEF AllRooted, Rooted, Roots
<1>8. ASSUME NEW u \in Users, NEW g \in Groups, DeleteGroup(u, g)
      PROVE  AllRooted(B, perm')
  BY <1>0, <1>8 DEF DeleteGroup, AllRooted, Rooted, Roots, NoPerm
<1>9. ASSUME NEW u \in Users, NEW v \in Users, DeleteUser(u, v)
      PROVE  AllRooted(B, perm')
  <2>1. perm' = [g \in Groups |-> [o \in Objects |->
                   IF g = Private[v] THEN NoPerm
                   ELSE IF perm[g][o].by = v THEN [perm[g][o] EXCEPT !.by = NoUser]
                   ELSE perm[g][o]]]
    BY <1>9 DEF DeleteUser
  <2>2. ASSUME NEW g \in Groups, NEW x \in Objects
        PROVE  perm'[g][x].rel = IF g = Private[v] THEN NoObject ELSE perm[g][x].rel
    <3>1. perm[g][x] \in Perm \cup {NoPerm}
      BY <1>0 DEF Column
    <3>2. [perm[g][x] EXCEPT !.by = NoUser].rel = perm[g][x].rel
      BY <3>1 DEF Perm, NoPerm
    <3>3. QED
      BY <2>1, <3>2 DEF NoPerm
  <2>3. ASSUME NEW g \in Groups, NEW x \in Objects, perm'[g][x].rel # NoObject
        PROVE  /\ UpTo(B, perm'[g][x].rel, x)
               /\ perm'[g][perm'[g][x].rel].rel = perm'[g][x].rel
    <3>1. perm'[g][x].rel = perm[g][x].rel /\ g # Private[v]
      BY <2>2, <2>3
    <3>2. UpTo(B, perm[g][x].rel, x) /\ perm[g][perm[g][x].rel].rel = perm[g][x].rel
      BY <1>0, <2>3, <3>1 DEF AllRooted, Rooted, Roots
    <3>3. perm[g][x].rel \in Objects
      BY <1>0, <2>3, <3>1, RelIsObject
    <3>4. QED
      BY <2>2, <3>1, <3>2, <3>3
  <2>4. QED
    BY <2>3 DEF AllRooted, Rooted, Roots
<1>10. CASE UNCHANGED vars
  BY <1>0, <1>10 DEF vars
<1>11. QED
  BY <1>1, <1>2, <1>3, <1>4, <1>5, <1>6, <1>7, <1>8, <1>9, <1>10 DEF Next

(* Only the removal of a relation takes a permission from a group and an    *)
(* object that stay.                                                       *)
LEMMA LostInRemoval ==
    ASSUME Whole, [Next]_vars, NEW g \in groups', NEW o \in objects',
           perm[g][o] # NoPerm, perm'[g][o] = NoPerm
    PROVE  \E u \in Users, p, c \in Objects : RemoveParent(u, p, c)
<1>0. /\ Sound(rels, perm) /\ perm \in [Groups -> Column] /\ groups \subseteq Groups
      /\ objects \subseteq Objects /\ Typed'
  BY TypedIsSound, TypedStep DEF Whole, Sound, TypeOK
<1>a. g \in Groups /\ o \in Objects /\ perm[g][o] \in Perm
  BY <1>0 DEF Typed, TypeOK, Column
<1>1. Final
  BY FinalStep
<1>2. ASSUME rels \subseteq rels', objects \subseteq objects', users = users'
      PROVE  FALSE
  BY <1>1, <1>2, <1>a DEF Final
<1>3. ASSUME NEW u \in Users, NEW x \in Objects, DeleteObject(u, x)
      PROVE  FALSE
  <2> DEFINE opened == Opened(perm, u, x)
  <2>1. opened[g][o] = perm[g][o]
    BY <1>0, <1>a, OpenedKeeps
  <2>2. o # x
    BY <1>3 DEF DeleteObject
  <2>3. perm'[g][o] = IF opened[g][o].rel = x
                      THEN [opened[g][o] EXCEPT !.rel = NoObject] ELSE opened[g][o]
    BY <1>3, <1>a, <2>2 DEF DeleteObject
  <2> HIDE DEF opened
  <2>4. perm'[g][o] \in Perm
    BY <1>a, <2>1, <2>3 DEF Perm
  <2>5. QED
    BY <2>4, PermIsNotNoPerm
<1>4. ASSUME NEW u \in Users, NEW v \in Users, DeleteUser(u, v)
      PROVE  FALSE
  <2>1. perm'[g][o] = IF perm[g][o].by = v
                      THEN [perm[g][o] EXCEPT !.by = NoUser] ELSE perm[g][o]
    BY <1>4, <1>a DEF DeleteUser
  <2>2. perm'[g][o] \in Perm
    BY <1>a, <2>1 DEF Perm
  <2>3. QED
    BY <2>2, PermIsNotNoPerm
<1>5. ASSUME NEW u \in Users, NEW o1 \in Objects, Upload(u, o1)
      PROVE  FALSE
  BY <1>2, <1>5 DEF Upload
<1>6. ASSUME NEW u \in Users, NEW o1 \in Objects, NEW p \in Objects, UploadUnder(u, o1, p)
      PROVE  FALSE
  BY <1>2, <1>6 DEF UploadUnder
<1>7. ASSUME NEW u \in Users, NEW o1 \in Objects, Open(u, o1)
      PROVE  FALSE
  BY <1>2, <1>7 DEF Open
<1>8. ASSUME NEW u \in Users, NEW o1 \in Objects, NEW g1 \in Groups, Share(u, o1, g1)
      PROVE  FALSE
  BY <1>2, <1>8 DEF Share
<1>9. ASSUME NEW u \in Users, NEW p \in Objects, NEW c \in Objects, AddParent(u, p, c)
      PROVE  FALSE
  BY <1>2, <1>9 DEF AddParent
<1>10. ASSUME NEW u \in Users, NEW g1 \in Groups, DeleteGroup(u, g1)
       PROVE  FALSE
  BY <1>2, <1>10 DEF DeleteGroup
<1>11. ASSUME UNCHANGED vars
       PROVE  FALSE
  BY <1>2, <1>11 DEF vars
<1>12. QED
  BY <1>3, <1>4, <1>5, <1>6, <1>7, <1>8, <1>9, <1>10, <1>11 DEF Next

(* What the walk deletes no parent gives any more.                         *)
LEMMA UninheritTakes ==
    ASSUME NEW E, NEW col \in Column, NEW p \in Objects, NEW c \in Objects,
           <<p, c>> \in E, NEW out \in Uninherit(E, col, p, c),
           NEW o \in Objects, out[o] = NoPerm, col[o] # NoPerm
    PROVE  Inherits(col[o], col[p]) /\ Sharing(E \ {<<p, c>>}, out, o) = {}
<1>1. /\ \A x \in Objects : out[x] # NoPerm => col[x] # NoPerm
      /\ \A x \in Objects : out[x] = NoPerm /\ col[x] # NoPerm =>
            /\ Inherits(col[x], col[p])
            /\ \A q \in Objects : <<q, x>> \in E /\ col[q] # NoPerm =>
                  out[q] = NoPerm \/ <<q, x>> = <<p, c>>
  BY UninheritOutcome
<1>2. QED
  BY <1>1 DEF Sharing, Parents

(* What the removal of p -> c takes from a group, told by the permissions   *)
(* before the request.                                                     *)
LEMMA RemovalTakes ==
    ASSUME NEW B, StrictOrder(B), Forward(B), rels' \subseteq B,
           NEW u \in Users, NEW p \in Objects, NEW c \in Objects, RemoveParent(u, p, c),
           NEW g \in Groups, NEW o \in Objects, perm[g][o] # NoPerm
    PROVE  /\ perm[g][o].rel = o => perm'[g][o] # NoPerm
           /\ perm'[g][o] = NoPerm =>
                 /\ <<p, c>> \in rels \ rels'
                 /\ Inherits(perm[g][o], perm[g][p])
                 /\ Sharing(rels', perm'[g], o) = {}
<1> DEFINE first == Opened(perm, u, p)
           opened == Opened(first, u, c)
<1>0. Sound(rels, perm) /\ perm \in [Groups -> Column] /\ rels \subseteq B /\ AllRooted(B, perm)
  BY TypedIsSound DEF Forward, Whole, Sound
<1>1. /\ <<p, c>> \in rels /\ rels' = rels \ {<<p, c>>}
      /\ perm'[g] \in Uninherit(rels, opened[g], p, c)
  BY DEF RemoveParent
<1>2. /\ Sound(rels, first) /\ AllRooted(B, first) /\ first[g][o] = perm[g][o]
      /\ first[g][p] = perm[g][p] \/ first[g][p].rel = p
  BY <1>0, OpenedSound, RootedOpened, OpenedKeeps, OpenedAdds
<1>3. first \in [Groups -> Column]
  BY <1>2 DEF Sound
<1> HIDE DEF first
<1>4. /\ opened \in [Groups -> Column] /\ AllRooted(B, opened) /\ opened[g][o] = perm[g][o]
      /\ opened[g][p] = first[g][p] \/ opened[g][p].rel = c
  BY <1>0, <1>2, <1>3, OpenedSound, RootedOpened, OpenedKeeps, OpenedAdds DEF Sound
<1> HIDE DEF opened
<1> DEFINE col == opened[g]
           out == perm'[g]
<1>5. /\ col \in Column /\ Rooted(B, col) /\ out \in Uninherit(rels, col, p, c)
      /\ col[o] = perm[g][o]
  BY <1>1, <1>4 DEF AllRooted
<1> HIDE DEF col, out
<1>6. \A x \in Objects : col[x].rel = x => out[x] = col[x]
  BY <1>0, <1>1, <1>5, UninheritForward
<1>7. perm[g][o].rel = o => perm'[g][o] # NoPerm
  BY <1>5, <1>6 DEF out
<1>8. ASSUME out[o] = NoPerm
      PROVE  Inherits(perm[g][o], perm[g][p]) /\ Sharing(rels', out, o) = {}
  <2>1. <<p, c>> \in rels /\ col \in Column /\ out \in Uninherit(rels, col, p, c)
        /\ col[o] # NoPerm
    BY <1>1, <1>5
  <2>2. Inherits(col[o], col[p]) /\ Sharing(rels \ {<<p, c>>}, out, o) = {}
    BY <1>8, <2>1, UninheritTakes
  <2>3. <<p, c>> \in B
    BY <1>0, <1>1
  <2>4. col[p].rel # c
    <3>1. col[p].rel # NoObject => UpTo(B, col[p].rel, p)
      BY <1>5 DEF Rooted, Roots
    <3>2. QED
      BY <2>3, <3>1, NullAssumption DEF UpTo, StrictOrder
  <2>5. col[p].rel # p \/ perm[g][p] = col[p]
    <3>1. ASSUME col[p].rel = p, perm[g][p] # col[p]
          PROVE  FALSE
      <4>1. perm[g][o].rel = p
        BY <1>5, <2>2, <3>1 DEF Inherits
      <4>2. perm[g][p].rel = p
        BY <1>0, <4>1, NullAssumption DEF AllRooted, Rooted, Roots
      <4>3. perm[g][p] # NoPerm
        BY <4>2, NullAssumption DEF NoPerm
      <4>4. first[g][p] = perm[g][p]
        BY <1>0, <4>3, OpenedKeeps DEF first
      <4>5. col[p] = first[g][p]
        BY <1>3, <4>3, <4>4, OpenedKeeps DEF opened, col
      <4>6. QED
        BY <3>1, <4>4, <4>5
    <3>2. QED
      BY <3>1
  <2>6. col[p] = perm[g][p]
    BY <1>2, <1>4, <2>4, <2>5 DEF col
  <2>7. QED
    BY <1>1, <1>5, <2>2, <2>6
<1>9. QED
  BY <1>1, <1>7, <1>8 DEF out

(* While no object is made an ancestor of itself, and the relations go      *)
(* forward in one order, a group loses an object only when a relation is    *)
(* removed along which it was inherited and no other parent shares the      *)
(* object with it, and never an object uploaded by it or shared with it.    *)
THEOREM RemovalsTakeOnlyTheirs ==
    ASSUME NEW Before, StrictOrder(Before)
    PROVE  Spec /\ [][rels' \subseteq Before]_vars => RemovalsTakeTheirs
<1> DEFINE Lost ==
      \A g \in groups', o \in objects' :
          perm[g][o] # NoPerm /\ perm'[g][o] = NoPerm =>
             \E e \in rels \ rels' :
                /\ perm[g][o].rel = perm[g][e[1]].rel
                /\ perm[g][o].reason = perm[g][e[1]].reason
                /\ Sharing(rels', perm'[g], o) = {}
           Own == \A g \in groups', o \in objects' :
                    perm[g][o].rel = o => perm'[g][o] # NoPerm
<1>1. Init => Forward(Before)
  BY ForwardInit
<1>2. Forward(Before) /\ [Next]_vars /\ [rels' \subseteq Before]_vars => Forward(Before)'
  <2>1. Forward(Before) /\ UNCHANGED vars => rels' \subseteq Before
    BY DEF Forward, vars
  <2>2. QED
    BY <2>1, ForwardStep
<1>3. Forward(Before) /\ [Next]_vars /\ [rels' \subseteq Before]_vars => Lost /\ Own
  <2> SUFFICES ASSUME Forward(Before), [Next]_vars, [rels' \subseteq Before]_vars,
                      NEW g \in groups', NEW o \in objects'
               PROVE  /\ perm[g][o] # NoPerm /\ perm'[g][o] = NoPerm =>
                            \E e \in rels \ rels' :
                               /\ perm[g][o].rel = perm[g][e[1]].rel
                               /\ perm[g][o].reason = perm[g][e[1]].reason
                               /\ Sharing(rels', perm'[g], o) = {}
                      /\ perm[g][o].rel = o => perm'[g][o] # NoPerm
    OBVIOUS
  <2>1. rels' \subseteq Before /\ Whole
    BY DEF Forward, vars
  <2>2. g \in Groups /\ o \in Objects
    BY <2>1, TypedStep DEF Whole, Typed, TypeOK
  <2>3. perm[g][o].rel = o => perm[g][o] # NoPerm
    BY <2>2, NullAssumption DEF NoPerm
  <2>4. ASSUME perm[g][o] # NoPerm, perm'[g][o] = NoPerm
        PROVE  /\ perm[g][o].rel # o
               /\ \E e \in rels \ rels' :
                     /\ perm[g][o].rel = perm[g][e[1]].rel
                     /\ perm[g][o].reason = perm[g][e[1]].reason
                     /\ Sharing(rels', perm'[g], o) = {}
    <3>1. PICK u \in Users, p \in Objects, c \in Objects : RemoveParent(u, p, c)
      BY <2>1, <2>4, LostInRemoval
    <3>2. /\ perm[g][o].rel # o
          /\ <<p, c>> \in rels \ rels'
          /\ Inherits(perm[g][o], perm[g][p])
          /\ Sharing(rels', perm'[g], o) = {}
      BY <2>1, <2>2, <2>4, <3>1, RemovalTakes
    <3>3. QED
      BY <3>2 DEF Inherits
  <2>5. QED
    BY <2>3, <2>4
<1>4. QED
  BY <1>1, <1>2, <1>3, PTL
     DEF Spec, RemovalsTakeTheirs, LostOnlyByRemoval, ExplicitPermissionStays

-----------------------------------------------------------------------------
(* The removal of a relation, call by call (UninheritSteps).                *)

DeletedBy(E, col, p, c, o) ==
    \E a \in Deleted(E, col, p, c) : <<a, o>> \in E /\ Sharing(E, col, o) = {a}

(* What the walk from p -> c may delete, and what becomes of an object that *)
(* it meets below a deleted one: it keeps its permission, or it is a head.  *)
LEMMA DeletedIs ==
    ASSUME NEW E, NEW col, NEW p \in Objects, NEW c \in Objects, <<p, c>> \in E,
           col[p] # NoPerm
    PROVE  /\ p \in Kin(col, p)
           /\ Deleted(E, col, p, c) \subseteq Kin(col, p)
           /\ c \in Deleted(E, col, p, c) => Sharing(E, col, c) = {p}
           /\ \A o \in Deleted(E, col, p, c) : o # c => DeletedBy(E, col, p, c, o)
<1> DEFINE K == Kin(col, p)
           D == Deleted(E, col, p, c)
           W == {o \in K : \E q \in K : Sharing(E, col, o) = {q}}
<1>1. p \in K
  BY DEF Kin, Inherits
<1>2. D = Reach(E, c, W)
  BY DEF Deleted
<1>3. D \subseteq W
  BY <1>2 DEF Reach
<1>4. ASSUME NEW o \in D, NEW a \in K, <<a, o>> \in E
      PROVE  Sharing(E, col, o) = {a}
  <2>1. a \in Sharing(E, col, o)
    BY <1>4 DEF Kin, Sharing, Parents
  <2> HIDE DEF D, K
  <2>2. QED
    BY <1>3, <1>4, <2>1
<1>5. ASSUME NEW o \in D, o # c
      PROVE  DeletedBy(E, col, p, c, o)
  <2> HIDE DEF W
  <2>1. PICK a \in Reach(E, c, W) : <<a, o>> \in E
    BY <1>2, <1>5, ReachOrigin
  <2>2. a \in D /\ a \in K
    BY <1>2, <1>3, <2>1 DEF W
  <2>3. QED
    BY <1>4, <2>1, <2>2 DEF DeletedBy
<1>6. c \in D => Sharing(E, col, c) = {p}
  BY <1>1, <1>4
<1>7. D \subseteq K
  BY <1>3
<1> HIDE DEF K, D
<1>8. QED
  BY <1>1, <1>5, <1>6, <1>7 DEF K, D

(* "from": the one whose share is taken from o, by the removal itself or     *)
(* as a deleted parent.                                                    *)
LEMMA MetIs ==
    ASSUME NEW E, NEW col, NEW p \in Objects, NEW c \in Objects, <<p, c>> \in E,
           col[p] # NoPerm,
           NEW o \in Kin(col, p), NEW from \in Kin(col, p), <<from, o>> \in E,
           (o = c /\ from = p) \/ from \in Deleted(E, col, p, c)
    PROVE  LET others == Sharing(E, col, o) \ {from}
           IN  /\ others = {} => o \in Deleted(E, col, p, c)
               /\ others # {} => o \in Met(E, col, p, c)
               /\ others \cap Kin(col, p) = {} /\ others # {} =>
                     o \in Heads(E, col, p, c)
               /\ others \cap Kin(col, p) # {} => o \notin Heads(E, col, p, c)
<1> DEFINE K == Kin(col, p)
           D == Deleted(E, col, p, c)
           W == {x \in K : \E q \in K : Sharing(E, col, x) = {q}}
           others == Sharing(E, col, o) \ {from}
<1>1. D = Reach(E, c, W)
  BY DEF Deleted
<1>2. from \in Sharing(E, col, o) /\ o \in Objects /\ from \in Objects
  BY DEF Kin, Sharing, Parents
<1>3. ASSUME others = {} PROVE o \in D
  <2>1. Sharing(E, col, o) = {from}
    BY <1>2, <1>3
  <2>2. o \in W
    BY <2>1
  <2> HIDE DEF W
  <2>3. CASE o = c
    BY <1>1, <2>2, <2>3, ReachStart
  <2>4. CASE from \in D
    BY <1>1, <2>2, <2>4, ReachStep
  <2>5. QED
    BY <2>3, <2>4
<1>4. ASSUME others # {} PROVE o \in Met(E, col, p, c)
  <2>1. o \notin D
    <3> SUFFICES ASSUME o \in D PROVE FALSE
      OBVIOUS
    <3>1. \E q : Sharing(E, col, o) = {q}
      BY <1>1 DEF Reach
    <3>2. QED
      BY <1>2, <1>4, <3>1
  <2>2. QED
    BY <2>1 DEF Met
<1>5. Parents(E, o) \cap K \subseteq Sharing(E, col, o) /\ from \in Parents(E, o) \cap K
  BY <1>2 DEF Kin, Sharing, Parents
<1>6. ASSUME others \cap K = {}, others # {} PROVE o \in Heads(E, col, p, c)
  <2>1. Parents(E, o) \cap K = {from}
    BY <1>5, <1>6
  <2>2. QED
    BY <1>4, <1>6, <2>1 DEF Heads
<1>7. ASSUME NEW q \in others \cap K PROVE o \notin Heads(E, col, p, c)
  <2>1. q \in Parents(E, o) \cap K /\ q # from
    BY <1>7 DEF Sharing
  <2>2. ~ \E a \in K : Parents(E, o) \cap K = {a}
    BY <1>5, <2>1
  <2>3. QED
    BY <2>2 DEF Heads
<1> HIDE DEF K, D, W
<1>8. QED
  BY <1>3, <1>4, <1>6, <1>7 DEF K, D

(* What a kept object hands down goes to neither a deleted object nor a head. *)
LEMMA BelowHeads ==
    ASSUME NEW E, NEW col, NEW p \in Objects, NEW c \in Objects, <<p, c>> \in E,
           col[p] # NoPerm,
           NEW o \in Kin(col, p), NEW from \in Kin(col, p), <<from, o>> \in E, o # c,
           from \notin Deleted(E, col, p, c)
    PROVE  o \notin Deleted(E, col, p, c) /\ o \notin Heads(E, col, p, c)
<1> DEFINE K == Kin(col, p)
           D == Deleted(E, col, p, c)
<1>1. from \in Sharing(E, col, o) /\ from \in Parents(E, o) \cap K
  BY DEF Kin, Sharing, Parents
<1>2. o \notin D
  <2> SUFFICES ASSUME o \in D PROVE FALSE
    OBVIOUS
  <2>1. DeletedBy(E, col, p, c, o)
    BY DeletedIs
  <2> HIDE DEF D
  <2>2. \E a \in D : Sharing(E, col, o) = {a}
    BY <2>1 DEF DeletedBy, D
  <2>3. QED
    BY <1>1, <2>2 DEF D
<1>3. ASSUME o \in Heads(E, col, p, c) PROVE FALSE
  <2>1. PICK a \in K : Parents(E, o) \cap K = {a}
    BY <1>3 DEF Heads
  <2>2. PICK b \in D : <<b, o>> \in E
    BY <1>3 DEF Heads, Met
  <2>3. b \in K
    BY <2>2, DeletedIs
  <2>4. b \in Parents(E, o) \cap K
    BY <2>2, <2>3 DEF Parents, Kin
  <2>5. QED
    BY <1>1, <2>1, <2>2, <2>4
<1>4. QED
  BY <1>2, <1>3

(* Every head is below a deleted object, or where the walk starts.          *)
LEMMA HeadsAre ==
    ASSUME NEW E, NEW col, NEW p, NEW c, NEW h \in Heads(E, col, p, c)
    PROVE  /\ h \in Kin(col, p) /\ h \notin Deleted(E, col, p, c)
           /\ h \in Met(E, col, p, c)
           /\ h = c \/ \E a \in Deleted(E, col, p, c) : <<a, h>> \in E
BY DEF Heads, Met

LEMMA ReachWider ==
    ASSUME NEW E, NEW s, NEW V, NEW W, V \subseteq W
    PROVE  Reach(E, s, V) \subseteq Reach(E, s, W)
<1> DEFINE S == Reach(E, s, W) \cap V
<1>1. S \in SUBSET V /\ (s \in V => s \in S)
  BY ReachStart
<1>2. \A x \in S, y \in V : <<x, y>> \in E => y \in S
  BY ReachStep
<1> HIDE DEF S
<1>3. Reach(E, s, V) \subseteq S
  BY <1>1, <1>2, ReachLeast
<1>4. QED
  BY <1>3 DEF S

-----------------------------------------------------------------------------
(* What the calls have done so far. "looped": the objects whose loop was     *)
(* begun; they lose their permission or inherit it from a devisor, and all   *)
(* their children have been visited when their loop is over. dev and head:   *)
(* the devisor a head has chosen, and the head a moved object is below.      *)
Frames == [object : Objects, devisor : Objects \cup {NoObject}, todo : SUBSET Objects]

ObjectsOf(stack) == {stack[i].object : i \in DOMAIN stack}
Looping == ObjectsOf(calls)

HandsDown(p, c, o, dev, head) ==
    IF o \in Deleted(graph, original, p, c) THEN NoObject ELSE dev[head[o]]

LoopsKnown(p, c, looped, dev, head) ==
    /\ \A i \in DOMAIN calls :
          /\ calls[i].object \in looped
          /\ calls[i].devisor = HandsDown(p, c, calls[i].object, dev, head)
          /\ Children(calls[i].object) \subseteq visited \cup calls[i].todo
          /\ calls[i].todo \subseteq Children(calls[i].object)
    /\ \A i, j \in DOMAIN calls : calls[i].object = calls[j].object => i = j
    /\ \A o \in looped \ Looping : Children(o) \subseteq visited

VisitedKnown(p, c, looped) ==
    /\ looped \subseteq visited /\ looped \subseteq Kin(original, p)
    /\ \A o \in (visited \cap Kin(original, p)) \ looped :
          o \in Met(graph, original, p, c) \ Heads(graph, original, p, c)

PlacesKnown(p, c, looped, dev, head) ==
    /\ dev \in [Objects -> Objects] /\ head \in [Objects -> Objects]
    /\ \A o \in looped \ Deleted(graph, original, p, c) :
          /\ head[o] \in Heads(graph, original, p, c) \cap looped
          /\ o \in Reach(graph, head[o], looped \ Deleted(graph, original, p, c))
    /\ \A h \in Heads(graph, original, p, c) \cap looped :
          dev[h] \in Sharing(graph, original, h) \ Kin(original, p)

Remapped(p, c, o, dev, head) ==
    IF o \in Deleted(graph, original, p, c) THEN NoPerm
    ELSE MakeInherited(original[o], original[dev[head[o]]])

ColumnKnown(p, c, looped, dev, head) ==
    column = [o \in Objects |-> IF o \in looped \ Looping
                                THEN Remapped(p, c, o, dev, head) ELSE original[o]]

Walked(p, c, looped, dev, head) ==
    /\ VisitedKnown(p, c, looped)
    /\ LoopsKnown(p, c, looped, dev, head)
    /\ PlacesKnown(p, c, looped, dev, head)
    /\ ColumnKnown(p, c, looped, dev, head)

StepTypeOK ==
    /\ graph \subseteq Objects \X Objects
    /\ original \in Column
    /\ visited \subseteq Objects
    /\ calls \in Seq(Frames)

Removable(p, c) == <<p, c>> \in graph /\ p # c /\ original[p] # NoPerm

StepInv ==
    /\ StepTypeOK
    /\ removed = NoRemoval => column = original /\ visited = {} /\ calls = <<>>
    /\ removed # NoRemoval =>
          \E p, c \in Objects :
             /\ removed = <<p, c>> /\ Removable(p, c) /\ c \in visited
             /\ \E looped, dev, head : Walked(p, c, looped, dev, head)

LEMMA OneObjectMore ==
    ASSUME NEW f, NEW g, NEW k, DOMAIN g = DOMAIN f \cup {k},
           \A i \in DOMAIN f : g[i].object = f[i].object
    PROVE  ObjectsOf(g) = ObjectsOf(f) \cup {g[k].object}
BY DEF ObjectsOf

LEMMA LoopingMore ==
    ASSUME NEW k, DOMAIN calls' = DOMAIN calls \cup {k},
           \A i \in DOMAIN calls : calls'[i].object = calls[i].object
    PROVE  Looping' = Looping \cup {calls'[k].object}
<1>1. ObjectsOf(calls') = ObjectsOf(calls) \cup {calls'[k].object}
  BY OneObjectMore
<1>2. QED
  BY <1>1 DEF Looping, ObjectsOf

LEMMA FramesAre ==
    ASSUME NEW stack \in Seq(Frames)
    PROVE  \A i \in DOMAIN stack :
              /\ stack[i] \in Frames
              /\ stack[i].object \in Objects /\ stack[i].devisor \in Objects \cup {NoObject}
              /\ stack[i].todo \subseteq Objects
<1> SUFFICES ASSUME NEW i \in DOMAIN stack
             PROVE  stack[i] \in Frames
  BY DEF Frames
<1> QED OBVIOUS

(* An object that was not visited has its permission, and so have its parents. *)
LEMMA NotYet ==
    ASSUME StepTypeOK, NEW p, NEW c, NEW looped, NEW dev, NEW head,
           Walked(p, c, looped, dev, head)
    PROVE  /\ \A o \in Objects \ visited : column[o] = original[o]
           /\ \A o \in Objects \ visited, q \in Objects :
                 <<q, o>> \in graph => column[q] = original[q]
           /\ \A o \in Looping : column[o] = original[o]
<1>1. ASSUME NEW o \in Objects, o \notin looped \ Looping
      PROVE  column[o] = original[o]
  BY <1>1 DEF Walked, ColumnKnown
<1>2. \A o \in Objects \ visited : column[o] = original[o]
  BY <1>1 DEF Walked, VisitedKnown
<1>3. ASSUME NEW o \in Objects \ visited, NEW q \in Objects, <<q, o>> \in graph
      PROVE  column[q] = original[q]
  <2>1. o \in Children(q)
    BY <1>3 DEF Children
  <2>2. q \notin looped \ Looping
    BY <2>1 DEF Walked, LoopsKnown
  <2>3. QED
    BY <1>1, <2>2
<1>4. Looping \subseteq Objects
  BY FramesAre DEF StepTypeOK, Looping, ObjectsOf
<1>5. \A o \in Looping : column[o] = original[o]
  BY <1>1, <1>4
<1>6. QED
  BY <1>2, <1>3, <1>5

(* What a call for an object finds that was not visited before.             *)
LEMMA CallFinds ==
    ASSUME NEW p \in Objects, NEW c \in Objects, Removable(p, c),
           NEW o \in Objects, NEW from \in Kin(original, p), <<from, o>> \in graph,
           column[o] = original[o],
           \A q \in Objects : <<q, o>> \in graph => column[q] = original[q]
    PROVE  /\ Unrelated(o, from) <=> o \notin Kin(original, p)
           /\ Others(o, from) = Sharing(graph, original, o) \ {from}
           /\ GivenAnyway(o, from) <=> Others(o, from) \cap Kin(original, p) # {}
<1> DEFINE K == Kin(original, p)
<1>1. from \in Objects /\ original[from] # NoPerm /\ column[from] = original[from]
      /\ Inherits(original[from], original[p])
  BY DEF Kin
<1>2. \A q \in Objects : original[q] # NoPerm =>
         (Inherits(original[q], original[from]) <=> q \in K)
  BY <1>1 DEF Kin, Inherits
<1>3. Unrelated(o, from) <=> o \notin K
  BY <1>1, <1>2 DEF Unrelated, Kin
<1>4. Sharing(graph, column, o) = Sharing(graph, original, o)
  BY DEF Sharing, Parents
<1>5. Others(o, from) = Sharing(graph, original, o) \ {from}
  BY <1>4 DEF Others
<1>6. \A q \in Others(o, from) :
         q \in Objects /\ original[q] # NoPerm /\ column[q] = original[q]
  BY <1>5 DEF Sharing, Parents
<1>7. \A q \in Others(o, from) : Inherits(column[q], column[from]) <=> q \in K
  BY <1>1, <1>2, <1>6
<1>8. GivenAnyway(o, from) <=> Others(o, from) \cap K # {}
  <2> HIDE DEF K
  <2> QED BY <1>7 DEF GivenAnyway
<1>9. QED
  BY <1>3, <1>5, <1>8

(* The calls that wait while one of their loops goes on to o.               *)
Waits(o, waiting) ==
    /\ waiting \in Seq(Frames) /\ DOMAIN waiting = DOMAIN calls
    /\ \A i \in DOMAIN calls :
          /\ waiting[i].object = calls[i].object /\ waiting[i].devisor = calls[i].devisor
          /\ calls[i].todo \subseteq waiting[i].todo \cup {o}
          /\ waiting[i].todo \subseteq calls[i].todo

LEMMA ReturnKeeps ==
    ASSUME StepTypeOK, NEW p, NEW c, NEW looped, NEW dev, NEW head,
           Walked(p, c, looped, dev, head),
           NEW o \in Objects, NEW waiting, Waits(o, waiting),
           visited' = visited \cup {o}, calls' = waiting, UNCHANGED <<graph, original, column>>,
           \/ o \in visited \/ o \notin Kin(original, p)
           \/ o \in Met(graph, original, p, c) \ Heads(graph, original, p, c)
    PROVE  StepTypeOK' /\ Walked(p, c, looped, dev, head)'
<1>1. StepTypeOK'
  BY DEF StepTypeOK, Waits
<1>2. VisitedKnown(p, c, looped)'
  BY DEF Walked, VisitedKnown
<1>3. Looping' = Looping
  BY DEF Looping, ObjectsOf, Waits
<1>5. LoopsKnown(p, c, looped, dev, head)'
  <2>1. ASSUME NEW i \in DOMAIN calls'
        PROVE  /\ calls'[i].object \in looped
               /\ calls'[i].devisor = HandsDown(p, c, calls'[i].object, dev, head)
               /\ Children(calls'[i].object) \subseteq visited' \cup calls'[i].todo
               /\ calls'[i].todo \subseteq Children(calls'[i].object)
    BY DEF Walked, LoopsKnown, Waits, HandsDown
  <2>2. ASSUME NEW i \in DOMAIN calls', NEW j \in DOMAIN calls',
               calls'[i].object = calls'[j].object
        PROVE  i = j
    BY <2>2 DEF Walked, LoopsKnown, Waits
  <2>3. ASSUME NEW x \in looped \ Looping' PROVE Children(x) \subseteq visited'
    BY <1>3 DEF Walked, LoopsKnown
  <2>4. QED
    BY <2>1, <2>2, <2>3 DEF LoopsKnown, HandsDown, Children
<1>6. PlacesKnown(p, c, looped, dev, head)'
  BY DEF Walked, PlacesKnown
<1>7. ColumnKnown(p, c, looped, dev, head)'
  BY <1>3 DEF Walked, ColumnKnown, Remapped
<1>8. QED
  BY <1>1, <1>2, <1>5, <1>6, <1>7 DEF Walked

(* The devisors and heads when the loop of o begins.                        *)
Placed(p, c, looped, dev, head, o, dev2, head2) ==
    /\ dev2 \in [Objects -> Objects] /\ head2 \in [Objects -> Objects]
    /\ \A x \in looped \ Deleted(graph, original, p, c) : head2[x] = head[x]
    /\ \A h \in Heads(graph, original, p, c) \cap looped : dev2[h] = dev[h]
    /\ o \notin Deleted(graph, original, p, c) =>
          \/ head2[o] = o /\ o \in Heads(graph, original, p, c)
          \/ \E x \in looped \ Deleted(graph, original, p, c) :
                <<x, o>> \in graph /\ head2[o] = head[x]
    /\ o \in Heads(graph, original, p, c) =>
          dev2[o] \in Sharing(graph, original, o) \ Kin(original, p)

LEMMA LoopKeeps ==
    ASSUME StepTypeOK, NEW p, NEW c, NEW looped, NEW dev, NEW head,
           Walked(p, c, looped, dev, head),
           NEW o \in Kin(original, p), o \notin visited, NEW waiting, Waits(o, waiting),
           NEW dev2, NEW head2, Placed(p, c, looped, dev, head, o, dev2, head2),
           visited' = visited \cup {o}, UNCHANGED <<graph, original, column>>,
           calls' = Append(waiting, [object |-> o, devisor |-> HandsDown(p, c, o, dev2, head2),
                                     todo |-> Children(o)])
    PROVE  StepTypeOK' /\ Walked(p, c, looped \cup {o}, dev2, head2)'
<1> DEFINE D == Deleted(graph, original, p, c)
           H == Heads(graph, original, p, c)
           d == HandsDown(p, c, o, dev2, head2)
           frame == [object |-> o, devisor |-> d, todo |-> Children(o)]
<1>0. /\ dev2 \in [Objects -> Objects] /\ head2 \in [Objects -> Objects]
      /\ \A x \in looped \ D : head2[x] = head[x]
      /\ \A h \in H \cap looped : dev2[h] = dev[h]
      /\ o \notin D =>
            \/ head2[o] = o /\ o \in H
            \/ \E x \in looped \ D : <<x, o>> \in graph /\ head2[o] = head[x]
      /\ o \in H => dev2[o] \in Sharing(graph, original, o) \ Kin(original, p)
  BY DEF Placed
<1>1. o \in Objects /\ looped \subseteq Objects /\ o \notin looped
  BY DEF Walked, VisitedKnown, Kin
<1>2. frame \in Frames
  BY <1>0, <1>1 DEF HandsDown, Frames, Children
<1>3. /\ calls' \in Seq(Frames) /\ DOMAIN calls' = DOMAIN calls \cup {Len(calls) + 1}
      /\ Len(calls) + 1 \notin DOMAIN calls
      /\ calls'[Len(calls) + 1] = frame
      /\ \A i \in DOMAIN calls : calls'[i] = waiting[i]
  <2> HIDE DEF frame
  <2>1. waiting \in Seq(Frames) /\ calls \in Seq(Frames) /\ DOMAIN waiting = DOMAIN calls
    BY DEF StepTypeOK, Waits
  <2>2. calls' = Append(waiting, frame)
    BY DEF frame
  <2>3. Len(waiting) = Len(calls)
    BY <2>1
  <2>4. QED
    BY <1>2, <2>1, <2>2, <2>3
<1>4. StepTypeOK'
  BY <1>1, <1>3 DEF StepTypeOK
<1>5. VisitedKnown(p, c, looped \cup {o})'
  BY DEF Walked, VisitedKnown
<1>6. \A i \in DOMAIN calls :
         calls'[i].object = calls[i].object /\ calls'[i].devisor = calls[i].devisor
         /\ calls[i].todo \subseteq calls'[i].todo \cup {o}
         /\ calls'[i].todo \subseteq calls[i].todo
  BY <1>3 DEF Waits
<1>7. LET last == calls'[Len(calls) + 1]
      IN  last.object = o /\ last.devisor = HandsDown(p, c, o, dev2, head2)
          /\ last.todo = Children(o)
  BY <1>3
<1>8. Looping' = Looping \cup {o} /\ o \notin Looping
  <2>1. \A i \in DOMAIN calls : calls'[i].object = calls[i].object
    BY <1>6
  <2>2. calls'[Len(calls) + 1].object = o
    BY <1>7
  <2>3. Looping' = Looping \cup {calls'[Len(calls) + 1].object}
    BY <1>3, <2>1, LoopingMore
  <2>4. Looping' = Looping \cup {o}
    BY <2>2, <2>3
  <2>5. Looping \subseteq looped
    BY DEF Walked, LoopsKnown, Looping, ObjectsOf
  <2>6. QED
    BY <1>1, <2>4, <2>5
<1>10. \A x \in looped : HandsDown(p, c, x, dev2, head2) = HandsDown(p, c, x, dev, head)
                        /\ Remapped(p, c, x, dev2, head2) = Remapped(p, c, x, dev, head)
  <2>1. \A x \in looped \ D : head2[x] = head[x] /\ dev2[head[x]] = dev[head[x]]
    BY <1>0 DEF Walked, PlacesKnown
  <2> HIDE DEF D
  <2>2. QED
    BY <2>1 DEF HandsDown, Remapped, D
<1>11. LoopsKnown(p, c, looped \cup {o}, dev2, head2)'
  <2> DEFINE L == looped \cup {o}
  <2>1. ASSUME NEW i \in DOMAIN calls
        PROVE  /\ calls'[i].object \in L
               /\ calls'[i].devisor = HandsDown(p, c, calls'[i].object, dev2, head2)
               /\ Children(calls'[i].object) \subseteq visited' \cup calls'[i].todo
               /\ calls'[i].todo \subseteq Children(calls'[i].object)
    <3>1. /\ calls[i].object \in looped
          /\ calls[i].devisor = HandsDown(p, c, calls[i].object, dev, head)
          /\ Children(calls[i].object) \subseteq visited \cup calls[i].todo
          /\ calls[i].todo \subseteq Children(calls[i].object)
      BY DEF Walked, LoopsKnown
    <3>2. calls'[i].devisor = HandsDown(p, c, calls'[i].object, dev2, head2)
      BY <1>6, <1>10, <3>1
    <3>3. /\ Children(calls'[i].object) \subseteq visited' \cup calls'[i].todo
          /\ calls'[i].todo \subseteq Children(calls'[i].object)
      BY <1>6, <3>1
    <3>4. QED
      BY <1>6, <3>1, <3>2, <3>3
  <2>2. ASSUME NEW i, i = Len(calls) + 1
        PROVE  /\ calls'[i].object \in L
               /\ calls'[i].devisor = HandsDown(p, c, calls'[i].object, dev2, head2)
               /\ Children(calls'[i].object) \subseteq visited' \cup calls'[i].todo
               /\ calls'[i].todo \subseteq Children(calls'[i].object)
    <3>1. /\ calls'[i].object = o /\ calls'[i].todo = Children(o)
          /\ calls'[i].devisor = HandsDown(p, c, o, dev2, head2)
      BY <1>7, <2>2
    <3>2. calls'[i].devisor = HandsDown(p, c, calls'[i].object, dev2, head2)
      BY <3>1
    <3>3. /\ Children(calls'[i].object) \subseteq visited' \cup calls'[i].todo
          /\ calls'[i].todo \subseteq Children(calls'[i].object)
      BY <3>1
    <3>4. QED
      BY <3>1, <3>2, <3>3
  <2>3. ASSUME NEW i \in DOMAIN calls PROVE calls'[i].object # o
    <3>1. calls[i].object \in looped
      BY DEF Walked, LoopsKnown
    <3>2. QED
      BY <1>1, <1>6, <3>1
  <2>4. \A i, j \in DOMAIN calls : calls'[i].object = calls'[j].object => i = j
    BY <1>6 DEF Walked, LoopsKnown
  <2>5. \A i, j \in DOMAIN calls' : calls'[i].object = calls'[j].object => i = j
    BY <1>3, <1>7, <2>3, <2>4
  <2>6. \A x \in L \ Looping' : Children(x) \subseteq visited'
    BY <1>8 DEF Walked, LoopsKnown
  <2>7. \A i \in DOMAIN calls' :
           /\ calls'[i].object \in L
           /\ calls'[i].devisor = HandsDown(p, c, calls'[i].object, dev2, head2)
           /\ Children(calls'[i].object) \subseteq visited' \cup calls'[i].todo
           /\ calls'[i].todo \subseteq Children(calls'[i].object)
    BY <1>3, <2>1, <2>2
  <2>8. QED
    BY <2>5, <2>6, <2>7 DEF LoopsKnown, HandsDown, Children
<1>12. PlacesKnown(p, c, looped \cup {o}, dev2, head2)'
  <2> DEFINE V == looped \ D
             W == (looped \cup {o}) \ D
  <2>1. ASSUME NEW x \in V
        PROVE  head2[x] \in H \cap looped /\ x \in Reach(graph, head2[x], W)
    <3>1. head2[x] = head[x] /\ head[x] \in H \cap looped /\ x \in Reach(graph, head[x], V)
      BY <1>0 DEF Walked, PlacesKnown
    <3>2. V \subseteq W
      OBVIOUS
    <3> HIDE DEF V, W, H
    <3>3. QED
      BY <3>1, <3>2, ReachWider
  <2>2. ASSUME o \notin D
        PROVE  /\ head2[o] \in H \cap (looped \cup {o})
               /\ o \in Reach(graph, head2[o], W)
    <3>1. CASE head2[o] = o /\ o \in H
      BY <2>2, <3>1, ReachStart
    <3>2. ASSUME NEW x \in V, <<x, o>> \in graph, head2[o] = head[x]
          PROVE  /\ head2[o] \in H \cap (looped \cup {o})
                 /\ o \in Reach(graph, head2[o], W)
      <4>1. head2[x] = head[x] /\ o \in W
        BY <1>0, <2>2
      <4>2. head2[o] \in H \cap looped /\ x \in Reach(graph, head2[o], W)
        BY <2>1, <3>2, <4>1
      <4> HIDE DEF W, V
      <4>3. o \in Reach(graph, head2[o], W)
        BY <3>2, <4>1, <4>2, ReachStep
      <4>4. QED
        BY <4>2, <4>3
    <3>3. QED
      BY <1>0, <2>2, <3>1, <3>2
  <2>3. ASSUME NEW h \in H \cap (looped \cup {o})
        PROVE  dev2[h] \in Sharing(graph, original, h) \ Kin(original, p)
    BY <1>0 DEF Walked, PlacesKnown
  <2>4. \A x \in W : /\ head2[x] \in H \cap (looped \cup {o})
                     /\ x \in Reach(graph, head2[x], W)
    BY <2>1, <2>2
  <2> HIDE DEF W, V
  <2>5. QED
    BY <1>0, <2>3, <2>4 DEF PlacesKnown, W
<1>13. ColumnKnown(p, c, looped \cup {o}, dev2, head2)'
  <2>1. (looped \cup {o}) \ Looping' = looped \ Looping
    BY <1>1, <1>8
  <2>2. column' = [x \in Objects |-> IF x \in looped \ Looping
                      THEN Remapped(p, c, x, dev, head) ELSE original[x]]
    BY DEF Walked, ColumnKnown
  <2>3. column' = [x \in Objects |-> IF x \in looped \ Looping
                      THEN Remapped(p, c, x, dev2, head2) ELSE original[x]]
    BY <1>10, <2>2
  <2>4. QED
    BY <2>1, <2>3 DEF ColumnKnown, Remapped
<1>14. QED
  BY <1>4, <1>5, <1>11, <1>12, <1>13 DEF Walked

(* A call, with the share of "from" and the devisor from hands down.        *)
LEMMA CallKeeps ==
    ASSUME StepTypeOK, NEW p \in Objects, NEW c \in Objects, Removable(p, c),
           NEW looped, NEW dev, NEW head, Walked(p, c, looped, dev, head),
           NEW o \in Objects, NEW from \in Kin(original, p), <<from, o>> \in graph,
           NEW devisor, NEW waiting, Waits(o, waiting),
           \/ /\ devisor = NoObject
              /\ (o = c /\ from = p) \/ from \in Deleted(graph, original, p, c)
           \/ /\ from \in looped \ Deleted(graph, original, p, c)
              /\ devisor = dev[head[from]] /\ c \in visited,
           Call(o, from, devisor, waiting)
    PROVE  StepTypeOK' /\ \E l, dv, hd : Walked(p, c, l, dv, hd)'
<1> DEFINE K == Kin(original, p)
           D == Deleted(graph, original, p, c)
           H == Heads(graph, original, p, c)
<1>1. visited' = visited \cup {o} /\ UNCHANGED <<graph, original, column>>
  BY DEF Call
<1>2. ASSUME calls' = waiting,
             o \in visited \/ o \notin K \/ o \in Met(graph, original, p, c) \ H
      PROVE  StepTypeOK' /\ Walked(p, c, looped, dev, head)'
  BY <1>1, <1>2, ReturnKeeps
<1>3. CASE o \in visited
  BY <1>2, <1>3 DEF Call
<1>4. CASE o \notin visited /\ o \notin K
  <2>1. Unrelated(o, from)
    BY <1>4, NotYet, CallFinds
  <2>2. QED
    BY <1>2, <1>4, <2>1 DEF Call
<1>5. ASSUME o \notin visited, o \in K
      PROVE  StepTypeOK' /\ \E l, dv, hd : Walked(p, c, l, dv, hd)'
  <2>1. /\ column[o] = original[o]
        /\ \A q \in Objects : <<q, o>> \in graph => column[q] = original[q]
    BY <1>5, NotYet
  <2>2. /\ ~Unrelated(o, from)
        /\ Others(o, from) = Sharing(graph, original, o) \ {from}
        /\ GivenAnyway(o, from) <=> Others(o, from) \cap K # {}
    BY <1>5, <2>1, CallFinds
  <2>3. dev \in [Objects -> Objects] /\ head \in [Objects -> Objects]
    BY DEF Walked, PlacesKnown
  <2>4. o \notin looped
    BY <1>5 DEF Walked, VisitedKnown
  <2>5. /\ <<p, c>> \in graph /\ original[p] # NoPerm
    BY DEF Removable
  <2>6. ASSUME devisor = NoObject, (o = c /\ from = p) \/ from \in D
        PROVE  StepTypeOK' /\ \E l, dv, hd : Walked(p, c, l, dv, hd)'
    <3>1. /\ Others(o, from) = {} => o \in D
          /\ Others(o, from) # {} => o \in Met(graph, original, p, c)
          /\ Others(o, from) \cap K = {} /\ Others(o, from) # {} => o \in H
          /\ Others(o, from) \cap K # {} => o \notin H
      BY <1>5, <2>2, <2>5, <2>6, MetIs
    <3>2. CASE GivenAnyway(o, from)
      BY <1>2, <1>5, <2>2, <2>6, <3>1, <3>2 DEF Call
    <3>3. ASSUME ~GivenAnyway(o, from), Others(o, from) = {}
          PROVE  StepTypeOK' /\ \E l, dv, hd : Walked(p, c, l, dv, hd)'
      <4>1. calls' = Append(waiting, [object |-> o, devisor |-> NoObject, todo |-> Children(o)])
        BY <1>5, <2>2, <2>6, <3>3 DEF Call, NewDevisors
      <4>2. o \in D /\ o \notin H
        BY <3>1, <3>3, HeadsAre
      <4>3. HandsDown(p, c, o, dev, head) = NoObject
        BY <4>2 DEF HandsDown
      <4>4. StepTypeOK' /\ Walked(p, c, looped \cup {o}, dev, head)'
        <5>1. Placed(p, c, looped, dev, head, o, dev, head)
          BY <2>3, <4>2 DEF Placed
        <5>2. QED
          BY <1>1, <1>5, <4>1, <4>3, <5>1, LoopKeeps
      <4>5. QED
        BY <4>4
    <3>4. ASSUME ~GivenAnyway(o, from), Others(o, from) # {}
          PROVE  StepTypeOK' /\ \E l, dv, hd : Walked(p, c, l, dv, hd)'
      <4>1. PICK d \in Others(o, from) :
               calls' = Append(waiting, [object |-> o, devisor |-> d, todo |-> Children(o)])
        BY <1>5, <2>2, <2>6, <3>4 DEF Call, NewDevisors
      <4>2. o \in H /\ o \notin D
        BY <2>2, <3>1, <3>4, HeadsAre
      <4>3. d \in Sharing(graph, original, o) \ K /\ d \in Objects
        BY <2>2, <3>4 DEF Sharing, Parents
      <4>4. PICK dev2 \in [Objects -> Objects], head2 \in [Objects -> Objects] :
               /\ dev2[o] = d /\ head2[o] = o
               /\ \A x \in Objects \ {o} : dev2[x] = dev[x] /\ head2[x] = head[x]
        <5> DEFINE dv == [dev EXCEPT ![o] = d]
                   hd == [head EXCEPT ![o] = o]
        <5>1. /\ dv \in [Objects -> Objects] /\ hd \in [Objects -> Objects]
              /\ dv[o] = d /\ hd[o] = o
              /\ \A x \in Objects \ {o} : dv[x] = dev[x] /\ hd[x] = head[x]
          BY <2>3, <4>3
        <5> HIDE DEF dv, hd
        <5>2. QED
          BY <5>1
      <4>5. \A x \in looped : head2[x] = head[x] /\ dev2[x] = dev[x]
        BY <2>4, <4>4 DEF Walked, VisitedKnown, Kin
      <4>6. HandsDown(p, c, o, dev2, head2) = d
        BY <4>2, <4>4 DEF HandsDown
      <4>7. calls' = Append(waiting, [object |-> o,
                                      devisor |-> HandsDown(p, c, o, dev2, head2),
                                      todo |-> Children(o)])
        BY <4>1, <4>6
      <4>8. Placed(p, c, looped, dev, head, o, dev2, head2)
        BY <4>2, <4>3, <4>4, <4>5 DEF Placed
      <4>9. StepTypeOK' /\ Walked(p, c, looped \cup {o}, dev2, head2)'
        BY <1>1, <1>5, <4>7, <4>8, LoopKeeps
      <4>10. QED
        BY <4>9
    <3>5. QED
      BY <3>2, <3>3, <3>4
  <2>7. ASSUME from \in looped \ D, devisor = dev[head[from]], c \in visited
        PROVE  StepTypeOK' /\ \E l, dv, hd : Walked(p, c, l, dv, hd)'
    <3>1. head[from] \in Objects /\ devisor \in Objects /\ devisor # NoObject
      <4>1. from \in Objects
        BY DEF Kin
      <4>2. QED
        BY <2>3, <2>7, <4>1, NullAssumption
    <3>2. o \notin D /\ o \notin H
      BY <1>5, <2>5, <2>7, BelowHeads
    <3>3. calls' = Append(waiting, [object |-> o, devisor |-> devisor, todo |-> Children(o)])
      BY <1>5, <2>2, <3>1 DEF Call, NewDevisors
    <3> DEFINE head2 == [head EXCEPT ![o] = head[from]]
    <3>4. head2 \in [Objects -> Objects] /\ head2[o] = head[from]
          /\ \A x \in Objects \ {o} : head2[x] = head[x]
      BY <2>3, <3>1
    <3> HIDE DEF head2
    <3>5. \A x \in looped : head2[x] = head[x]
      BY <2>4, <3>4 DEF Walked, VisitedKnown, Kin
    <3>6. HandsDown(p, c, o, dev, head2) = devisor
      BY <2>7, <3>2, <3>4 DEF HandsDown
    <3>7. StepTypeOK' /\ Walked(p, c, looped \cup {o}, dev, head2)'
      <4>1. Placed(p, c, looped, dev, head, o, dev, head2)
        BY <2>3, <2>7, <3>2, <3>4, <3>5 DEF Placed
      <4>2. QED
        BY <1>1, <1>5, <3>3, <3>6, <4>1, LoopKeeps
    <3>8. QED
      BY <3>7
  <2>8. QED
    BY <2>6, <2>7
<1>6. QED
  BY <1>3, <1>4, <1>5

LEMMA RemoveKeeps ==
    ASSUME StepInv, NEW p \in Objects, NEW c \in Objects, RemoveRelation(p, c)
    PROVE  StepInv'
<1>1. /\ removed = NoRemoval /\ Removable(p, c) /\ removed' = <<p, c>> /\ <<p, c>> # NoRemoval
      /\ Call(c, p, NoObject, <<>>) /\ UNCHANGED <<graph, original>>
  BY DEF RemoveRelation, Removable, Call, StepInv, NoRemoval
<1>2. StepTypeOK /\ column = original /\ visited = {} /\ calls = <<>>
  BY <1>1 DEF StepInv
<1>3. PICK any : any \in [Objects -> Objects]
  <2>1. [o \in Objects |-> o] \in [Objects -> Objects]
    OBVIOUS
  <2>2. QED
    BY <2>1
<1>4. Walked(p, c, {}, any, any)
  <2>1. VisitedKnown(p, c, {})
    BY <1>2 DEF VisitedKnown
  <2>2. DOMAIN calls = {}
    BY <1>2
  <2>3. LoopsKnown(p, c, {}, any, any)
    BY <2>2 DEF LoopsKnown
  <2>4. PlacesKnown(p, c, {}, any, any)
    BY <1>3 DEF PlacesKnown
  <2>5. ColumnKnown(p, c, {}, any, any)
    BY <1>2 DEF ColumnKnown, StepTypeOK, Column
  <2>6. QED
    BY <2>1, <2>3, <2>4, <2>5 DEF Walked
<1>5. Waits(c, <<>>)
  BY <1>2 DEF Waits
<1>6. p \in Kin(original, p) /\ <<p, c>> \in graph
  BY <1>1 DEF Removable, Kin, Inherits
<1>7. StepTypeOK' /\ \E l, dv, hd : Walked(p, c, l, dv, hd)'
  BY <1>1, <1>2, <1>4, <1>5, <1>6, CallKeeps
<1>8. Removable(p, c)' /\ c \in visited'
  BY <1>1 DEF Removable, Call
<1>9. QED
  BY <1>1, <1>7, <1>8 DEF StepInv, NoRemoval

(* The top of the stack, and what is below it.                              *)
LEMMA StackIs ==
    ASSUME NEW S, NEW stack \in Seq(S), stack # <<>>
    PROVE  /\ Len(stack) \in Nat \ {0} /\ Len(stack) \in DOMAIN stack
           /\ DOMAIN stack = 1..Len(stack)
           /\ Last(stack) = stack[Len(stack)] /\ Last(stack) \in S
           /\ Front(stack) \in Seq(S) /\ Len(Front(stack)) = Len(stack) - 1
           /\ DOMAIN Front(stack) = 1..(Len(stack) - 1)
           /\ \A i \in 1..(Len(stack) - 1) : Front(stack)[i] = stack[i]
<1>1. Len(stack) \in Nat \ {0} /\ Len(stack) \in DOMAIN stack
  OBVIOUS
<1>2. Last(stack) = stack[Len(stack)] /\ Last(stack) \in S
  BY <1>1 DEF Last
<1>3. /\ Front(stack) \in Seq(S) /\ Len(Front(stack)) = Len(stack) - 1
      /\ \A i \in 1..(Len(stack) - 1) : Front(stack)[i] = stack[i]
  <2>1. Front(stack) = [i \in 1..(Len(stack) - 1) |-> stack[i]]
    BY <1>1 DEF Front
  <2>2. QED
    BY <1>1, <2>1
<1>4. QED
  BY <1>1, <1>2, <1>3

LEMMA ChildKeeps == ASSUME StepInv, CallChild PROVE StepInv'
<1> DEFINE top == Last(calls)
<1>1. StepTypeOK /\ calls # <<>> /\ removed # NoRemoval /\ UNCHANGED <<removed, graph, original>>
  BY DEF StepInv, CallChild, Call
<1>0. PICK p \in Objects, c \in Objects :
         /\ removed = <<p, c>> /\ Removable(p, c) /\ c \in visited
         /\ \E looped, dev, head : Walked(p, c, looped, dev, head)
  BY <1>1 DEF StepInv
<1>2. PICK looped, dev, head : Walked(p, c, looped, dev, head)
  BY <1>0
<1>3. PICK o \in top.todo :
         Call(o, top.object, top.devisor, Append(Front(calls), [top EXCEPT !.todo = @ \ {o}]))
  BY DEF CallChild
<1> DEFINE n == Len(calls)
           rest == [top EXCEPT !.todo = @ \ {o}]
           waiting == Append(Front(calls), rest)
<1>4. /\ calls \in Seq(Frames) /\ n \in Nat \ {0} /\ n \in DOMAIN calls /\ DOMAIN calls = 1..n
      /\ top = calls[n] /\ top \in Frames /\ Front(calls) \in Seq(Frames)
      /\ Len(Front(calls)) = n - 1 /\ DOMAIN Front(calls) = 1..(n - 1)
      /\ \A i \in 1..(n - 1) : Front(calls)[i] = calls[i]
  BY <1>1, StackIs DEF StepTypeOK
<1>5. /\ top.object \in looped /\ top.devisor = HandsDown(p, c, top.object, dev, head)
      /\ top.todo \subseteq Children(top.object)
  BY <1>2, <1>4 DEF Walked, LoopsKnown
<1>6. /\ o \in Objects /\ <<top.object, o>> \in graph
      /\ top.object \in Kin(original, p)
  BY <1>2, <1>3, <1>5 DEF Children, Walked, VisitedKnown
<1>7. /\ rest \in Frames /\ rest.object = top.object /\ rest.devisor = top.devisor
      /\ rest.todo = top.todo \ {o}
  BY <1>4 DEF Frames
<1>8. Waits(o, waiting)
  <2> HIDE DEF rest, top, n
  <2>1. waiting \in Seq(Frames) /\ Len(waiting) = n /\ waiting[n] = rest
        /\ \A i \in 1..(n - 1) : waiting[i] = calls[i]
    BY <1>4, <1>7
  <2>2. DOMAIN waiting = DOMAIN calls
    BY <1>4, <2>1
  <2>3. ASSUME NEW i \in DOMAIN calls
        PROVE  /\ waiting[i].object = calls[i].object /\ waiting[i].devisor = calls[i].devisor
               /\ calls[i].todo \subseteq waiting[i].todo \cup {o}
               /\ waiting[i].todo \subseteq calls[i].todo
    <3>1. CASE i = n
      BY <1>4, <1>7, <2>1, <3>1
    <3>2. CASE i \in 1..(n - 1)
      BY <2>1, <3>2
    <3>3. QED
      BY <1>4, <3>1, <3>2
  <2> HIDE DEF waiting
  <2>4. QED
    BY <2>1, <2>2, <2>3 DEF Waits
<1>9. \/ /\ top.devisor = NoObject /\ top.object \in Deleted(graph, original, p, c)
      \/ /\ top.object \in looped \ Deleted(graph, original, p, c)
         /\ top.devisor = dev[head[top.object]]
  BY <1>5 DEF HandsDown
<1>10. StepTypeOK' /\ \E l, dv, hd : Walked(p, c, l, dv, hd)'
  <2> HIDE DEF top, waiting
  <2>1. Call(o, top.object, top.devisor, waiting)
    BY <1>3 DEF top, waiting
  <2>2. QED
    BY <1>0, <1>1, <1>2, <1>6, <1>8, <1>9, <2>1, CallKeeps
<1>11. Removable(p, c)' /\ c \in visited' /\ removed' = <<p, c>> /\ removed' # NoRemoval
  BY <1>0, <1>1, <1>3 DEF Removable, Call, NoRemoval
<1>12. QED
  BY <1>10, <1>11 DEF StepInv, NoRemoval

(* The loop of the top of the stack is over.                                *)
LEMMA LoopingLess ==
    ASSUME calls \in Seq(Frames), calls # <<>>, calls' = Front(calls),
           \A i, j \in DOMAIN calls : calls[i].object = calls[j].object => i = j
    PROVE  /\ Looping' = Looping \ {Last(calls).object} /\ Last(calls).object \in Looping
<1> DEFINE n == Len(calls)
           x == Last(calls).object
<1>1. /\ n \in Nat \ {0} /\ DOMAIN calls = 1..n /\ n \in DOMAIN calls /\ x = calls[n].object
      /\ DOMAIN Front(calls) = 1..(n - 1)
      /\ \A i \in 1..(n - 1) : Front(calls)[i] = calls[i]
  BY StackIs
<1> HIDE DEF n, x
<1>2. ASSUME NEW y PROVE y \in ObjectsOf(Front(calls)) <=> y \in ObjectsOf(calls) \ {x}
  <2>1. y \in ObjectsOf(Front(calls)) <=> \E i \in 1..(n - 1) : y = calls[i].object
    BY <1>1 DEF ObjectsOf
  <2>2. y \in ObjectsOf(calls) <=> \E i \in 1..n : y = calls[i].object
    BY <1>1 DEF ObjectsOf
  <2>3. ASSUME NEW i \in 1..(n - 1), y = calls[i].object PROVE y # x
    BY <1>1, <2>3
  <2>4. ASSUME NEW i \in 1..n, y = calls[i].object, y # x PROVE i \in 1..(n - 1)
    BY <1>1, <2>4
  <2>5. QED
    BY <1>1, <2>1, <2>2, <2>3, <2>4
<1>3. ObjectsOf(Front(calls)) = ObjectsOf(calls) \ {x}
  BY <1>2
<1>4. x \in ObjectsOf(calls)
  BY <1>1 DEF ObjectsOf
<1>5. ObjectsOf(calls') = ObjectsOf(calls) \ {x}
  BY <1>3
<1>6. QED
  BY <1>4, <1>5 DEF Looping, ObjectsOf, x

LEMMA FinishWalked ==
    ASSUME StepTypeOK, Finish, NEW p \in Objects, NEW c \in Objects, Removable(p, c),
           NEW looped, NEW dev, NEW head, Walked(p, c, looped, dev, head)
    PROVE  StepTypeOK' /\ Walked(p, c, looped, dev, head)'
<1> DEFINE top == Last(calls)
           x == top.object
           n == Len(calls)
           new == IF top.devisor = NoObject THEN NoPerm
                  ELSE MakeInherited(column[x], column[top.devisor])
<1>1. /\ calls # <<>> /\ top.todo = {} /\ calls' = Front(calls)
      /\ column' = [column EXCEPT ![x] = new]
      /\ UNCHANGED <<graph, original, visited>>
  BY DEF Finish
<1>2. /\ calls \in Seq(Frames) /\ n \in Nat \ {0} /\ n \in DOMAIN calls /\ DOMAIN calls = 1..n
      /\ top = calls[n] /\ Front(calls) \in Seq(Frames) /\ DOMAIN Front(calls) = 1..(n - 1)
      /\ \A i \in 1..(n - 1) : Front(calls)[i] = calls[i]
  BY <1>1, StackIs DEF StepTypeOK
<1>3. /\ x \in looped /\ top.devisor = HandsDown(p, c, x, dev, head)
      /\ Children(x) \subseteq visited
  BY <1>1, <1>2 DEF Walked, LoopsKnown
<1>4. Looping' = Looping \ {x} /\ x \in Looping
  BY <1>1, <1>2, LoopingLess DEF Walked, LoopsKnown
<1> HIDE DEF top
<1>5. StepTypeOK'
  BY <1>1, <1>2 DEF StepTypeOK
<1>6. VisitedKnown(p, c, looped)'
  BY <1>1 DEF Walked, VisitedKnown
<1>7. LoopsKnown(p, c, looped, dev, head)'
  <2>1. DOMAIN calls' \subseteq DOMAIN calls /\ \A i \in DOMAIN calls' : calls'[i] = calls[i]
    BY <1>1, <1>2
  <2>2. \A i \in DOMAIN calls' :
           /\ calls'[i].object \in looped
           /\ calls'[i].devisor = HandsDown(p, c, calls'[i].object, dev, head)
           /\ Children(calls'[i].object) \subseteq visited \cup calls'[i].todo
           /\ calls'[i].todo \subseteq Children(calls'[i].object)
    BY <2>1 DEF Walked, LoopsKnown
  <2>3. \A i, j \in DOMAIN calls' : calls'[i].object = calls'[j].object => i = j
    BY <2>1 DEF Walked, LoopsKnown
  <2>4. \A o \in looped \ Looping' : Children(o) \subseteq visited
    BY <1>3, <1>4 DEF Walked, LoopsKnown
  <2>5. QED
    BY <1>1, <2>2, <2>3, <2>4 DEF LoopsKnown, HandsDown, Children
<1>8. PlacesKnown(p, c, looped, dev, head)'
  BY <1>1 DEF Walked, PlacesKnown
<1>9. new = Remapped(p, c, x, dev, head)
  <2> DEFINE D == Deleted(graph, original, p, c)
  <2>1. x \in Objects /\ column[x] = original[x]
    BY <1>3, <1>4, NotYet DEF Walked, VisitedKnown, Kin
  <2>2. CASE x \in D
    BY <1>3, <2>2 DEF HandsDown, Remapped
  <2>3. CASE x \notin D
    <3>1. /\ top.devisor = dev[head[x]]
          /\ head[x] \in Heads(graph, original, p, c) \cap looped
      BY <1>3, <2>3 DEF HandsDown, Walked, PlacesKnown
    <3>2. top.devisor \in Sharing(graph, original, head[x]) \ Kin(original, p)
      BY <3>1 DEF Walked, PlacesKnown
    <3>3. top.devisor \in Objects /\ top.devisor \notin looped /\ top.devisor # NoObject
      BY <3>2, NullAssumption DEF Sharing, Parents, Walked, VisitedKnown
    <3>4. column[top.devisor] = original[top.devisor]
      BY <3>3 DEF Walked, ColumnKnown
    <3>5. QED
      BY <2>1, <2>3, <3>1, <3>3, <3>4 DEF Remapped
  <2>4. QED
    BY <2>2, <2>3
<1> HIDE DEF new
<1>10. ColumnKnown(p, c, looped, dev, head)'
  <2>1. looped \ Looping' = (looped \ Looping) \cup {x}
    BY <1>3, <1>4
  <2>2. column' = [o \in Objects |-> IF o = x THEN new ELSE column[o]]
    BY <1>1 DEF Walked, ColumnKnown
  <2>3. \A o \in Objects : column[o] = IF o \in looped \ Looping
                                      THEN Remapped(p, c, o, dev, head) ELSE original[o]
    BY DEF Walked, ColumnKnown
  <2>4. column' = [o \in Objects |-> IF o \in looped \ Looping'
                      THEN Remapped(p, c, o, dev, head) ELSE original[o]]
    BY <1>9, <2>1, <2>2, <2>3
  <2>5. QED
    BY <1>1, <2>4 DEF ColumnKnown, Remapped
<1>11. QED
  BY <1>5, <1>6, <1>7, <1>8, <1>10 DEF Walked

LEMMA FinishKeeps == ASSUME StepInv, Finish PROVE StepInv'
<1>1. StepTypeOK /\ calls # <<>> /\ removed # NoRemoval
      /\ UNCHANGED <<graph, original, removed, visited>>
  BY DEF StepInv, Finish
<1>2. PICK p \in Objects, c \in Objects :
         /\ removed = <<p, c>> /\ Removable(p, c) /\ c \in visited
         /\ \E looped, dev, head : Walked(p, c, looped, dev, head)
  BY <1>1 DEF StepInv
<1>3. PICK looped, dev, head : Walked(p, c, looped, dev, head)
  BY <1>2
<1>4. StepTypeOK' /\ Walked(p, c, looped, dev, head)'
  BY <1>1, <1>2, <1>3, FinishWalked
<1>5. Removable(p, c)' /\ c \in visited' /\ removed' = <<p, c>>
  BY <1>1, <1>2 DEF Removable
<1>6. QED
  BY <1>1, <1>4, <1>5 DEF StepInv, NoRemoval

(* After the last call.                                                    *)
LEMMA WalkIsOver ==
    ASSUME StepTypeOK, NEW p \in Objects, NEW c \in Objects, Removable(p, c), c \in visited,
           NEW looped, NEW dev, NEW head, Walked(p, c, looped, dev, head), calls = <<>>
    PROVE  column \in Uninherit(graph, original, p, c)
<1> DEFINE K == Kin(original, p)
           D == Deleted(graph, original, p, c)
           H == Heads(graph, original, p, c)
           left == (visited \cap K) \ looped
           M == Moved(graph, original, p, c, left)
<1>1. /\ <<p, c>> \in graph /\ p # c /\ original[p] # NoPerm
      /\ graph \subseteq Objects \X Objects
      /\ looped \subseteq visited /\ looped \subseteq K /\ K \subseteq Objects
      /\ left \subseteq Met(graph, original, p, c) \ H
  BY DEF Removable, StepTypeOK, Walked, VisitedKnown, Kin
<1>2. /\ \A o \in looped : Children(o) \subseteq visited
      /\ column = [o \in Objects |-> IF o \in looped
                      THEN Remapped(p, c, o, dev, head) ELSE original[o]]
  <2>1. Looping = {}
    BY DEF Looping, ObjectsOf
  <2>2. QED
    BY <2>1 DEF Walked, LoopsKnown, ColumnKnown
<1>3. ASSUME NEW a \in looped, NEW b \in K, <<a, b>> \in graph
      PROVE  b \in looped \cup left
  <2>1. b \in Children(a)
    BY <1>1, <1>3 DEF Children
  <2>2. QED
    BY <1>2, <2>1
<1>4. CASE c \notin K
  <2>1. \A o \in looped : FALSE
    <3> SUFFICES ASSUME NEW o \in looped PROVE FALSE
      OBVIOUS
    <3>1. D = {} /\ H = {}
      BY <1>4 DEF Deleted, Reach, Heads, Met
    <3>2. QED
      BY <3>1 DEF Walked, PlacesKnown
  <2>2. column = original
    BY <1>2, <2>1 DEF StepTypeOK, Column
  <2>3. QED
    BY <1>4, <2>2 DEF Uninherit
<1>5. CASE c \in K
  <2> DEFINE W == {o \in K : \E q \in K : Sharing(graph, original, o) = {q}}
  <2>1. D = Reach(graph, c, W) /\ D \subseteq K /\ W \subseteq K /\ left \cap D = {}
    BY <1>1 DEF Deleted, Reach, Met
  <2> HIDE DEF D, W
  <2>2. c \in looped \cup left
    BY <1>5
  <2> HIDE DEF left
  <2>3. D \subseteq looped
    <3> DEFINE S == W \cap looped \cap D
    <3>1. S \in SUBSET W /\ (c \in W => c \in S)
      BY <2>1, <2>2, ReachStart
    <3>2. ASSUME NEW a \in S, NEW b \in W, <<a, b>> \in graph PROVE b \in S
      <4>1. b \in D
        BY <2>1, <3>2, ReachStep
      <4>2. b \in looped \cup left
        BY <1>3, <2>1, <3>2
      <4>3. QED
        BY <2>1, <4>1, <4>2
    <3> HIDE DEF S
    <3>3. Reach(graph, c, W) \subseteq S
      BY <3>1, <3>2, ReachLeast
    <3>4. QED
      BY <2>1, <3>3 DEF S
  <2>4. H \subseteq looped
    <3>1. ASSUME NEW h \in H PROVE h \in looped
      <4>1. h \in K /\ (h = c \/ \E a \in D : <<a, h>> \in graph)
        BY HeadsAre DEF D
      <4>2. h \in looped \cup left
        BY <1>3, <2>2, <2>3, <4>1
      <4>3. QED
        BY <1>1, <4>2
    <3>2. QED
      BY <3>1
  <2>5. M = UNION {Reach(graph, h, K \ left) : h \in H}
    BY DEF Moved
  <2>6. \A o \in looped \ D :
           /\ head[o] \in H /\ o \in Reach(graph, head[o], looped \ D)
    BY DEF Walked, PlacesKnown, D
  <2>7. \A h \in H : dev[h] \in Sharing(graph, original, h) \ K
    BY <2>4 DEF Walked, PlacesKnown
  <2> HIDE DEF M, H, K
  <2>8. ASSUME NEW h \in H PROVE Reach(graph, h, K \ left) \subseteq looped
    <3> DEFINE V == K \ left
               S == looped \cap V
    <3>1. S \in SUBSET V /\ (h \in V => h \in S)
      BY <2>4
    <3>2. \A a \in S, b \in V : <<a, b>> \in graph => b \in S
      BY <1>3
    <3>3. Reach(graph, h, V) \subseteq S
      <4> HIDE DEF V, S
      <4> QED BY <3>1, <3>2, ReachLeast
    <3>4. QED
      BY <3>3
  <2>9. looped \ D \subseteq K \ left
    BY <1>1 DEF left
  <2>10. ASSUME NEW o \in looped \ D PROVE o \in Reach(graph, head[o], K \ left)
    BY <2>6, <2>9, ReachWider
  <2>11. M \subseteq looped /\ looped \ D \subseteq M
    BY <2>5, <2>6, <2>8, <2>10
  <2> DEFINE dv == [h \in H |-> dev[h]]
             below(o) == CHOOSE h \in H : o \in Reach(graph, h, K \ left)
             hd == [o \in M |-> IF o \in D THEN below(o) ELSE head[o]]
             heir == [o \in M |-> original[dv[hd[o]]]]
  <2>12. ASSUME NEW o \in M
         PROVE  hd[o] \in H /\ o \in Reach(graph, hd[o], K \ left)
    <3>1. \E h \in H : o \in Reach(graph, h, K \ left)
      BY <2>5
    <3>2. below(o) \in H /\ o \in Reach(graph, below(o), K \ left)
      BY <3>1
    <3> HIDE DEF below
    <3>3. QED
      BY <2>6, <2>10, <2>11, <3>2
  <2> HIDE DEF below
  <2>13. dv \in Devisors(graph, original, p, c)
    <3>1. dv \in [H -> Objects]
      BY <2>7 DEF Sharing, Parents
    <3>2. QED
      BY <2>7, <3>1 DEF Devisors, H, K
  <2>14. hd \in HeadOf(graph, original, p, c, left)
    <3>1. hd \in [M -> H] /\ \A o \in M : o \in Reach(graph, hd[o], K \ left)
      BY <2>12
    <3> HIDE DEF hd
    <3>2. QED
      BY <3>1 DEF HeadOf, M, H, K
  <2>15. heir \in Heirs(graph, original, p, c)
    <3> HIDE DEF dv, hd
    <3>1. heir \in HeirsLeaving(graph, original, p, c, left)
      BY <2>13, <2>14 DEF HeirsLeaving, M
    <3>2. left \in SUBSET (Met(graph, original, p, c) \ Heads(graph, original, p, c))
      BY <1>1 DEF H
    <3> HIDE DEF heir
    <3>3. QED
      BY <3>1, <3>2 DEF Heirs
  <2>16. column = Uninherited(graph, original, p, c, heir)
    <3>1. \A o \in M \ D : heir[o] = original[dev[head[o]]]
      BY <2>12
    <3>2. DOMAIN heir = M
      OBVIOUS
    <3> HIDE DEF heir
    <3>3. \A o \in Objects : (IF o \in looped THEN Remapped(p, c, o, dev, head) ELSE original[o])
             = IF o \in D THEN NoPerm
               ELSE IF o \in DOMAIN heir THEN MakeInherited(original[o], heir[o])
               ELSE original[o]
      BY <2>3, <2>11, <3>1, <3>2 DEF Remapped, D
    <3>4. QED
      BY <1>2, <3>3 DEF Uninherited, D
  <2> HIDE DEF heir
  <2>17. QED
    BY <1>1, <1>5, <2>15, <2>16 DEF Uninherit, K
<1>6. QED
  BY <1>4, <1>5

LEMMA StepInitially == StepInit => StepInv
<1> SUFFICES ASSUME StepInit PROVE StepInv
  OBVIOUS
<1>1. original \in Column
  BY KeysAssumption DEF StepInit, Column
<1>2. QED
  BY <1>1 DEF StepInit, StepInv, StepTypeOK

LEMMA StepKeeps == StepInv /\ [StepNext]_stepVars => StepInv'
<1>1. ASSUME StepInv, NEW p \in Objects, NEW c \in Objects, AddRelation(p, c) PROVE StepInv'
  BY <1>1 DEF AddRelation, StepInv, StepTypeOK
<1>2. ASSUME StepInv, UNCHANGED stepVars PROVE StepInv'
  <2>1. \A p, c : Removable(p, c)' <=> Removable(p, c)
    BY <1>2 DEF stepVars, Removable
  <2>2. \A p, c, l, d, h : Walked(p, c, l, d, h)' <=> Walked(p, c, l, d, h)
    BY <1>2 DEF stepVars, Walked, VisitedKnown, LoopsKnown, PlacesKnown, ColumnKnown, Looping,
                ObjectsOf, HandsDown, Children, Remapped
  <2>3. QED
    BY <1>2, <2>1, <2>2 DEF stepVars, StepInv, StepTypeOK
<1>3. QED
  BY <1>1, <1>2, RemoveKeeps, ChildKeeps, FinishKeeps DEF StepNext

(* The recursion of uninherit_share, with its visited set, the devisor handed down and *)
(* the changes made on the way back, ends with permissions that Uninherit describes.   *)
(* For any graph with cycles and diamonds, any permissions, and any order of relations. *)
THEOREM RecursionIsUninherit == StepSpec => []RemovalEnds
<1>1. ASSUME StepInv PROVE RemovalEnds
  <2> SUFFICES ASSUME removed # NoRemoval, calls = <<>>
               PROVE  column \in Uninherit(graph, original, removed[1], removed[2])
    BY DEF RemovalEnds
  <2>1. StepTypeOK
    BY <1>1 DEF StepInv
  <2>2. PICK p \in Objects, c \in Objects :
           /\ removed = <<p, c>> /\ Removable(p, c) /\ c \in visited
           /\ \E looped, dev, head : Walked(p, c, looped, dev, head)
    BY <1>1 DEF StepInv
  <2>3. column \in Uninherit(graph, original, p, c)
    BY <2>1, <2>2, WalkIsOver
  <2>4. QED
    BY <2>2, <2>3
<1>2. QED
  BY <1>1, StepInitially, StepKeeps, PTL DEF StepSpec
=============================================================================
