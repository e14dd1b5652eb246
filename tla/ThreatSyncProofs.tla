---------------------------- MODULE ThreatSyncProofs ----------------------------
(* Theorems about ThreatSync, for any paths, contents, people and number of commits,
   requests and faults: the mirror on the files covers what they are linked to, what was
   removed in MWDB after it was exported is not brought back by any run, and what people
   committed leaves the repository only when MWDB has held it.

   They rest on what every function of the service does to the database (Sound, Covered;
   for the files, SameFiles and FewerFiles) and on what a run may rely on although
   requests and commits come between its steps: nobody but itself changes the manifest,
   and while nobody pushes the remote is the commit it pulled.                       *)
EXTENDS ThreatSync, WellFoundedInduction, TLAPS

(* Every link is of a threat that is there, at a path of the repository; a README is
   never a link.                                                                    *)
LinksFit(d) ==
    \A l \in d.links :
        /\ d.threats[l.threat] # None
        /\ PathOf(d.threats[l.threat], l) \in Paths
        /\ ~IsReadme(PathOf(d.threats[l.threat], l))

(* A threat has a place in the repository. *)
ThreatsFit(threats) ==
    \A n \in Names : threats[n] # None =>
        \E p \in Paths : p.threat = n /\ p.category = threats[n].category
                                      /\ p.flat = threats[n].flat

Sound(d) == d \in Database /\ LinksFit(d) /\ ThreatsFit(d.threats)

Covered(d) ==
    \A l \in d.links : l.object # Empty =>
        /\ <<l.object, d.threats[l.threat].category>> \in d.tags
        /\ <<l.object, l.threat>> \in d.names

(* Threats stay, directories or flat; only directories change their category. *)
ThreatsStay(old, new) ==
    \A n \in Names : old[n] # None =>
        /\ new[n] # None /\ new[n].flat = old[n].flat
        /\ old[n].flat => new[n].category = old[n].category

(* What the export has read stays true but for categories, unless the threat is lost. *)
RowsFit ==
    \A n \in Names : rows[n] # None /\ n \notin lost =>
        /\ db.threats[n] # None /\ db.threats[n].flat = rows[n].flat
        /\ rows[n].flat => db.threats[n].category = rows[n].category

(* A run is about the commit it has pulled. *)
RunFits ==
    /\ pc # "idle" => base.manifest = remote.manifest
    /\ pc = "ingest" => todo \subseteq DOMAIN base.tree
    /\ pc = "unlink" => todo \subseteq Paths
    /\ pc = "repair" => todo \subseteq Contents
    /\ pc = "export" => todo \subseteq {n \in Names : rows[n] # None}
    /\ pc \in {"idle", "push"} => todo = {}
    /\ pc = "idle" => preserved = {}
    /\ \A p \in preserved : p \in DOMAIN base.tree /\ (IsReadme(p) \/ ~Known(p))

(* What was removed in MWDB is in the manifest, or nowhere in the repository. *)
GoneFits ==
    \A p \in gone :
        /\ ~IsReadme(p)
        /\ p \in Manifest \/ p \notin DOMAIN remote.tree
        /\ pc # "idle" => p \in Manifest \/ p \notin DOMAIN base.tree

DataInv == Sound(db) /\ (~drifted => Covered(db)) /\ NoResurrection
Inv == TypeOK /\ DataInv /\ ThreatsFit(rows) /\ RowsFit /\ RunFits /\ GoneFits

-------------------------------------------------------------------------------
(* The constants, and the paths. *)
LEMMA Constants ==
    /\ Paths \subseteq Path
    /\ \A p, q \in Paths :
          p.threat = q.threat /\ p.flat = q.flat => [p EXCEPT !.category = q.category] \in Paths
    /\ \A p \in Paths : ~p.flat => [p EXCEPT !.rel = Readme] \in Paths
    /\ InitTree \in Tree
    /\ Empty \notin Contents /\ None \notin Names /\ None \notin Object
    /\ None \notin Row /\ None \notin Tree
BY PathsAssumption

LEMMA Least ==
    ASSUME NEW T, T \subseteq Nat, T # {}
    PROVE  \E x \in T : \A y \in T : x =< y
<1>1. PICK x \in T : \A y \in T : <<y, x>> \notin OpToRel(<, Nat)
  BY NatLessThanWellFounded, WFMin, Zenon
<1>2. \A y \in T : ~(y < x)
  BY <1>1, Zenon DEF OpToRel
<1>3. QED
  BY <1>2

(* Of paths that are left there is a first one. *)
LEMMA FirstIsLeft ==
    ASSUME NEW S, S \subseteq Paths, S # {}
    PROVE  First(S) \in S
<1> DEFINE T == {i \in DOMAIN Listing : Listing[i] \in S}
<1>1. T \subseteq Nat /\ T # {}
  BY PathsAssumption
<1>2. PICK i \in T : \A j \in T : i =< j
  BY <1>1, Least
<1>3. QED
  BY <1>2 DEF First

(* The paths of two categories of a threat. *)
LEMMA Recategorized ==
    ASSUME NEW p \in Paths, NEW q \in Paths, p.threat = q.threat, p.flat = q.flat
    PROVE  [category |-> q.category, threat |-> p.threat, rel |-> p.rel, flat |-> q.flat] \in Paths
<1>1. p \in Path
  BY Constants
<1>2. [p EXCEPT !.category = q.category]
        = [category |-> q.category, threat |-> p.threat, rel |-> p.rel, flat |-> q.flat]
  BY <1>1 DEF Path
<1>3. QED
  BY <1>2, Constants

LEMMA ReadmeIsPath ==
    ASSUME NEW p \in Paths, ~p.flat
    PROVE  [category |-> p.category, threat |-> p.threat, rel |-> Readme, flat |-> p.flat] \in Paths
<1>1. p \in Path
  BY Constants
<1>2. [p EXCEPT !.rel = Readme]
        = [category |-> p.category, threat |-> p.threat, rel |-> Readme, flat |-> p.flat]
  BY <1>1 DEF Path
<1>3. QED
  BY <1>2, Constants

-------------------------------------------------------------------------------
(* The functions of the service. *)
LEMMA StoreFileKeeps ==
    ASSUME NEW d, Sound(d), NEW o \in Object
    PROVE  LET e == StoreFile(d, o) IN
           /\ Sound(e) /\ e.threats = d.threats /\ e.links = d.links
           /\ (Covered(d) => Covered(e))
<1> DEFINE e == StoreFile(d, o)
<1>1. d \in Database
  BY DEF Sound
<1>2. /\ e \in Database /\ e.threats = d.threats /\ e.links = d.links
      /\ e.tags = d.tags /\ e.names = d.names
  BY <1>1 DEF StoreFile, Database, Object
<1>3. QED
  BY <1>2 DEF Sound, LinksFit, Covered

LEMMA CreateThreatKeeps ==
    ASSUME NEW d, Sound(d), NEW p \in Paths, ~Exists(d, p.threat),
           NEW readme \in Object \cup {None}
    PROVE  LET e == CreateThreat(d, p.threat, p.category, readme, p.flat) IN
           /\ Sound(e) /\ e.links = d.links
           /\ Exists(e, p.threat) /\ e.threats[p.threat].category = p.category
           /\ e.threats[p.threat].flat = p.flat /\ e.threats[p.threat].readme = readme
           /\ \A n \in Names : n # p.threat => e.threats[n] = d.threats[n]
           /\ ThreatsStay(d.threats, e.threats)
           /\ LinkPaths(e) = LinkPaths(d)
           /\ (Covered(d) => Covered(e))
<1> DEFINE n == p.threat
           r == [category |-> p.category, flat |-> p.flat, readme |-> readme]
           e == CreateThreat(d, p.threat, p.category, readme, p.flat)
<1>1. d \in Database /\ LinksFit(d) /\ ThreatsFit(d.threats)
  BY DEF Sound
<1>2. n \in Names /\ r \in Row /\ r # None
  BY Constants DEF Path, Row
<1>3. e = [d EXCEPT !.threats[n] = r]
  BY DEF CreateThreat
<1>4. /\ e \in Database /\ e.links = d.links /\ e.tags = d.tags /\ e.names = d.names
      /\ e.threats = [d.threats EXCEPT ![n] = r]
  BY <1>1, <1>2, <1>3 DEF Database
<1>5. d.threats \in [Names -> Row \cup {None}] /\ d.links \subseteq Link
  BY <1>1 DEF Database
<1>6. e.threats[n] = r /\ \A m \in Names : m # n => e.threats[m] = d.threats[m]
  BY <1>2, <1>4, <1>5
<1>7. \A l \in d.links : l.threat \in Names /\ e.threats[l.threat] = d.threats[l.threat]
  BY <1>1, <1>5, <1>6 DEF LinksFit, Exists, Link
<1>8. LinksFit(e) /\ LinkPaths(e) = LinkPaths(d)
  BY <1>1, <1>4, <1>7 DEF LinksFit, LinkPaths
<1>9. ThreatsFit(e.threats)
  BY <1>1, <1>2, <1>6 DEF ThreatsFit
<1>10. ThreatsStay(d.threats, e.threats)
  BY <1>6 DEF ThreatsStay, Exists
<1>11. Covered(d) => Covered(e)
  BY <1>4, <1>7 DEF Covered
<1>12. QED
  BY <1>2, <1>4, <1>6, <1>8, <1>9, <1>10, <1>11 DEF Sound, Exists

LEMMA LinkSampleKeeps ==
    ASSUME NEW d, Sound(d), NEW n \in Names, NEW rel \in Rels, NEW o \in Object,
           Exists(d, n),
           PathOf(d.threats[n], [threat |-> n, rel |-> rel]) \in Paths,
           ~IsReadme(PathOf(d.threats[n], [threat |-> n, rel |-> rel]))
    PROVE  LET e == LinkSample(d, n, rel, o) IN
           /\ Sound(e) /\ e.threats = d.threats
           /\ LinkPaths(e) \subseteq
                 LinkPaths(d) \cup {PathOf(d.threats[n], [threat |-> n, rel |-> rel])}
           /\ (Covered(d) => Covered(e))
<1> DEFINE l == [threat |-> n, rel |-> rel, object |-> o]
           c == d.threats[n].category
           e == LinkSample(d, n, rel, o)
           p == PathOf(d.threats[n], [threat |-> n, rel |-> rel])
<1>1. d \in Database /\ LinksFit(d) /\ ThreatsFit(d.threats)
  BY DEF Sound
<1>2. CASE l \in d.links
  BY <1>2 DEF LinkSample
<1>3. CASE l \notin d.links
  <2>1. l \in Link /\ l.threat = n /\ l.object = o /\ PathOf(d.threats[n], l) = p
    BY DEF Link, PathOf
  <2>2. d.threats \in [Names -> Row \cup {None}] /\ d.threats[n] \in Row /\ c \in Categories
    BY <1>1 DEF Database, Exists, Row
  <2>3. e = ApplyMirror([d EXCEPT !.links = @ \cup {l}], o, c, n)
    BY <1>3 DEF LinkSample
  <2>4. /\ e \in Database /\ e.threats = d.threats /\ e.links = d.links \cup {l}
        /\ d.tags \subseteq e.tags /\ d.names \subseteq e.names
        /\ o # Empty => <<o, c>> \in e.tags /\ <<o, n>> \in e.names
    <3>1. CASE o = Empty
      BY <1>1, <2>1, <2>3, <3>1 DEF ApplyMirror, Database
    <3>2. CASE o # Empty
      <4>1. o \in Contents /\ n \in Names
        BY <3>2 DEF Object
      <4> DEFINE f == [d EXCEPT !.links = @ \cup {l}]
      <4>2. /\ f \in Database /\ f.threats = d.threats /\ f.links = d.links \cup {l}
            /\ f.tags = d.tags /\ f.names = d.names
        BY <1>1, <2>1 DEF Database
      <4>3. e = ApplyMirror(f, o, c, n)
        BY <2>3
      <4> HIDE DEF f, e
      <4>4. e = [f EXCEPT !.tags = @ \cup {<<o, c>>}, !.names = @ \cup {<<o, n>>}]
        BY <3>2, <4>3 DEF ApplyMirror
      <4>5. e \in Database /\ e.threats = f.threats /\ e.links = f.links
            /\ e.tags = f.tags \cup {<<o, c>>} /\ e.names = f.names \cup {<<o, n>>}
        <5>1. f.tags \cup {<<o, c>>} \in SUBSET (Contents \X Categories)
              /\ f.names \cup {<<o, n>>} \in SUBSET (Contents \X Names)
          BY <2>2, <4>1, <4>2 DEF Database
        <5>2. QED
          BY <4>2, <4>4, <5>1 DEF Database
      <4>6. QED
        BY <4>2, <4>5
    <3>3. QED
      BY <3>1, <3>2
  <2>5. LinksFit(e) /\ LinkPaths(e) \subseteq LinkPaths(d) \cup {p}
    BY <1>1, <2>1, <2>4 DEF LinksFit, LinkPaths, Exists
  <2>6. Covered(d) => Covered(e)
    BY <2>1, <2>4 DEF Covered
  <2>7. QED
    BY <1>1, <2>4, <2>5, <2>6 DEF Sound
<1>4. QED
  BY <1>2, <1>3

(* Unlinking takes from the file only what none of its other threats needs. *)
LEMMA UnlinkKeeps ==
    ASSUME NEW d, Sound(d), NEW l \in d.links
    PROVE  LET e == Unlink(d, l) IN
           /\ Sound(e) /\ e.threats = d.threats
           /\ LinkPaths(e) \subseteq LinkPaths(d)
           /\ (Covered(d) => Covered(e))
<1> DEFINE o == l.object
           c == d.threats[l.threat].category
           cut == [d EXCEPT !.links = @ \ {l}]
           e == Unlink(d, l)
<1>1. d \in Database /\ LinksFit(d) /\ ThreatsFit(d.threats)
  BY DEF Sound
<1>2. cut \in Database /\ cut.links = d.links \ {l} /\ cut.threats = d.threats
      /\ cut.tags = d.tags /\ cut.names = d.names
  BY <1>1 DEF Database
<1>3. e = RemoveMirror(cut, o, c, l.threat)
  BY DEF Unlink
<1> HIDE DEF cut
<1> DEFINE T == IF \E r \in LinksForObject(cut, o) : r[1] = c THEN d.tags
                ELSE d.tags \ {<<o, c>>}
           N == IF \E r \in LinksForObject(cut, o) : r[2] = l.threat THEN d.names
                ELSE d.names \ {<<o, l.threat>>}
<1>4. e = [cut EXCEPT !.tags = T, !.names = N]
  BY <1>2, <1>3 DEF RemoveMirror
<1>5. T \subseteq d.tags /\ N \subseteq d.names
  OBVIOUS
<1> HIDE DEF e, T, N
<1>6. /\ e \in Database /\ e.links = d.links \ {l} /\ e.threats = d.threats
      /\ e.tags = T /\ e.names = N
  BY <1>1, <1>2, <1>4, <1>5 DEF Database
<1>7. LinksFit(e) /\ LinkPaths(e) \subseteq LinkPaths(d)
  <2>1. e.links \subseteq d.links /\ e.threats = d.threats
    BY <1>6
  <2>2. QED
    BY <1>1, <2>1 DEF LinksFit, LinkPaths
<1>8. ASSUME Covered(d) PROVE Covered(e)
  <2>1. SUFFICES ASSUME NEW k \in e.links, k.object # Empty
                 PROVE  /\ <<k.object, d.threats[k.threat].category>> \in e.tags
                        /\ <<k.object, k.threat>> \in e.names
    BY <1>6 DEF Covered
  <2>2. /\ <<k.object, d.threats[k.threat].category>> \in d.tags
        /\ <<k.object, k.threat>> \in d.names
    BY <1>6, <1>8, <2>1 DEF Covered
  <2>3. k.object = o =>
          <<d.threats[k.threat].category, k.threat>> \in LinksForObject(cut, o)
    BY <1>2, <1>6, <2>1 DEF LinksForObject
  <2>4. <<k.object, d.threats[k.threat].category>> \in e.tags
    BY <1>6, <2>2, <2>3 DEF T, N
  <2>5. <<k.object, k.threat>> \in e.names
    BY <1>6, <2>2, <2>3 DEF T, N
  <2>6. QED
    BY <2>4, <2>5
<1>9. QED
  BY <1>1, <1>6, <1>7, <1>8 DEF Sound, e

LEMMA SetReadmeKeeps ==
    ASSUME NEW d, Sound(d), NEW n \in Names, Exists(d, n), NEW readme \in Object \cup {None}
    PROVE  LET e == SetReadme(d, n, readme) IN
           /\ Sound(e) /\ ThreatsStay(d.threats, e.threats)
           /\ LinkPaths(e) = LinkPaths(d)
           /\ (Covered(d) => Covered(e))
<1> DEFINE e == SetReadme(d, n, readme)
<1>1. d \in Database /\ LinksFit(d) /\ ThreatsFit(d.threats)
  BY DEF Sound
<1>2. /\ d.threats \in [Names -> Row \cup {None}] /\ d.threats[n] \in Row
      /\ d.links \subseteq Link
  BY <1>1 DEF Database, Exists
<1> DEFINE r == [d.threats[n] EXCEPT !.readme = readme]
<1>3. r \in Row /\ r.category = d.threats[n].category /\ r.flat = d.threats[n].flat
  BY <1>2 DEF Row
<1>4. /\ e.threats = [d.threats EXCEPT ![n] = r]
      /\ e.links = d.links /\ e.tags = d.tags /\ e.names = d.names /\ e \in Database
  BY <1>1, <1>2, <1>3 DEF SetReadme, Database
<1>5. \A m \in Names : e.threats[m] = IF m = n THEN r ELSE d.threats[m]
  BY <1>2, <1>4
<1>6. r # None
  BY <1>3, Constants
<1>7. \A m \in Names : /\ d.threats[m] # None <=> e.threats[m] # None
                       /\ d.threats[m] # None => e.threats[m].category = d.threats[m].category
                       /\ d.threats[m] # None => e.threats[m].flat = d.threats[m].flat
  BY <1>3, <1>5, <1>6 DEF Exists
<1>8. \A l \in d.links : l.threat \in Names /\ d.threats[l.threat] # None
  BY <1>1, <1>2 DEF LinksFit, Link
<1>9. \A l \in d.links : PathOf(e.threats[l.threat], l) = PathOf(d.threats[l.threat], l)
  BY <1>7, <1>8 DEF PathOf
<1>10. LinksFit(e) /\ LinkPaths(e) = LinkPaths(d)
  BY <1>1, <1>4, <1>7, <1>8, <1>9 DEF LinksFit, LinkPaths
<1>11. ThreatsFit(e.threats) /\ ThreatsStay(d.threats, e.threats)
  BY <1>1, <1>7 DEF ThreatsFit, ThreatsStay
<1>12. Covered(d) => Covered(e)
  BY <1>4, <1>7, <1>8 DEF Covered
<1>13. QED
  BY <1>4, <1>10, <1>11, <1>12 DEF Sound

LEMMA WithThreatKeeps ==
    ASSUME NEW d, Sound(d), NEW p \in Paths, ~Refused(d, p)
    PROVE  LET e == WithThreat(d, p) IN
           /\ Sound(e) /\ e.links = d.links /\ LinkPaths(e) = LinkPaths(d)
           /\ Exists(e, p.threat) /\ e.threats[p.threat].category = p.category
           /\ e.threats[p.threat].flat = p.flat
           /\ ThreatsStay(d.threats, e.threats)
           /\ (Covered(d) => Covered(e))
<1>1. CASE Exists(d, p.threat)
  BY <1>1 DEF WithThreat, Refused, ThreatsStay
<1>2. CASE ~Exists(d, p.threat)
  <2>1. None \in Object \cup {None}
    OBVIOUS
  <2>2. WithThreat(d, p) = CreateThreat(d, p.threat, p.category, None, p.flat)
    BY <1>2 DEF WithThreat
  <2>3. QED
    BY <1>2, <2>1, <2>2, CreateThreatKeeps
<1>3. QED
  BY <1>1, <1>2

(* What may be linked has its place in the repository. *)
LEMMA LinkAtPath ==
    ASSUME NEW d, Sound(d), NEW p \in Paths, NEW o \in Object,
           Exists(d, p.threat), d.threats[p.threat].flat = p.flat,
           CanLink(d, p.threat, p.rel, o)
    PROVE  LET e == LinkSample(d, p.threat, p.rel, o) IN
           /\ Sound(e) /\ e.threats = d.threats
           /\ d.threats[p.threat].category = p.category
                => LinkPaths(e) \subseteq LinkPaths(d) \cup {p}
           /\ (Covered(d) => Covered(e))
<1> DEFINE n == p.threat
           q == PathOf(d.threats[n], [threat |-> n, rel |-> p.rel])
<1>1. p \in Path /\ n \in Names /\ p.rel \in Rels
  BY Constants DEF Path
<1>2. q = [category |-> d.threats[n].category, threat |-> n, rel |-> p.rel,
           flat |-> d.threats[n].flat]
  BY DEF PathOf
<1>3. PICK r \in Paths : r.threat = n /\ r.category = d.threats[n].category
                                    /\ r.flat = d.threats[n].flat
  BY <1>1 DEF Sound, ThreatsFit, Exists
<1>4. q \in Paths
  <2>1. p.threat = r.threat /\ p.flat = r.flat
    BY <1>3
  <2>2. [category |-> r.category, threat |-> p.threat, rel |-> p.rel, flat |-> r.flat] \in Paths
    BY <2>1, Recategorized
  <2>3. QED
    BY <1>2, <1>3, <2>2
<1>5. ~IsReadme(q)
  BY <1>2 DEF IsReadme, CanLink, CheckLayout
<1>6. d.threats[n].category = p.category => q = p
  BY <1>1, <1>2 DEF Path
<1>7. QED
  BY <1>1, <1>4, <1>5, <1>6, LinkSampleKeeps

(* A directory that moves to another category takes its links with it, and the files
   keep the tag of the old one where another threat needs it.                       *)
LEMMA SetCategoryKeeps ==
    ASSUME NEW d, Sound(d), NEW p \in Paths,
           Exists(d, p.threat), d.threats[p.threat].flat = p.flat,
           p.flat => p.category = d.threats[p.threat].category
    PROVE  LET e == SetCategory(d, p.threat, p.category) IN
           /\ Sound(e) /\ ThreatsStay(d.threats, e.threats)
           /\ Exists(e, p.threat)
           /\ (Covered(d) => Covered(e))
<1> DEFINE n == p.threat
           category == p.category
           old == d.threats[n].category
<1>1. d \in Database /\ LinksFit(d) /\ ThreatsFit(d.threats)
  BY DEF Sound
<1>2. /\ d.threats \in [Names -> Row \cup {None}] /\ d.links \subseteq Link
      /\ d.tags \subseteq Contents \X Categories
  BY <1>1 DEF Database
<1>3. /\ p \in Path /\ n \in Names /\ category \in Categories
      /\ d.threats[n] \in Row /\ d.threats[n] # None /\ old \in Categories
  BY <1>2, Constants DEF Path, Exists, Row
<1>4. CASE category = old
  BY <1>4 DEF SetCategory, ThreatsStay
<1>5. CASE category # old
  <2> DEFINE r == [d.threats[n] EXCEPT !.category = category]
             moved1 == [d EXCEPT !.threats[n].category = category]
             objects == {l.object : l \in LinksOf(d, n)} \ {Empty}
             stale == {o \in objects :
                         \A s \in LinksForObject(moved1, o) : s[2] = n \/ s[1] # old}
             T == (d.tags \cup objects \X {category}) \ (stale \X {old})
             e == SetCategory(d, n, category)
  <2>1. r \in Row /\ r # None /\ r.category = category /\ r.flat = d.threats[n].flat
    BY <1>3, Constants DEF Row
  <2>2. /\ moved1 \in Database /\ moved1.threats = [d.threats EXCEPT ![n] = r]
        /\ moved1.links = d.links /\ moved1.tags = d.tags /\ moved1.names = d.names
    BY <1>1, <1>2, <1>3, <2>1 DEF Database
  <2>3. \A m \in Names : moved1.threats[m] = IF m = n THEN r ELSE d.threats[m]
    BY <1>2, <2>2
  <2>4. e = [moved1 EXCEPT !.tags = T]
    <3>1. e = [moved1 EXCEPT !.tags = (@ \cup objects \X {category}) \ (stale \X {old})]
      BY <1>5 DEF SetCategory
    <3> HIDE DEF moved1, e, objects, stale
    <3>2. QED
      BY <2>2, <3>1
  <2>5. objects \subseteq Contents
    BY <1>2 DEF LinksOf, Link, Object
  <2> HIDE DEF moved1, e, objects
  <2>6. T \subseteq Contents \X Categories
    BY <1>2, <1>3, <2>5
  <2>7. e \in Database /\ e.threats = moved1.threats /\ e.links = d.links
        /\ e.names = d.names /\ e.tags = T
    <3> HIDE DEF T
    <3>1. QED
      BY <2>2, <2>4, <2>6 DEF Database
  <2>8. \A l \in d.links : l.threat \in Names /\ d.threats[l.threat] # None
    BY <1>1, <1>2 DEF LinksFit, Link
  <2>9. ThreatsStay(d.threats, e.threats) /\ Exists(e, n)
    BY <1>3, <2>1, <2>3, <2>7, <1>5 DEF ThreatsStay, Exists
  <2>10. ThreatsFit(e.threats)
    <3>1. SUFFICES ASSUME NEW m \in Names, e.threats[m] # None
                   PROVE  \E q \in Paths : q.threat = m /\ q.category = e.threats[m].category
                                                      /\ q.flat = e.threats[m].flat
      BY DEF ThreatsFit
    <3>2. CASE m = n
      <4>1. e.threats[m] = r
        BY <2>3, <2>7, <3>2
      <4> HIDE DEF r
      <4>2. p.threat = m /\ p.category = e.threats[m].category /\ p.flat = e.threats[m].flat
        BY <2>1, <3>2, <4>1
      <4>3. QED
        BY <4>2
    <3>3. CASE m # n
      BY <1>1, <2>3, <2>7, <3>1, <3>3 DEF ThreatsFit
    <3>4. QED
      BY <3>2, <3>3
  <2>11. LinksFit(e)
    <3>1. SUFFICES ASSUME NEW l \in d.links
                   PROVE  /\ e.threats[l.threat] # None
                          /\ PathOf(e.threats[l.threat], l) \in Paths
                          /\ ~IsReadme(PathOf(e.threats[l.threat], l))
      BY <2>7 DEF LinksFit
    <3>2. CASE l.threat # n
      BY <1>1, <2>3, <2>7, <2>8, <3>2 DEF LinksFit
    <3>3. CASE l.threat = n
      <4> DEFINE q == PathOf(d.threats[n], l)
      <4>1. q \in Paths /\ ~IsReadme(q)
        BY <1>1, <3>3 DEF LinksFit
      <4>2. q = [category |-> old, threat |-> n, rel |-> l.rel, flat |-> d.threats[n].flat]
        BY <3>3 DEF PathOf
      <4>3. q.threat = p.threat /\ q.flat = p.flat /\ q.rel = l.rel
        BY <4>2
      <4>4. [category |-> p.category, threat |-> q.threat, rel |-> q.rel, flat |-> p.flat] \in Paths
        BY <4>1, <4>3, Recategorized
      <4>5. PathOf(e.threats[l.threat], l)
              = [category |-> p.category, threat |-> q.threat, rel |-> q.rel, flat |-> p.flat]
        BY <1>3, <2>1, <2>3, <2>7, <3>3, <4>3 DEF PathOf
      <4>6. ~IsReadme(PathOf(e.threats[l.threat], l))
        BY <4>1, <4>3, <4>5 DEF IsReadme
      <4>7. QED
        BY <1>3, <2>1, <2>3, <2>7, <3>3, <4>4, <4>5, <4>6
    <3>4. QED
      BY <3>2, <3>3
  <2>12. ASSUME Covered(d) PROVE Covered(e)
    <3>1. SUFFICES ASSUME NEW l \in d.links, l.object # Empty
                   PROVE  /\ <<l.object, e.threats[l.threat].category>> \in T
                          /\ <<l.object, l.threat>> \in d.names
      BY <2>7 DEF Covered
    <3>2. /\ <<l.object, d.threats[l.threat].category>> \in d.tags
          /\ <<l.object, l.threat>> \in d.names
      BY <2>12, <3>1 DEF Covered
    <3>3. CASE l.threat = n
      <4>1. l.object \in objects
        BY <3>1, <3>3 DEF objects, LinksOf
      <4>2. e.threats[l.threat].category = category
        BY <1>3, <2>1, <2>3, <2>7, <3>3
      <4> HIDE DEF stale
      <4>3. QED
        BY <1>5, <3>2, <4>1, <4>2
    <3>4. CASE l.threat # n
      <4>1. moved1.threats[l.threat] = d.threats[l.threat]
        BY <2>3, <2>8, <3>4
      <4>2. <<d.threats[l.threat].category, l.threat>> \in LinksForObject(moved1, l.object)
        BY <2>2, <4>1 DEF LinksForObject
      <4>3. d.threats[l.threat].category = old => l.object \notin stale
        BY <3>4, <4>2
      <4> HIDE DEF stale
      <4>4. QED
        BY <2>7, <3>2, <4>1, <4>3
    <3>5. QED
      BY <3>3, <3>4
  <2>13. QED
    BY <2>7, <2>9, <2>10, <2>11, <2>12 DEF Sound, e
<1>6. QED
  BY <1>4, <1>5

LEMMA DropFileKeeps ==
    ASSUME NEW d, Sound(d), NEW o
    PROVE  LET e == DropFile(d, o) IN
           /\ Sound(e) /\ e.threats = d.threats
           /\ (Covered(d) => Covered(e))
<1> DEFINE e == DropFile(d, o)
<1>1. d \in Database /\ LinksFit(d) /\ ThreatsFit(d.threats)
  BY DEF Sound
<1>2. /\ e \in Database /\ e.threats = d.threats
      /\ e.links = {l \in d.links : l.object # o}
      /\ e.tags = {t \in d.tags : t[1] # o} /\ e.names = {t \in d.names : t[1] # o}
  BY <1>1 DEF DropFile, Database
<1> HIDE DEF e
<1>3. LinksFit(e) /\ (Covered(d) => Covered(e))
  BY <1>1, <1>2 DEF LinksFit, Covered
<1>4. QED
  BY <1>1, <1>2, <1>3 DEF Sound, e

(* A threat goes with its links. *)
LEMMA DropThreatKeeps ==
    ASSUME NEW d, Sound(d), NEW n \in Names
    PROVE  LET e == [d EXCEPT !.threats[n] = None, !.links = @ \ LinksOf(d, n)] IN
           /\ Sound(e)
           /\ \A m \in Names : m # n => e.threats[m] = d.threats[m]
           /\ (Covered(d) => Covered(e))
<1> DEFINE e == [d EXCEPT !.threats[n] = None, !.links = @ \ LinksOf(d, n)]
<1>1. d \in Database /\ LinksFit(d) /\ ThreatsFit(d.threats)
  BY DEF Sound
<1>2. d.threats \in [Names -> Row \cup {None}] /\ d.links \subseteq Link
  BY <1>1 DEF Database
<1>3. /\ e \in Database /\ e.threats = [d.threats EXCEPT ![n] = None]
      /\ e.links = d.links \ LinksOf(d, n) /\ e.tags = d.tags /\ e.names = d.names
  BY <1>1, <1>2 DEF Database
<1>4. \A m \in Names : e.threats[m] = IF m = n THEN None ELSE d.threats[m]
  BY <1>2, <1>3
<1>5. \A l \in e.links : l \in d.links /\ l.threat \in Names /\ l.threat # n
  BY <1>2, <1>3 DEF LinksOf, Link
<1> HIDE DEF e
<1>6. LinksFit(e)
  BY <1>1, <1>4, <1>5 DEF LinksFit
<1>7. ThreatsFit(e.threats)
  BY <1>1, <1>4 DEF ThreatsFit
<1>8. Covered(d) => Covered(e)
  BY <1>3, <1>4, <1>5 DEF Covered
<1>9. QED
  BY <1>3, <1>4, <1>6, <1>7, <1>8 DEF Sound, e

LEMMA RepairKeeps ==
    ASSUME NEW d, Sound(d), NEW o \in Contents
    PROVE  LET e == [d EXCEPT
                      !.tags = @ \cup {<<o, r[1]>> : r \in LinksForObject(d, o)},
                      !.names = {t \in @ : t[1] # o}
                                  \cup {<<o, r[2]>> : r \in LinksForObject(d, o)}] IN
           /\ Sound(e) /\ e.threats = d.threats /\ e.links = d.links
           /\ (Covered(d) => Covered(e))
<1> DEFINE T == d.tags \cup {<<o, r[1]>> : r \in LinksForObject(d, o)}
           N == {t \in d.names : t[1] # o} \cup {<<o, r[2]>> : r \in LinksForObject(d, o)}
           e == [d EXCEPT !.tags = T, !.names = N]
<1>1. d \in Database /\ LinksFit(d) /\ ThreatsFit(d.threats)
  BY DEF Sound
<1>2. d.threats \in [Names -> Row \cup {None}] /\ d.links \subseteq Link
  BY <1>1 DEF Database
<1>3. \A r \in LinksForObject(d, o) : r[1] \in Categories /\ r[2] \in Names
  <2>1. \A l \in d.links : l.threat \in Names /\ d.threats[l.threat].category \in Categories
    BY <1>1, <1>2 DEF LinksFit, Link, Row
  <2>2. QED
    BY <2>1 DEF LinksForObject
<1>4. T \subseteq Contents \X Categories /\ N \subseteq Contents \X Names
  BY <1>1, <1>3 DEF Database
<1>5. Covered(d) => \A l \in d.links : l.object # Empty =>
                      /\ <<l.object, d.threats[l.threat].category>> \in T
                      /\ <<l.object, l.threat>> \in N
  <2>1. SUFFICES ASSUME Covered(d), NEW l \in d.links, l.object # Empty
                 PROVE  /\ <<l.object, d.threats[l.threat].category>> \in T
                        /\ <<l.object, l.threat>> \in N
    OBVIOUS
  <2>2. /\ <<l.object, d.threats[l.threat].category>> \in d.tags
        /\ <<l.object, l.threat>> \in d.names
    BY <2>1 DEF Covered
  <2>3. l.object = o => <<d.threats[l.threat].category, l.threat>> \in LinksForObject(d, o)
    BY DEF LinksForObject
  <2>4. QED
    BY <2>2, <2>3
<1> HIDE DEF T, N
<1>6. /\ e \in Database /\ e.threats = d.threats /\ e.links = d.links
      /\ e.tags = T /\ e.names = N
  BY <1>1, <1>4 DEF Database
<1> HIDE DEF e
<1>7. Sound(e) /\ (Covered(d) => Covered(e))
  BY <1>1, <1>5, <1>6 DEF Sound, LinksFit, Covered
<1>8. QED
  BY <1>6, <1>7 DEF e, T, N

-------------------------------------------------------------------------------
(* Whatever the steps do, what they leave to show. *)

(* A request. *)
LEMMA WrittenKeeps ==
    ASSUME Inv, NEW d, Sound(d), Covered(db) => Covered(d), Written(d),
           \A n \in Names : rows[n] # None /\ n \notin lost' =>
              /\ d.threats[n] # None /\ d.threats[n].flat = rows[n].flat
              /\ rows[n].flat => d.threats[n].category = rows[n].category,
           lost' \subseteq Names, deleting' \in [threat : Names \cup {None}, left : SUBSET Rels],
           UNCHANGED <<remote, pc, base, moved, todo, preserved, rows, out, drifted>>
    PROVE  Inv'
<1>1. db' = d /\ d \in Database
  BY DEF Written, Sound
<1>2. LinkPaths(db) \subseteq Paths /\ \A p \in LinkPaths(db) : ~IsReadme(p)
  BY DEF Inv, DataInv, Sound, LinksFit, LinkPaths
<1>3. TypeOK'
  BY <1>1, <1>2 DEF Inv, TypeOK, Written, Database
<1>4. DataInv'
  BY <1>1 DEF Inv, DataInv, NoResurrection, Written
<1>5. ThreatsFit(rows)' /\ RowsFit'
  BY <1>1 DEF Inv, RowsFit
<1>6. RunFits'
  BY DEF Inv, RunFits, Known
<1>7. GoneFits'
  BY <1>2 DEF Inv, GoneFits, Written, Manifest
<1>8. QED
  BY <1>3, <1>4, <1>5, <1>6, <1>7 DEF Inv

LEMMA RequestKeeps ==
    ASSUME Inv, NEW d, Sound(d), Covered(db) => Covered(d), Written(d),
           ThreatsStay(db.threats, d.threats),
           deleting' \in [threat : Names \cup {None}, left : SUBSET Rels],
           UNCHANGED <<remote, run, drifted>>
    PROVE  Inv'
<1>1. \A n \in Names : rows[n] # None /\ n \notin lost' =>
              /\ d.threats[n] # None /\ d.threats[n].flat = rows[n].flat
              /\ rows[n].flat => d.threats[n].category = rows[n].category
  BY DEF Inv, RowsFit, ThreatsStay, run
<1>2. lost' \subseteq Names
  BY DEF Inv, TypeOK, run
<1>3. UNCHANGED <<remote, pc, base, moved, todo, preserved, rows, out, drifted>>
  BY DEF run
<1>4. QED
  BY <1>1, <1>2, <1>3, WrittenKeeps

(* A step of the run that writes to the database. *)
Absorbs(d) ==
    /\ db' = d /\ Sound(d) /\ (Covered(db) => Covered(d))
    /\ ThreatsStay(db.threats, d.threats) /\ LinkPaths(d) \cap gone = {}

LEMMA AbsorbKeeps ==
    ASSUME Inv, NEW d, Absorbs(d),
           pc # "idle", todo' \subseteq todo,
           preserved' = preserved
              \/ \E p \in Paths : /\ preserved' = preserved \cup {p}
                                 /\ p \in DOMAIN base.tree
                                 /\ (IsReadme(p) \/ ~Known(p)),
           Stored, UNCHANGED <<Others, pc, base, moved, rows, lost, out>>
    PROVE  Inv'
<1>1. db' \in Database
  BY DEF Sound, Absorbs
<1>2. TypeOK'
  BY <1>1 DEF Inv, TypeOK, Stored, Others, Database, Absorbs
<1>3. DataInv'
  BY DEF Inv, DataInv, NoResurrection, Others, Absorbs
<1>4. ThreatsFit(rows)' /\ RowsFit'
  BY DEF Inv, RowsFit, ThreatsStay, Absorbs
<1>5. RunFits'
  BY DEF Inv, RunFits, Known, Others
<1>6. GoneFits'
  BY DEF Inv, GoneFits, Others, Manifest
<1>7. QED
  BY <1>2, <1>3, <1>4, <1>5, <1>6 DEF Inv

-------------------------------------------------------------------------------
(* The requests. *)
LEMMA InvFacts ==
    ASSUME Inv
    PROVE  /\ Sound(db) /\ db \in Database /\ deleting \in [threat : Names \cup {None}, left : SUBSET Rels]
           /\ Contents \subseteq Object /\ None \in Object \cup {None}
           /\ \A p \in Paths : /\ p \in Path /\ p.threat \in Names /\ p.category \in Categories
                               /\ p.rel \in Rels /\ p.flat \in BOOLEAN
BY Constants DEF Inv, TypeOK, DataInv, Object, Path

LEMMA PostThreatKeeps ==
    ASSUME Inv, NEW p \in Paths, ~p.flat, NEW readme \in Contents \cup {None},
           PostThreat(p.threat, p.category, readme)
    PROVE  Inv'
<1> DEFINE d == CreateThreat(db, p.threat, p.category, readme, p.flat)
<1>1. d = CreateThreat(db, p.threat, p.category, readme, FALSE)
  BY InvFacts DEF CreateThreat
<1>2. readme \in Object \cup {None} /\ Sound(db) /\ ~Exists(db, p.threat)
  BY InvFacts DEF PostThreat
<1>3. Sound(d) /\ ThreatsStay(db.threats, d.threats) /\ (Covered(db) => Covered(d))
  BY <1>2, CreateThreatKeeps
<1> HIDE DEF d
<1>4. Written(d) /\ UNCHANGED <<remote, deleting, run, drifted>>
  BY <1>1 DEF PostThreat
<1>5. deleting' \in [threat : Names \cup {None}, left : SUBSET Rels]
  BY <1>4, InvFacts
<1>6. QED
  BY <1>3, <1>4, <1>5, RequestKeeps

LEMMA PutThreatKeeps ==
    ASSUME Inv, NEW p \in Paths, NEW readme \in Contents \cup {None},
           Exists(db, p.threat), db.threats[p.threat].flat = p.flat,
           PutThreat(p.threat, p.category, readme)
    PROVE  Inv'
<1> DEFINE n == p.threat
           c == SetCategory(db, n, p.category)
           d == SetReadme(c, n, readme)
<1>1. readme \in Object \cup {None} /\ Sound(db) /\ n \in Names
  BY InvFacts
<1>2. p.flat => p.category = db.threats[n].category
  BY DEF PutThreat
<1>3. Sound(c) /\ ThreatsStay(db.threats, c.threats) /\ Exists(c, n) /\ (Covered(db) => Covered(c))
  BY <1>1, <1>2, SetCategoryKeeps
<1> HIDE DEF c
<1>4. Sound(d) /\ ThreatsStay(c.threats, d.threats) /\ (Covered(c) => Covered(d))
  BY <1>1, <1>3, SetReadmeKeeps
<1>5. Written(d) /\ UNCHANGED <<remote, deleting, run, drifted>>
  BY DEF PutThreat, c
<1> HIDE DEF d
<1>6. ThreatsStay(db.threats, d.threats)
  BY <1>3, <1>4 DEF ThreatsStay
<1>7. deleting' \in [threat : Names \cup {None}, left : SUBSET Rels]
  BY <1>5, InvFacts
<1>8. QED
  BY <1>3, <1>4, <1>5, <1>6, <1>7, RequestKeeps

LEMMA PostSampleKeeps ==
    ASSUME Inv, NEW p \in Paths, NEW o \in Contents,
           p.flat = (Exists(db, p.threat) /\ db.threats[p.threat].flat),
           PostSample(p.threat, p.rel, o)
    PROVE  Inv'
<1> DEFINE n == p.threat
           d == LinkSample(db, n, p.rel, o)
<1>1. o \in Object /\ Sound(db) /\ db \in Database /\ n \in Names
  BY InvFacts
<1>2. Exists(db, n) /\ CanLink(db, n, p.rel, o)
      /\ Written(d) /\ UNCHANGED <<remote, deleting, run, drifted>>
  BY DEF PostSample
<1>3. db.threats[n].flat = p.flat
  BY <1>1, <1>2 DEF Database, Exists, Row
<1>4. Sound(d) /\ d.threats = db.threats /\ (Covered(db) => Covered(d))
  BY <1>1, <1>2, <1>3, LinkAtPath
<1> HIDE DEF d
<1>5. ThreatsStay(db.threats, d.threats)
  BY <1>4 DEF ThreatsStay
<1>6. deleting' \in [threat : Names \cup {None}, left : SUBSET Rels]
  BY <1>2, InvFacts
<1>7. QED
  BY <1>2, <1>4, <1>5, <1>6, RequestKeeps

LEMMA PostUploadKeeps ==
    ASSUME Inv, NEW p \in Paths, NEW o \in Contents,
           p.flat = (Exists(db, p.threat) /\ db.threats[p.threat].flat),
           PostUpload(p.threat, p.category, None, p.rel, o)
    PROVE  Inv'
<1> DEFINE n == p.threat
           made == IF ~Exists(db, n) THEN CreateThreat(db, n, p.category, None, p.flat) ELSE db
           kept == StoreFile(made, o)
           linked == LinkSample(kept, n, p.rel, o)
<1>1. o \in Object /\ Sound(db) /\ db \in Database /\ n \in Names /\ None \in Object \cup {None}
  BY InvFacts
<1>2. /\ Sound(made) /\ Exists(made, n) /\ made.threats[n].flat = p.flat
      /\ ThreatsStay(db.threats, made.threats) /\ (Covered(db) => Covered(made))
  <2>1. CASE Exists(db, n)
    BY <1>1, <2>1 DEF Database, Exists, Row, ThreatsStay
  <2>2. CASE ~Exists(db, n)
    BY <1>1, <2>2, CreateThreatKeeps
  <2>3. QED
    BY <2>1, <2>2
<1>3. made = IF ~Exists(db, n) THEN CreateThreat(db, n, p.category, None, FALSE) ELSE db
  BY DEF CreateThreat
<1> HIDE DEF made
<1>4. Sound(kept) /\ kept.threats = made.threats /\ (Covered(made) => Covered(kept))
  BY <1>1, <1>2, StoreFileKeeps
<1>5. /\ Written(IF CanLink(kept, n, p.rel, o) THEN linked ELSE StoreFile(db, o))
      /\ UNCHANGED <<remote, deleting, run, drifted>>
  BY <1>3 DEF PostUpload
<1>6. deleting' \in [threat : Names \cup {None}, left : SUBSET Rels]
  BY <1>5, InvFacts
<1> HIDE DEF kept
<1>7. CASE CanLink(kept, n, p.rel, o)
  <2>1. Exists(kept, n) /\ kept.threats[n].flat = p.flat
    BY <1>2, <1>4 DEF Exists
  <2>2. Sound(linked) /\ linked.threats = kept.threats /\ (Covered(kept) => Covered(linked))
    BY <1>1, <1>4, <1>7, <2>1, LinkAtPath
  <2> HIDE DEF linked
  <2>3. ThreatsStay(db.threats, linked.threats) /\ (Covered(db) => Covered(linked))
    BY <1>2, <1>4, <2>2
  <2>4. Written(linked)
    BY <1>5, <1>7
  <2>5. QED
    BY <1>5, <1>6, <2>2, <2>3, <2>4, RequestKeeps
<1>8. CASE ~CanLink(kept, n, p.rel, o)
  <2> DEFINE d == StoreFile(db, o)
  <2>1. Sound(d) /\ d.threats = db.threats /\ (Covered(db) => Covered(d))
    BY <1>1, StoreFileKeeps
  <2>2. Written(d)
    BY <1>5, <1>8
  <2> HIDE DEF d
  <2>3. ThreatsStay(db.threats, d.threats)
    BY <2>1 DEF ThreatsStay
  <2>4. QED
    BY <1>5, <1>6, <2>1, <2>2, <2>3, RequestKeeps
<1>9. QED
  BY <1>7, <1>8

LEMMA DeleteSampleKeeps ==
    ASSUME Inv, NEW l \in db.links, Written(Unlink(db, l)),
           deleting' \in [threat : Names \cup {None}, left : SUBSET Rels],
           UNCHANGED <<remote, run, drifted>>
    PROVE  Inv'
<1> DEFINE d == Unlink(db, l)
<1>1. Sound(d) /\ d.threats = db.threats /\ (Covered(db) => Covered(d))
  BY InvFacts, UnlinkKeeps
<1> HIDE DEF d
<1>2. ThreatsStay(db.threats, d.threats) /\ Written(d)
  BY <1>1 DEF ThreatsStay, d
<1>3. QED
  BY <1>1, <1>2, RequestKeeps

LEMMA DeleteFileKeeps ==
    ASSUME Inv, NEW o \in Contents, DeleteFile(o)
    PROVE  Inv'
<1> DEFINE d == DropFile(db, o)
<1>1. Sound(d) /\ d.threats = db.threats /\ (Covered(db) => Covered(d))
  BY InvFacts, DropFileKeeps
<1>2. Written(d) /\ UNCHANGED <<remote, deleting, run, drifted>>
  BY DEF DeleteFile
<1> HIDE DEF d
<1>3. ThreatsStay(db.threats, d.threats)
  BY <1>1 DEF ThreatsStay
<1>4. deleting' \in [threat : Names \cup {None}, left : SUBSET Rels]
  BY <1>2, InvFacts
<1>5. QED
  BY <1>1, <1>2, <1>3, <1>4, RequestKeeps

(* By hand anything may become of the mirror, and from then on nothing is said of it. *)
LEMMA DriftKeeps ==
    ASSUME Inv, NEW o \in Contents, NEW n \in Names, Drift(o, n)
    PROVE  Inv'
<1>1. db \in Database /\ Sound(db)
  BY InvFacts
<1>2. PICK T \in SUBSET (Contents \X Categories), N \in SUBSET (Contents \X Names) :
         db' = [db EXCEPT !.tags = T, !.names = N]
  <2>1. CASE db' = [db EXCEPT !.tags = {t \in @ : t[1] # o}, !.names = @ \ {<<o, n>>}]
    <3>1. {t \in db.tags : t[1] # o} \in SUBSET (Contents \X Categories)
          /\ db.names \ {<<o, n>>} \in SUBSET (Contents \X Names)
      BY <1>1 DEF Database
    <3>2. QED
      BY <2>1, <3>1
  <2>2. CASE db' = [db EXCEPT !.names = @ \cup {<<o, n>>}]
    <3>1. db.tags \in SUBSET (Contents \X Categories)
          /\ db.names \cup {<<o, n>>} \in SUBSET (Contents \X Names)
      BY <1>1 DEF Database
    <3>2. db' = [db EXCEPT !.tags = db.tags, !.names = db.names \cup {<<o, n>>}]
      BY <1>1, <2>2 DEF Database
    <3>3. QED
      BY <3>1, <3>2
  <2>3. QED
    BY <2>1, <2>2 DEF Drift
<1>3. /\ db' \in Database /\ db'.threats = db.threats /\ db'.links = db.links
  BY <1>1, <1>2 DEF Database
<1>4. drifted' = TRUE /\ UNCHANGED <<remote, deleting, run, gone, stored>>
  BY DEF Drift
<1>5. Sound(db') /\ LinkPaths(db') = LinkPaths(db)
  BY <1>1, <1>3 DEF Sound, LinksFit, LinkPaths
<1>6. TypeOK'
  BY <1>3, <1>4 DEF Inv, TypeOK, run
<1>7. DataInv'
  BY <1>4, <1>5 DEF Inv, DataInv, NoResurrection
<1>8. ThreatsFit(rows)' /\ RowsFit'
  BY <1>3, <1>4 DEF Inv, RowsFit, run
<1>9. RunFits' /\ GoneFits'
  BY <1>4 DEF Inv, RunFits, GoneFits, Known, Manifest, run
<1>10. QED
  BY <1>6, <1>7, <1>8, <1>9 DEF Inv

LEMMA DeleteThreatKeeps ==
    ASSUME Inv, NEW n \in Names, DeleteThreat(n)
    PROVE  Inv'
<1>1. UNCHANGED <<db, remote, run, gone, stored, drifted>>
  BY DEF DeleteThreat
<1>2. deleting' \in [threat : Names \cup {None}, left : SUBSET Rels]
  <2>1. \A l \in db.links : l.rel \in Rels
    BY InvFacts DEF Database, Link
  <2>2. QED
    BY <2>1 DEF DeleteThreat, LinksOf
<1>3. TypeOK'
  BY <1>1, <1>2 DEF Inv, TypeOK, run
<1>4. DataInv' /\ ThreatsFit(rows)' /\ RowsFit'
  BY <1>1 DEF Inv, DataInv, NoResurrection, RowsFit, run
<1>5. RunFits' /\ GoneFits'
  BY <1>1 DEF Inv, RunFits, GoneFits, Known, Manifest, run
<1>6. QED
  BY <1>3, <1>4, <1>5 DEF Inv

LEMMA NextSampleKeeps ==
    ASSUME Inv, NEW rel \in Rels, DeleteNextSample(rel)
    PROVE  Inv'
<1> DEFINE there == {l \in LinksOf(db, deleting.threat) : l.rel = rel}
<1>1. UNCHANGED <<remote, run, drifted>>
  BY DEF DeleteNextSample
<1>2. CASE there = {}
  <2>1. deleting' = NoDelete /\ Written(db)
    BY <1>2 DEF DeleteNextSample
  <2>2. deleting' \in [threat : Names \cup {None}, left : SUBSET Rels]
    BY <2>1 DEF NoDelete
  <2>3. Sound(db) /\ ThreatsStay(db.threats, db.threats)
    BY InvFacts DEF ThreatsStay
  <2>4. QED
    BY <1>1, <2>1, <2>2, <2>3, RequestKeeps
<1>3. CASE there # {}
  <2>1. PICK l \in there : Written(Unlink(db, l))
    BY <1>3 DEF DeleteNextSample
  <2>2. deleting' = [deleting EXCEPT !.left = @ \ {rel}]
    BY <1>3 DEF DeleteNextSample
  <2>3. deleting' \in [threat : Names \cup {None}, left : SUBSET Rels]
    BY <2>2, InvFacts
  <2>4. l \in db.links
    BY DEF LinksOf
  <2>5. QED
    BY <1>1, <2>1, <2>3, <2>4, DeleteSampleKeeps
<1>4. QED
  BY <1>2, <1>3

LEMMA EndDeleteKeeps ==
    ASSUME Inv, EndDelete
    PROVE  Inv'
<1> DEFINE n == deleting.threat
           d == [db EXCEPT !.threats[n] = None, !.links = @ \ LinksOf(db, n)]
<1>1. n \in Names
  BY InvFacts DEF EndDelete
<1>2. /\ Sound(d) /\ (Covered(db) => Covered(d))
      /\ \A m \in Names : m # n => d.threats[m] = db.threats[m]
  BY <1>1, InvFacts, DropThreatKeeps
<1>3. /\ Written(d) /\ deleting' = NoDelete
      /\ lost' = IF rows[n] = None THEN lost ELSE lost \cup {n}
      /\ UNCHANGED <<remote, pc, base, moved, todo, preserved, rows, out, drifted>>
  BY DEF EndDelete
<1> HIDE DEF d
<1>4. \A m \in Names : rows[m] # None /\ m \notin lost' =>
         /\ d.threats[m] # None /\ d.threats[m].flat = rows[m].flat
         /\ rows[m].flat => d.threats[m].category = rows[m].category
  BY <1>2, <1>3 DEF Inv, RowsFit
<1>5. lost' \subseteq Names /\ deleting' \in [threat : Names \cup {None}, left : SUBSET Rels]
  BY <1>1, <1>3 DEF Inv, TypeOK, NoDelete
<1>6. QED
  BY <1>2, <1>3, <1>4, <1>5, WrittenKeeps

-------------------------------------------------------------------------------
(* Trees and commits. *)
LEMMA TreeFacts ==
    ASSUME NEW f \in Tree
    PROVE  DOMAIN f \subseteq Paths /\ f \in [DOMAIN f -> Object]
BY DEF Tree

LEMMA TreeOf ==
    ASSUME NEW S \in SUBSET Paths, NEW f \in [S -> Object]
    PROVE  f \in Tree
BY DEF Tree

LEMMA WriteKeeps ==
    ASSUME NEW f \in Tree, NEW g \in Tree
    PROVE  Write(f, g) \in Tree /\ DOMAIN Write(f, g) = DOMAIN f \cup DOMAIN g
<1>1. Write(f, g) \in [DOMAIN f \cup DOMAIN g -> Object]
  BY TreeFacts DEF Write
<1>2. QED
  BY <1>1, TreeFacts, TreeOf

LEMMA NothingIsCommit == Nothing \in Commit
<1>1. <<>> \in [{} -> Object]
  OBVIOUS
<1>2. <<>> \in Tree
  BY <1>1, TreeOf
<1>3. QED
  BY <1>2 DEF Nothing, Commit

(* Commits of people leave the manifest alone. *)
LEMMA PushKeeps ==
    ASSUME Inv, NEW tree \in Tree, Push(tree), gone' \subseteq gone,
           \A p \in gone' : p \in Manifest \/ p \notin DOMAIN tree
    PROVE  Inv'
<1>1. /\ remote' = [remote EXCEPT !.tree = tree] /\ moved' \in BOOLEAN
      /\ UNCHANGED <<db, deleting, pc, base, todo, preserved, rows, lost, out, stored, drifted>>
  BY DEF Push
<1>2. remote' \in Commit /\ remote'.tree = tree /\ remote'.manifest = remote.manifest
  BY <1>1 DEF Inv, TypeOK, Commit
<1>3. TypeOK'
  BY <1>1, <1>2 DEF Inv, TypeOK
<1>4. DataInv' /\ ThreatsFit(rows)' /\ RowsFit'
  BY <1>1 DEF Inv, DataInv, NoResurrection, RowsFit
<1>5. RunFits' /\ GoneFits'
  BY <1>1, <1>2 DEF Inv, RunFits, GoneFits, Known, Manifest
<1>6. QED
  BY <1>3, <1>4, <1>5 DEF Inv

LEMMA CommitFileKeeps ==
    ASSUME Inv, NEW p \in Paths, NEW o \in Object, CommitFile(p, o)
    PROVE  Inv'
<1> DEFINE f == [q \in {p} |-> o]
           tree == Write(f, remote.tree)
<1>1. f \in [{p} -> Object] /\ DOMAIN f = {p}
  OBVIOUS
<1>2. f \in Tree /\ remote.tree \in Tree
  BY <1>1, TreeOf DEF Inv, TypeOK, Commit
<1> HIDE DEF f
<1>3. tree \in Tree /\ DOMAIN tree = {p} \cup DOMAIN remote.tree
  BY <1>1, <1>2, WriteKeeps
<1>4. Push(tree) /\ gone' = gone \ {p}
  BY DEF CommitFile, f
<1> HIDE DEF tree
<1>5. \A q \in gone' : q \in Manifest \/ q \notin DOMAIN tree
  BY <1>3, <1>4 DEF Inv, GoneFits
<1>6. QED
  BY <1>3, <1>4, <1>5, PushKeeps

LEMMA CommitDeletionKeeps ==
    ASSUME Inv, NEW p \in Paths, CommitDeletion(p)
    PROVE  Inv'
<1> DEFINE tree == [q \in DOMAIN remote.tree \ {p} |-> remote.tree[q]]
<1>1. remote.tree \in Tree
  BY DEF Inv, TypeOK, Commit
<1>2. tree \in [DOMAIN remote.tree \ {p} -> Object] /\ DOMAIN remote.tree \ {p} \subseteq Paths
  BY <1>1, TreeFacts
<1>3. tree \in Tree /\ DOMAIN tree = DOMAIN remote.tree \ {p}
  BY <1>2, TreeOf
<1>4. Push(tree) /\ gone' = gone
  BY DEF CommitDeletion
<1> HIDE DEF tree
<1>5. \A q \in gone' : q \in Manifest \/ q \notin DOMAIN tree
  BY <1>3, <1>4 DEF Inv, GoneFits
<1>6. QED
  BY <1>3, <1>4, <1>5, PushKeeps

-------------------------------------------------------------------------------
(* The run of the sync. *)
LEMMA RunFacts ==
    ASSUME Inv
    PROVE  /\ base \in Commit /\ remote \in Commit
           /\ DOMAIN base.tree \subseteq Paths /\ DOMAIN remote.tree \subseteq Paths
           /\ base.tree \in Tree /\ remote.tree \in Tree
           /\ base.manifest # None => base.manifest \in Tree /\ DOMAIN base.manifest \subseteq Paths
BY TreeFacts DEF Inv, TypeOK, Commit

LEMMA StaysReflexive == \A old : ThreatsStay(old, old)
BY DEF ThreatsStay

LEMMA PullKeeps ==
    ASSUME Inv, Pull
    PROVE  Inv'
<1>1. /\ pc = "idle" /\ pc' = "ingest" /\ base' = remote /\ moved' = FALSE
      /\ todo' = DOMAIN remote.tree
      /\ UNCHANGED <<db, remote, deleting, gone, drifted, preserved, rows, lost, out, stored>>
  BY DEF Pull, At, Others
<1>2. TypeOK'
  BY <1>1, RunFacts DEF Inv, TypeOK, Phases
<1>3. DataInv' /\ ThreatsFit(rows)' /\ RowsFit'
  BY <1>1 DEF Inv, DataInv, NoResurrection, RowsFit
<1>4. RunFits' /\ GoneFits'
  BY <1>1 DEF Inv, RunFits, GoneFits, Known, Manifest
<1>5. QED
  BY <1>2, <1>3, <1>4 DEF Inv

(* A path that the manifest does not have is nobody's that was removed. *)
LEMMA NewIsNotGone ==
    ASSUME Inv, pc # "idle", NEW p, p \in DOMAIN base.tree, ~Known(p)
    PROVE  p \notin gone
BY DEF Inv, RunFits, GoneFits, Known, Manifest

LEMMA IngestSampleKeeps ==
    ASSUME Inv, IngestSample
    PROVE  Inv'
<1> DEFINE p == First(todo)
           o == base.tree[p]
           kept == StoreFile(db, o)
           ready == WithThreat(kept, p)
           fits == ~Refused(kept, p) /\ p \notin Unfit /\ CanLink(ready, p.threat, p.rel, o)
           linked == LinkSample(ready, p.threat, p.rel, o)
<1>1. /\ pc = "ingest" /\ todo # {} /\ ~IsReadme(p) /\ todo' = todo \ {p} /\ Stored
      /\ UNCHANGED <<Others, pc, base, moved, rows, lost, out>>
  BY DEF IngestSample, At
<1>2. todo \subseteq DOMAIN base.tree /\ todo \subseteq Paths
  BY <1>1, RunFacts DEF Inv, RunFits
<1>3. p \in todo
  BY <1>1, <1>2, FirstIsLeft
<1>4. p \in Paths /\ p \in DOMAIN base.tree /\ o \in Object
  BY <1>2, <1>3, RunFacts, TreeFacts
<1>5. /\ Sound(kept) /\ kept.threats = db.threats /\ kept.links = db.links
      /\ (Covered(db) => Covered(kept))
  BY <1>4, InvFacts, StoreFileKeeps
<1>6. LinkPaths(kept) = LinkPaths(db) /\ ThreatsStay(db.threats, kept.threats)
  BY <1>5, StaysReflexive DEF LinkPaths
<1>7. LinkPaths(db) \cap gone = {} /\ Sound(db)
  BY DEF Inv, DataInv, NoResurrection
<1>8. \/ Known(p) /\ UNCHANGED <<db, preserved, budget>>
      \/ ~Known(p) /\ fits /\ db' = linked /\ UNCHANGED <<preserved, budget>>
      \/ ~Known(p) /\ ~fits /\ db' = kept /\ preserved' = preserved \cup {p}
      \/ ~Known(p) /\ db' \in {db, kept} /\ preserved' = preserved \cup {p}
  BY DEF IngestSample
<1> HIDE DEF kept
<1>9. CASE Known(p) /\ UNCHANGED <<db, preserved, budget>>
  <2>1. db' = db /\ preserved' = preserved
    BY <1>9
  <2>2. Absorbs(db)
    BY <1>7, <2>1, StaysReflexive DEF Absorbs
  <2>3. QED
    BY <1>1, <2>1, <2>2, AbsorbKeeps
<1>10. CASE ~Known(p) /\ fits /\ db' = linked /\ UNCHANGED <<preserved, budget>>
  <2>1. /\ Sound(ready) /\ LinkPaths(ready) = LinkPaths(kept)
        /\ Exists(ready, p.threat) /\ ready.threats[p.threat].category = p.category
        /\ ready.threats[p.threat].flat = p.flat
        /\ ThreatsStay(kept.threats, ready.threats)
        /\ (Covered(kept) => Covered(ready))
    BY <1>4, <1>5, <1>10, WithThreatKeeps
  <2>2. CanLink(ready, p.threat, p.rel, o)
    BY <1>10
  <2> HIDE DEF ready
  <2>3. /\ Sound(linked) /\ linked.threats = ready.threats
        /\ LinkPaths(linked) \subseteq LinkPaths(ready) \cup {p}
        /\ (Covered(ready) => Covered(linked))
    BY <1>4, <2>1, <2>2, LinkAtPath
  <2> HIDE DEF linked
  <2>4. p \notin gone
    BY <1>1, <1>4, <1>10, NewIsNotGone
  <2>5. LinkPaths(linked) \cap gone = {}
    BY <1>6, <1>7, <2>1, <2>3, <2>4
  <2>6. ThreatsStay(db.threats, linked.threats)
    BY <1>5, <2>1, <2>3
  <2>7. db' = linked /\ preserved' = preserved
    BY <1>10 DEF linked, ready
  <2>8. Absorbs(linked)
    BY <1>5, <2>1, <2>3, <2>5, <2>6, <2>7 DEF Absorbs
  <2>9. QED
    BY <1>1, <2>7, <2>8, AbsorbKeeps
<1>11. CASE ~Known(p) /\ db' \in {db, kept} /\ preserved' = preserved \cup {p}
  <2>1. Absorbs(db')
    BY <1>5, <1>6, <1>7, <1>11, StaysReflexive DEF Absorbs
  <2>2. QED
    BY <1>1, <1>4, <1>11, <2>1, AbsorbKeeps
<1>12. QED
  BY <1>8, <1>9, <1>10, <1>11

LEMMA IngestReadmeKeeps ==
    ASSUME Inv, IngestReadme
    PROVE  Inv'
<1> DEFINE p == First(todo)
           text == base.tree[p]
           ready == WithThreat(db, p)
           set == SetReadme(ready, p.threat, text)
<1>1. /\ pc = "ingest" /\ todo # {} /\ IsReadme(p) /\ todo' = todo \ {p} /\ Stored
      /\ UNCHANGED <<Others, pc, base, moved, rows, lost, out>>
  BY DEF IngestReadme, At
<1>2. todo \subseteq DOMAIN base.tree /\ todo \subseteq Paths
  BY <1>1, RunFacts DEF Inv, RunFits
<1>3. p \in todo
  BY <1>1, <1>2, FirstIsLeft
<1>4. p \in Paths /\ p \in DOMAIN base.tree /\ text \in Object \cup {None} /\ p.threat \in Names
  BY <1>2, <1>3, RunFacts, TreeFacts, InvFacts
<1>5. LinkPaths(db) \cap gone = {} /\ Sound(db)
  BY DEF Inv, DataInv, NoResurrection
<1>6. \/ UNCHANGED <<db, preserved>>
      \/ ~Refused(db, p) /\ db' \in {set, ready} /\ UNCHANGED preserved
      \/ db' = db /\ preserved' = preserved \cup {p}
  BY DEF IngestReadme
<1>7. CASE UNCHANGED <<db, preserved>>
  <2>1. Absorbs(db) /\ preserved' = preserved
    BY <1>5, <1>7, StaysReflexive DEF Absorbs
  <2>2. QED
    BY <1>1, <2>1, AbsorbKeeps
<1>8. CASE ~Refused(db, p) /\ db' \in {set, ready} /\ UNCHANGED preserved
  <2>1. /\ Sound(ready) /\ LinkPaths(ready) = LinkPaths(db) /\ Exists(ready, p.threat)
        /\ ThreatsStay(db.threats, ready.threats) /\ (Covered(db) => Covered(ready))
    BY <1>4, <1>5, <1>8, WithThreatKeeps
  <2> HIDE DEF ready
  <2>2. /\ Sound(set) /\ ThreatsStay(ready.threats, set.threats)
        /\ LinkPaths(set) = LinkPaths(ready) /\ (Covered(ready) => Covered(set))
    BY <1>4, <2>1, SetReadmeKeeps
  <2> HIDE DEF set
  <2>3. ThreatsStay(db.threats, set.threats)
    BY <2>1, <2>2 DEF ThreatsStay
  <2>4. Absorbs(db') /\ preserved' = preserved
    BY <1>5, <1>8, <2>1, <2>2, <2>3 DEF Absorbs, set, ready
  <2>5. QED
    BY <1>1, <2>4, AbsorbKeeps
<1>9. CASE db' = db /\ preserved' = preserved \cup {p}
  <2>1. Absorbs(db)
    BY <1>5, <1>9, StaysReflexive DEF Absorbs
  <2>2. QED
    BY <1>1, <1>4, <1>9, <2>1, AbsorbKeeps
<1>10. QED
  BY <1>6, <1>7, <1>8, <1>9

LEMMA EndIngestKeeps ==
    ASSUME Inv, EndIngest
    PROVE  Inv'
<1>1. /\ pc = "ingest" /\ pc' = "unlink"
      /\ todo' = (IF base.manifest = None THEN {} ELSE DOMAIN base.manifest) \ DOMAIN base.tree
      /\ UNCHANGED <<db, remote, deleting, gone, drifted, base, moved, preserved, rows, lost, out, stored>>
  BY DEF EndIngest, At, Others
<1>2. todo' \subseteq Paths
  BY <1>1, RunFacts
<1>3. TypeOK'
  BY <1>1, <1>2 DEF Inv, TypeOK, Phases
<1>4. DataInv' /\ ThreatsFit(rows)' /\ RowsFit'
  BY <1>1 DEF Inv, DataInv, NoResurrection, RowsFit
<1>5. RunFits' /\ GoneFits'
  BY <1>1, <1>2 DEF Inv, RunFits, GoneFits, Known, Manifest
<1>6. QED
  BY <1>3, <1>4, <1>5 DEF Inv

LEMMA UnlinkDeletedKeeps ==
    ASSUME Inv, UnlinkDeleted
    PROVE  Inv'
<1> DEFINE files == {q \in todo : ~IsReadme(q)}
           p == First(IF files # {} THEN files ELSE todo)
           linked == {l \in LinksOf(db, p.threat) : l.rel = p.rel}
<1>1. /\ pc = "unlink" /\ todo # {} /\ todo' = todo \ {p} /\ Stored
      /\ UNCHANGED <<Others, pc, base, moved, preserved, rows, lost, out>>
  BY DEF UnlinkDeleted, At
<1>2. todo \subseteq Paths
  BY <1>1 DEF Inv, RunFits
<1>3. p \in Paths /\ p.threat \in Names
  BY <1>1, <1>2, FirstIsLeft, InvFacts
<1>4. LinkPaths(db) \cap gone = {} /\ Sound(db)
  BY DEF Inv, DataInv, NoResurrection
<1>5. \/ db' = db
      \/ Exists(db, p.threat) /\ db' = SetReadme(db, p.threat, None)
      \/ \E l \in linked : db' = Unlink(db, l)
  BY DEF UnlinkDeleted
<1>6. CASE db' = db
  <2>1. Absorbs(db)
    BY <1>4, <1>6, StaysReflexive DEF Absorbs
  <2>2. QED
    BY <1>1, <2>1, AbsorbKeeps
<1>7. CASE Exists(db, p.threat) /\ db' = SetReadme(db, p.threat, None)
  <2>1. None \in Object \cup {None}
    OBVIOUS
  <2> DEFINE e == SetReadme(db, p.threat, None)
  <2>2. /\ Sound(e) /\ ThreatsStay(db.threats, e.threats) /\ LinkPaths(e) = LinkPaths(db)
        /\ (Covered(db) => Covered(e))
    BY <1>3, <1>4, <1>7, <2>1, SetReadmeKeeps
  <2>3. Absorbs(e)
    BY <1>4, <1>7, <2>2 DEF Absorbs
  <2>4. QED
    BY <1>1, <2>3, AbsorbKeeps
<1>8. CASE \E l \in linked : db' = Unlink(db, l)
  <2>1. PICK l \in db.links : db' = Unlink(db, l)
    BY <1>8 DEF LinksOf
  <2> DEFINE e == Unlink(db, l)
  <2>2. /\ Sound(e) /\ e.threats = db.threats /\ LinkPaths(e) \subseteq LinkPaths(db)
        /\ (Covered(db) => Covered(e))
    BY <1>4, UnlinkKeeps
  <2>3. db' = e
    BY <2>1
  <2> HIDE DEF e
  <2>4. Absorbs(e)
    BY <1>4, <2>2, <2>3, StaysReflexive DEF Absorbs
  <2>5. QED
    BY <1>1, <2>4, AbsorbKeeps
<1>9. QED
  BY <1>5, <1>6, <1>7, <1>8

LEMMA EndUnlinkKeeps ==
    ASSUME Inv, EndUnlink
    PROVE  Inv'
<1>1. /\ pc = "unlink" /\ pc' = "repair"
      /\ todo' = {l.object : l \in db.links} \ {Empty}
      /\ UNCHANGED <<db, remote, deleting, gone, drifted, base, moved, preserved, rows, lost, out, stored>>
  BY DEF EndUnlink, At, Others
<1>2. todo' \subseteq Contents
  BY <1>1, InvFacts DEF Database, Link, Object
<1>3. TypeOK'
  BY <1>1, <1>2 DEF Inv, TypeOK, Phases
<1>4. DataInv' /\ ThreatsFit(rows)' /\ RowsFit'
  BY <1>1 DEF Inv, DataInv, NoResurrection, RowsFit
<1>5. RunFits' /\ GoneFits'
  BY <1>1, <1>2 DEF Inv, RunFits, GoneFits, Known, Manifest
<1>6. QED
  BY <1>3, <1>4, <1>5 DEF Inv

LEMMA RepairMirrorKeeps ==
    ASSUME Inv, NEW o \in Contents, RepairMirror(o)
    PROVE  Inv'
<1> DEFINE e == [db EXCEPT
                  !.tags = @ \cup {<<o, r[1]>> : r \in LinksForObject(db, o)},
                  !.names = {t \in @ : t[1] # o} \cup {<<o, r[2]>> : r \in LinksForObject(db, o)}]
<1>1. LinkPaths(db) \cap gone = {} /\ Sound(db)
  BY DEF Inv, DataInv, NoResurrection
<1>2. /\ Sound(e) /\ e.threats = db.threats /\ e.links = db.links /\ (Covered(db) => Covered(e))
  BY <1>1, RepairKeeps
<1>3. /\ pc = "repair" /\ todo' = todo \ {o} /\ db' \in {db, e} /\ Stored
      /\ UNCHANGED <<Others, pc, base, moved, preserved, rows, lost, out>>
  BY DEF RepairMirror, At
<1> HIDE DEF e
<1>4. PICK d \in {db, e} : db' = d
  BY <1>3
<1>5. LinkPaths(d) \cap gone = {} /\ ThreatsStay(db.threats, d.threats)
  BY <1>1, <1>2, StaysReflexive DEF LinkPaths
<1>6. Absorbs(d)
  BY <1>1, <1>2, <1>4, <1>5 DEF Absorbs
<1>7. QED
  BY <1>3, <1>6, AbsorbKeeps

LEMMA BeginExportKeeps ==
    ASSUME Inv, BeginExport
    PROVE  Inv'
<1>1. /\ pc' = "export" /\ rows' = db.threats /\ todo' = {n \in Names : Exists(db, n)}
      /\ pc = "repair" /\ todo = {}
      /\ UNCHANGED <<db, remote, deleting, gone, drifted, base, moved, preserved, lost, out, stored>>
  BY DEF BeginExport, At, Others
<1>2. ThreatsFit(db.threats) /\ db.threats \in [Names -> Row \cup {None}]
  BY InvFacts DEF Sound, Database
<1>3. TypeOK'
  BY <1>1, <1>2 DEF Inv, TypeOK, Phases
<1>4. DataInv'
  BY <1>1 DEF Inv, DataInv, NoResurrection
<1>5. ThreatsFit(rows)'
  BY <1>1, <1>2
<1>6. RowsFit'
  BY <1>1 DEF RowsFit
<1>7. RunFits' /\ GoneFits'
  BY <1>1 DEF Inv, RunFits, GoneFits, Known, Manifest, Exists
<1>8. QED
  BY <1>3, <1>4, <1>5, <1>6, <1>7 DEF Inv

(* The export writes paths of the repository: the threats it has read have a place
   there, and so have the samples whatever became of the category since.           *)
LEMMA ExportOfIsTree ==
    ASSUME Inv, NEW n \in Names, rows[n] # None
    PROVE  ExportOf(rows[n], n, IF n \in lost THEN {} ELSE LinksOf(db, n)) \in Tree
<1> DEFINE r == rows[n]
           links == IF n \in lost THEN {} ELSE LinksOf(db, n)
           S == {PathOf(r, l) : l \in links}
           f == [p \in S |-> (CHOOSE l \in links : PathOf(r, l) = p).object]
           readme == PathOf(r, [threat |-> n, rel |-> Readme])
           R == IF r.flat \/ r.readme = None THEN {} ELSE {readme}
           g == [p \in R |-> r.readme]
<1>1. rows \in [Names -> Row \cup {None}] /\ r \in Row
  BY DEF Inv, TypeOK
<1>2. PICK s \in Paths : s.threat = n /\ s.category = r.category /\ s.flat = r.flat
  BY DEF Inv, ThreatsFit
<1>3. \A l \in links : l \in db.links /\ l.threat = n /\ l.object \in Object
  BY InvFacts DEF LinksOf, Database, Link
<1>4. \A l \in links : PathOf(r, l) \in Paths
  <2>1. SUFFICES ASSUME NEW l \in links PROVE PathOf(r, l) \in Paths
    OBVIOUS
  <2>2. l \in db.links /\ l.threat = n /\ n \notin lost
    BY <1>3
  <2> DEFINE q == PathOf(db.threats[n], l)
  <2>3. q \in Paths
    BY <2>2, InvFacts DEF Sound, LinksFit
  <2>4. q.threat = s.threat /\ q.rel = l.rel /\ q.flat = s.flat
    BY <1>2, <2>2 DEF PathOf, Inv, RowsFit
  <2> HIDE DEF q
  <2>5. [category |-> s.category, threat |-> q.threat, rel |-> q.rel, flat |-> s.flat] \in Paths
    BY <2>3, <2>4, Recategorized
  <2>6. PathOf(r, l) = [category |-> s.category, threat |-> q.threat, rel |-> q.rel, flat |-> s.flat]
    BY <1>2, <2>2, <2>4 DEF PathOf
  <2>7. QED
    BY <2>5, <2>6
<1>5. \A p \in S : (CHOOSE l \in links : PathOf(r, l) = p) \in links
  OBVIOUS
<1>6. f \in [S -> Object] /\ S \in SUBSET Paths
  BY <1>3, <1>4, <1>5
<1>7. g \in [R -> Object] /\ R \in SUBSET Paths
  <2>1. CASE r.flat \/ r.readme = None
    BY <2>1
  <2>2. CASE ~r.flat /\ r.readme # None
    <3>1. readme = [category |-> s.category, threat |-> s.threat, rel |-> Readme, flat |-> s.flat]
      BY <1>2 DEF PathOf
    <3>2. readme \in Paths
      BY <1>2, <2>2, <3>1, ReadmeIsPath
    <3>3. r.readme \in Object
      BY <1>1, <2>2 DEF Row
    <3> HIDE DEF r, readme
    <3>4. QED
      BY <2>2, <3>2, <3>3
  <2>3. QED
    BY <2>1, <2>2
<1>8. f \in Tree
  <2> HIDE DEF f, S
  <2>1. QED
    BY <1>6, TreeOf
<1>9. g \in Tree
  <2> HIDE DEF g, R
  <2>1. QED
    BY <1>7, TreeOf
<1>10. Write(f, g) \in Tree
  <2> HIDE DEF f, g
  <2>1. QED
    BY <1>8, <1>9, WriteKeeps
<1>11. QED
  BY <1>10 DEF ExportOf

LEMMA ExportThreatKeeps ==
    ASSUME Inv, NEW n \in Names, ExportThreat(n)
    PROVE  Inv'
<1> DEFINE files == ExportOf(rows[n], n, IF n \in lost THEN {} ELSE LinksOf(db, n))
<1>1. /\ pc = "export" /\ n \in todo /\ todo' = todo \ {n} /\ out' = Write(files, out)
      /\ UNCHANGED <<db, remote, deleting, gone, drifted, pc, base, moved, preserved, rows, lost, stored>>
  BY DEF ExportThreat, At, Others
<1>2. rows[n] # None
  BY <1>1 DEF Inv, RunFits
<1>3. files \in Tree /\ out \in Tree
  BY <1>2, ExportOfIsTree DEF Inv, TypeOK
<1> HIDE DEF files
<1>4. out' \in Tree
  BY <1>1, <1>3, WriteKeeps
<1>5. TypeOK'
  BY <1>1, <1>4 DEF Inv, TypeOK
<1>6. DataInv' /\ ThreatsFit(rows)' /\ RowsFit'
  BY <1>1 DEF Inv, DataInv, NoResurrection, RowsFit
<1>7. RunFits' /\ GoneFits'
  BY <1>1 DEF Inv, RunFits, GoneFits, Known, Manifest
<1>8. QED
  BY <1>5, <1>6, <1>7 DEF Inv

LEMMA EndExportKeeps ==
    ASSUME Inv, EndExport
    PROVE  Inv'
<1>1. /\ pc = "export" /\ todo = {} /\ pc' = "push"
      /\ UNCHANGED <<db, remote, deleting, gone, drifted, base, moved, todo, preserved, rows, lost, out, stored>>
  BY DEF EndExport, At, Others
<1>2. TypeOK'
  BY <1>1 DEF Inv, TypeOK, Phases
<1>3. DataInv' /\ ThreatsFit(rows)' /\ RowsFit'
  BY <1>1 DEF Inv, DataInv, NoResurrection, RowsFit
<1>4. RunFits' /\ GoneFits'
  BY <1>1 DEF Inv, RunFits, GoneFits, Known, Manifest
<1>5. QED
  BY <1>2, <1>3, <1>4 DEF Inv

(* When the run ends, what the remote has is all that stays of it. *)
LEMMA EndRunKeeps ==
    ASSUME Inv, EndRun, remote' \in Commit,
           \A p \in gone : (remote'.manifest # None /\ p \in DOMAIN remote'.manifest)
                             \/ p \notin DOMAIN remote'.tree,
           UNCHANGED <<db, deleting, gone, stored, drifted>>
    PROVE  Inv'
<1>1. /\ pc' = "idle" /\ base' = Nothing /\ moved' = FALSE /\ todo' = {}
      /\ preserved' = {} /\ rows' = NoRows /\ lost' = {} /\ out' = <<>>
  BY DEF EndRun
<1>2. NoRows \in [Names -> Row \cup {None}] /\ \A n \in Names : NoRows[n] = None
  BY DEF NoRows
<1>3. <<>> \in Tree /\ Nothing \in Commit
  BY NothingIsCommit DEF Nothing, Commit
<1>4. TypeOK'
  BY <1>1, <1>2, <1>3 DEF Inv, TypeOK, Phases
<1>5. DataInv'
  BY DEF Inv, DataInv, NoResurrection
<1>6. ThreatsFit(rows)' /\ RowsFit'
  BY <1>1, <1>2 DEF ThreatsFit, RowsFit
<1>7. RunFits'
  BY <1>1 DEF RunFits
<1>8. GoneFits'
  BY <1>1 DEF Inv, GoneFits, Manifest
<1>9. QED
  BY <1>4, <1>5, <1>6, <1>7, <1>8 DEF Inv

LEMMA CommitAndPushKeeps ==
    ASSUME Inv, CommitAndPush
    PROVE  Inv'
<1> DEFINE new == [tree |-> Restored(out), manifest |-> out, stamp |-> Stamp(out)]
           old == [p \in preserved |-> base.tree[p]]
<1>1. /\ pc = "push" /\ remote' \in {new, remote} /\ EndRun
      /\ UNCHANGED <<db, deleting, gone, stored, drifted>>
  BY DEF CommitAndPush, At
<1>2. /\ out \in Tree /\ out # None /\ preserved \subseteq Paths
      /\ base.stamp \in {0, 1} /\ remote \in Commit
  BY Constants DEF Inv, TypeOK, Commit
<1>3. \A p \in preserved : p \in DOMAIN base.tree /\ (IsReadme(p) \/ ~Known(p))
  BY DEF Inv, RunFits
<1>4. old \in [preserved -> Object] /\ DOMAIN old = preserved
  BY <1>3, RunFacts, TreeFacts
<1>5. old \in Tree
  <2> HIDE DEF old
  <2>1. QED
    BY <1>2, <1>4, TreeOf
<1>6. Restored(out) \in Tree /\ DOMAIN Restored(out) = DOMAIN out \cup preserved
  <2>1. Restored(out) = Write(out, old)
    BY DEF Restored
  <2> HIDE DEF old
  <2>2. QED
    BY <1>2, <1>4, <1>5, <2>1, WriteKeeps
<1>7. Stamp(out) \in {0, 1}
  BY <1>2 DEF Stamp
<1>8. new \in Commit
  BY <1>2, <1>6, <1>7 DEF Commit
<1>9. \A p \in gone : p \notin preserved
  BY <1>1, <1>3 DEF Inv, RunFits, GoneFits, Known, Manifest
<1>10. \A p \in gone : (remote'.manifest # None /\ p \in DOMAIN remote'.manifest)
                             \/ p \notin DOMAIN remote'.tree
  <2>1. CASE remote' = remote
    BY <2>1 DEF Inv, GoneFits, Manifest
  <2>2. CASE remote' = new
    BY <1>2, <1>6, <1>9, <2>2
  <2>3. QED
    BY <1>1, <2>1, <2>2
<1> HIDE DEF new
<1>11. remote' \in Commit
  BY <1>1, <1>2, <1>8
<1>12. QED
  BY <1>1, <1>10, <1>11, EndRunKeeps

LEMMA CrashKeeps ==
    ASSUME Inv, Crash
    PROVE  Inv'
<1>1. EndRun /\ UNCHANGED <<db, remote, deleting, gone, drifted, stored>>
  BY DEF Crash, Others
<1>2. remote' \in Commit
  BY <1>1, RunFacts
<1>3. \A p \in gone : (remote'.manifest # None /\ p \in DOMAIN remote'.manifest)
                             \/ p \notin DOMAIN remote'.tree
  BY <1>1 DEF Inv, GoneFits, Manifest
<1>4. QED
  BY <1>1, <1>2, <1>3, EndRunKeeps

-------------------------------------------------------------------------------
(* The theorems. *)
LEMMA InitInv == Init => Inv
<1> SUFFICES ASSUME Init PROVE Inv
  OBVIOUS
<1>1. NoRows \in [Names -> Row \cup {None}] /\ \A n \in Names : NoRows[n] = None
  BY DEF NoRows
<1>2. <<>> \in Tree /\ Nothing \in Commit
  BY NothingIsCommit DEF Nothing, Commit
<1>3. remote \in Commit
  BY Constants DEF Init, Commit
<1>4. db \in Database /\ db.links = {} /\ db.threats = NoRows
  BY <1>1 DEF Init, Database
<1>5. Sound(db) /\ Covered(db)
  BY <1>1, <1>4 DEF Sound, LinksFit, ThreatsFit, Covered
<1>6. TypeOK
  BY <1>1, <1>2, <1>3, <1>4 DEF Init, TypeOK, Phases, NoDelete
<1>7. DataInv
  BY <1>5 DEF Init, DataInv, NoResurrection
<1>8. ThreatsFit(rows) /\ RowsFit
  BY <1>1 DEF Init, ThreatsFit, RowsFit
<1>9. RunFits /\ GoneFits
  BY DEF Init, RunFits, GoneFits
<1>10. QED
  BY <1>6, <1>7, <1>8, <1>9 DEF Inv

LEMMA StutterKeeps ==
    ASSUME Inv, UNCHANGED vars
    PROVE  Inv'
<1>1. TypeOK'
  BY DEF vars, Inv, TypeOK
<1>2. DataInv' /\ ThreatsFit(rows)' /\ RowsFit'
  BY DEF vars, Inv, DataInv, NoResurrection, RowsFit
<1>3. RunFits' /\ GoneFits'
  BY DEF vars, Inv, RunFits, GoneFits, Known, Manifest
<1>4. QED
  BY <1>1, <1>2, <1>3 DEF Inv

LEMMA NextInv == Inv /\ [Next]_vars => Inv'
<1> SUFFICES ASSUME Inv, [Next]_vars PROVE Inv'
  OBVIOUS
<1>1. CASE SyncStep
  BY <1>1, PullKeeps, IngestSampleKeeps, IngestReadmeKeeps, EndIngestKeeps, UnlinkDeletedKeeps,
     EndUnlinkKeeps, RepairMirrorKeeps, BeginExportKeeps, ExportThreatKeeps, EndExportKeeps,
     CommitAndPushKeeps DEF SyncStep
<1>2. CASE RestStep
  <2>1. CASE \E l \in db.links : DeleteSample(l)
    <3>1. PICK l \in db.links : DeleteSample(l)
      BY <2>1
    <3>2. Written(Unlink(db, l)) /\ UNCHANGED <<remote, deleting, run, drifted>>
      BY <3>1 DEF DeleteSample
    <3>3. deleting' \in [threat : Names \cup {None}, left : SUBSET Rels]
      BY <3>2, InvFacts
    <3>4. QED
      BY <3>1, <3>2, <3>3, DeleteSampleKeeps
  <2>2. CASE ~(\E l \in db.links : DeleteSample(l))
    BY <1>2, <2>2, PostThreatKeeps, PutThreatKeeps, PostSampleKeeps, PostUploadKeeps,
       DeleteThreatKeeps, DeleteFileKeeps, DriftKeeps DEF RestStep
  <2>3. QED
    BY <2>1, <2>2
<1>3. CASE DeleteNext
  BY <1>3, EndDeleteKeeps, NextSampleKeeps DEF DeleteNext
<1>4. CASE HumanStep
  BY <1>4, CommitFileKeeps, CommitDeletionKeeps DEF HumanStep
<1>5. CASE Crash
  BY <1>5, CrashKeeps
<1>6. CASE UNCHANGED vars
  BY <1>6, StutterKeeps
<1>7. QED
  BY <1>1, <1>2, <1>3, <1>4, <1>5, <1>6 DEF Next

LEMMA Invariant == Spec => []Inv
<1>1. Init => Inv
  BY InitInv
<1>2. Inv /\ [Next]_vars => Inv'
  BY NextInv
<1>3. QED
  BY <1>1, <1>2, PTL DEF Spec

(* As long as nobody edits the tags and attributes by hand, a linked file has those of
   every threat it is linked to, whatever requests, ingests, deletions of threats step
   by step, repairs and crashes come between each other (service.py, apply_mirror and
   remove_mirror); and the state stays one of the types.                             *)
THEOREM MirrorKept == Spec => []MirrorSound
<1>1. Inv => MirrorSound
  BY DEF Inv, DataInv, Covered, MirrorSound, MirrorCovers
<1>2. QED
  BY <1>1, Invariant, PTL

(* A sample that was exported and then unlinked or deleted in MWDB is not linked again
   by any run of the sync, for any number of commits, requests and crashes: the
   manifest it ingests against is the one of the commit it pulled (ingest.py, runner.py). *)
THEOREM StaysDeleted == Spec => []NoResurrection
<1>1. Inv => NoResurrection
  BY DEF Inv, DataInv
<1>2. QED
  BY <1>1, Invariant, PTL

-------------------------------------------------------------------------------
(* The files that people commit. What MWDB holds and has linked it has held (DbHeld);
   a run answers for every path of the commit it pulled: it has read it, it still will,
   or it writes it back as it was.                                                   *)
DbHeld ==
    /\ db.files \subseteq stored
    /\ \A l \in db.links : l.object \in stored \cup {Empty}

HeldAt(tree, p) == IsReadme(p) \/ tree[p] \in stored \cup {Empty}

(* The paths of the manifest, and those of the export that becomes the next one. *)
ExportsHeld ==
    /\ \A p \in DOMAIN remote.tree : p \in Manifest => HeldAt(remote.tree, p)
    /\ \A p \in DOMAIN out : HeldAt(out, p)

PulledHeld ==
    pc # "idle" =>
        /\ ~moved => base = remote
        /\ \A p \in DOMAIN base.tree :
              /\ Known(p) => HeldAt(base.tree, p)
              /\ \/ pc = "ingest" /\ p \in todo
                 \/ p \in preserved
                 \/ HeldAt(base.tree, p)

HeldInv == DbHeld /\ ExportsHeld /\ PulledHeld

(* People bring no new content to a path of the manifest: the sync does not read those
   again, so a file that was deleted and committed anew under its old path is unknown
   to MWDB.                                                                          *)
NothingNew ==
    \A p \in Manifest, o \in Object :
        CommitFile(p, o) => IsReadme(p) \/ o \in stored \cup {Empty}

NothingNewAtKnownPaths == [][NothingNew]_vars

(* What the functions of the service do to files and links. *)
Rec(d) ==
    d = [threats |-> d.threats, links |-> d.links, files |-> d.files,
         tags |-> d.tags, names |-> d.names]

SameFiles(d, e) == Rec(e) /\ e.links = d.links /\ e.files = d.files
FewerFiles(d, e) == Rec(e) /\ e.links \subseteq d.links /\ e.files \subseteq d.files

LEMMA DatabaseIsRec ==
    ASSUME NEW d \in Database
    PROVE  Rec(d)
BY DEF Database, Rec

LEMMA CreateThreatFiles ==
    ASSUME NEW d, Rec(d), NEW n, NEW category, NEW readme, NEW flat
    PROVE  SameFiles(d, CreateThreat(d, n, category, readme, flat))
BY DEF Rec, SameFiles, CreateThreat

LEMMA WithThreatFiles ==
    ASSUME NEW d, Rec(d), NEW p
    PROVE  SameFiles(d, WithThreat(d, p))
BY CreateThreatFiles DEF SameFiles, WithThreat

LEMMA SetReadmeFiles ==
    ASSUME NEW d, Rec(d), NEW n, NEW readme
    PROVE  SameFiles(d, SetReadme(d, n, readme))
BY DEF Rec, SameFiles, SetReadme

LEMMA SetCategoryFiles ==
    ASSUME NEW d, Rec(d), NEW n, NEW category
    PROVE  SameFiles(d, SetCategory(d, n, category))
BY DEF Rec, SameFiles, SetCategory

LEMMA StoreFileFiles ==
    ASSUME NEW d, Rec(d), NEW o
    PROVE  LET e == StoreFile(d, o) IN
           /\ Rec(e) /\ e.links = d.links
           /\ e.files \subseteq d.files \cup {o}
           /\ o \in e.files \cup {Empty}
BY DEF Rec, StoreFile

LEMMA LinkSampleFiles ==
    ASSUME NEW d, Rec(d), NEW n, NEW rel, NEW o
    PROVE  LET e == LinkSample(d, n, rel, o) IN
           /\ Rec(e) /\ e.files = d.files
           /\ \A l \in e.links : l \in d.links \/ l.object = o
<1> DEFINE l == [threat |-> n, rel |-> rel, object |-> o]
           L == d.links \cup {l}
           f == [d EXCEPT !.links = L]
           c == d.threats[n].category
<1>1. CASE l \in d.links
  BY <1>1 DEF LinkSample
<1>2. CASE l \notin d.links
  <2>1. LinkSample(d, n, rel, o) = ApplyMirror(f, o, c, n)
    BY <1>2 DEF LinkSample
  <2>2. l.object = o
    OBVIOUS
  <2> HIDE DEF L, c, l
  <2>3. Rec(f) /\ f.files = d.files /\ f.links = L
    BY DEF Rec
  <2> HIDE DEF f
  <2>4. Rec(ApplyMirror(f, o, c, n)) /\ ApplyMirror(f, o, c, n).files = f.files
        /\ ApplyMirror(f, o, c, n).links = f.links
    BY <2>3 DEF Rec, ApplyMirror
  <2>5. QED
    BY <2>1, <2>2, <2>3, <2>4 DEF L
<1>3. QED
  BY <1>1, <1>2

LEMMA UnlinkFiles ==
    ASSUME NEW d, Rec(d), NEW l
    PROVE  FewerFiles(d, Unlink(d, l))
<1> DEFINE c == d.threats[l.threat].category
           L == d.links \ {l}
           cut == [d EXCEPT !.links = L]
           T == IF \E r \in LinksForObject(cut, l.object) : r[1] = c THEN d.tags
                ELSE d.tags \ {<<l.object, c>>}
           N == IF \E r \in LinksForObject(cut, l.object) : r[2] = l.threat THEN d.names
                ELSE d.names \ {<<l.object, l.threat>>}
<1>1. Unlink(d, l) = RemoveMirror(cut, l.object, c, l.threat)
  BY DEF Unlink
<1>2. Rec(cut) /\ cut.files = d.files /\ cut.links = L /\ cut.tags = d.tags /\ cut.names = d.names
  BY DEF Rec
<1> HIDE DEF cut
<1>3. Unlink(d, l) = [cut EXCEPT !.tags = T, !.names = N]
  BY <1>1, <1>2 DEF RemoveMirror
<1> HIDE DEF T, N
<1>4. QED
  BY <1>2, <1>3 DEF Rec, FewerFiles

LEMMA DropFileFiles ==
    ASSUME NEW d, Rec(d), NEW o
    PROVE  FewerFiles(d, DropFile(d, o))
<1> DEFINE F == d.files \ {o}
           L == {l \in d.links : l.object # o}
           T == {t \in d.tags : t[1] # o}
           N == {t \in d.names : t[1] # o}
<1>1. DropFile(d, o) = [d EXCEPT !.files = F, !.links = L, !.tags = T, !.names = N]
  BY DEF DropFile
<1>2. L \subseteq d.links /\ F \subseteq d.files
  OBVIOUS
<1> HIDE DEF F, L, T, N
<1>3. QED
  BY <1>1, <1>2 DEF Rec, FewerFiles

(* What MWDB has held it holds for good, and nothing is linked that it has not held. *)
Holds ==
    /\ stored \subseteq stored' /\ db'.files \subseteq stored'
    /\ \A l \in db'.links : l \in db.links \/ l.object \in stored' \cup {Empty}

LEMMA HoldsKeeps ==
    ASSUME DbHeld, Holds
    PROVE  /\ DbHeld'
           /\ \A tree, p : HeldAt(tree, p) =>
                 IsReadme(p) \/ tree[p] \in stored' \cup {Empty}
BY DEF DbHeld, Holds, HeldAt

(* A request leaves the repository and the run alone. *)
LEMMA WrittenHolds ==
    ASSUME DbHeld, NEW d, Written(d),
           \A l \in d.links : l \in db.links \/ l.object \in d.files \cup stored \cup {Empty}
    PROVE  Holds
BY DEF DbHeld, Written, Holds

LEMMA FewerHolds ==
    ASSUME DbHeld, NEW d, Written(d), FewerFiles(db, d)
    PROVE  Holds
BY WrittenHolds DEF FewerFiles

LEMMA SameHolds ==
    ASSUME DbHeld, NEW d, Written(d), SameFiles(db, d)
    PROVE  Holds
BY FewerHolds DEF FewerFiles, SameFiles

LEMMA AsideKeeps ==
    ASSUME HeldInv, Holds, UNCHANGED <<remote, pc, base, moved, todo, preserved, out>>
    PROVE  HeldInv'
<1>1. DbHeld'
  BY HoldsKeeps DEF HeldInv
<1>2. ExportsHeld'
  BY HoldsKeeps DEF HeldInv, ExportsHeld, HeldAt, Manifest
<1>3. PulledHeld'
  BY HoldsKeeps DEF HeldInv, PulledHeld, HeldAt, Known
<1>4. QED
  BY <1>1, <1>2, <1>3 DEF HeldInv

LEMMA RestHolds ==
    ASSUME Inv, HeldInv, RestStep
    PROVE  Holds /\ UNCHANGED <<remote, run>>
<1>1. DbHeld /\ Rec(db)
  BY InvFacts, DatabaseIsRec DEF HeldInv
<1>2. ASSUME NEW n, NEW category, NEW readme, PostThreat(n, category, readme)
      PROVE  Holds /\ UNCHANGED <<remote, run>>
  <2> DEFINE d == CreateThreat(db, n, category, readme, FALSE)
  <2>1. SameFiles(db, d)
    BY <1>1, CreateThreatFiles
  <2>2. Written(d) /\ UNCHANGED <<remote, run>>
    BY <1>2 DEF PostThreat
  <2> HIDE DEF d
  <2>3. QED
    BY <1>1, <2>1, <2>2, SameHolds
<1>3. ASSUME NEW n, NEW category, NEW readme, PutThreat(n, category, readme)
      PROVE  Holds /\ UNCHANGED <<remote, run>>
  <2> DEFINE c == SetCategory(db, n, category)
             d == SetReadme(c, n, readme)
  <2>1. SameFiles(db, c)
    BY <1>1, SetCategoryFiles
  <2>2. Written(d) /\ UNCHANGED <<remote, run>>
    BY <1>3 DEF PutThreat
  <2> HIDE DEF c
  <2>3. SameFiles(c, d)
    BY <2>1, SetReadmeFiles DEF SameFiles
  <2> HIDE DEF d
  <2>4. SameFiles(db, d)
    BY <2>1, <2>3 DEF SameFiles
  <2>5. QED
    BY <1>1, <2>2, <2>4, SameHolds
<1>4. ASSUME NEW n, NEW rel, NEW o, PostSample(n, rel, o)
      PROVE  Holds /\ UNCHANGED <<remote, run>>
  <2> DEFINE d == LinkSample(db, n, rel, o)
  <2>1. Written(d) /\ o \in db.files /\ UNCHANGED <<remote, run>>
    BY <1>4 DEF PostSample
  <2>2. \A l \in d.links : l \in db.links \/ l.object = o
    BY <1>1, LinkSampleFiles
  <2> HIDE DEF d
  <2>3. \A l \in d.links : l \in db.links \/ l.object \in d.files \cup stored \cup {Empty}
    BY <1>1, <2>1, <2>2 DEF DbHeld
  <2>4. QED
    BY <1>1, <2>1, <2>3, WrittenHolds
<1>5. ASSUME NEW n, NEW category, NEW rel, NEW o, PostUpload(n, category, None, rel, o)
      PROVE  Holds /\ UNCHANGED <<remote, run>>
  <2> DEFINE made == IF ~Exists(db, n) THEN CreateThreat(db, n, category, None, FALSE) ELSE db
             kept == StoreFile(made, o)
             linked == LinkSample(kept, n, rel, o)
             alone == StoreFile(db, o)
  <2>1. PICK d \in {linked, alone} : Written(d) /\ UNCHANGED <<remote, run>>
    BY <1>5 DEF PostUpload
  <2>2. SameFiles(db, made)
    <3>1. CASE Exists(db, n)
      BY <1>1, <3>1 DEF SameFiles
    <3>2. CASE ~Exists(db, n)
      <4>1. SameFiles(db, CreateThreat(db, n, category, None, FALSE))
        BY <1>1, CreateThreatFiles
      <4>2. QED
        BY <3>2, <4>1
    <3>3. QED
      BY <3>1, <3>2
  <2> HIDE DEF made
  <2>3. Rec(kept) /\ kept.links = made.links /\ o \in kept.files \cup {Empty}
    BY <2>2, StoreFileFiles DEF SameFiles
  <2> HIDE DEF kept
  <2>4. linked.files = kept.files /\ \A l \in linked.links : l \in kept.links \/ l.object = o
    BY <2>3, LinkSampleFiles
  <2>5. alone.links = db.links
    BY <1>1, StoreFileFiles
  <2> HIDE DEF linked, alone
  <2>6. \A l \in d.links : l \in db.links \/ l.object \in d.files \cup stored \cup {Empty}
    <3>1. CASE d = linked
      BY <2>2, <2>3, <2>4, <3>1 DEF SameFiles
    <3>2. CASE d = alone
      BY <2>5, <3>2
    <3>3. QED
      BY <3>1, <3>2
  <2>7. QED
    BY <1>1, <2>1, <2>6, WrittenHolds
<1>6. ASSUME NEW l, DeleteSample(l)
      PROVE  Holds /\ UNCHANGED <<remote, run>>
  <2> DEFINE d == Unlink(db, l)
  <2>1. FewerFiles(db, d)
    BY <1>1, UnlinkFiles
  <2>2. Written(d) /\ UNCHANGED <<remote, run>>
    BY <1>6 DEF DeleteSample
  <2> HIDE DEF d
  <2>3. QED
    BY <1>1, <2>1, <2>2, FewerHolds
<1>7. ASSUME NEW n, DeleteThreat(n)
      PROVE  Holds /\ UNCHANGED <<remote, run>>
  BY <1>1, <1>7 DEF DeleteThreat, Holds, DbHeld
<1>8. ASSUME NEW o, DeleteFile(o)
      PROVE  Holds /\ UNCHANGED <<remote, run>>
  <2> DEFINE d == DropFile(db, o)
  <2>1. FewerFiles(db, d)
    BY <1>1, DropFileFiles
  <2>2. Written(d) /\ UNCHANGED <<remote, run>>
    BY <1>8 DEF DeleteFile
  <2> HIDE DEF d
  <2>3. QED
    BY <1>1, <2>1, <2>2, FewerHolds
<1>9. ASSUME NEW o, NEW n, Drift(o, n)
      PROVE  Holds /\ UNCHANGED <<remote, run>>
  <2>1. stored' = stored /\ UNCHANGED <<remote, run>>
    BY <1>9 DEF Drift
  <2>2. db'.files = db.files /\ db'.links = db.links
    <3>1. PICK T, N : db' = [db EXCEPT !.tags = T, !.names = N]
      <4>1. CASE db' = [db EXCEPT !.tags = {t \in @ : t[1] # o}, !.names = @ \ {<<o, n>>}]
        BY <4>1
      <4>2. CASE db' = [db EXCEPT !.names = @ \cup {<<o, n>>}]
        <5>1. db' = [db EXCEPT !.tags = db.tags, !.names = db.names \cup {<<o, n>>}]
          BY <1>1, <4>2 DEF Rec
        <5>2. QED
          BY <5>1
      <4>3. QED
        BY <1>9, <4>1, <4>2 DEF Drift
    <3>2. QED
      BY <1>1, <3>1 DEF Rec
  <2>3. QED
    BY <1>1, <2>1, <2>2 DEF Holds, DbHeld
<1>10. QED
  BY <1>2, <1>3, <1>4, <1>5, <1>6, <1>7, <1>8, <1>9 DEF RestStep

LEMMA DeleteHolds ==
    ASSUME Inv, HeldInv, DeleteNext
    PROVE  Holds /\ UNCHANGED <<remote, pc, base, moved, todo, preserved, out>>
<1>1. DbHeld /\ Rec(db)
  BY InvFacts, DatabaseIsRec DEF HeldInv
<1>2. CASE EndDelete
  <2> DEFINE n == deleting.threat
             d == [db EXCEPT !.threats[n] = None, !.links = @ \ LinksOf(db, n)]
  <2>1. FewerFiles(db, d)
    <3> DEFINE X == [db.threats EXCEPT ![n] = None]
               L == db.links \ LinksOf(db, n)
    <3>1. d = [db EXCEPT !.threats = X, !.links = L]
      OBVIOUS
    <3> HIDE DEF d, X
    <3>2. QED
      BY <1>1, <3>1 DEF Rec, FewerFiles
  <2>2. Written(d) /\ UNCHANGED <<remote, pc, base, moved, todo, preserved, out>>
    BY <1>2 DEF EndDelete
  <2> HIDE DEF d
  <2>3. QED
    BY <1>1, <2>1, <2>2, FewerHolds
<1>3. ASSUME NEW rel, DeleteNextSample(rel)
      PROVE  Holds /\ UNCHANGED <<remote, pc, base, moved, todo, preserved, out>>
  <2>1. UNCHANGED <<remote, pc, base, moved, todo, preserved, out>>
    BY <1>3 DEF DeleteNextSample, run
  <2>2. PICK d : Written(d) /\ (d = db \/ \E l : d = Unlink(db, l))
    BY <1>3 DEF DeleteNextSample
  <2>3. FewerFiles(db, d)
    BY <1>1, <2>2, UnlinkFiles DEF FewerFiles
  <2>4. QED
    BY <1>1, <2>1, <2>2, <2>3, FewerHolds
<1>4. QED
  BY <1>2, <1>3 DEF DeleteNext

(* The steps of the run. What was to be read still is: *)
StaysToRead(p) == (pc = "ingest" /\ p \in todo) => (pc' = "ingest" /\ p \in todo')

LEMMA RunKeeps ==
    ASSUME HeldInv, Holds, pc # "idle", UNCHANGED <<remote, base, moved>>,
           preserved \subseteq preserved',
           \A p \in DOMAIN base.tree :
              \/ StaysToRead(p) \/ p \in preserved'
              \/ IsReadme(p) \/ base.tree[p] \in stored' \cup {Empty},
           \A p \in DOMAIN out' : IsReadme(p) \/ out'[p] \in stored' \cup {Empty}
    PROVE  HeldInv'
<1>1. DbHeld'
  BY HoldsKeeps DEF HeldInv
<1>2. ExportsHeld'
  BY HoldsKeeps DEF HeldInv, ExportsHeld, HeldAt, Manifest
<1>3. PulledHeld'
  BY HoldsKeeps DEF HeldInv, PulledHeld, HeldAt, Known, StaysToRead
<1>4. QED
  BY <1>1, <1>2, <1>3 DEF HeldInv

LEMMA OutStaysHeld ==
    ASSUME HeldInv, Holds, out' = out
    PROVE  \A p \in DOMAIN out' : IsReadme(p) \/ out'[p] \in stored' \cup {Empty}
BY HoldsKeeps DEF HeldInv, ExportsHeld, HeldAt

(* A step of the run that links nothing but what is stored. *)
LEMMA StoredHolds ==
    ASSUME DbHeld, Stored,
           \A l \in db'.links : l \in db.links \/ l.object \in db'.files \cup {Empty}
    PROVE  Holds
BY DEF DbHeld, Stored, Holds

LEMMA PullHeld ==
    ASSUME HeldInv, Pull
    PROVE  HeldInv'
<1>1. /\ pc' = "ingest" /\ base' = remote /\ moved' = FALSE /\ todo' = DOMAIN remote.tree
      /\ UNCHANGED <<db, remote, out, stored>>
  BY DEF Pull, Others
<1>2. DbHeld' /\ ExportsHeld'
  BY <1>1 DEF HeldInv, DbHeld, ExportsHeld, HeldAt, Manifest
<1>3. PulledHeld'
  BY <1>1 DEF HeldInv, ExportsHeld, PulledHeld, HeldAt, Known, Manifest
<1>4. QED
  BY <1>2, <1>3 DEF HeldInv

(* What the run reads it stores, or it preserves the path. *)
LEMMA IngestSampleHeld ==
    ASSUME Inv, HeldInv, IngestSample
    PROVE  HeldInv'
<1> DEFINE p == First(todo)
           o == base.tree[p]
           kept == StoreFile(db, o)
           ready == WithThreat(kept, p)
           linked == LinkSample(ready, p.threat, p.rel, o)
<1>1. /\ pc = "ingest" /\ todo' = todo \ {p} /\ Stored
      /\ UNCHANGED <<remote, pc, base, moved, out>>
  BY DEF IngestSample, At, Others
<1>2. DbHeld /\ Rec(db)
  BY InvFacts, DatabaseIsRec DEF HeldInv
<1>3. Rec(kept) /\ kept.links = db.links /\ o \in kept.files \cup {Empty}
  BY <1>2, StoreFileFiles
<1>4. \/ Known(p) /\ UNCHANGED <<db, preserved>>
      \/ db' = linked /\ UNCHANGED preserved
      \/ db' \in {db, kept} /\ preserved' = preserved \cup {p}
  BY DEF IngestSample
<1> HIDE DEF kept
<1>5. SameFiles(kept, ready)
  BY <1>3, WithThreatFiles
<1> HIDE DEF ready
<1>6. linked.files = kept.files /\ \A l \in linked.links : l \in db.links \/ l.object = o
  BY <1>3, <1>5, LinkSampleFiles DEF SameFiles
<1> HIDE DEF linked
<1>7. Holds
  <2>1. \A l \in db'.links : l \in db.links \/ l.object \in db'.files \cup {Empty}
    BY <1>3, <1>4, <1>6
  <2>2. QED
    BY <1>1, <1>2, <2>1, StoredHolds
<1>8. p \in DOMAIN base.tree =>
         p \in preserved' \/ IsReadme(p) \/ base.tree[p] \in stored' \cup {Empty}
  <2>1. CASE Known(p)
    BY <1>1, <1>7, <2>1, HoldsKeeps DEF HeldInv, PulledHeld
  <2>2. CASE db' = linked
    BY <1>1, <1>3, <1>6, <2>2 DEF Stored
  <2>3. CASE p \in preserved'
    BY <2>3
  <2>4. QED
    BY <1>4, <2>1, <2>2, <2>3
<1> HIDE DEF p, o
<1>9. \A q \in DOMAIN base.tree :
         \/ StaysToRead(q) \/ q \in preserved'
         \/ IsReadme(q) \/ base.tree[q] \in stored' \cup {Empty}
  BY <1>1, <1>8 DEF StaysToRead
<1>10. preserved \subseteq preserved' /\ pc # "idle"
  BY <1>1, <1>4
<1>11. \A q \in DOMAIN out' : IsReadme(q) \/ out'[q] \in stored' \cup {Empty}
  BY <1>1, <1>7, OutStaysHeld
<1>12. QED
  BY <1>1, <1>7, <1>9, <1>10, <1>11, RunKeeps

LEMMA IngestReadmeHeld ==
    ASSUME Inv, HeldInv, IngestReadme
    PROVE  HeldInv'
<1> DEFINE p == First(todo)
           ready == WithThreat(db, p)
           set == SetReadme(ready, p.threat, base.tree[p])
<1>1. /\ pc = "ingest" /\ IsReadme(p) /\ todo' = todo \ {p} /\ Stored
      /\ db' \in {db, ready, set} /\ preserved \subseteq preserved'
      /\ UNCHANGED <<remote, pc, base, moved, out>>
  BY DEF IngestReadme, At, Others
<1>2. DbHeld /\ Rec(db)
  BY InvFacts, DatabaseIsRec DEF HeldInv
<1>3. SameFiles(db, ready)
  BY <1>2, WithThreatFiles
<1> HIDE DEF ready
<1>4. SameFiles(ready, set)
  BY <1>3, SetReadmeFiles DEF SameFiles
<1> HIDE DEF set
<1>5. db'.links = db.links
  BY <1>1, <1>3, <1>4 DEF SameFiles
<1>6. Holds
  BY <1>1, <1>2, <1>5, StoredHolds
<1> HIDE DEF p
<1>7. \A q \in DOMAIN base.tree :
         \/ StaysToRead(q) \/ q \in preserved'
         \/ IsReadme(q) \/ base.tree[q] \in stored' \cup {Empty}
  BY <1>1 DEF StaysToRead
<1>8. \A q \in DOMAIN out' : IsReadme(q) \/ out'[q] \in stored' \cup {Empty}
  BY <1>1, <1>6, OutStaysHeld
<1>9. pc # "idle"
  BY <1>1
<1>10. QED
  BY <1>1, <1>6, <1>7, <1>8, <1>9, RunKeeps

(* Nothing is left to read when the ingest ends, and later steps read nothing. *)
LEMMA LaterHeld ==
    ASSUME HeldInv, Holds, UNCHANGED <<remote, base, moved, preserved, out>>,
           pc # "idle", pc = "ingest" => todo = {}
    PROVE  HeldInv'
<1>1. \A q \in DOMAIN base.tree : StaysToRead(q)
  BY DEF StaysToRead
<1>2. \A q \in DOMAIN out' : IsReadme(q) \/ out'[q] \in stored' \cup {Empty}
  BY OutStaysHeld
<1>3. QED
  BY <1>1, <1>2, RunKeeps

LEMMA UnlinkDeletedHeld ==
    ASSUME Inv, HeldInv, UnlinkDeleted
    PROVE  HeldInv'
<1>1. DbHeld /\ Rec(db)
  BY InvFacts, DatabaseIsRec DEF HeldInv
<1>2. /\ pc = "unlink" /\ Stored
      /\ UNCHANGED <<remote, pc, base, moved, preserved, out>>
  BY DEF UnlinkDeleted, At, Others
<1>3. \/ db' = db
      \/ \E n : db' = SetReadme(db, n, None)
      \/ \E l : db' = Unlink(db, l)
  BY DEF UnlinkDeleted
<1>4. FewerFiles(db, db')
  <2>1. CASE db' = db
    BY <1>1, <2>1 DEF FewerFiles
  <2>2. ASSUME NEW n, db' = SetReadme(db, n, None)
        PROVE  FewerFiles(db, db')
    <3>1. SameFiles(db, db')
      BY <1>1, <2>2, SetReadmeFiles
    <3>2. QED
      BY <3>1 DEF FewerFiles, SameFiles
  <2>3. ASSUME NEW l, db' = Unlink(db, l)
        PROVE  FewerFiles(db, db')
    BY <1>1, <2>3, UnlinkFiles
  <2>4. QED
    BY <1>3, <2>1, <2>2, <2>3
<1>5. Holds
  BY <1>1, <1>2, <1>4, StoredHolds DEF FewerFiles
<1>6. QED
  BY <1>2, <1>5, LaterHeld

LEMMA RepairMirrorHeld ==
    ASSUME Inv, HeldInv, NEW o, RepairMirror(o)
    PROVE  HeldInv'
<1> DEFINE T == db.tags \cup {<<o, r[1]>> : r \in LinksForObject(db, o)}
           N == {t \in db.names : t[1] # o} \cup {<<o, r[2]>> : r \in LinksForObject(db, o)}
<1>1. DbHeld /\ Rec(db)
  BY InvFacts, DatabaseIsRec DEF HeldInv
<1>2. /\ pc = "repair" /\ Stored /\ db' \in {db, [db EXCEPT !.tags = T, !.names = N]}
      /\ UNCHANGED <<remote, pc, base, moved, preserved, out>>
  BY DEF RepairMirror, At, Others
<1> HIDE DEF T, N
<1>3. db'.links = db.links
  BY <1>1, <1>2 DEF Rec
<1>4. Holds
  BY <1>1, <1>2, <1>3, StoredHolds
<1>5. QED
  BY <1>2, <1>4, LaterHeld

(* The ends of the phases. *)
LEMMA EndsHeld ==
    ASSUME HeldInv, EndIngest \/ EndUnlink \/ BeginExport \/ EndExport
    PROVE  HeldInv'
<1>1. /\ UNCHANGED <<db, stored, remote, base, moved, preserved, out>>
      /\ pc # "idle"
      /\ pc = "ingest" => todo = {}
  BY DEF EndIngest, EndUnlink, BeginExport, EndExport, At, Others
<1>2. Holds
  BY <1>1 DEF HeldInv, DbHeld, Holds
<1>3. QED
  BY <1>1, <1>2, LaterHeld

LEMMA ExportThreatHeld ==
    ASSUME HeldInv, NEW n, ExportThreat(n)
    PROVE  HeldInv'
<1> DEFINE r == rows[n]
           links == IF n \in lost THEN {} ELSE LinksOf(db, n)
           S == {PathOf(r, l) : l \in links}
           f == [p \in S |-> (CHOOSE l \in links : PathOf(r, l) = p).object]
           R == IF r.flat \/ r.readme = None THEN {}
                ELSE {PathOf(r, [threat |-> n, rel |-> Readme])}
           g == [p \in R |-> r.readme]
<1>1. /\ pc = "export" /\ out' = Write(Write(f, g), out)
      /\ UNCHANGED <<db, stored, remote, pc, base, moved, preserved>>
  BY DEF ExportThreat, ExportOf, At, Others
<1>2. Holds /\ pc # "idle"
  BY <1>1 DEF HeldInv, DbHeld, Holds
<1>3. \A p \in DOMAIN f : f[p] \in stored \cup {Empty}
  <2>1. SUFFICES ASSUME NEW p \in S PROVE f[p] \in stored \cup {Empty}
    OBVIOUS
  <2>2. (CHOOSE l \in links : PathOf(r, l) = p) \in links
    OBVIOUS
  <2>3. \A l \in links : l.object \in stored \cup {Empty}
    BY DEF HeldInv, DbHeld, LinksOf
  <2>4. QED
    BY <2>1, <2>2, <2>3
<1>4. \A p \in DOMAIN g : IsReadme(p)
  BY DEF IsReadme, PathOf
<1> HIDE DEF f, g
<1>5. \A p \in DOMAIN out' : IsReadme(p) \/ out'[p] \in stored' \cup {Empty}
  BY <1>1, <1>3, <1>4 DEF Write, HeldInv, ExportsHeld, HeldAt
<1>6. \A q \in DOMAIN base.tree : StaysToRead(q)
  BY <1>1 DEF StaysToRead
<1>7. QED
  BY <1>1, <1>2, <1>5, <1>6, RunKeeps

(* What the run takes out of the repository it has read in the commit it pulled. *)
LEMMA TakesOnlyHeld ==
    ASSUME HeldInv, CommitAndPush
    PROVE  \A p \in DOMAIN remote.tree \ DOMAIN remote'.tree :
              IsReadme(p) \/ remote.tree[p] \in stored \cup {Empty}
<1> DEFINE old == [p \in preserved |-> base.tree[p]]
<1>1. \/ remote' = remote
      \/ ~moved /\ remote'.tree = Write(out, old)
  BY DEF CommitAndPush, Restored
<1>2. DOMAIN Write(out, old) = DOMAIN out \cup preserved
  BY DEF Write
<1> HIDE DEF old
<1>3. pc = "push"
  BY DEF CommitAndPush, At
<1>4. QED
  BY <1>1, <1>2, <1>3 DEF HeldInv, PulledHeld, HeldAt

LEMMA EndRunHeld ==
    ASSUME HeldInv, EndRun, UNCHANGED <<db, stored>>,
           remote' = remote
              \/ \E tree, stamp :
                    remote' = [tree |-> Write(out, tree), manifest |-> out, stamp |-> stamp]
    PROVE  HeldInv'
<1>1. DbHeld'
  BY DEF HeldInv, DbHeld
<1>2. pc' = "idle" /\ out' = <<>>
  BY DEF EndRun
<1>3. PulledHeld'
  BY <1>2 DEF PulledHeld
<1>4. (\A p \in DOMAIN out : HeldAt(out, p))'
  BY <1>2
<1>5. (\A p \in DOMAIN remote.tree : p \in Manifest => HeldAt(remote.tree, p))'
  <2>1. CASE remote' = remote
    BY <2>1 DEF HeldInv, ExportsHeld, HeldAt, Manifest
  <2>2. ASSUME NEW tree, NEW stamp,
               remote' = [tree |-> Write(out, tree), manifest |-> out, stamp |-> stamp]
        PROVE  (\A p \in DOMAIN remote.tree : p \in Manifest => HeldAt(remote.tree, p))'
    <3>1. remote'.tree = Write(out, tree) /\ Manifest' \subseteq DOMAIN out
      BY <2>2 DEF Manifest
    <3>2. \A p \in DOMAIN out : Write(out, tree)[p] = out[p]
      BY DEF Write
    <3>3. QED
      BY <3>1, <3>2 DEF HeldInv, ExportsHeld, HeldAt
  <2>3. QED
    BY <2>1, <2>2
<1>6. QED
  BY <1>1, <1>3, <1>4, <1>5 DEF HeldInv, ExportsHeld

LEMMA CommitAndPushHeld ==
    ASSUME HeldInv, CommitAndPush
    PROVE  HeldInv'
<1>1. EndRun /\ UNCHANGED <<db, stored>>
  BY DEF CommitAndPush
<1>2. remote' = remote
         \/ remote' = [tree |-> Write(out, [p \in preserved |-> base.tree[p]]),
                       manifest |-> out, stamp |-> Stamp(out)]
  BY DEF CommitAndPush, Restored
<1>3. QED
  BY <1>1, <1>2, EndRunHeld

LEMMA CrashHeld ==
    ASSUME HeldInv, Crash
    PROVE  HeldInv'
<1>1. EndRun /\ UNCHANGED <<db, stored>> /\ remote' = remote
  BY DEF Crash, Others
<1>2. QED
  BY <1>1, EndRunHeld

(* People bring to the paths of the manifest only what MWDB has held. *)
LEMMA PushHeld ==
    ASSUME Inv, HeldInv, NEW tree, Push(tree),
           \A p \in DOMAIN tree : p \in Manifest => HeldAt(tree, p)
    PROVE  HeldInv'
<1>1. /\ remote' = [remote EXCEPT !.tree = tree] /\ moved' = (pc # "idle")
      /\ UNCHANGED <<db, pc, base, todo, preserved, out, stored>>
  BY DEF Push
<1>2. remote'.tree = tree /\ remote'.manifest = remote.manifest
  BY <1>1, RunFacts DEF Commit
<1>3. DbHeld' /\ ExportsHeld'
  BY <1>1, <1>2 DEF HeldInv, DbHeld, ExportsHeld, HeldAt, Manifest
<1>4. PulledHeld'
  BY <1>1 DEF HeldInv, PulledHeld, HeldAt, Known
<1>5. QED
  BY <1>3, <1>4 DEF HeldInv

LEMMA HumanHeld ==
    ASSUME Inv, HeldInv, HumanStep, NothingNew
    PROVE  HeldInv'
<1>1. ASSUME NEW p \in Paths, NEW o \in Object, CommitFile(p, o)
      PROVE  HeldInv'
  <2> DEFINE f == [q \in {p} |-> o]
             tree == Write(f, remote.tree)
  <2>1. Push(tree)
    BY <1>1 DEF CommitFile
  <2>2. p \in Manifest => IsReadme(p) \/ o \in stored \cup {Empty}
    BY <1>1 DEF NothingNew
  <2>3. \A q \in DOMAIN tree : q \in Manifest => HeldAt(tree, q)
    BY <2>2 DEF Write, HeldInv, ExportsHeld, HeldAt
  <2> HIDE DEF tree
  <2>4. QED
    BY <2>1, <2>3, PushHeld
<1>2. ASSUME NEW p, CommitDeletion(p)
      PROVE  HeldInv'
  <2> DEFINE tree == [q \in DOMAIN remote.tree \ {p} |-> remote.tree[q]]
  <2>1. Push(tree)
    BY <1>2 DEF CommitDeletion
  <2>2. \A q \in DOMAIN tree : q \in Manifest => HeldAt(tree, q)
    BY DEF HeldInv, ExportsHeld, HeldAt
  <2> HIDE DEF tree
  <2>3. QED
    BY <2>1, <2>2, PushHeld
<1>3. QED
  BY <1>1, <1>2 DEF HumanStep

LEMMA InitHeld == Init => HeldInv
<1> SUFFICES ASSUME Init PROVE HeldInv
  OBVIOUS
<1>1. DbHeld /\ PulledHeld
  BY DEF Init, DbHeld, PulledHeld
<1>2. Manifest = {} /\ DOMAIN out = {}
  BY DEF Init, Manifest
<1>3. QED
  BY <1>1, <1>2 DEF HeldInv, ExportsHeld

(* Only the run's last step takes files out of the repository. *)
FilesStep ==
    At("push") /\ pc' = "idle" =>
        \A p \in DOMAIN remote.tree \ DOMAIN remote'.tree :
            IsReadme(p) \/ remote.tree[p] \in stored \cup {Empty}

LEMMA HeldStep ==
    ASSUME Inv, HeldInv, [Next]_vars, [NothingNew]_vars
    PROVE  HeldInv' /\ FilesStep
<1>1. CASE SyncStep
  <2>1. CASE CommitAndPush
    BY <2>1, CommitAndPushHeld, TakesOnlyHeld DEF FilesStep
  <2>2. CASE ~CommitAndPush
    <3>1. remote' = remote
      BY <1>1, <2>2 DEF SyncStep, Pull, IngestSample, IngestReadme, EndIngest, UnlinkDeleted,
         EndUnlink, RepairMirror, BeginExport, ExportThreat, EndExport, Others
    <3>2. HeldInv'
      BY <1>1, <2>2, PullHeld, IngestSampleHeld, IngestReadmeHeld, UnlinkDeletedHeld,
         RepairMirrorHeld, EndsHeld, ExportThreatHeld DEF SyncStep
    <3>3. QED
      BY <3>1, <3>2 DEF FilesStep
  <2>3. QED
    BY <2>1, <2>2
<1>2. CASE RestStep
  <2>1. Holds /\ UNCHANGED <<remote, pc, base, moved, todo, preserved, out>>
    BY <1>2, RestHolds DEF run
  <2>2. QED
    BY <2>1, AsideKeeps DEF FilesStep, At
<1>3. CASE DeleteNext
  BY <1>3, DeleteHolds, AsideKeeps DEF FilesStep, At
<1>4. CASE HumanStep
  <2>1. pc' = pc
    BY <1>4 DEF HumanStep, CommitFile, CommitDeletion, Push
  <2>2. CASE NothingNew
    BY <1>4, <2>1, <2>2, HumanHeld DEF FilesStep, At
  <2>3. CASE UNCHANGED vars
    <3>1. Holds /\ UNCHANGED <<remote, pc, base, moved, todo, preserved, out>>
      BY <2>3 DEF vars, HeldInv, DbHeld, Holds
    <3>2. QED
      BY <3>1, AsideKeeps DEF FilesStep, At
  <2>4. QED
    BY <2>2, <2>3
<1>5. CASE Crash
  BY <1>5, CrashHeld DEF FilesStep, Crash, Others
<1>6. CASE UNCHANGED vars
  <2>1. Holds /\ UNCHANGED <<remote, pc, base, moved, todo, preserved, out>>
    BY <1>6 DEF vars, HeldInv, DbHeld, Holds
  <2>2. QED
    BY <2>1, AsideKeeps DEF FilesStep, At
<1>7. QED
  BY <1>1, <1>2, <1>3, <1>4, <1>5, <1>6 DEF Next

(* A file that somebody committed leaves the repository only when MWDB has held its
   content: a run stores what it reads before the export clears the tree, writes back
   what it could not store (also when storage, a lookup or the run itself failed, and
   whatever requests and commits came between), and pushes only on top of the commit it
   read (ingest.py, export.py, runner.py). It is so as long as people bring nothing new
   to a path of the manifest.                                                        *)
THEOREM FilesStayHeld == Spec /\ NothingNewAtKnownPaths => FilesNeverVanish
<1>1. Init => HeldInv
  BY InitHeld
<1>2. Inv /\ HeldInv /\ [Next]_vars /\ [NothingNew]_vars => HeldInv' /\ [FilesStep]_vars
  BY HeldStep
<1>3. Spec /\ [][NothingNew]_vars => [][FilesStep]_vars
  BY <1>1, <1>2, Invariant, PTL DEF Spec
<1>4. QED
  BY <1>3 DEF NothingNewAtKnownPaths, FilesNeverVanish, FilesStep
===============================================================================
