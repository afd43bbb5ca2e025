----------------------- MODULE JunctionResolveProofs -----------------------
(***************************************************************************)
(* Concurrent listings that share chrootDepth agree on where a junction    *)
(* leads, on every volume without misleading names, for any number of      *)
(* listings on a Session.                                                  *)
(***************************************************************************)
EXTENDS JunctionResolve, TLAPS

\* The target without the chroot is a directory that the discovery comes to.
Strippable(l) ==
    /\ l.abs
    /\ Len(Chroot) \in 1 .. maxChrootDepth
    /\ Len(Chroot) < Len(l.target)
    /\ Strip(l.target, Len(Chroot)) \in Dirs

Stripped(l) == To(Strip(l.target, Len(Chroot)))

\* The directories in which the ancestor walk finds the base of the target, as far up
\* as it goes, while the connection works.
Above(l) ==
    {k \in 0 .. maxJunctionDepth :
        k <= Len(l.at) /\ SubSeq(l.at, 1, Len(l.at) - k) \o <<Last(l.target)>> \in Dirs}

Climbed(l, k) == To(SubSeq(l.at, 1, Len(l.at) - k) \o <<Last(l.target)>>)

Walked(l) ==
    IF l.target = <<>> \/ Above(l) = {}
       THEN Unresolved
       ELSE Climbed(l, CHOOSE k \in Above(l) : \A j \in Above(l) : k <= j)

\* What a link is listed as on a connection that works, whatever the cached depth is
\* and whoever else is listing.
Outcome(l) ==
    IF l \in Followed THEN To(Own(l)) ELSE IF Strippable(l) THEN Stripped(l) ELSE Walked(l)

\* A lister past the first probe has a link that is not followed, unless the connection
\* is gone; only absolute targets are stripped.
LinkInHand ==
    \A g \in Listers : pc[g] \notin {"idle", "loop"} =>
        /\ link[g] \in Links
        /\ up => link[g] \notin Followed
        /\ pc[g] \in {"cached", "discover"} => link[g].abs

\* A depth read from the cache is that of the chroot, also after another lister has
\* dropped it.
CachedIsChroot ==
    \A g \in Listers : pc[g] = "cached" =>
        depth[g] = Len(Chroot) /\ depth[g] \in 1 .. maxChrootDepth

\* The discovery does not run past a target it can strip, and such a target does not
\* get to the ancestor walk.
DiscoveryStops ==
    \A g \in Listers : up =>
        /\ pc[g] = "discover" =>
              depth[g] >= 1 /\ (Strippable(link[g]) => depth[g] <= Len(Chroot))
        /\ pc[g] = "ancestor" => ~Strippable(link[g])

\* Every listing has the outcome, or, once the connection is gone, a bare link.
EntriesAgree ==
    \A l \in Links :
        /\ entry[l] \in {Unseen, Unresolved, Outcome(l)}
        /\ up => entry[l] \in {Unseen, Outcome(l)}

\* The inductive invariant.
Inv ==
    /\ TypeOK
    /\ DepthIsChroot
    /\ LinkInHand
    /\ CachedIsChroot
    /\ DiscoveryStops
    /\ EntriesAgree

-----------------------------------------------------------------------------

\* A link is looked at only after it was taken from a listing.
LEMMA InitType == Init => TypeOK /\ LinkInHand
<1> SUFFICES ASSUME Init
             PROVE  TypeOK /\ LinkInHand
  OBVIOUS
<1>1. \A l \in Links : entry[l] \in Where(l)
  BY DEF Init, Where
<1> QED
  BY <1>1 DEF Init, TypeOK, LinkInHand, PC, maxChrootDepth

\* A target has a length.
LEMMA TargetLen == ASSUME NEW l \in Links
                   PROVE  Len(l.target) \in Nat
<1>1. l.target \in Seq(Names)
  BY JunctionAssumption
<1> QED
  BY <1>1

\* What a step of one lister does to the control state of all.
LEMMA GotoEffect ==
  ASSUME TypeOK, NEW g \in Listers, NEW label \in PC, NEW d \in 0 .. maxChrootDepth + 1,
         Goto(g, label, d)
  PROVE  /\ pc' \in [Listers -> PC] /\ depth' \in [Listers -> 0 .. maxChrootDepth + 1]
         /\ pc'[g] = label /\ depth'[g] = d
         /\ \A h \in Listers \ {g} : pc'[h] = pc[h] /\ depth'[h] = depth[h]
  BY DEF TypeOK, Goto

\* What the end of the work on a link does.
LEMMA AppendEffect ==
  ASSUME TypeOK, NEW g \in Listers, NEW l \in Links, NEW where \in Where(l),
         AppendEntry(g, l, where)
  PROVE  /\ pc' \in [Listers -> PC] /\ depth' \in [Listers -> 0 .. maxChrootDepth + 1]
         /\ pc'[g] = "loop"
         /\ \A h \in Listers \ {g} : pc'[h] = pc[h] /\ depth'[h] = depth[h]
         /\ DOMAIN entry' = Links
         /\ entry'[l] = where
         /\ \A m \in Links \ {l} : entry'[m] = entry[m]
         /\ \A m \in Links : entry'[m] \in Where(m)
<1>1. Goto(g, "loop", 0) /\ "loop" \in PC /\ 0 \in 0 .. maxChrootDepth + 1
  BY DEF AppendEntry, PC, maxChrootDepth
<1>2. entry' = [entry EXCEPT ![l] = where]
  BY DEF AppendEntry
<1>3. /\ DOMAIN entry' = Links
      /\ entry'[l] = where
      /\ \A m \in Links \ {l} : entry'[m] = entry[m]
  BY <1>2 DEF TypeOK
<1>4. \A m \in Links : entry'[m] \in Where(m)
  BY <1>3 DEF TypeOK
<1> QED
  BY <1>1, <1>3, <1>4, GotoEffect

\* A directory that was read, and a link that could not be, may be listed.
LEMMA Listable ==
  ASSUME NEW l \in Links
  PROVE  /\ Unresolved \in Where(l) /\ To(Own(l)) \in Where(l)
         /\ \A d : ReadDir(d) => To(d) \in Where(l)
  BY DEF Where, ReadDir

\* Every step keeps the types, on any volume.
LEMMA NextType == TypeOK /\ LinkInHand /\ [Next]_vars => (TypeOK /\ LinkInHand)'
<1> SUFFICES ASSUME TypeOK, LinkInHand, [Next]_vars
             PROVE  (TypeOK /\ LinkInHand)'
  OBVIOUS
<1>0. /\ \A label \in {"idle", "loop", "readlink", "cached", "discover", "ancestor"} : label \in PC
      /\ \A d \in 0 .. 6 : d \in 0 .. maxChrootDepth + 1
  BY DEF PC, maxChrootDepth
<1>1. ASSUME NEW g \in Listers, NEW d \in Dirs, ListDir(g, d)
      PROVE  (TypeOK /\ LinkInHand)'
  <2>1. Goto(g, "loop", 0)
    BY <1>1 DEF ListDir
  <2> QED
    BY <1>0, <1>1, <2>1, GotoEffect DEF ListDir, TypeOK, LinkInHand
<1>2. ASSUME NEW g \in Listers, ListDirReturns(g)
      PROVE  (TypeOK /\ LinkInHand)'
  <2>1. Goto(g, "idle", 0)
    BY <1>2 DEF ListDirReturns
  <2> QED
    BY <1>0, <1>2, <2>1, GotoEffect DEF ListDirReturns, TypeOK, LinkInHand
<1>3. ASSUME NEW g \in Listers, NEW l \in Links, ProbeOpendir(g, l)
      PROVE  (TypeOK /\ LinkInHand)'
  <2>1. /\ todo' \in [Listers -> SUBSET Links] /\ link' \in [Listers -> Links \cup {NoLink}]
        /\ link'[g] = l /\ \A h \in Listers \ {g} : link'[h] = link[h]
        /\ UNCHANGED <<chrootDepth, up>>
    BY <1>3 DEF ProbeOpendir, TypeOK
  <2>2. CASE up /\ l \in Followed
    <3>1. AppendEntry(g, l, To(Own(l)))
      BY <1>3, <2>2 DEF ProbeOpendir
    <3> QED
      BY <2>1, <3>1, AppendEffect, Listable DEF TypeOK, LinkInHand
  <2>3. CASE ~(up /\ l \in Followed)
    <3>1. Goto(g, "readlink", 0) /\ UNCHANGED entry
      BY <1>3, <2>3 DEF ProbeOpendir
    <3> QED
      BY <1>0, <2>1, <2>3, <3>1, GotoEffect DEF TypeOK, LinkInHand
  <2> QED
    BY <2>2, <2>3
<1>4. ASSUME NEW g \in Listers, ReadLink(g)
      PROVE  (TypeOK /\ LinkInHand)'
  <2>1. link[g] \in Links /\ UNCHANGED <<chrootDepth, up, todo, link>>
    BY <1>4 DEF ReadLink, LinkInHand
  <2>2. CASE AppendEntry(g, link[g], Unresolved)
    BY <2>1, <2>2, AppendEffect, Listable DEF TypeOK, LinkInHand
  <2>3. ASSUME NEW label \in {"cached", "discover", "ancestor"}, NEW d \in 0 .. 6,
               Goto(g, label, d), UNCHANGED entry, label # "ancestor" => link[g].abs
        PROVE  (TypeOK /\ LinkInHand)'
    BY <1>0, <1>4, <2>1, <2>3, GotoEffect DEF ReadLink, TypeOK, LinkInHand
  <2>4. chrootDepth \in 0 .. 6
    BY DEF TypeOK, maxChrootDepth
  <2> QED
    BY <1>4, <2>2, <2>3, <2>4 DEF ReadLink
<1>5. ASSUME NEW g \in Listers, ProbeCached(g)
      PROVE  (TypeOK /\ LinkInHand)'
  <2>1. link[g] \in Links /\ UNCHANGED <<up, todo, link>>
    BY <1>5 DEF ProbeCached, LinkInHand
  <2>2. CASE Strips(g, depth[g])
    <3>1. /\ AppendEntry(g, link[g], To(Strip(link[g].target, depth[g])))
          /\ UNCHANGED chrootDepth
          /\ To(Strip(link[g].target, depth[g])) \in Where(link[g])
      BY <1>5, <2>1, <2>2, Listable DEF ProbeCached, Strips
    <3> QED
      BY <2>1, <3>1, AppendEffect DEF TypeOK, LinkInHand
  <2>3. CASE ~Strips(g, depth[g])
    <3>1. Goto(g, "discover", 1) /\ chrootDepth' = 0 /\ UNCHANGED entry
      BY <1>5, <2>3 DEF ProbeCached
    <3> QED
      BY <1>0, <1>5, <2>1, <3>1, GotoEffect DEF ProbeCached, TypeOK, LinkInHand, maxChrootDepth
  <2> QED
    BY <2>2, <2>3
<1>6. ASSUME NEW g \in Listers, Discover(g)
      PROVE  (TypeOK /\ LinkInHand)'
  <2>1. link[g] \in Links /\ UNCHANGED <<up, todo, link>> /\ depth[g] \in 0 .. maxChrootDepth + 1
    BY <1>6 DEF Discover, LinkInHand, TypeOK
  <2>2. CASE depth[g] <= maxChrootDepth /\ Strips(g, depth[g])
    <3>1. /\ AppendEntry(g, link[g], To(Strip(link[g].target, depth[g])))
          /\ chrootDepth' = depth[g]
          /\ To(Strip(link[g].target, depth[g])) \in Where(link[g])
      BY <1>6, <2>1, <2>2, Listable, TargetLen DEF Discover, Strips, maxChrootDepth
    <3>2. chrootDepth' \in 0 .. maxChrootDepth
      BY <2>1, <2>2, <3>1 DEF maxChrootDepth
    <3> DEFINE where == To(Strip(link[g].target, depth[g]))
    <3> HIDE DEF where
    <3>3. where \in Where(link[g]) /\ AppendEntry(g, link[g], where)
      BY <3>1 DEF where
    <3> QED
      BY <2>1, <3>2, <3>3, AppendEffect DEF TypeOK, LinkInHand
  <2>3. ASSUME NEW label \in {"discover", "ancestor"}, NEW d \in 0 .. 6,
               Goto(g, label, d), UNCHANGED <<chrootDepth, entry>>
        PROVE  (TypeOK /\ LinkInHand)'
    <3>1. pc[g] = "discover" /\ label \in PC /\ d \in 0 .. maxChrootDepth + 1
      BY <1>0, <1>6 DEF Discover
    <3> QED
      BY <2>1, <2>3, <3>1, GotoEffect DEF TypeOK, LinkInHand
  <2>4. 0 \in 0 .. 6 /\ (depth[g] <= maxChrootDepth => depth[g] + 1 \in 0 .. 6)
    BY <2>1 DEF maxChrootDepth
  <2>5. \/ depth[g] <= maxChrootDepth /\ Strips(g, depth[g])
        \/ /\ depth[g] <= maxChrootDepth
           /\ Goto(g, "discover", depth[g] + 1) /\ UNCHANGED <<chrootDepth, entry>>
        \/ Goto(g, "ancestor", 0) /\ UNCHANGED <<chrootDepth, entry>>
    BY <1>6 DEF Discover
  <2> QED
    BY <2>2, <2>3, <2>4, <2>5
<1>7. ASSUME NEW g \in Listers, ancestorWalkResolve(g)
      PROVE  (TypeOK /\ LinkInHand)'
  <2>1. link[g] \in Links /\ UNCHANGED <<chrootDepth, up, todo, link>>
    BY <1>7 DEF ancestorWalkResolve, LinkInHand
  <2>2. PICK where \in Where(link[g]) : AppendEntry(g, link[g], where)
    BY <1>7, <2>1, Listable DEF ancestorWalkResolve, Climbs
  <2> QED
    BY <2>1, <2>2, AppendEffect DEF TypeOK, LinkInHand
<1>8. CASE Hangup
  BY <1>8 DEF Hangup, TypeOK, LinkInHand
<1>9. CASE UNCHANGED vars
  BY <1>9 DEF vars, TypeOK, LinkInHand
<1> QED
  BY <1>1, <1>2, <1>3, <1>4, <1>5, <1>6, <1>7, <1>8, <1>9 DEF Next, Lister

\* The state of the listings stays within its types: a link is listed as itself, as a
\* bare link, or as a directory that exists (ListDir).
THEOREM TypeCorrect == Spec => []TypeOK
  BY InitType, NextType, PTL DEF Spec

-----------------------------------------------------------------------------

Advances(g) ==
    \/ todo'[g] \subseteq todo[g] /\ todo'[g] # todo[g]
    \/ todo'[g] = todo[g] /\ Stage(g)' > Stage(g)
    \/ todo'[g] = todo[g] /\ pc'[g] = pc[g] /\ depth'[g] = depth[g]

\* The stage of a lister that has a link in its hand, and of one that has not.
LEMMA StageValues ==
  ASSUME TypeOK, NEW g \in Listers
  PROVE  /\ pc[g] = "readlink" => Stage(g) = 1
         /\ pc[g] = "cached" => Stage(g) = 2
         /\ pc[g] = "discover" => Stage(g) = 2 + depth[g]
         /\ pc[g] = "ancestor" => Stage(g) = 9
         /\ pc[g] = "loop" => Stage(g) = 10
         /\ pc[g] = "idle" => Stage(g) = 11
         /\ depth[g] \in 0 .. 6
  BY DEF Stage, TypeOK, maxChrootDepth

\* A step of one lister does not set another back.
LEMMA OthersStay ==
  ASSUME TypeOK, NEW g \in Listers, NEW h \in Listers \ {g}, NEW label, NEW d,
         Goto(h, label, d), todo'[g] = todo[g]
  PROVE  Advances(g)
  BY DEF TypeOK, Goto, Advances

\* The work on a link goes from stage to stage.
LEMMA StageGrows ==
  ASSUME TypeOK, TypeOK', NEW g \in Listers, todo'[g] = todo[g],
         \/ /\ pc[g] = "readlink"
            /\ \/ pc'[g] = "discover" /\ depth'[g] = 1
               \/ pc'[g] \in {"cached", "ancestor", "loop"}
         \/ /\ pc[g] = "cached"
            /\ \/ pc'[g] = "discover" /\ depth'[g] = 1
               \/ pc'[g] = "loop"
         \/ /\ pc[g] = "discover"
            /\ \/ pc'[g] = "discover" /\ depth'[g] = depth[g] + 1
               \/ pc'[g] \in {"ancestor", "loop"}
         \/ pc[g] = "ancestor" /\ pc'[g] = "loop"
         \/ pc[g] = "loop" /\ pc'[g] = "idle"
  PROVE  Advances(g)
<1>1. /\ pc'[g] = "cached" => Stage(g)' = 2
      /\ pc'[g] = "discover" => Stage(g)' = 2 + depth'[g]
      /\ pc'[g] = "ancestor" => Stage(g)' = 9
      /\ pc'[g] = "loop" => Stage(g)' = 10
      /\ pc'[g] = "idle" => Stage(g)' = 11
      /\ depth'[g] \in 0 .. 6
  BY DEF Stage, TypeOK, maxChrootDepth
<1> QED
  BY <1>1, StageValues DEF Advances

\* One step of anybody, for one lister that is at work.
LEMMA NextAdvances ==
  ASSUME TypeOK, LinkInHand, [Next]_vars, NEW g \in Listers, pc[g] # "idle"
  PROVE  Advances(g)
<1>0. TypeOK'
  BY NextType
<1>1. ASSUME NEW h \in Listers, NEW d \in Dirs, ListDir(h, d)
      PROVE  Advances(g)
  <2>1. h # g /\ Goto(h, "loop", 0) /\ todo'[g] = todo[g]
    BY <1>1 DEF ListDir, TypeOK
  <2> QED
    BY <2>1, OthersStay
<1>2. ASSUME NEW h \in Listers, ListDirReturns(h)
      PROVE  Advances(g)
  <2>1. Goto(h, "idle", 0) /\ pc[h] = "loop" /\ todo' = todo
    BY <1>2 DEF ListDirReturns
  <2>2. CASE h = g
    BY <1>0, <2>1, <2>2, StageGrows DEF Goto, TypeOK
  <2>3. CASE h # g
    BY <2>1, <2>3, OthersStay
  <2> QED
    BY <2>2, <2>3
<1>3. ASSUME NEW h \in Listers, NEW l \in Links, ProbeOpendir(h, l)
      PROVE  Advances(g)
  <2>1. l \in todo[h] /\ todo' = [todo EXCEPT ![h] = @ \ {l}]
    BY <1>3 DEF ProbeOpendir
  <2>2. CASE h = g
    BY <2>1, <2>2 DEF Advances, TypeOK
  <2>3. CASE h # g
    <3>1. todo'[g] = todo[g]
      BY <2>1, <2>3 DEF TypeOK
    <3>2. Goto(h, "loop", 0) \/ Goto(h, "readlink", 0)
      BY <1>3 DEF ProbeOpendir, AppendEntry
    <3> QED
      BY <2>3, <3>1, <3>2, OthersStay
  <2> QED
    BY <2>2, <2>3
<1>4. ASSUME NEW h \in Listers, NEW label, NEW d, Goto(h, label, d), UNCHANGED todo,
             \/ /\ pc[h] = "readlink"
                /\ \/ label = "discover" /\ d = 1
                   \/ label \in {"cached", "ancestor", "loop"}
             \/ /\ pc[h] = "cached"
                /\ \/ label = "discover" /\ d = 1
                   \/ label = "loop"
             \/ /\ pc[h] = "discover"
                /\ \/ label = "discover" /\ d = depth[h] + 1
                   \/ label \in {"ancestor", "loop"}
             \/ pc[h] = "ancestor" /\ label = "loop"
      PROVE  Advances(g)
  <2>1. CASE h = g
    <3>1. pc'[g] = label /\ depth'[g] = d /\ todo'[g] = todo[g]
      BY <1>4, <2>1 DEF Goto, TypeOK
    <3> QED
      BY <1>0, <1>4, <2>1, <3>1, StageGrows
  <2>2. CASE h # g
    BY <1>4, <2>2, OthersStay
  <2> QED
    BY <2>1, <2>2
<1>5. ASSUME NEW h \in Listers, ReadLink(h)
      PROVE  Advances(g)
  BY <1>4, <1>5 DEF ReadLink, AppendEntry
<1>6. ASSUME NEW h \in Listers, ProbeCached(h)
      PROVE  Advances(g)
  BY <1>4, <1>6 DEF ProbeCached, AppendEntry
<1>7. ASSUME NEW h \in Listers, Discover(h)
      PROVE  Advances(g)
  BY <1>4, <1>7 DEF Discover, AppendEntry
<1>8. ASSUME NEW h \in Listers, ancestorWalkResolve(h)
      PROVE  Advances(g)
  <2>1. pc[h] = "ancestor" /\ Goto(h, "loop", 0) /\ UNCHANGED todo
    BY <1>8 DEF ancestorWalkResolve, AppendEntry
  <2> QED
    BY <1>4, <2>1
<1>9. CASE Hangup \/ UNCHANGED vars
  BY <1>9 DEF Hangup, vars, Advances
<1> QED
  BY <1>1, <1>2, <1>3, <1>5, <1>6, <1>7, <1>8, <1>9 DEF Next, Lister

\* On every volume, misleading names included, and however many listings drop and learn
\* the depth at the same time: no listing is ever set back, so that only an SFTP call
\* without an answer can keep it from its end.
THEOREM ListingsAdvance == Spec => ListingAdvances
<1>1. TypeOK /\ LinkInHand /\ [Next]_vars =>
        [\A g \in Listers : pc[g] # "idle" => Advances(g)]_vars
  BY NextAdvances
<1> QED
  BY <1>1, InitType, NextType, PTL DEF Spec, ListingAdvances, Advances

-----------------------------------------------------------------------------

\* Where a target can be stripped, it can be stripped of the chroot, and of nothing else.
LEMMA StripsChroot ==
  ASSUME NoMisleadingNames, NEW g \in Listers, link[g] \in Links, link[g].abs,
         NEW d \in 1 .. maxChrootDepth, Strips(g, d)
  PROVE  up /\ d = Len(Chroot) /\ Strippable(link[g])
<1>1. up /\ d < Len(link[g].target) /\ Strip(link[g].target, d) \in Dirs
  BY DEF Strips, ReadDir
<1>2. d = Len(Chroot)
  BY <1>1 DEF NoMisleadingNames
<1> QED
  BY <1>1, <1>2 DEF Strippable

\* The depth of the chroot is then one that the discovery tries.
LEMMA StrippableDepth ==
  ASSUME NEW l, Strippable(l)
  PROVE  1 <= Len(Chroot) /\ Len(Chroot) <= 5 /\ Len(Chroot) < Len(l.target)
<1>1. Len(Chroot) \in 1 .. 5 /\ Len(Chroot) < Len(l.target)
  BY DEF Strippable, maxChrootDepth
<1>2. \A n \in 1 .. 5 : 1 <= n /\ n <= 5
  OBVIOUS
<1> QED
  BY <1>1, <1>2

\* On a connection that works the probe of the right depth succeeds.
LEMMA ChrootStrips ==
  ASSUME NEW g \in Listers, up, Strippable(link[g])
  PROVE  Strips(g, Len(Chroot))
  BY DEF Strippable, Strips, ReadDir

\* On a connection that works the ancestor walk finds the nearest directory.
LEMMA WalkFinds ==
  ASSUME NEW l \in Links, up, l.target # <<>>
  PROVE  /\ Climbs(l.at, Last(l.target)) = Above(l)
         /\ Above(l) = {} => Walked(l) = Unresolved
         /\ \A k \in Above(l) : (\A j \in Above(l) : k <= j) => Climbed(l, k) = Walked(l)
<1>1. Climbs(l.at, Last(l.target)) = Above(l)
  BY DEF Climbs, Above, ReadDir
<1>2. Above(l) = {} => Walked(l) = Unresolved
  BY DEF Walked
<1>3. ASSUME NEW k \in Above(l), \A j \in Above(l) : k <= j
      PROVE  Climbed(l, k) = Walked(l)
  <2> DEFINE m == CHOOSE i \in Above(l) : \A j \in Above(l) : i <= j
  <2>1. m \in Above(l) /\ \A j \in Above(l) : m <= j
    BY <1>3
  <2>2. Above(l) \subseteq Nat
    BY DEF Above, maxJunctionDepth
  <2>3. m = k
    <3> HIDE DEF m
    <3>1. m <= k /\ k <= m /\ m \in Nat /\ k \in Nat
      BY <1>3, <2>1, <2>2
    <3> QED
      BY <3>1
  <2>4. Walked(l) = Climbed(l, m)
    BY <1>3 DEF Walked
  <2> QED
    BY <2>3, <2>4
<1> QED
  BY <1>1, <1>2, <1>3

\* A lister that goes on with a link keeps the invariant, if it knows what it must.
LEMMA GotoInv ==
  ASSUME Inv, (TypeOK /\ LinkInHand)', NEW g \in Listers, NEW label \in PC,
         NEW d \in 0 .. maxChrootDepth + 1, Goto(g, label, d),
         up' = up, entry' = entry, \A h \in Listers \ {g} : link'[h] = link[h],
         chrootDepth' \in {0, Len(Chroot)},
         label = "cached" => d = Len(Chroot) /\ d \in 1 .. maxChrootDepth,
         up /\ label = "discover" => d >= 1 /\ (Strippable(link'[g]) => d <= Len(Chroot)),
         up /\ label = "ancestor" => ~Strippable(link'[g])
  PROVE  Inv'
<1> USE DEF Inv
<1>1. /\ pc'[g] = label /\ depth'[g] = d
      /\ \A h \in Listers \ {g} : pc'[h] = pc[h] /\ depth'[h] = depth[h]
  BY GotoEffect
<1>2. DepthIsChroot' /\ CachedIsChroot'
  BY <1>1 DEF DepthIsChroot, CachedIsChroot
<1>3. DiscoveryStops'
  BY <1>1 DEF DiscoveryStops, Strippable
<1>4. EntriesAgree'
  BY DEF EntriesAgree, Outcome, Strippable, Stripped, Walked
<1> QED
  BY <1>2, <1>3, <1>4

\* So does one that is done with a link, if the entry is the outcome.
LEMMA AppendInv ==
  ASSUME Inv, (TypeOK /\ LinkInHand)', NEW g \in Listers, NEW l \in Links, NEW where \in Where(l),
         AppendEntry(g, l, where),
         up' = up, \A h \in Listers \ {g} : link'[h] = link[h],
         chrootDepth' \in {0, Len(Chroot)},
         where \in {Unresolved, Outcome(l)},
         up => where = Outcome(l)
  PROVE  Inv'
<1> USE DEF Inv
<1>1. /\ pc'[g] = "loop"
      /\ \A h \in Listers \ {g} : pc'[h] = pc[h] /\ depth'[h] = depth[h]
      /\ entry'[l] = where
      /\ \A m \in Links \ {l} : entry'[m] = entry[m]
  BY AppendEffect
<1>2. DepthIsChroot' /\ CachedIsChroot'
  BY <1>1 DEF DepthIsChroot, CachedIsChroot
<1>3. DiscoveryStops'
  BY <1>1 DEF DiscoveryStops, Strippable
<1>4. EntriesAgree'
  <2>1. ASSUME NEW m \in Links
        PROVE  /\ entry'[m] \in {Unseen, Unresolved, Outcome(m)}
               /\ up => entry'[m] \in {Unseen, Outcome(m)}
    <3>1. CASE m = l
      BY <3>1, <1>1
    <3>2. CASE m # l
      BY <3>2, <1>1 DEF EntriesAgree
    <3> QED
      BY <3>1, <3>2
  <2> QED
    BY <2>1 DEF EntriesAgree
<1> QED
  BY <1>2, <1>3, <1>4

\* A Session that has just been dialed satisfies the invariant.
LEMMA InitInv == Init => Inv
<1>1. Init => DepthIsChroot /\ CachedIsChroot /\ DiscoveryStops /\ EntriesAgree
  BY DEF Init, DepthIsChroot, CachedIsChroot, DiscoveryStops, EntriesAgree
<1> QED
  BY <1>1, InitType DEF Inv

\* On a volume without misleading names every step preserves the invariant.
LEMMA NextInv == ASSUME NoMisleadingNames
                 PROVE  Inv /\ [Next]_vars => Inv'
<1> SUFFICES ASSUME Inv, [Next]_vars
             PROVE  Inv'
  OBVIOUS
<1>0. /\ TypeOK /\ DepthIsChroot /\ LinkInHand /\ CachedIsChroot /\ DiscoveryStops
      /\ (TypeOK /\ LinkInHand)' /\ Len(Chroot) \in Nat
      /\ PC = {"idle", "loop", "readlink", "cached", "discover", "ancestor"}
      /\ 0 .. maxChrootDepth + 1 = 0 .. 6 /\ 0 \in 0 .. 6 /\ 1 \in 0 .. 6
  BY NextType, JunctionAssumption DEF Inv, PC, maxChrootDepth
<1>1. ASSUME NEW g \in Listers, NEW dir \in Dirs, ListDir(g, dir)
      PROVE  Inv'
  <2>1. Goto(g, "loop", 0) /\ UNCHANGED <<chrootDepth, up, link, entry>>
    BY <1>1 DEF ListDir
  <2> QED
    BY <1>0, <2>1, GotoInv DEF DepthIsChroot
<1>2. ASSUME NEW g \in Listers, ListDirReturns(g)
      PROVE  Inv'
  <2>1. /\ Goto(g, "idle", 0) /\ UNCHANGED <<chrootDepth, up, entry>>
        /\ \A h \in Listers \ {g} : link'[h] = link[h]
    BY <1>0, <1>2 DEF ListDirReturns, TypeOK
  <2> QED
    BY <1>0, <2>1, GotoInv DEF DepthIsChroot
<1>3. ASSUME NEW g \in Listers, NEW l \in Links, ProbeOpendir(g, l)
      PROVE  Inv'
  <2>1. /\ UNCHANGED <<chrootDepth, up>>
        /\ \A h \in Listers \ {g} : link'[h] = link[h]
    BY <1>0, <1>3 DEF ProbeOpendir, TypeOK
  <2>2. CASE up /\ l \in Followed
    <3>1. AppendEntry(g, l, To(Own(l))) /\ Outcome(l) = To(Own(l)) /\ To(Own(l)) \in Where(l)
      BY <1>3, <2>2, Listable DEF ProbeOpendir, Outcome
    <3> QED
      BY <1>0, <2>1, <3>1, AppendInv DEF DepthIsChroot
  <2>3. CASE ~(up /\ l \in Followed)
    <3>1. Goto(g, "readlink", 0) /\ UNCHANGED entry
      BY <1>3, <2>3 DEF ProbeOpendir
    <3> QED
      BY <1>0, <2>1, <3>1, GotoInv DEF DepthIsChroot
  <2> QED
    BY <2>2, <2>3
<1>4. ASSUME NEW g \in Listers, ReadLink(g)
      PROVE  Inv'
  <2>1. link[g] \in Links /\ UNCHANGED <<chrootDepth, up, link>>
    BY <1>0, <1>4 DEF ReadLink, LinkInHand
  <2>2. CASE ~up /\ AppendEntry(g, link[g], Unresolved)
    BY <1>0, <2>1, <2>2, AppendInv, Listable DEF DepthIsChroot
  <2>3. CASE chrootDepth > 0 /\ Goto(g, "cached", chrootDepth) /\ UNCHANGED entry
    <3>1. chrootDepth = Len(Chroot) /\ chrootDepth \in 0 .. 6 /\ chrootDepth \in 1 .. maxChrootDepth
      BY <1>0, <2>3 DEF DepthIsChroot, TypeOK, maxChrootDepth
    <3> QED
      BY <1>0, <2>1, <2>3, <3>1, GotoInv
  <2>4. CASE Goto(g, "discover", 1) /\ UNCHANGED entry
    <3>1. Strippable(link[g]) => 1 <= Len(Chroot)
      BY StrippableDepth
    <3> QED
      BY <1>0, <2>1, <2>4, <3>1, GotoInv DEF DepthIsChroot
  <2>5. CASE ~link[g].abs /\ Goto(g, "ancestor", 0) /\ UNCHANGED entry
    <3>1. ~Strippable(link[g])
      BY <2>5 DEF Strippable
    <3> QED
      BY <1>0, <2>1, <2>5, <3>1, GotoInv DEF DepthIsChroot
  <2> QED
    BY <1>4, <2>2, <2>3, <2>4, <2>5 DEF ReadLink
<1>5. ASSUME NEW g \in Listers, ProbeCached(g)
      PROVE  Inv'
  <2>1. /\ link[g] \in Links /\ link[g].abs /\ (up => link[g] \notin Followed)
        /\ depth[g] = Len(Chroot) /\ Len(Chroot) \in 1 .. maxChrootDepth /\ UNCHANGED <<up, link>>
    BY <1>0, <1>5 DEF ProbeCached, LinkInHand, CachedIsChroot
  <2>2. CASE Strips(g, depth[g])
    <3>1. up /\ Strippable(link[g])
      BY <2>1, <2>2, StripsChroot
    <3>2. /\ AppendEntry(g, link[g], Outcome(link[g])) /\ UNCHANGED chrootDepth
          /\ Outcome(link[g]) \in Where(link[g])
      BY <1>5, <2>1, <2>2, <3>1, Listable DEF ProbeCached, Outcome, Stripped, Strips
    <3> QED
      BY <1>0, <2>1, <3>2, AppendInv DEF DepthIsChroot
  <2>3. CASE ~Strips(g, depth[g])
    <3>1. Goto(g, "discover", 1) /\ chrootDepth' = 0 /\ UNCHANGED entry
      BY <1>5, <2>3 DEF ProbeCached
    <3>2. Strippable(link[g]) => 1 <= Len(Chroot)
      BY StrippableDepth
    <3> QED
      BY <1>0, <2>1, <3>1, <3>2, GotoInv
  <2> QED
    BY <2>2, <2>3
<1>6. ASSUME NEW g \in Listers, Discover(g)
      PROVE  Inv'
  <2>1. /\ link[g] \in Links /\ link[g].abs /\ (up => link[g] \notin Followed)
        /\ UNCHANGED <<up, link>>
        /\ depth[g] \in 0 .. 6 /\ Len(link[g].target) \in Nat
        /\ up => depth[g] >= 1 /\ (Strippable(link[g]) => depth[g] <= Len(Chroot))
    BY <1>0, <1>6, TargetLen DEF Discover, LinkInHand, TypeOK, DiscoveryStops
  <2>2. CASE depth[g] <= maxChrootDepth /\ Strips(g, depth[g])
    <3>0. depth[g] \in 1 .. maxChrootDepth
      BY <2>1, <2>2 DEF Strips, ReadDir, maxChrootDepth
    <3>1. up /\ depth[g] = Len(Chroot) /\ Strippable(link[g])
      BY <2>1, <2>2, <3>0, StripsChroot
    <3>2. /\ AppendEntry(g, link[g], Outcome(link[g])) /\ chrootDepth' = depth[g]
          /\ Outcome(link[g]) \in Where(link[g])
      BY <1>6, <2>1, <2>2, <3>1, Listable
      DEF Discover, Outcome, Stripped, Strips, maxChrootDepth
    <3> QED
      BY <1>0, <2>1, <3>1, <3>2, AppendInv
  <2>3. CASE /\ depth[g] <= maxChrootDepth /\ ~Strips(g, depth[g])
             /\ Goto(g, "discover", depth[g] + 1) /\ UNCHANGED <<chrootDepth, entry>>
    <3>1. up /\ Strippable(link[g]) => depth[g] # Len(Chroot)
      BY <2>3, ChrootStrips
    <3>2. /\ depth[g] + 1 \in 0 .. 6
          /\ up => depth[g] + 1 >= 1 /\ (Strippable(link[g]) => depth[g] + 1 <= Len(Chroot))
      BY <1>0, <2>1, <2>3, <3>1 DEF maxChrootDepth
    <3> QED
      BY <1>0, <2>1, <2>3, <3>2, GotoInv DEF DepthIsChroot
  <2>4. CASE /\ depth[g] > maxChrootDepth \/ depth[g] >= Len(link[g].target)
             /\ Goto(g, "ancestor", 0) /\ UNCHANGED <<chrootDepth, entry>>
    <3>1. up => ~Strippable(link[g])
      BY <1>0, <2>1, <2>4, StrippableDepth DEF maxChrootDepth
    <3> QED
      BY <1>0, <2>1, <2>4, <3>1, GotoInv DEF DepthIsChroot
  <2> QED
    BY <1>6, <2>2, <2>3, <2>4 DEF Discover
<1>7. ASSUME NEW g \in Listers, ancestorWalkResolve(g)
      PROVE  Inv'
  <2> DEFINE l == link[g]
  <2>1. /\ l \in Links /\ UNCHANGED <<chrootDepth, up, link>>
        /\ up => Outcome(l) = Walked(l)
    BY <1>0, <1>7 DEF ancestorWalkResolve, LinkInHand, DiscoveryStops, Outcome
  <2>2. PICK where \in Where(l) :
           /\ AppendEntry(g, l, where)
           /\ \/ where = Unresolved /\ (l.target = <<>> \/ Climbs(l.at, Last(l.target)) = {})
              \/ /\ l.target # <<>>
                 /\ \E k \in Climbs(l.at, Last(l.target)) :
                       /\ \A j \in Climbs(l.at, Last(l.target)) : k <= j
                       /\ where = Climbed(l, k)
    BY <1>7, <2>1, Listable DEF ancestorWalkResolve, Climbs, Climbed
  <2>3. ASSUME up
        PROVE  where = Walked(l)
    BY <2>1, <2>2, <2>3, WalkFinds DEF Walked
  <2>4. ASSUME ~up
        PROVE  where = Unresolved
    BY <2>2, <2>4 DEF Climbs, ReadDir
  <2> QED
    BY <1>0, <2>1, <2>2, <2>3, <2>4, AppendInv DEF DepthIsChroot
<1>8. CASE Hangup
  BY <1>0, <1>8 DEF Hangup, Inv, DepthIsChroot, CachedIsChroot, DiscoveryStops, EntriesAgree,
                    Outcome, Strippable, Stripped, Walked
<1>9. CASE UNCHANGED vars
  BY <1>0, <1>9 DEF vars, Inv, DepthIsChroot, CachedIsChroot, DiscoveryStops, EntriesAgree,
                    Outcome, Strippable, Stripped, Walked
<1> QED
  BY <1>1, <1>2, <1>3, <1>4, <1>5, <1>6, <1>7, <1>8, <1>9 DEF Next, Lister

\* The invariant holds in every reachable state.
LEMMA SpecInv == ASSUME NoMisleadingNames
                 PROVE  Spec => []Inv
  BY InitInv, NextInv, PTL DEF Spec

\* On a volume without misleading names the depth that listings share is that of the
\* chroot or not known, however many discover and drop it at a time.
THEOREM DepthsAreChroot == ASSUME NoMisleadingNames
                           PROVE  Spec => []DepthIsChroot
  BY SpecInv, PTL DEF Inv

\* If moreover the chroot can be found, a junction that is shown as a directory leads
\* where it does on the volume (resolveAbsoluteTarget, ancestorWalkResolve).
THEOREM TargetsAreRight == ASSUME NoMisleadingNames, ChrootIsFound
                           PROVE  Spec => []RightTarget
<1>1. Inv => RightTarget
  <2> SUFFICES ASSUME Inv, NEW l \in Links \ Followed, Leads(l)
               PROVE  entry[l] \in {Unseen, Unresolved, To(Strip(l.target, Len(Chroot)))}
    BY DEF RightTarget
  <2>1. Strippable(l)
    BY JunctionAssumption, TargetLen DEF ChrootIsFound, Leads, Strippable
  <2> QED
    BY <2>1 DEF Inv, EntriesAgree, Outcome, Stripped
<1> QED
  BY SpecInv, <1>1, PTL

\* Listings of the same link agree for as long as the connection works, whatever the
\* cached depth is when each of them reads it.
THEOREM ListingsAreStable == ASSUME NoMisleadingNames
                             PROVE  Spec => ListingIsStable
<1>1. ASSUME Inv, Inv', [Next]_vars, NEW l \in Links, up, entry[l] # Unseen
      PROVE  entry'[l] = entry[l]
  <2>1. entry[l] = Outcome(l)
    BY <1>1 DEF Inv, EntriesAgree
  <2>2. CASE entry' = entry
    BY <2>2
  <2>3. CASE Hangup
    BY <2>3 DEF Hangup
  <2>4. ASSUME NEW g \in Listers, Lister(g)
        PROVE  up' = up /\ entry'[l] # Unseen
    <3>1. up' = up
      BY <2>4 DEF Lister, ProbeOpendir, ReadLink, ProbeCached, Discover, ancestorWalkResolve,
                  ListDirReturns
    <3>2. \/ entry' = entry
          \/ \E m \in Links : \E where \in Where(m) \ {Unseen} : AppendEntry(g, m, where)
      <4>1. \A p : To(p) # Unseen
        BY DEF To, Unseen
      <4>2. Unresolved # Unseen
        BY DEF Unresolved, Unseen
      <4>3. pc[g] \notin {"idle", "loop"} => link[g] \in Links
        BY <1>1 DEF Inv, LinkInHand
      <4>4. ASSUME NEW m \in Links, ProbeOpendir(g, m)
            PROVE  entry' = entry \/ AppendEntry(g, m, To(Own(m)))
        BY <4>4 DEF ProbeOpendir
      <4>5. CASE ReadLink(g)
        BY <4>2, <4>3, <4>5, Listable DEF ReadLink
      <4>6. CASE ProbeCached(g)
        BY <4>1, <4>3, <4>6, Listable DEF ProbeCached, Strips
      <4>7. CASE Discover(g)
        BY <4>1, <4>3, <4>7, Listable DEF Discover, Strips
      <4>8. CASE ancestorWalkResolve(g)
        BY <4>1, <4>2, <4>3, <4>8, Listable DEF ancestorWalkResolve, Climbs
      <4>9. CASE ListDirReturns(g)
        BY <4>9 DEF ListDirReturns
      <4> QED
        BY <2>4, <4>1, <4>4, <4>5, <4>6, <4>7, <4>8, <4>9, Listable DEF Lister
    <3> QED
      BY <1>1, <3>1, <3>2, AppendEffect DEF Inv
  <2>5. ASSUME NEW g \in Listers, NEW d \in Dirs, ListDir(g, d)
        PROVE  entry' = entry
    BY <2>5 DEF ListDir
  <2>6. CASE up' = up /\ entry'[l] # Unseen
    BY <1>1, <2>1, <2>6 DEF Inv, EntriesAgree, Outcome, Strippable, Stripped, Walked
  <2> QED
    BY <1>1, <2>2, <2>3, <2>4, <2>5, <2>6 DEF Next, vars, Hangup
<1>2. Inv /\ Inv' /\ [Next]_vars
        => [\A l \in Links : up /\ entry[l] # Unseen => entry'[l] = entry[l]]_vars
  BY <1>1
<1> QED
  BY <1>2, SpecInv, PTL DEF Spec, ListingIsStable

============================================================================
