--------------------------- MODULE JunctionResolve ---------------------------
(***************************************************************************)
(* Session.ListDir and its resolution of symbolic links (NTFS junctions)   *)
(* in internal/sftpclient/client.go.                                       *)
(*                                                                         *)
(* Requests of one user share a *Session, so several ListDir calls run at  *)
(* once and share chrootDepth without a lock.  A call is split at every    *)
(* SFTP round trip that stands between two uses of chrootDepth; the build  *)
(* loads it once for the test and the slice of the cached path, where no   *)
(* write stands between the two.                                           *)
(*                                                                         *)
(* A path is a sequence of names.  The tree the server shows does not      *)
(* change; entries that are not links are listed as they are, and left     *)
(* out.  An absolute target is Chroot \o p when the link leads to p.       *)
(***************************************************************************)
EXTENDS Naturals, Sequences, SequencesExt

CONSTANTS
    Listers,    \* goroutines in ListDir
    Names,      \* names of files and directories
    Dirs,       \* external: paths at which ReadDir succeeds
    Links,      \* external: [at, name, target, abs] records, the symbolic links
    Followed,   \* external: links that OPENDIR follows
    Chroot      \* external: the path of the SFTP root in the server's own tree

ASSUME JunctionAssumption ==
    /\ <<>> \in Dirs
    /\ Dirs \subseteq Seq(Names)
    /\ Links \subseteq [at : Dirs, name : Names, target : Seq(Names), abs : BOOLEAN]
    /\ Followed \subseteq Links
    /\ Chroot \in Seq(Names)

VARIABLES
    chrootDepth,    \* Session.chrootDepth
    up,             \* the connection works; Session.Close or the network ends it
    pc,             \* where each ListDir is
    todo,           \* links of its directory it has still to look at
    link,           \* the link it is looking at
    depth,          \* the number of components it strips next
    entry           \* where the latest listing of each link leads

vars == <<chrootDepth, up, pc, todo, link, depth, entry>>

maxChrootDepth == 5
maxJunctionDepth == 4

Unseen == <<"unseen">>              \* never listed
Unresolved == <<"unresolved">>      \* listed as a bare link
To(p) == <<"to", p>>                \* listed as a directory at p

PC == {"idle", "loop", "readlink", "cached", "discover", "ancestor"}

Strip(p, n) == SubSeq(p, n + 1, Len(p))

Own(l) == l.at \o <<l.name>>

ReadDir(p) == up /\ p \in Dirs

NoLink == <<>>

Init ==
    /\ chrootDepth = 0
    /\ up = TRUE
    /\ pc = [g \in Listers |-> "idle"]
    /\ todo = [g \in Listers |-> {}]
    /\ link = [g \in Listers |-> NoLink]
    /\ depth = [g \in Listers |-> 0]
    /\ entry = [l \in Links |-> Unseen]

Goto(g, label, d) ==
    /\ pc' = [pc EXCEPT ![g] = label]
    /\ depth' = [depth EXCEPT ![g] = d]

\* out = append(out, ...) and on to the next entry of the directory.
AppendEntry(g, l, where) ==
    /\ Goto(g, "loop", 0)
    /\ entry' = [entry EXCEPT ![l] = where]

ListDir(g, d) ==
    /\ pc[g] = "idle"
    /\ ReadDir(d)
    /\ todo' = [todo EXCEPT ![g] = {l \in Links : l.at = d}]
    /\ Goto(g, "loop", 0)
    /\ UNCHANGED <<chrootDepth, up, link, entry>>

ListDirReturns(g) ==
    /\ pc[g] = "loop"
    /\ todo[g] = {}
    /\ link' = [link EXCEPT ![g] = NoLink]
    /\ Goto(g, "idle", 0)
    /\ UNCHANGED <<chrootDepth, up, todo, entry>>

\* Probe 1, OPENDIR on the link itself.
ProbeOpendir(g, l) ==
    /\ pc[g] = "loop"
    /\ l \in todo[g]
    /\ todo' = [todo EXCEPT ![g] = @ \ {l}]
    /\ link' = [link EXCEPT ![g] = l]
    /\ IF up /\ l \in Followed
          THEN AppendEntry(g, l, To(Own(l)))
          ELSE Goto(g, "readlink", 0) /\ UNCHANGED entry
    /\ UNCHANGED <<chrootDepth, up>>

\* Mutant of ReadLink: every target goes to the ancestor walk.
ReadLinkAncestorOnly(g) ==
    /\ pc[g] = "readlink"
    /\ IF up
          THEN Goto(g, "ancestor", 0) /\ UNCHANGED entry
          ELSE AppendEntry(g, link[g], Unresolved)
    /\ UNCHANGED <<chrootDepth, up, todo, link>>

\* Probe 2, READLINK, and the first look at the cached depth.
ReadLink(g) ==
    /\ pc[g] = "readlink"
    /\ \/ /\ ~up
          /\ AppendEntry(g, link[g], Unresolved)
       \/ /\ up /\ link[g].abs
          /\ IF chrootDepth > 0 THEN Goto(g, "cached", chrootDepth)
                                ELSE Goto(g, "discover", 1)
          /\ UNCHANGED entry
       \/ /\ up /\ ~link[g].abs
          /\ Goto(g, "ancestor", 0)
          /\ UNCHANGED entry
    /\ UNCHANGED <<chrootDepth, up, todo, link>>

\* Stripping d components leaves something, and it is a directory.
Strips(g, d) ==
    /\ d < Len(link[g].target)
    /\ ReadDir(Strip(link[g].target, d))

\* Mutant of ProbeCached: a depth that stopped working is tried again.
ProbeCachedAgain(g) ==
    /\ pc[g] = "cached"
    /\ IF Strips(g, depth[g])
          THEN AppendEntry(g, link[g], To(Strip(link[g].target, depth[g])))
          ELSE Goto(g, "readlink", 0) /\ UNCHANGED entry
    /\ UNCHANGED <<chrootDepth, up, todo, link>>

\* Mutant of ProbeCached: the cached depth is trusted, without a ReadDir.
ProbeCachedBlindly(g) ==
    /\ pc[g] = "cached"
    /\ \/ /\ depth[g] < Len(link[g].target)
          /\ AppendEntry(g, link[g], To(Strip(link[g].target, depth[g])))
          /\ UNCHANGED chrootDepth
       \/ /\ depth[g] >= Len(link[g].target)
          /\ chrootDepth' = 0
          /\ Goto(g, "discover", 1)
          /\ UNCHANGED entry
    /\ UNCHANGED <<up, todo, link>>

\* resolveAbsoluteTarget with a cached depth: one ReadDir, or invalidate.
ProbeCached(g) ==
    /\ pc[g] = "cached"
    /\ \/ /\ Strips(g, depth[g])
          /\ AppendEntry(g, link[g], To(Strip(link[g].target, depth[g])))
          /\ UNCHANGED chrootDepth
       \/ /\ ~Strips(g, depth[g])
          /\ chrootDepth' = 0
          /\ Goto(g, "discover", 1)
          /\ UNCHANGED entry
    /\ UNCHANGED <<up, todo, link>>

\* Mutant of Discover: the kept suffix starts one component too early.
DiscoverOffByOne(g) ==
    /\ pc[g] = "discover"
    /\ \/ /\ depth[g] <= maxChrootDepth /\ Strips(g, depth[g] - 1)
          /\ chrootDepth' = depth[g]
          /\ AppendEntry(g, link[g], To(Strip(link[g].target, depth[g] - 1)))
       \/ /\ depth[g] <= maxChrootDepth /\ depth[g] < Len(link[g].target)
          /\ ~Strips(g, depth[g] - 1)
          /\ Goto(g, "discover", depth[g] + 1)
          /\ UNCHANGED <<chrootDepth, entry>>
       \/ /\ depth[g] > maxChrootDepth \/ depth[g] >= Len(link[g].target)
          /\ Goto(g, "ancestor", 0)
          /\ UNCHANGED <<chrootDepth, entry>>
    /\ UNCHANGED <<up, todo, link>>

\* One turn of the discovery loop of resolveAbsoluteTarget.
Discover(g) ==
    /\ pc[g] = "discover"
    /\ \/ /\ depth[g] <= maxChrootDepth /\ Strips(g, depth[g])
          /\ chrootDepth' = depth[g]
          /\ AppendEntry(g, link[g], To(Strip(link[g].target, depth[g])))
       \/ /\ depth[g] <= maxChrootDepth /\ depth[g] < Len(link[g].target)
          /\ ~Strips(g, depth[g])
          /\ Goto(g, "discover", depth[g] + 1)
          /\ UNCHANGED <<chrootDepth, entry>>
       \/ /\ depth[g] > maxChrootDepth \/ depth[g] >= Len(link[g].target)
          /\ Goto(g, "ancestor", 0)
          /\ UNCHANGED <<chrootDepth, entry>>
    /\ UNCHANGED <<up, todo, link>>

\* How many directories the ancestor walk goes up until base is in one of them.
Climbs(at, base) ==
    {k \in 0 .. maxJunctionDepth :
        k <= Len(at) /\ ReadDir(SubSeq(at, 1, Len(at) - k) \o <<base>>)}

ancestorWalkResolve(g) ==
    LET l == link[g]
        ks == IF l.target = <<>> THEN {} ELSE Climbs(l.at, Last(l.target))
    IN  /\ pc[g] = "ancestor"
        /\ \/ ks = {} /\ AppendEntry(g, l, Unresolved)
           \/ \E k \in ks :
                 /\ \A j \in ks : k <= j
                 /\ AppendEntry(g, l, To(SubSeq(l.at, 1, Len(l.at) - k) \o <<Last(l.target)>>))
        /\ UNCHANGED <<chrootDepth, up, todo, link>>

\* The pool closes the Session under its users, or the connection breaks.
Hangup ==
    /\ up
    /\ up' = FALSE
    /\ UNCHANGED <<chrootDepth, pc, todo, link, depth, entry>>

Lister(g) ==
    \/ \E l \in Links : ProbeOpendir(g, l)
    \/ ReadLink(g)
    \/ ProbeCached(g)
    \/ Discover(g)
    \/ ancestorWalkResolve(g)
    \/ ListDirReturns(g)

Next ==
    \/ \E g \in Listers : Lister(g) \/ \E d \in Dirs : ListDir(g, d)
    \/ Hangup

Spec == Init /\ [][Next]_vars

\* An SFTP request is answered, or fails because the connection is gone.
FairSpec == Spec /\ \A g \in Listers : WF_vars(Lister(g))

-----------------------------------------------------------------------------
(***************************************************************************)
(* Properties                                                              *)
(***************************************************************************)

\* A link is listed as itself, as a bare link, or as a directory that exists.
Where(l) == {Unseen, Unresolved, To(Own(l))} \cup {To(d) : d \in Dirs}

TypeOK ==
    /\ chrootDepth \in 0 .. maxChrootDepth
    /\ up \in BOOLEAN
    /\ pc \in [Listers -> PC]
    /\ todo \in [Listers -> SUBSET Links]
    /\ link \in [Listers -> Links \cup {NoLink}]
    /\ depth \in [Listers -> 0 .. maxChrootDepth + 1]
    /\ DOMAIN entry = Links
    /\ \A l \in Links : entry[l] \in Where(l)

\* A link whose target lies inside the SFTP root and exists there.
Leads(l) == l.abs /\ IsPrefix(Chroot, l.target) /\ Strip(l.target, Len(Chroot)) \in Dirs

\* What the properties below need of the volume: of an absolute target no suffix that
\* the discovery tries is a directory, but the one without the chroot.
NoMisleadingNames ==
    \A l \in Links, n \in 1 .. maxChrootDepth :
        l.abs /\ n < Len(l.target) /\ Strip(l.target, n) \in Dirs => n = Len(Chroot)

\* The chroot is no deeper than the discovery looks, and no junction leads to the
\* root of the volume, of which no component is left to look for.
ChrootIsFound ==
    \A l \in Links \ Followed :
        Leads(l) => Len(Chroot) \in 1 .. maxChrootDepth /\ Len(l.target) > Len(Chroot)

\* Every such junction that is shown as a directory leads to the directory it
\* leads to on the restored volume, whatever was listed before it or is being
\* listed at the same time on the same Session.
RightTarget ==
    \A l \in Links \ Followed :
        Leads(l) => entry[l] \in {Unseen, Unresolved, To(Strip(l.target, Len(Chroot)))}

\* The depth shared by all listings is the depth of the chroot, or not known,
\* however calls that discover and calls that invalidate it overlap.
DepthIsChroot == chrootDepth \in {0, Len(Chroot)}

\* On a connection that works, a junction shown as a directory is not turned
\* back into a bare link by a later listing, or sent somewhere else.
ListingIsStable ==
    [][\A l \in Links : up /\ entry[l] # Unseen => entry'[l] = entry[l]]_vars

\* How far a listing has got with the link in its hand.
Stage(g) ==
    CASE pc[g] = "readlink" -> 1
      [] pc[g] = "cached" -> 2
      [] pc[g] = "discover" -> 2 + depth[g]
      [] pc[g] = "ancestor" -> maxChrootDepth + 4
      [] pc[g] = "loop" -> maxChrootDepth + 5
      [] pc[g] = "idle" -> maxChrootDepth + 6

\* A listing only moves forward, whatever the others do to the depth they share: it has
\* fewer links left, or has got further with the one in its hand.
ListingAdvances ==
    [][\A g \in Listers : pc[g] # "idle" =>
          \/ todo'[g] \subseteq todo[g] /\ todo'[g] # todo[g]
          \/ todo'[g] = todo[g] /\ Stage(g)' > Stage(g)
          \/ todo'[g] = todo[g] /\ pc'[g] = pc[g] /\ depth'[g] = depth[g]]_vars

\* Every listing ends: no chain of invalidations and retries goes on for ever.
ListingEnds == \A g \in Listers : pc[g] # "idle" ~> pc[g] = "idle"

==============================================================================
