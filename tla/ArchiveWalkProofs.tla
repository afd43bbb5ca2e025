------------------------- MODULE ArchiveWalkProofs -------------------------
(***************************************************************************)
(* What is in the archive, for every volume and every order in which the   *)
(* server lists its directories.                                           *)
(***************************************************************************)
EXTENDS ArchiveWalk, Integers, SequenceTheorems, WellFoundedInduction, TLAPS

\* The path n is p or below it.
Under(p, n) == Len(p) <= Len(n) /\ \A k \in 1 .. Len(p) : n[k] = p[k]

\* The request has frames as long as it is being walked, and the archive is empty until
\* the frame of the root has been walked.
Stages ==
    /\ status = "idle" => archive = <<>>
    /\ status = "walking" <=> stack # <<>>
    /\ stack # <<>> => stack[1].rel = root /\ stack[1].abs = root
    /\ stack # <<>> => (archive = <<>> <=> Len(stack) = 1 /\ stack[1].at = "walk")
    /\ status = "complete" => archive # <<>>

\* A frame is for a directory exactly if its path is one.  What is left of a listing is
\* of the directory that was listed.
FramesFit ==
    \A i \in DOMAIN stack :
        /\ stack[i].isDir <=> stack[i].abs \in Dirs
        /\ stack[i].at \in {"list", "loop"} => stack[i].isDir
        /\ stack[i].at = "copy" => ~stack[i].isDir
        /\ stack[i].todo \subseteq Children(stack[i].abs)
        /\ stack[i].at # "loop" => stack[i].todo = {}
        /\ Len(stack[i].rel) - Len(root) \in 0 .. MaxDepth

\* Each frame was called for an entry of the frame below it, which is not among what is
\* left there.
Chain ==
    \A i \in 1 .. Len(stack) - 1 :
        /\ stack[i].at = "loop"
        /\ \E c \in Children(stack[i].abs) \ stack[i].todo :
              /\ stack[i + 1].rel = Append(stack[i].rel, Last(c))
              /\ stack[i + 1].abs = Target(c)

Nested ==
    \A i, j \in DOMAIN stack : i <= j => Under(stack[i].rel, stack[j].rel)

\* The header of a directory is in the archive before its entries are.
Opened ==
    \A i \in DOMAIN stack : stack[i].at \in {"list", "loop"} =>
        \E j \in DOMAIN archive :
            archive[j].isDir /\ archive[j].name = stack[i].rel /\ archive[j].of = stack[i].abs

\* Nothing that is still to come is in the archive, nor anything below it.
Fresh ==
    \A i \in DOMAIN stack, j \in DOMAIN archive :
        /\ stack[i].at = "walk" => ~Under(stack[i].rel, archive[j].name)
        /\ stack[i].at = "list" /\ Under(stack[i].rel, archive[j].name)
              => archive[j].name = stack[i].rel
        /\ \A c \in stack[i].todo : ~Under(Append(stack[i].rel, Last(c)), archive[j].name)

NoNameTwice ==
    \A i, j \in DOMAIN archive : archive[i].name = archive[j].name => i = j

\* The first entry is the root, and every other one is in a directory before it.
Grounded ==
    \A i \in DOMAIN archive :
        /\ archive[i].isDir <=> archive[i].of \in Dirs
        /\ Len(archive[i].name) - Len(root) \in 0 .. MaxDepth
        /\ i = 1 => archive[i].name = root /\ archive[i].of = root
        /\ i > 1 => \E j \in 1 .. i - 1 : \E c \in Children(archive[j].of) :
                        /\ archive[j].isDir
                        /\ archive[i].name = Append(archive[j].name, Last(c))
                        /\ archive[i].of = Target(c)

\* With the calls s open, the entry c of the archived directory at name is still to come.
Pending(s, name, of, c) ==
    \E i \in DOMAIN s :
        \/ /\ s[i].rel = name /\ s[i].abs = of
           /\ s[i].at = "list" \/ c \in s[i].todo
        \/ /\ s[i].rel = Append(name, Last(c)) /\ s[i].abs = Target(c)
           /\ s[i].at = "walk"

\* Nothing is forgotten: what is in an archived directory is archived or to come.
Covered ==
    status # "truncated" =>
        \A i \in DOMAIN archive : \A c \in Children(archive[i].of) :
            \/ <<Append(archive[i].name, Last(c)), Target(c)>> \in Archived
            \/ Pending(stack, archive[i].name, archive[i].of, c)

\* Every file but the one being copied is in the archive in full.
Whole ==
    status # "truncated" =>
        \A i \in DOMAIN archive :
            archive[i].whole \/ (i = Len(archive) /\ stack # <<>> /\ Top.at = "copy")

\* The inductive invariant.
Inv ==
    /\ TypeOK
    /\ Stages
    /\ FramesFit
    /\ Chain
    /\ Nested
    /\ Opened
    /\ Fresh
    /\ NoNameTwice
    /\ Grounded
    /\ Covered
    /\ Whole

-----------------------------------------------------------------------------
(***************************************************************************)
(* Paths                                                                   *)
(***************************************************************************)

\* What Front leaves.
LEMMA FrontFacts ==
    ASSUME NEW S, NEW s \in Seq(S), s # <<>>
    PROVE  /\ Front(s) \in Seq(S)
           /\ Len(s) \in Nat \ {0}
           /\ Len(Front(s)) = Len(s) - 1
           /\ \A i \in 1 .. Len(s) - 1 : Front(s)[i] = s[i]
           /\ Last(s) = s[Len(s)] /\ Last(s) \in S
  <1>1. Len(s) \in Nat \ {0}
    BY EmptySeq
  <1>2. \A i \in 1 .. Len(s) : s[i] \in S
    BY ElementOfSeq
  <1>3. \A i \in 1 .. Len(s) - 1 : s[i] \in S
    BY <1>1, <1>2
  <1> DEFINE n == Len(s) - 1
  <1>4. n \in Int /\ 1 \in Int /\ n >= 0
    BY <1>1
  <1>5. \A i \in 1 .. n : s[i] \in S
    BY <1>3
  <1>6. /\ SubSeq(s, 1, n) \in Seq(S)
        /\ Len(SubSeq(s, 1, n)) = IF 1 <= n THEN n - 1 + 1 ELSE 0
        /\ \A i \in 1 .. n - 1 + 1 : SubSeq(s, 1, n)[i] = s[1 + i - 1]
    <2> HIDE DEF n
    <2> QED BY <1>4, <1>5, SubSeqProperties
  <1>7. Front(s) = SubSeq(s, 1, n)
    BY DEF Front
  <1>8. Len(SubSeq(s, 1, n)) = n
    <2> HIDE DEF n
    <2>1. (IF 1 <= n THEN n - 1 + 1 ELSE 0) = n
      BY <1>4
    <2> QED BY <1>6, <2>1
  <1>9. ASSUME NEW i \in 1 .. n
        PROVE  SubSeq(s, 1, n)[i] = s[i]
    <2>1. i \in 1 .. n - 1 + 1 /\ 1 + i - 1 = i
      BY <1>1
    <2> HIDE DEF n
    <2> QED BY <2>1, <1>6
  <1>10. Last(s) = s[Len(s)] /\ Last(s) \in S
    BY <1>1, <1>2 DEF Last
  <1> QED BY <1>1, <1>6, <1>7, <1>8, <1>9, <1>10

\* A path is below itself.
LEMMA UnderItself ==
    ASSUME NEW p \in Seq(Names)
    PROVE  Under(p, p)
  <1>1. Len(p) \in Nat
    BY LenProperties
  <1> QED BY <1>1 DEF Under

\* What is below something below p is below p.
LEMMA UnderUnder ==
    ASSUME NEW p \in Seq(Names), NEW q \in Seq(Names), NEW n \in Seq(Names),
           Under(p, q), Under(q, n)
    PROVE  Under(p, n)
  <1>1. Len(p) \in Nat /\ Len(q) \in Nat /\ Len(n) \in Nat
    BY LenProperties
  <1> QED BY <1>1 DEF Under

\* An entry of a directory is below it, and all that is below the entry.
LEMMA UnderEntry ==
    ASSUME NEW p \in Seq(Names), NEW n \in Seq(Names), NEW a \in Names
    PROVE  /\ Under(p, Append(p, a))
           /\ Under(Append(p, a), n) => Under(p, n) /\ n # p
  <1>1. Len(p) \in Nat /\ Len(n) \in Nat
    BY LenProperties
  <1>2. /\ Len(Append(p, a)) = Len(p) + 1
        /\ \A i \in 1 .. Len(p) : Append(p, a)[i] = p[i]
    BY AppendProperties
  <1> HIDE DEF Names
  <1> QED BY <1>1, <1>2 DEF Under

\* Nothing is below two different entries of one directory.
LEMMA SiblingsApart ==
    ASSUME NEW p \in Seq(Names), NEW n \in Seq(Names), NEW a \in Names, NEW b \in Names,
           Under(Append(p, a), n), Under(Append(p, b), n)
    PROVE  a = b
  <1>1. Len(p) \in Nat
    BY LenProperties
  <1>2. /\ Len(Append(p, a)) = Len(p) + 1 /\ Append(p, a)[Len(p) + 1] = a
        /\ Len(Append(p, b)) = Len(p) + 1 /\ Append(p, b)[Len(p) + 1] = b
    BY AppendProperties
  <1>3. Len(p) + 1 \in 1 .. Len(p) + 1
    BY <1>1
  <1> QED BY <1>2, <1>3 DEF Under

\* The entries of a directory differ in their names; only directories have entries; and
\* ListDir says of an entry that it is a directory if it is read from one.
LEMMA ChildFacts ==
    ASSUME NEW d, NEW c \in Children(d)
    PROVE  /\ Last(c) \in Names
           /\ d \in Dirs
           /\ Target(c) \in Dirs \cup Files \cup Broken
           /\ c \in Dirs \cup DOMAIN Junction <=> Target(c) \in Dirs
           /\ \A e \in Children(d) : Last(e) = Last(c) => e = c
  <1>1. c \in Nodes /\ c # <<>> /\ Front(c) = d /\ c \in Seq(Names)
    BY ArchiveAssumption DEF Children
  <1>3. Last(c) \in Names
    BY <1>1, FrontFacts
  <1>4. ASSUME NEW e \in Children(d), Last(e) = Last(c)
        PROVE  e = c
    <2>1. e \in Nodes /\ e # <<>> /\ Front(e) = d /\ e \in Seq(Names)
      BY ArchiveAssumption DEF Children
    <2>2. /\ Len(c) \in Nat \ {0} /\ Len(d) = Len(c) - 1 /\ Last(c) = c[Len(c)]
          /\ \A i \in 1 .. Len(c) - 1 : d[i] = c[i]
      BY <1>1, FrontFacts
    <2>3. /\ Len(e) \in Nat \ {0} /\ Len(d) = Len(e) - 1 /\ Last(e) = e[Len(e)]
          /\ \A i \in 1 .. Len(e) - 1 : d[i] = e[i]
      BY <2>1, FrontFacts
    <2>4. Len(e) = Len(c)
      BY <2>2, <2>3
    <2>5. ASSUME NEW i \in 1 .. Len(e)
          PROVE  e[i] = c[i]
      <3>1. CASE i = Len(e)
        BY <3>1, <2>2, <2>3, <2>4, <1>4
      <3>2. CASE i # Len(e)
        <4>1. i \in 1 .. Len(e) - 1
          BY <3>2, <2>3
        <4> QED BY <4>1, <2>2, <2>3, <2>4
      <3> QED BY <3>1, <3>2
    <2> QED BY <2>4, <2>5, <1>1, <2>1, SeqEqual
  <1>5. d \in Dirs
    BY <1>1, ArchiveAssumption
  <1>6. /\ Target(c) \in Dirs \cup Files \cup Broken
        /\ c \in Dirs \cup DOMAIN Junction <=> Target(c) \in Dirs
    BY <1>1, ArchiveAssumption DEF Target, Nodes
  <1> QED BY <1>3, <1>4, <1>5, <1>6

-----------------------------------------------------------------------------
(***************************************************************************)
(* The steps of the walk                                                   *)
(***************************************************************************)

\* The stack and the archive as functions.
LEMMA Shape ==
    ASSUME TypeOK
    PROVE  /\ Len(stack) \in Nat /\ DOMAIN stack = 1 .. Len(stack)
           /\ \A i \in 1 .. Len(stack) : stack[i] \in Frames
           /\ Len(archive) \in Nat /\ DOMAIN archive = 1 .. Len(archive)
           /\ \A j \in 1 .. Len(archive) : archive[j] \in Entries
           /\ root \in Seq(Names) /\ Len(root) \in Nat
           /\ stack # <<>> => Len(stack) # 0 /\ Top = stack[Len(stack)]
           /\ stack = <<>> => Len(stack) = 0
           /\ archive = <<>> <=> Len(archive) = 0
  <1>1. stack \in Seq(Frames) /\ archive \in Seq(Entries) /\ root \in Seq(Names)
    BY ArchiveAssumption DEF TypeOK, Nodes
  <1> HIDE DEF Frames, Entries, Names
  <1>2. /\ Len(stack) \in Nat /\ DOMAIN stack = 1 .. Len(stack)
        /\ Len(archive) \in Nat /\ DOMAIN archive = 1 .. Len(archive)
        /\ Len(root) \in Nat
    BY <1>1, LenProperties
  <1>3. /\ \A i \in 1 .. Len(stack) : stack[i] \in Frames
        /\ \A j \in 1 .. Len(archive) : archive[j] \in Entries
    BY <1>1, ElementOfSeq
  <1>4. /\ stack # <<>> => Len(stack) # 0 /\ Top = stack[Len(stack)]
        /\ stack = <<>> => Len(stack) = 0
        /\ archive = <<>> <=> Len(archive) = 0
    BY <1>1, EmptySeq DEF Top, Last
  <1> QED BY <1>1, <1>2, <1>3, <1>4

\* What is left of a listing is not on the way down to the calls above it.
LEMMA TodoApart ==
    ASSUME TypeOK, FramesFit, Chain, Nested,
           NEW i \in 1 .. Len(stack), NEW k \in 1 .. Len(stack), i < k,
           NEW c \in stack[i].todo
    PROVE  ~Under(Append(stack[i].rel, Last(c)), stack[k].rel)
  <1>1. /\ i \in 1 .. Len(stack) - 1 /\ i + 1 \in 1 .. Len(stack) /\ i + 1 <= k
        /\ DOMAIN stack = 1 .. Len(stack)
        /\ stack[i].rel \in Seq(Names) /\ stack[k].rel \in Seq(Names)
    BY Shape DEF Frames
  <1>2. PICK e \in Children(stack[i].abs) \ stack[i].todo :
              stack[i + 1].rel = Append(stack[i].rel, Last(e))
    BY <1>1 DEF Chain
  <1>3. c \in Children(stack[i].abs) /\ c # e
    BY <1>1, <1>2 DEF FramesFit
  <1>4. Last(c) \in Names /\ Last(e) \in Names /\ Last(c) # Last(e)
    BY <1>2, <1>3, ChildFacts
  <1>5. Under(Append(stack[i].rel, Last(e)), stack[k].rel)
    BY <1>1, <1>2 DEF Nested
  <1> QED BY <1>1, <1>4, <1>5, SiblingsApart

\* A header: the entry is new, and the directory it is in has been archived before.
LEMMA WalkStep ==
    ASSUME Inv, walk
    PROVE  Inv'
  <1> DEFINE n == Len(stack)
             m == Len(archive)
             f == [Top EXCEPT !.at = IF Top.isDir THEN "list" ELSE "copy"]
             e == [name |-> Top.rel, of |-> Top.abs, isDir |-> Top.isDir, whole |-> Top.isDir]
  <1> USE DEF Inv
  <1>1. /\ status = "walking" /\ status' = "walking" /\ stack # <<>> /\ root' = root
        /\ Top.at = "walk" /\ Top.abs \in Dirs \cup Files /\ up' = up /\ seal' = seal
        /\ stack' = [stack EXCEPT ![n] = f] /\ archive' = Append(archive, e)
    BY DEF walk, Stages, SetTop
  <1>2. /\ n \in Nat /\ n \in 1 .. n /\ DOMAIN stack = 1 .. n
        /\ m \in Nat /\ DOMAIN archive = 1 .. m
        /\ Top = stack[n] /\ Top \in Frames
        /\ \A i \in 1 .. n : stack[i] \in Frames
        /\ \A j \in 1 .. m : archive[j] \in Entries
        /\ root \in Seq(Names) /\ Len(root) \in Nat
    BY <1>1, Shape
  <1>3. /\ f \in Frames /\ f.rel = Top.rel /\ f.abs = Top.abs /\ f.isDir = Top.isDir
        /\ f.todo = Top.todo /\ f.at = IF Top.isDir THEN "list" ELSE "copy"
    BY <1>2 DEF Frames
  <1>4. /\ e \in Entries /\ e.name = Top.rel /\ e.of = Top.abs
        /\ e.isDir = Top.isDir /\ e.whole = Top.isDir
    BY <1>1, <1>2 DEF Frames, Entries
  <1> HIDE DEF f, e
  <1>5. /\ stack' \in Seq(Frames) /\ Len(stack') = n /\ DOMAIN stack' = 1 .. n
        /\ stack' # <<>> /\ stack'[n] = f /\ \A i \in 1 .. n : i # n => stack'[i] = stack[i]
    <2>1. stack \in Seq(Frames)
      BY DEF TypeOK
    <2>2. /\ stack' \in Seq(Frames) /\ Len(stack') = n
          /\ \A i \in 1 .. n : stack'[i] = IF i = n THEN f ELSE stack[i]
      BY <2>1, <1>1, <1>2, <1>3, ExceptSeq
    <2>3. DOMAIN stack' = 1 .. n /\ stack' # <<>>
      BY <2>2, <1>2, LenProperties, EmptySeq
    <2> QED BY <2>2, <2>3, <1>2
  <1>6. /\ archive' \in Seq(Entries) /\ Len(archive') = m + 1 /\ DOMAIN archive' = 1 .. m + 1
        /\ archive' # <<>> /\ archive'[m + 1] = e /\ \A j \in 1 .. m : archive'[j] = archive[j]
    <2>1. archive \in Seq(Entries)
      BY DEF TypeOK
    <2> QED BY <2>1, <1>1, <1>4, AppendProperties, LenProperties
  <1>7. \A i \in 1 .. n : /\ stack'[i].rel = stack[i].rel /\ stack'[i].abs = stack[i].abs
                          /\ stack'[i].isDir = stack[i].isDir /\ stack'[i].todo = stack[i].todo
    BY <1>2, <1>3, <1>5
  <1>8. \A j \in 1 .. m + 1 : j \in 1 .. m \/ j = m + 1
    BY <1>2
  <1>9. /\ stack[n].todo = {} /\ (Top.isDir <=> Top.abs \in Dirs)
        /\ Len(Top.rel) - Len(root) \in 0 .. MaxDepth
    BY <1>1, <1>2 DEF FramesFit
  <1> HIDE DEF n, m
  <1>10. \A j \in 1 .. m : ~Under(Top.rel, archive[j].name)
    BY <1>1, <1>2 DEF Fresh
  <1>11. Top.rel \in Seq(Names) /\ Under(Top.rel, Top.rel)
    <2>1. Top.rel \in Seq(Names)
      BY <1>2 DEF Frames
    <2> QED BY <2>1, UnderItself
  <1>a. TypeOK'
    BY <1>1, <1>5, <1>6 DEF TypeOK
  <1>b. Stages'
    BY <1>1, <1>2, <1>3, <1>5, <1>6, <1>7 DEF Stages, n
  <1>c. FramesFit'
    <2> SUFFICES ASSUME NEW i \in 1 .. n
                 PROVE  /\ stack'[i].isDir <=> stack'[i].abs \in Dirs
                        /\ stack'[i].at \in {"list", "loop"} => stack'[i].isDir
                        /\ stack'[i].at = "copy" => ~stack'[i].isDir
                        /\ stack'[i].todo \subseteq Children(stack'[i].abs)
                        /\ stack'[i].at # "loop" => stack'[i].todo = {}
                        /\ Len(stack'[i].rel) - Len(root) \in 0 .. MaxDepth
      BY <1>1, <1>5 DEF FramesFit, Children, Nodes
    <2>1. CASE i = n
      BY <2>1, <1>2, <1>3, <1>5, <1>9
    <2>2. CASE i # n
      BY <2>2, <1>2, <1>5 DEF FramesFit
    <2> QED BY <2>1, <2>2
  <1>d. Chain'
    <2> SUFFICES ASSUME NEW i \in 1 .. n - 1
                 PROVE  /\ stack'[i].at = "loop"
                        /\ \E c \in Children(stack'[i].abs) \ stack'[i].todo :
                              /\ stack'[i + 1].rel = Append(stack'[i].rel, Last(c))
                              /\ stack'[i + 1].abs = Target(c)
      BY <1>5 DEF Chain, Children, Target, Nodes
    <2>1. i \in 1 .. n /\ i # n /\ i + 1 \in 1 .. n
      BY <1>2
    <2>2. /\ stack[i].at = "loop"
          /\ \E c \in Children(stack[i].abs) \ stack[i].todo :
                /\ stack[i + 1].rel = Append(stack[i].rel, Last(c))
                /\ stack[i + 1].abs = Target(c)
      BY DEF Chain, n
    <2> QED BY <2>1, <2>2, <1>5, <1>7
  <1>e. Nested'
    BY <1>2, <1>5, <1>7 DEF Nested
  <1>f. Opened'
    <2> SUFFICES ASSUME NEW i \in 1 .. n, stack'[i].at \in {"list", "loop"}
                 PROVE  \E j \in 1 .. m + 1 :
                            /\ archive'[j].isDir /\ archive'[j].name = stack'[i].rel
                            /\ archive'[j].of = stack'[i].abs
      BY <1>5, <1>6 DEF Opened
    <2>1. CASE i = n
      <3>1. m + 1 \in 1 .. m + 1
        BY <1>2
      <3> QED BY <2>1, <3>1, <1>2, <1>3, <1>4, <1>5, <1>6
    <2>2. CASE i # n
      <3>1. PICK j \in 1 .. m : /\ archive[j].isDir /\ archive[j].name = stack[i].rel
                                /\ archive[j].of = stack[i].abs
        BY <2>2, <1>2, <1>5 DEF Opened
      <3>2. j \in 1 .. m + 1
        BY <1>2
      <3> QED BY <2>2, <3>1, <3>2, <1>5, <1>6
    <2> QED BY <2>1, <2>2
  <1>g. Fresh'
    <2> SUFFICES ASSUME NEW i \in 1 .. n, NEW j \in 1 .. m + 1
                 PROVE  /\ stack'[i].at = "walk" => ~Under(stack'[i].rel, archive'[j].name)
                        /\ stack'[i].at = "list" /\ Under(stack'[i].rel, archive'[j].name)
                              => archive'[j].name = stack'[i].rel
                        /\ \A c \in stack'[i].todo :
                              ~Under(Append(stack'[i].rel, Last(c)), archive'[j].name)
      BY <1>5, <1>6 DEF Fresh
    <2>1. CASE i = n
      <3>1. stack'[i].at # "walk" /\ stack'[i].rel = Top.rel /\ stack'[i].todo = {}
        BY <2>1, <1>2, <1>3, <1>5, <1>9
      <3>2. Under(Top.rel, archive'[j].name) => archive'[j].name = Top.rel
        BY <1>4, <1>6, <1>8, <1>10
      <3> QED BY <3>1, <3>2
    <2>2. CASE i # n
      <3>1. stack'[i] = stack[i] /\ i \in 1 .. n - 1 /\ i < n
        BY <2>2, <1>2, <1>5
      <3>2. stack[i].at = "loop"
        BY <3>1 DEF Chain, n
      <3>3. CASE j \in 1 .. m
        BY <3>1, <3>3, <1>2, <1>6 DEF Fresh
      <3>4. CASE j = m + 1
        <4>1. archive'[j].name = stack[n].rel
          BY <3>4, <1>2, <1>4, <1>6
        <4>2. \A c \in stack[i].todo : ~Under(Append(stack[i].rel, Last(c)), stack[n].rel)
          BY <3>1, <1>2, TodoApart DEF n
        <4> QED BY <3>1, <3>2, <4>1, <4>2
      <3> QED BY <3>3, <3>4, <1>8
    <2> QED BY <2>1, <2>2
  <1>h. NoNameTwice'
    <2> SUFFICES ASSUME NEW i \in 1 .. m + 1, NEW j \in 1 .. m + 1,
                        archive'[i].name = archive'[j].name
                 PROVE  i = j
      BY <1>6 DEF NoNameTwice
    <2>1. \A k \in 1 .. m : archive[k].name # Top.rel
      BY <1>10, <1>11
    <2>2. CASE i \in 1 .. m /\ j \in 1 .. m
      BY <2>2, <1>2, <1>6 DEF NoNameTwice
    <2>3. CASE i = m + 1 /\ j \in 1 .. m
      BY <2>1, <2>3, <1>4, <1>6
    <2>4. CASE i \in 1 .. m /\ j = m + 1
      BY <2>1, <2>4, <1>4, <1>6
    <2>5. CASE i = m + 1 /\ j = m + 1
      BY <2>5
    <2> QED BY <2>2, <2>3, <2>4, <2>5, <1>8
  <1>i. Grounded'
    <2> SUFFICES ASSUME NEW i \in 1 .. m + 1
                 PROVE  /\ archive'[i].isDir <=> archive'[i].of \in Dirs
                        /\ Len(archive'[i].name) - Len(root) \in 0 .. MaxDepth
                        /\ i = 1 => archive'[i].name = root /\ archive'[i].of = root
                        /\ i > 1 => \E j \in 1 .. i - 1 : \E c \in Children(archive'[j].of) :
                                        /\ archive'[j].isDir
                                        /\ archive'[i].name = Append(archive'[j].name, Last(c))
                                        /\ archive'[i].of = Target(c)
      BY <1>1, <1>6 DEF Grounded, Children, Target, Nodes
    <2>1. CASE i \in 1 .. m
      <3>1. \A j \in 1 .. i - 1 : j \in 1 .. m
        BY <2>1, <1>2
      <3>2. /\ archive[i].isDir <=> archive[i].of \in Dirs
            /\ Len(archive[i].name) - Len(root) \in 0 .. MaxDepth
            /\ i = 1 => archive[i].name = root /\ archive[i].of = root
            /\ i > 1 => \E j \in 1 .. i - 1 : \E c \in Children(archive[j].of) :
                            /\ archive[j].isDir
                            /\ archive[i].name = Append(archive[j].name, Last(c))
                            /\ archive[i].of = Target(c)
        BY <2>1, <1>2 DEF Grounded
      <3>3. archive'[i] = archive[i] /\ \A j \in 1 .. i - 1 : archive'[j] = archive[j]
        BY <2>1, <3>1, <1>6
      <3> QED BY <3>2, <3>3
    <2>2. CASE i = m + 1
      <3>1. /\ archive'[i].isDir = Top.isDir /\ archive'[i].name = Top.rel
            /\ archive'[i].of = Top.abs
        BY <2>2, <1>4, <1>6
      <3>2. CASE m = 0
        <4>1. n = 1
          BY <3>2, <1>1, <1>2, Shape DEF Stages, n, m
        <4>2. Top.rel = root /\ Top.abs = root /\ i = 1 /\ ~(i > 1)
          BY <2>2, <3>2, <4>1, <1>1, <1>2 DEF Stages
        <4> QED BY <3>1, <4>2, <1>9
      <3>3. CASE m # 0
        <4>1. n # 1
          BY <3>3, <1>1, <1>2, Shape DEF Stages, n, m
        <4>2. n - 1 \in 1 .. n - 1 /\ n - 1 \in 1 .. n /\ n - 1 + 1 = n
          BY <4>1, <1>2
        <4>3. PICK c \in Children(stack[n - 1].abs) :
                  /\ stack[n - 1].at = "loop"
                  /\ Top.rel = Append(stack[n - 1].rel, Last(c))
                  /\ Top.abs = Target(c)
          BY <4>2, <1>2 DEF Chain, n
        <4>4. PICK j \in 1 .. m :
                  /\ archive[j].isDir /\ archive[j].name = stack[n - 1].rel
                  /\ archive[j].of = stack[n - 1].abs
          BY <4>2, <4>3, <1>2 DEF Opened
        <4>5. i # 1 /\ j \in 1 .. i - 1 /\ archive'[j] = archive[j]
          BY <2>2, <3>3, <1>2, <1>6
        <4> QED BY <3>1, <4>3, <4>4, <4>5, <1>9
      <3> QED BY <3>2, <3>3
    <2> QED BY <2>1, <2>2, <1>8
  <1>j. Covered'
    <2> SUFFICES ASSUME NEW i \in 1 .. m + 1, NEW c \in Children(archive'[i].of)
                 PROVE  \/ <<Append(archive'[i].name, Last(c)), Target(c)>> \in Archived'
                        \/ Pending(stack', archive'[i].name, archive'[i].of, c)
      BY <1>6 DEF Covered, Children, Target, Nodes
    <2>1. /\ <<Top.rel, Top.abs>> \in Archived'
          /\ \A x \in Archived : x \in Archived'
      <3>1. /\ m + 1 \in DOMAIN archive' /\ archive'[m + 1].name = Top.rel
            /\ archive'[m + 1].of = Top.abs
        BY <1>2, <1>4, <1>6
      <3>2. \A j \in DOMAIN archive : j \in DOMAIN archive' /\ archive'[j] = archive[j]
        BY <1>2, <1>6
      <3> QED BY <3>1, <3>2 DEF Archived
    <2>2. CASE i = m + 1
      <3>1. archive'[i].name = Top.rel /\ archive'[i].of = Top.abs
        BY <2>2, <1>4, <1>6
      <3>2. Top.isDir
        BY <3>1, <1>9, ChildFacts
      <3>3. /\ n \in DOMAIN stack' /\ stack'[n].at = "list"
            /\ stack'[n].rel = Top.rel /\ stack'[n].abs = Top.abs
        BY <3>2, <1>2, <1>3, <1>5
      <3> QED BY <3>1, <3>3 DEF Pending
    <2>3. CASE i \in 1 .. m
      <3>1. archive'[i] = archive[i]
        BY <2>3, <1>6
      <3>2. CASE <<Append(archive[i].name, Last(c)), Target(c)>> \in Archived
        BY <3>1, <3>2, <2>1
      <3>3. CASE Pending(stack, archive[i].name, archive[i].of, c)
        <4>1. PICK k \in 1 .. n :
                 \/ /\ stack[k].rel = archive[i].name /\ stack[k].abs = archive[i].of
                    /\ stack[k].at = "list" \/ c \in stack[k].todo
                 \/ /\ stack[k].rel = Append(archive[i].name, Last(c))
                    /\ stack[k].abs = Target(c) /\ stack[k].at = "walk"
          BY <3>3, <1>2 DEF Pending
        <4>2. CASE k = n
          BY <3>1, <4>1, <4>2, <2>1, <1>1, <1>2, <1>9
        <4>3. CASE k # n
          <5>1. k \in DOMAIN stack' /\ stack'[k] = stack[k]
            BY <4>3, <1>5
          <5> QED BY <3>1, <4>1, <5>1 DEF Pending
        <4> QED BY <4>2, <4>3
      <3> QED BY <2>3, <3>1, <3>2, <3>3, <1>1, <1>2 DEF Covered
    <2> QED BY <2>2, <2>3, <1>8
  <1>k. Whole'
    <2>1. Top' = f
      BY <1>5 DEF Top, Last
    <2>2. \A j \in 1 .. m : archive[j].whole
      BY <1>1, <1>2 DEF Whole
    <2> QED BY <2>1, <2>2, <1>3, <1>4, <1>5, <1>6, <1>8 DEF Whole
  <1> QED BY <1>a, <1>b, <1>c, <1>d, <1>e, <1>f, <1>g, <1>h, <1>i, <1>j, <1>k

\* A listing: all the entries of the directory are to come.
LEMMA ListStep ==
    ASSUME Inv, ListEntries
    PROVE  Inv'
  <1> DEFINE n == Len(stack)
             m == Len(archive)
             f == [Top EXCEPT !.at = "loop", !.todo = Children(Top.abs)]
  <1> USE DEF Inv
  <1>1. /\ status = "walking" /\ status' = status /\ stack # <<>> /\ root' = root
        /\ Top.at = "list" /\ up' = up /\ seal' = seal
        /\ stack' = [stack EXCEPT ![n] = f] /\ archive' = archive
    BY DEF ListEntries, Stages, SetTop
  <1>2. /\ n \in Nat /\ n \in 1 .. n /\ DOMAIN stack = 1 .. n
        /\ m \in Nat /\ DOMAIN archive = 1 .. m
        /\ Top = stack[n] /\ Top \in Frames
        /\ \A i \in 1 .. n : stack[i] \in Frames
        /\ \A j \in 1 .. m : archive[j] \in Entries
    BY <1>1, Shape
  <1>3. /\ f \in Frames /\ f.rel = Top.rel /\ f.abs = Top.abs /\ f.isDir = Top.isDir
        /\ f.todo = Children(Top.abs) /\ f.at = "loop"
    BY <1>2 DEF Frames, Children
  <1> HIDE DEF f
  <1>4. /\ stack' \in Seq(Frames) /\ Len(stack') = n /\ DOMAIN stack' = 1 .. n
        /\ stack' # <<>> /\ stack'[n] = f /\ \A i \in 1 .. n : i # n => stack'[i] = stack[i]
    <2>1. stack \in Seq(Frames)
      BY DEF TypeOK
    <2>2. /\ stack' \in Seq(Frames) /\ Len(stack') = n
          /\ \A i \in 1 .. n : stack'[i] = IF i = n THEN f ELSE stack[i]
      BY <2>1, <1>1, <1>2, <1>3, ExceptSeq
    <2>3. DOMAIN stack' = 1 .. n /\ stack' # <<>>
      BY <2>2, <1>2, LenProperties, EmptySeq
    <2> QED BY <2>2, <2>3, <1>2
  <1>5. \A i \in 1 .. n : /\ stack'[i].rel = stack[i].rel /\ stack'[i].abs = stack[i].abs
                          /\ stack'[i].isDir = stack[i].isDir
    BY <1>2, <1>3, <1>4
  <1> HIDE DEF n, m
  <1>a. TypeOK'
    BY <1>1, <1>4 DEF TypeOK
  <1>b. Stages'
    BY <1>1, <1>2, <1>3, <1>4, <1>5 DEF Stages, n
  <1>c. FramesFit'
    <2> SUFFICES ASSUME NEW i \in 1 .. n
                 PROVE  /\ stack'[i].isDir <=> stack'[i].abs \in Dirs
                        /\ stack'[i].at \in {"list", "loop"} => stack'[i].isDir
                        /\ stack'[i].at = "copy" => ~stack'[i].isDir
                        /\ stack'[i].todo \subseteq Children(stack'[i].abs)
                        /\ stack'[i].at # "loop" => stack'[i].todo = {}
                        /\ Len(stack'[i].rel) - Len(root) \in 0 .. MaxDepth
      BY <1>1, <1>4 DEF FramesFit, Children, Nodes
    <2>1. CASE i = n
      BY <2>1, <1>1, <1>2, <1>3, <1>4 DEF FramesFit
    <2>2. CASE i # n
      BY <2>2, <1>2, <1>4 DEF FramesFit
    <2> QED BY <2>1, <2>2
  <1>d. Chain'
    <2> SUFFICES ASSUME NEW i \in 1 .. n - 1
                 PROVE  /\ stack'[i].at = "loop"
                        /\ \E c \in Children(stack'[i].abs) \ stack'[i].todo :
                              /\ stack'[i + 1].rel = Append(stack'[i].rel, Last(c))
                              /\ stack'[i + 1].abs = Target(c)
      BY <1>4 DEF Chain, Children, Target, Nodes
    <2>1. i \in 1 .. n /\ i # n /\ i + 1 \in 1 .. n
      BY <1>2
    <2>2. /\ stack[i].at = "loop"
          /\ \E c \in Children(stack[i].abs) \ stack[i].todo :
                /\ stack[i + 1].rel = Append(stack[i].rel, Last(c))
                /\ stack[i + 1].abs = Target(c)
      BY DEF Chain, n
    <2> QED BY <2>1, <2>2, <1>4, <1>5
  <1>e. Nested'
    BY <1>2, <1>4, <1>5 DEF Nested
  <1>f. Opened'
    <2> SUFFICES ASSUME NEW i \in 1 .. n, stack'[i].at \in {"list", "loop"}
                 PROVE  \E j \in 1 .. m :
                            /\ archive[j].isDir /\ archive[j].name = stack'[i].rel
                            /\ archive[j].of = stack'[i].abs
      BY <1>1, <1>2, <1>4 DEF Opened
    <2>1. stack[i].at \in {"list", "loop"}
      BY <1>1, <1>2, <1>4
    <2> QED BY <2>1, <1>2, <1>5 DEF Opened
  <1>g. Fresh'
    <2> SUFFICES ASSUME NEW i \in 1 .. n, NEW j \in 1 .. m
                 PROVE  /\ stack'[i].at = "walk" => ~Under(stack'[i].rel, archive[j].name)
                        /\ stack'[i].at = "list" /\ Under(stack'[i].rel, archive[j].name)
                              => archive[j].name = stack'[i].rel
                        /\ \A c \in stack'[i].todo :
                              ~Under(Append(stack'[i].rel, Last(c)), archive[j].name)
      BY <1>1, <1>2, <1>4 DEF Fresh
    <2>1. CASE i = n
      <3>1. Top.rel \in Seq(Names) /\ archive[j].name \in Seq(Names)
        BY <1>2 DEF Frames, Entries
      <3>2. Under(Top.rel, archive[j].name) => archive[j].name = Top.rel
        BY <1>1, <1>2 DEF Fresh
      <3>3. ASSUME NEW c \in Children(Top.abs)
            PROVE  ~Under(Append(Top.rel, Last(c)), archive[j].name)
        <4>1. Last(c) \in Names
          BY ChildFacts
        <4> QED BY <3>1, <3>2, <4>1, UnderEntry
      <3> QED BY <2>1, <3>3, <1>3, <1>4
    <2>2. CASE i # n
      BY <2>2, <1>2, <1>4 DEF Fresh
    <2> QED BY <2>1, <2>2
  <1>h. NoNameTwice' /\ Grounded'
    BY <1>1 DEF NoNameTwice, Grounded, Children, Target, Nodes
  <1>i. Covered'
    <2> SUFFICES ASSUME NEW i \in 1 .. m, NEW c \in Children(archive[i].of),
                        Pending(stack, archive[i].name, archive[i].of, c)
                 PROVE  Pending(stack', archive[i].name, archive[i].of, c)
      BY <1>1, <1>2 DEF Covered, Children, Target, Nodes, Archived
    <2>1. PICK k \in 1 .. n :
             \/ /\ stack[k].rel = archive[i].name /\ stack[k].abs = archive[i].of
                /\ stack[k].at = "list" \/ c \in stack[k].todo
             \/ /\ stack[k].rel = Append(archive[i].name, Last(c))
                /\ stack[k].abs = Target(c) /\ stack[k].at = "walk"
      BY <1>2 DEF Pending
    <2>2. CASE k = n
      <3>1. /\ stack'[n].rel = archive[i].name /\ stack'[n].abs = archive[i].of
            /\ c \in stack'[n].todo
        <4>1. Top.rel = archive[i].name /\ Top.abs = archive[i].of
          BY <2>1, <2>2, <1>1, <1>2 DEF FramesFit
        <4> QED BY <4>1, <1>3, <1>4
      <3> QED BY <3>1, <1>2, <1>4 DEF Pending
    <2>3. CASE k # n
      <3>1. k \in DOMAIN stack' /\ stack'[k] = stack[k]
        BY <2>3, <1>4
      <3> QED BY <2>1, <3>1 DEF Pending
    <2> QED BY <2>2, <2>3
  <1>j. Whole'
    <2>1. \A j \in 1 .. m : archive[j].whole
      BY <1>1, <1>2 DEF Whole
    <2> QED BY <2>1, <1>1, <1>2 DEF Whole
  <1> QED BY <1>a, <1>b, <1>c, <1>d, <1>e, <1>f, <1>g, <1>h, <1>i, <1>j


\* A call for an entry: neither it nor what is below it has been archived.
LEMMA DescendStep ==
    ASSUME Inv, NEW d \in Nodes, Descend(d)
    PROVE  Inv'
  <1> DEFINE n == Len(stack)
             m == Len(archive)
             f == [stack[n] EXCEPT !.todo = @ \ {d}]
             s == [stack EXCEPT ![n] = f]
             g == Call(Append(Top.rel, Last(d)), Target(d), d \in Dirs \cup DOMAIN Junction)
  <1> USE DEF Inv
  <1>1. /\ status = "walking" /\ status' = status /\ stack # <<>> /\ root' = root
        /\ Top.at = "loop" /\ d \in Top.todo /\ Len(Top.rel) < MaxDepth /\ up' = up
        /\ seal' = seal /\ archive' = archive /\ stack' = Append(s, g)
    BY DEF Descend, Stages
  <1>2. /\ n \in Nat /\ n \in 1 .. n /\ DOMAIN stack = 1 .. n
        /\ m \in Nat /\ DOMAIN archive = 1 .. m
        /\ Top = stack[n] /\ Top \in Frames
        /\ \A i \in 1 .. n : stack[i] \in Frames
        /\ \A j \in 1 .. m : archive[j] \in Entries
        /\ root \in Seq(Names) /\ Len(root) \in Nat
    BY <1>1, Shape
  <1>3. /\ f \in Frames /\ f.rel = Top.rel /\ f.abs = Top.abs /\ f.isDir = Top.isDir
        /\ f.todo = Top.todo \ {d} /\ f.at = "loop"
    BY <1>1, <1>2 DEF Frames
  <1>4. d \in Children(Top.abs)
    BY <1>1, <1>2 DEF FramesFit
  <1>5. /\ Last(d) \in Names /\ Target(d) \in Dirs \cup Files \cup Broken
        /\ d \in Dirs \cup DOMAIN Junction <=> Target(d) \in Dirs
    BY <1>4, ChildFacts
  <1>6. /\ Top.rel \in Seq(Names) /\ Append(Top.rel, Last(d)) \in Seq(Names)
        /\ Len(Top.rel) \in Nat /\ Len(Append(Top.rel, Last(d))) = Len(Top.rel) + 1
    <2>1. Top.rel \in Seq(Names)
      BY <1>2 DEF Frames
    <2> QED BY <2>1, <1>5, AppendProperties, LenProperties
  <1>7. /\ g \in Frames /\ g.rel = Append(Top.rel, Last(d)) /\ g.abs = Target(d)
        /\ g.todo = {} /\ g.at = "walk" /\ (g.isDir <=> g.abs \in Dirs)
    <2>1. (d \in Dirs \cup DOMAIN Junction) \in BOOLEAN
      OBVIOUS
    <2>2. {} \in SUBSET Nodes
      OBVIOUS
    <2> QED BY <2>1, <2>2, <1>5, <1>6 DEF Call, Frames
  <1> HIDE DEF f, g
  <1>8. /\ stack' \in Seq(Frames) /\ Len(stack') = n + 1 /\ DOMAIN stack' = 1 .. n + 1
        /\ stack' # <<>> /\ stack'[n] = f /\ stack'[n + 1] = g
        /\ \A i \in 1 .. n : i # n => stack'[i] = stack[i]
    <2>1. stack \in Seq(Frames)
      BY DEF TypeOK
    <2>2. /\ s \in Seq(Frames) /\ Len(s) = n
          /\ \A i \in 1 .. n : s[i] = IF i = n THEN f ELSE stack[i]
      BY <2>1, <1>2, <1>3, ExceptSeq
    <2> HIDE DEF s
    <2>3. /\ stack' \in Seq(Frames) /\ Len(stack') = n + 1 /\ stack'[n + 1] = g /\ stack' # <<>>
          /\ \A i \in 1 .. n : stack'[i] = s[i]
      BY <2>2, <1>1, <1>7, AppendProperties
    <2>4. DOMAIN stack' = 1 .. n + 1
      BY <2>3, LenProperties
    <2> QED BY <2>2, <2>3, <2>4, <1>2
  <1>9. \A i \in 1 .. n : /\ stack'[i].rel = stack[i].rel /\ stack'[i].abs = stack[i].abs
                          /\ stack'[i].isDir = stack[i].isDir /\ stack'[i].at = stack[i].at
                          /\ stack'[i].todo \subseteq stack[i].todo
    BY <1>1, <1>2, <1>3, <1>8
  <1>10. \A i \in 1 .. n + 1 : i \in 1 .. n \/ i = n + 1
    BY <1>2
  <1> HIDE DEF n, m, s
  <1>11. n + 1 \in 1 .. n + 1 /\ 1 \in 1 .. n /\ n + 1 # 1 /\ \A i \in 1 .. n : i \in 1 .. n + 1
    BY <1>2
  <1>a. TypeOK'
    BY <1>1, <1>8 DEF TypeOK
  <1>b. Stages'
    <2>1. archive # <<>>
      BY <1>1, <1>2, Shape DEF Opened, n, m
    <2> QED BY <2>1, <1>1, <1>8, <1>9, <1>11 DEF Stages
  <1>c. FramesFit'
    <2> SUFFICES ASSUME NEW i \in 1 .. n + 1
                 PROVE  /\ stack'[i].isDir <=> stack'[i].abs \in Dirs
                        /\ stack'[i].at \in {"list", "loop"} => stack'[i].isDir
                        /\ stack'[i].at = "copy" => ~stack'[i].isDir
                        /\ stack'[i].todo \subseteq Children(stack'[i].abs)
                        /\ stack'[i].at # "loop" => stack'[i].todo = {}
                        /\ Len(stack'[i].rel) - Len(root) \in 0 .. MaxDepth
      BY <1>1, <1>8 DEF FramesFit, Children, Nodes
    <2>1. CASE i \in 1 .. n
      <3>1. /\ stack[i].isDir <=> stack[i].abs \in Dirs
            /\ stack[i].at \in {"list", "loop"} => stack[i].isDir
            /\ stack[i].at = "copy" => ~stack[i].isDir
            /\ stack[i].todo \subseteq Children(stack[i].abs)
            /\ stack[i].at # "loop" => stack[i].todo = {}
            /\ Len(stack[i].rel) - Len(root) \in 0 .. MaxDepth
        BY <2>1, <1>2 DEF FramesFit
      <3> QED BY <2>1, <3>1, <1>9
    <2>2. CASE i = n + 1
      <3>1. Len(Top.rel) - Len(root) \in 0 .. MaxDepth
        BY <1>2 DEF FramesFit
      <3>2. Len(stack'[i].rel) - Len(root) \in 0 .. MaxDepth
        BY <2>2, <3>1, <1>1, <1>2, <1>6, <1>7, <1>8, ArchiveAssumption
      <3> QED BY <2>2, <3>2, <1>7, <1>8
    <2> QED BY <2>1, <2>2, <1>10
  <1>d. Chain'
    <2> SUFFICES ASSUME NEW i \in 1 .. n
                 PROVE  /\ stack'[i].at = "loop"
                        /\ \E c \in Children(stack'[i].abs) \ stack'[i].todo :
                              /\ stack'[i + 1].rel = Append(stack'[i].rel, Last(c))
                              /\ stack'[i + 1].abs = Target(c)
      <3>1. Len(stack') - 1 = n
        BY <1>2, <1>8
      <3> QED BY <3>1 DEF Chain, Children, Target, Nodes
    <2>1. CASE i = n
      <3>1. d \in Children(stack'[n].abs) \ stack'[n].todo /\ stack'[n].at = "loop"
        BY <1>3, <1>4, <1>8
      <3>2. stack'[n].rel = Top.rel
        BY <1>3, <1>8
      <3> QED BY <2>1, <3>1, <3>2, <1>7, <1>8
    <2>2. CASE i # n
      <3>1. i \in 1 .. n - 1 /\ i + 1 \in 1 .. n
        BY <2>2, <1>2
      <3>2. /\ stack[i].at = "loop"
            /\ \E c \in Children(stack[i].abs) \ stack[i].todo :
                  /\ stack[i + 1].rel = Append(stack[i].rel, Last(c))
                  /\ stack[i + 1].abs = Target(c)
        BY <3>1 DEF Chain, n
      <3> QED BY <2>2, <3>1, <3>2, <1>8, <1>9
    <2> QED BY <2>1, <2>2
  <1>e. Nested'
    <2> SUFFICES ASSUME NEW i \in 1 .. n + 1, NEW j \in 1 .. n + 1, i <= j
                 PROVE  Under(stack'[i].rel, stack'[j].rel)
      BY <1>8 DEF Nested
    <2>1. CASE i \in 1 .. n /\ j \in 1 .. n
      BY <2>1, <1>2, <1>9 DEF Nested
    <2>2. CASE i \in 1 .. n /\ j = n + 1
      <3>1. i <= n /\ stack[i].rel \in Seq(Names)
        BY <2>2, <1>2 DEF Frames
      <3>2. Under(stack[i].rel, Top.rel)
        BY <2>2, <3>1, <1>2 DEF Nested
      <3>3. Under(Top.rel, Append(Top.rel, Last(d)))
        BY <1>5, <1>6, UnderEntry
      <3>4. Under(stack[i].rel, Append(Top.rel, Last(d)))
        BY <3>1, <3>2, <3>3, <1>6, UnderUnder
      <3> QED BY <2>2, <3>4, <1>7, <1>8, <1>9
    <2>3. CASE i = n + 1 /\ j = n + 1
      BY <2>3, <1>6, <1>7, <1>8, UnderItself
    <2>4. ~(i = n + 1 /\ j \in 1 .. n)
      BY <1>2
    <2> QED BY <2>1, <2>2, <2>3, <2>4, <1>10
  <1>f. Opened'
    <2> SUFFICES ASSUME NEW i \in 1 .. n + 1, stack'[i].at \in {"list", "loop"}
                 PROVE  \E j \in 1 .. m :
                            /\ archive[j].isDir /\ archive[j].name = stack'[i].rel
                            /\ archive[j].of = stack'[i].abs
      BY <1>1, <1>2, <1>8 DEF Opened
    <2>1. i \in 1 .. n
      BY <1>7, <1>8, <1>10
    <2> QED BY <2>1, <1>2, <1>9 DEF Opened
  <1>g. Fresh'
    <2> SUFFICES ASSUME NEW i \in 1 .. n + 1, NEW j \in 1 .. m
                 PROVE  /\ stack'[i].at = "walk" => ~Under(stack'[i].rel, archive[j].name)
                        /\ stack'[i].at = "list" /\ Under(stack'[i].rel, archive[j].name)
                              => archive[j].name = stack'[i].rel
                        /\ \A c \in stack'[i].todo :
                              ~Under(Append(stack'[i].rel, Last(c)), archive[j].name)
      BY <1>1, <1>2, <1>8 DEF Fresh
    <2>1. CASE i \in 1 .. n
      BY <2>1, <1>2, <1>9 DEF Fresh
    <2>2. CASE i = n + 1
      <3>1. ~Under(Append(Top.rel, Last(d)), archive[j].name)
        BY <1>1, <1>2 DEF Fresh
      <3>2. /\ stack'[i].at = "walk" /\ stack'[i].todo = {}
            /\ stack'[i].rel = Append(Top.rel, Last(d))
        BY <2>2, <1>7, <1>8
      <3> QED BY <3>1, <3>2
    <2> QED BY <2>1, <2>2, <1>10
  <1>h. NoNameTwice' /\ Grounded'
    BY <1>1 DEF NoNameTwice, Grounded, Children, Target, Nodes
  <1>i. Covered'
    <2> SUFFICES ASSUME NEW i \in 1 .. m, NEW c \in Children(archive[i].of),
                        Pending(stack, archive[i].name, archive[i].of, c)
                 PROVE  Pending(stack', archive[i].name, archive[i].of, c)
      BY <1>1, <1>2 DEF Covered, Children, Target, Nodes, Archived
    <2>1. PICK k \in 1 .. n :
             \/ /\ stack[k].rel = archive[i].name /\ stack[k].abs = archive[i].of
                /\ stack[k].at = "list" \/ c \in stack[k].todo
             \/ /\ stack[k].rel = Append(archive[i].name, Last(c))
                /\ stack[k].abs = Target(c) /\ stack[k].at = "walk"
      BY <1>2 DEF Pending
    <2>2. CASE k = n /\ c = d
      <3>1. Top.rel = archive[i].name
        BY <2>1, <2>2, <1>1, <1>2
      <3> QED BY <2>2, <3>1, <1>7, <1>8, <1>11 DEF Pending
    <2>3. CASE k = n /\ c # d
      BY <2>1, <2>3, <1>1, <1>2, <1>3, <1>8, <1>11 DEF Pending
    <2>4. CASE k # n
      <3>1. k \in DOMAIN stack' /\ stack'[k] = stack[k]
        BY <2>4, <1>8, <1>11
      <3> QED BY <2>1, <3>1 DEF Pending
    <2> QED BY <2>2, <2>3, <2>4
  <1>j. Whole'
    <2>1. \A j \in 1 .. m : archive[j].whole
      BY <1>1, <1>2 DEF Whole
    <2> QED BY <2>1, <1>1, <1>2 DEF Whole
  <1> QED BY <1>a, <1>b, <1>c, <1>d, <1>e, <1>f, <1>g, <1>h, <1>i, <1>j


\* The calls that are left when the innermost one returns.
LEMMA PopFacts ==
    ASSUME stack \in Seq(Frames), stack # <<>>, stack' = Front(stack)
    PROVE  /\ stack' \in Seq(Frames) /\ Len(stack') = Len(stack) - 1
           /\ \A i \in 1 .. Len(stack) - 1 : stack'[i] = stack[i]
  BY FrontFacts

\* A return: what the call was for has been archived in full.
LEMMA ReturnStep ==
    ASSUME Inv, status = "walking", Return, Top.at \in {"copy", "loop"}, Top.todo = {},
           root' = root, up' = up, archive' \in Seq(Entries), Len(archive') = Len(archive),
           \A j \in 1 .. Len(archive) :
               /\ archive'[j].name = archive[j].name /\ archive'[j].of = archive[j].of
               /\ archive'[j].isDir = archive[j].isDir /\ archive'[j].whole
    PROVE  Inv'
  <1> DEFINE n == Len(stack)
             m == Len(archive)
  <1> USE DEF Inv
  <1>1. stack # <<>> /\ stack' = Front(stack)
    BY DEF Return, Stages
  <1>2. /\ n \in Nat /\ n \in 1 .. n /\ DOMAIN stack = 1 .. n
        /\ m \in Nat /\ DOMAIN archive = 1 .. m
        /\ Top = stack[n]
    BY <1>1, Shape
  <1>3. /\ stack' \in Seq(Frames) /\ Len(stack') = n - 1 /\ DOMAIN stack' = 1 .. n - 1
        /\ \A i \in 1 .. n - 1 : stack'[i] = stack[i]
        /\ stack' = <<>> <=> n = 1
    <2>1. stack \in Seq(Frames)
      BY DEF TypeOK
    <2>2. /\ stack' \in Seq(Frames) /\ Len(stack') = n - 1
          /\ \A i \in 1 .. n - 1 : stack'[i] = stack[i]
      BY <2>1, <1>1, PopFacts
    <2>3. DOMAIN stack' = 1 .. n - 1 /\ (stack' = <<>> <=> Len(stack') = 0)
      BY <2>2, LenProperties, EmptySeq
    <2> QED BY <2>2, <2>3, <1>2
  <1>4. DOMAIN archive' = 1 .. m /\ (archive' = <<>> <=> archive = <<>>)
    <2>1. DOMAIN archive' = 1 .. m
      BY LenProperties
    <2>2. archive' = <<>> <=> Len(archive') = 0
      BY EmptySeq
    <2> QED BY <2>1, <2>2, Shape
  <1>5. \A i \in 1 .. n - 1 : i \in 1 .. n /\ i # n /\ i + 1 \in 1 .. n
    BY <1>2
  <1>6. \A j \in 1 .. m :
            /\ archive'[j].name = archive[j].name /\ archive'[j].of = archive[j].of
            /\ archive'[j].isDir = archive[j].isDir /\ archive'[j].whole
    OBVIOUS
  <1>7. IF n = 1 THEN status' = "complete" /\ seal' = "tar"
                 ELSE status' = "walking" /\ seal' = seal
    BY DEF Return
  <1> HIDE DEF n, m
  <1>a. TypeOK'
    BY <1>3, <1>7 DEF TypeOK
  <1>b. Stages'
    <2>1. archive # <<>>
      <3>1. CASE n = 1
        BY <3>1, <1>1, <1>2 DEF Stages
      <3>2. CASE n # 1
        BY <3>2, <1>1 DEF Stages, n
      <3> QED BY <3>1, <3>2
    <2>2. CASE n = 1
      BY <2>1, <2>2, <1>3, <1>4, <1>7 DEF Stages
    <2>3. CASE n # 1
      <3>1. 1 \in 1 .. n - 1
        BY <2>3, <1>2
      <3>2. stack'[1] = stack[1] /\ stack[1].at = "loop"
        BY <3>1, <1>3 DEF Chain, n
      <3> QED BY <2>1, <2>3, <3>2, <1>1, <1>3, <1>4, <1>7 DEF Stages
    <2> QED BY <2>2, <2>3
  <1>c. FramesFit'
    <2> SUFFICES ASSUME NEW i \in 1 .. n - 1
                 PROVE  /\ stack'[i].isDir <=> stack'[i].abs \in Dirs
                        /\ stack'[i].at \in {"list", "loop"} => stack'[i].isDir
                        /\ stack'[i].at = "copy" => ~stack'[i].isDir
                        /\ stack'[i].todo \subseteq Children(stack'[i].abs)
                        /\ stack'[i].at # "loop" => stack'[i].todo = {}
                        /\ Len(stack'[i].rel) - Len(root) \in 0 .. MaxDepth
      BY <1>3 DEF FramesFit, Children, Nodes
    <2>1. stack'[i] = stack[i] /\ i \in DOMAIN stack
      BY <1>2, <1>3, <1>5
    <2> QED BY <2>1 DEF FramesFit
  <1>d. Chain'
    <2> SUFFICES ASSUME NEW i \in 1 .. (n - 1) - 1
                 PROVE  /\ stack'[i].at = "loop"
                        /\ \E c \in Children(stack'[i].abs) \ stack'[i].todo :
                              /\ stack'[i + 1].rel = Append(stack'[i].rel, Last(c))
                              /\ stack'[i + 1].abs = Target(c)
      BY <1>3 DEF Chain, Children, Target, Nodes
    <2>1. i \in 1 .. n - 1 /\ i + 1 \in 1 .. n - 1
      BY <1>2
    <2>2. /\ stack[i].at = "loop"
          /\ \E c \in Children(stack[i].abs) \ stack[i].todo :
                /\ stack[i + 1].rel = Append(stack[i].rel, Last(c))
                /\ stack[i + 1].abs = Target(c)
      BY <2>1 DEF Chain, n
    <2> QED BY <2>1, <2>2, <1>3
  <1>e. Nested'
    BY <1>2, <1>3, <1>5 DEF Nested
  <1>f. Opened'
    <2> SUFFICES ASSUME NEW i \in 1 .. n - 1, stack'[i].at \in {"list", "loop"}
                 PROVE  \E j \in 1 .. m :
                            /\ archive'[j].isDir /\ archive'[j].name = stack'[i].rel
                            /\ archive'[j].of = stack'[i].abs
      BY <1>3, <1>4 DEF Opened
    <2>1. PICK j \in 1 .. m :
              archive[j].isDir /\ archive[j].name = stack[i].rel /\ archive[j].of = stack[i].abs
      BY <1>2, <1>3, <1>5 DEF Opened
    <2> QED BY <2>1, <1>3, <1>6
  <1>g. Fresh'
    <2> SUFFICES ASSUME NEW i \in 1 .. n - 1, NEW j \in 1 .. m
                 PROVE  /\ stack'[i].at = "walk" => ~Under(stack'[i].rel, archive'[j].name)
                        /\ stack'[i].at = "list" /\ Under(stack'[i].rel, archive'[j].name)
                              => archive'[j].name = stack'[i].rel
                        /\ \A c \in stack'[i].todo :
                              ~Under(Append(stack'[i].rel, Last(c)), archive'[j].name)
      BY <1>3, <1>4 DEF Fresh
    <2> QED BY <1>2, <1>3, <1>5, <1>6 DEF Fresh
  <1>h. NoNameTwice'
    BY <1>2, <1>4, <1>6 DEF NoNameTwice
  <1>i. Grounded'
    <2> SUFFICES ASSUME NEW i \in 1 .. m
                 PROVE  /\ archive'[i].isDir <=> archive'[i].of \in Dirs
                        /\ Len(archive'[i].name) - Len(root) \in 0 .. MaxDepth
                        /\ i = 1 => archive'[i].name = root /\ archive'[i].of = root
                        /\ i > 1 => \E j \in 1 .. i - 1 : \E c \in Children(archive'[j].of) :
                                        /\ archive'[j].isDir
                                        /\ archive'[i].name = Append(archive'[j].name, Last(c))
                                        /\ archive'[i].of = Target(c)
      BY <1>4 DEF Grounded, Children, Target, Nodes
    <2>1. \A j \in 1 .. i - 1 : j \in 1 .. m
      BY <1>2
    <2>2. /\ archive[i].isDir <=> archive[i].of \in Dirs
          /\ Len(archive[i].name) - Len(root) \in 0 .. MaxDepth
          /\ i = 1 => archive[i].name = root /\ archive[i].of = root
          /\ i > 1 => \E j \in 1 .. i - 1 : \E c \in Children(archive[j].of) :
                          /\ archive[j].isDir
                          /\ archive[i].name = Append(archive[j].name, Last(c))
                          /\ archive[i].of = Target(c)
      BY <1>2 DEF Grounded
    <2>3. /\ archive'[i].name = archive[i].name /\ archive'[i].of = archive[i].of
          /\ archive'[i].isDir = archive[i].isDir
          /\ \A j \in 1 .. i - 1 : /\ archive'[j].name = archive[j].name
                                    /\ archive'[j].of = archive[j].of
                                    /\ archive'[j].isDir = archive[j].isDir
      BY <2>1, <1>6
    <2>4. ASSUME i > 1
          PROVE  \E j \in 1 .. i - 1 : \E c \in Children(archive'[j].of) :
                     /\ archive'[j].isDir
                     /\ archive'[i].name = Append(archive'[j].name, Last(c))
                     /\ archive'[i].of = Target(c)
      <3>1. PICK j \in 1 .. i - 1 : \E c \in Children(archive[j].of) :
                     /\ archive[j].isDir
                     /\ archive[i].name = Append(archive[j].name, Last(c))
                     /\ archive[i].of = Target(c)
        BY <2>2, <2>4
      <3> QED BY <3>1, <2>3
    <2> QED BY <2>2, <2>3, <2>4
  <1>j. Covered'
    <2>1. Archived' = Archived
      BY <1>2, <1>4, <1>6 DEF Archived
    <2> SUFFICES ASSUME NEW i \in 1 .. m, NEW c \in Children(archive'[i].of)
                 PROVE  \/ <<Append(archive'[i].name, Last(c)), Target(c)>> \in Archived'
                        \/ Pending(stack', archive'[i].name, archive'[i].of, c)
      BY <1>4 DEF Covered, Children, Target, Nodes
    <2>2. CASE <<Append(archive[i].name, Last(c)), Target(c)>> \in Archived
      BY <2>1, <2>2, <1>6
    <2>3. CASE Pending(stack, archive[i].name, archive[i].of, c)
      <3>1. PICK k \in 1 .. n :
               \/ /\ stack[k].rel = archive[i].name /\ stack[k].abs = archive[i].of
                  /\ stack[k].at = "list" \/ c \in stack[k].todo
               \/ /\ stack[k].rel = Append(archive[i].name, Last(c))
                  /\ stack[k].abs = Target(c) /\ stack[k].at = "walk"
        BY <2>3, <1>2 DEF Pending
      <3>2. k # n
        BY <3>1, <1>2
      <3>3. k \in DOMAIN stack' /\ stack'[k] = stack[k]
        BY <3>2, <1>2, <1>3
      <3>4. archive'[i].name = archive[i].name /\ archive'[i].of = archive[i].of
        BY <1>6
      <3>5. Pending(stack', archive[i].name, archive[i].of, c)
        BY <3>1, <3>3 DEF Pending
      <3> QED BY <3>4, <3>5
    <2> QED BY <2>2, <2>3, <1>2, <1>6 DEF Covered
  <1>k. Whole'
    BY <1>4, <1>6 DEF Whole
  <1> QED BY <1>a, <1>b, <1>c, <1>d, <1>e, <1>f, <1>g, <1>h, <1>i, <1>j, <1>k


\* The last bytes of a file.
LEMMA CopyStep ==
    ASSUME Inv, CopyFile
    PROVE  Inv'
  <1> USE DEF Inv
  <1>1. /\ status = "walking" /\ stack # <<>> /\ Top.at = "copy" /\ Return
        /\ root' = root /\ up' = up
        /\ archive' = [archive EXCEPT ![Len(archive)].whole = TRUE]
    BY DEF CopyFile, Stages
  <1>2. Top.todo = {}
    BY <1>1, Shape DEF FramesFit
  <1> DEFINE m == Len(archive)
             e == [archive[m] EXCEPT !.whole = TRUE]
  <1>3. archive # <<>>
    <2>1. CASE Len(stack) = 1
      BY <2>1, <1>1, Shape DEF Stages
    <2>2. CASE Len(stack) # 1
      BY <2>2, <1>1 DEF Stages
    <2> QED BY <2>1, <2>2
  <1>4. m \in Nat /\ m \in 1 .. m /\ \A j \in 1 .. m : archive[j] \in Entries
    BY <1>3, Shape
  <1>5. /\ e \in Entries /\ e.name = archive[m].name /\ e.of = archive[m].of
        /\ e.isDir = archive[m].isDir /\ e.whole
    BY <1>4 DEF Entries
  <1>6. archive \in Seq(Entries) /\ archive' = [archive EXCEPT ![m] = e]
    BY <1>1 DEF TypeOK
  <1> HIDE DEF e
  <1>7. /\ archive' \in Seq(Entries) /\ Len(archive') = m
        /\ \A j \in 1 .. m : archive'[j] = IF j = m THEN e ELSE archive[j]
    BY <1>4, <1>5, <1>6, ExceptSeq
  <1>8. \A j \in 1 .. m : j # m => archive[j].whole
    BY <1>1, Shape DEF Whole
  <1>9. \A j \in 1 .. m :
            /\ archive'[j].name = archive[j].name /\ archive'[j].of = archive[j].of
            /\ archive'[j].isDir = archive[j].isDir /\ archive'[j].whole
    BY <1>5, <1>7, <1>8
  <1> QED BY <1>1, <1>2, <1>7, <1>9, ReturnStep

\* The end of a listing.
LEMMA AscendStep ==
    ASSUME Inv, Ascend
    PROVE  Inv'
  <1>1. /\ status = "walking" /\ Top.at = "loop" /\ Top.todo = {} /\ Return
        /\ root' = root /\ up' = up /\ archive' = archive
    BY DEF Ascend
  <1>2. archive \in Seq(Entries)
    BY DEF Inv, TypeOK
  <1>3. \A j \in 1 .. Len(archive) : archive[j].whole
    BY <1>1, Shape DEF Inv, Whole
  <1> QED BY <1>1, <1>2, <1>3, ReturnStep

\* The start of the walk.
LEMMA StartStep ==
    ASSUME Inv, NEW p \in Dirs \cup Files, handleDownloadZip(p)
    PROVE  Inv'
  <1> DEFINE g == Call(p, p, p \in Dirs)
  <1>1. /\ status' = "walking" /\ root' = p /\ stack' = <<g>> /\ archive' = <<>>
        /\ seal' = seal /\ up' = up
    BY DEF Inv, Stages, handleDownloadZip
  <1>2. p \in Seq(Names) /\ Len(p) \in Nat
    BY ArchiveAssumption, LenProperties DEF Nodes
  <1>3. /\ g \in Frames /\ g.rel = p /\ g.abs = p /\ g.todo = {} /\ g.at = "walk"
        /\ g.isDir <=> p \in Dirs
    <2>1. (p \in Dirs) \in BOOLEAN /\ {} \in SUBSET Nodes
      OBVIOUS
    <2> QED BY <2>1, <1>2 DEF Call, Frames
  <1> HIDE DEF g
  <1>4. /\ stack' \in Seq(Frames) /\ Len(stack') = 1 /\ DOMAIN stack' = {1} /\ stack'[1] = g
        /\ stack' # <<>>
    BY <1>1, <1>3
  <1>5. DOMAIN archive' = {} /\ archive' \in Seq(Entries)
    BY <1>1
  <1>6. Under(p, p)
    BY <1>2, UnderItself
  <1>a. TypeOK'
    BY <1>1, <1>4, <1>5 DEF Inv, TypeOK
  <1>b. Stages'
    BY <1>1, <1>3, <1>4 DEF Stages
  <1>c. FramesFit'
    <2>1. Len(p) - Len(p) \in 0 .. MaxDepth
      BY <1>2, ArchiveAssumption
    <2> QED BY <2>1, <1>1, <1>3, <1>4 DEF FramesFit
  <1>d. Chain' /\ Nested'
    BY <1>3, <1>4, <1>6 DEF Chain, Nested
  <1>e. Opened' /\ Fresh' /\ NoNameTwice' /\ Grounded' /\ Covered' /\ Whole'
    BY <1>3, <1>4, <1>5 DEF Opened, Fresh, NoNameTwice, Grounded, Covered, Whole
  <1> QED BY <1>a, <1>b, <1>c, <1>d, <1>e DEF Inv

\* An error ends every call.
LEMMA AbortStep ==
    ASSUME Inv, Abort
    PROVE  Inv'
  <1> USE DEF Inv
  <1>1. /\ status' = "truncated" /\ stack' = <<>> /\ root' = root /\ archive' = archive
        /\ up' = up /\ seal' \in {"gzip", "tar"}
    BY DEF Abort
  <1>2. stack' \in Seq(Frames) /\ DOMAIN stack' = {} /\ Len(stack') = 0
    BY <1>1
  <1>a. TypeOK' /\ Stages'
    BY <1>1, <1>2 DEF TypeOK, Stages
  <1>b. FramesFit' /\ Chain' /\ Nested' /\ Opened' /\ Fresh'
    BY <1>2 DEF FramesFit, Chain, Nested, Opened, Fresh
  <1>c. NoNameTwice' /\ Grounded' /\ Covered' /\ Whole'
    BY <1>1 DEF NoNameTwice, Grounded, Children, Target, Nodes, Covered, Whole
  <1> QED BY <1>a, <1>b, <1>c

\* The invariant depends on the walk alone.
LEMMA StutterStep ==
    ASSUME Inv, UNCHANGED <<status, root, stack, archive, seal>>, up' \in BOOLEAN
    PROVE  Inv'
  <1> USE DEF Inv
  <1>1. TypeOK' /\ Stages'
    BY DEF TypeOK, Stages
  <1>2. FramesFit' /\ Chain'
    BY DEF FramesFit, Chain, Children, Target, Nodes
  <1>4. Nested' /\ Opened' /\ Fresh'
    BY DEF Nested, Opened, Fresh, Children, Target, Nodes
  <1>3. NoNameTwice' /\ Grounded' /\ Covered' /\ Whole'
    BY DEF NoNameTwice, Grounded, Children, Target, Nodes, Covered, Whole, Archived, Pending, Top
  <1> QED BY <1>1, <1>2, <1>3, <1>4

-----------------------------------------------------------------------------

LEMMA InitInv == Init => Inv
  <1> SUFFICES ASSUME Init PROVE Inv
    OBVIOUS
  <1>1. /\ stack \in Seq(Frames) /\ DOMAIN stack = {} /\ Len(stack) = 0
        /\ archive \in Seq(Entries) /\ DOMAIN archive = {}
    BY DEF Init
  <1>2. TypeOK /\ Stages
    BY <1>1, ArchiveAssumption DEF Init, TypeOK, Stages
  <1>3. FramesFit /\ Chain /\ Nested /\ Opened /\ Fresh
    BY <1>1 DEF FramesFit, Chain, Nested, Opened, Fresh
  <1>4. NoNameTwice /\ Grounded /\ Covered /\ Whole
    BY <1>1 DEF NoNameTwice, Grounded, Covered, Whole
  <1> QED BY <1>2, <1>3, <1>4 DEF Inv

LEMMA NextInv == Inv /\ [Next]_vars => Inv'
  <1> SUFFICES ASSUME Inv, [Next]_vars PROVE Inv'
    OBVIOUS
  <1>1. ASSUME NEW p \in Dirs \cup Files, handleDownloadZip(p)
        PROVE  Inv'
    BY <1>1, StartStep
  <1>2. CASE walk
    BY <1>2, WalkStep
  <1>3. CASE CopyFile
    BY <1>3, CopyStep
  <1>4. CASE ListEntries
    BY <1>4, ListStep
  <1>5. ASSUME NEW c \in Nodes, Descend(c)
        PROVE  Inv'
    BY <1>5, DescendStep
  <1>6. CASE Ascend
    BY <1>6, AscendStep
  <1>7. CASE Abort
    BY <1>7, AbortStep
  <1>8. CASE Hangup
    BY <1>8, StutterStep DEF Hangup
  <1>9. CASE UNCHANGED vars
    <2>1. up' \in BOOLEAN
      BY <1>9 DEF vars, Inv, TypeOK
    <2> QED BY <2>1, <1>9, StutterStep DEF vars
  <1> QED BY <1>1, <1>2, <1>3, <1>4, <1>5, <1>6, <1>7, <1>8, <1>9 DEF Next, Walker

LEMMA SpecInv == Spec => []Inv
  BY InitInv, NextInv, PTL DEF Spec


-----------------------------------------------------------------------------
(***************************************************************************)
(* Induction, by the least element of a set of numbers                     *)
(***************************************************************************)

LessThan == OpToRel(<, Nat)

\* Every set of numbers has a least one.
LEMMA LeastNumber ==
    ASSUME NEW T \in SUBSET Nat, T # {}
    PROVE  \E x \in T : \A y \in T : x <= y
  <1>1. IsWellFoundedOn(LessThan, Nat)
    BY NatLessThanWellFounded DEF LessThan
  <1>2. PICK x \in T : \A y \in T : ~(<<y, x>> \in LessThan)
    BY <1>1, WFMin
  <1>3. ASSUME NEW y \in T
        PROVE  x <= y
    <2>1. x \in Nat /\ y \in Nat
      OBVIOUS
    <2>2. y < x => <<y, x>> \in LessThan
      BY <2>1 DEF LessThan, OpToRel
    <2> QED BY <2>1, <2>2, <1>2
  <1> QED BY <1>3

\* A set that holds zero and the successor of each of its numbers holds them all.
LEMMA Induction ==
    ASSUME NEW S, 0 \in S, \A n \in Nat : n \in S => n + 1 \in S
    PROVE  Nat \subseteq S
  <1> SUFFICES ASSUME Nat \ S # {} PROVE FALSE
    OBVIOUS
  <1>1. PICK x \in Nat \ S : \A y \in Nat \ S : x <= y
    BY LeastNumber
  <1>2. x # 0 /\ x - 1 \in Nat /\ x - 1 \in S
    BY <1>1
  <1> QED BY <1>1, <1>2

\* The levels of the reference are what their definition says.
LEMMA WithinLevels ==
    /\ Within[0] = {<<root, root>>}
    /\ \A n \in Nat : n + 1 <= MaxDepth => Within[n + 1] = Within[n] \cup Below(Within[n])
  <1> DEFINE Level(f, n) == IF n = 0 THEN {<<root, root>>} ELSE f[n - 1] \cup Below(f[n - 1])
             Upto == {m \in Nat : \E f : f = [n \in 0 .. m |-> Level(f, n)]}
  <1>1. 0 \in Upto
    <2>1. [n \in 0 .. 0 |-> {<<root, root>>}] = [n \in 0 .. 0 |->
              Level([k \in 0 .. 0 |-> {<<root, root>>}], n)]
      OBVIOUS
    <2> QED BY <2>1
  <1>2. ASSUME NEW m \in Nat, m \in Upto
        PROVE  m + 1 \in Upto
    <2>1. PICK f : f = [n \in 0 .. m |-> Level(f, n)]
      BY <1>2
    <2> DEFINE g == [n \in 0 .. m + 1 |-> IF n = m + 1 THEN f[m] \cup Below(f[m]) ELSE f[n]]
    <2>2. ASSUME NEW n \in 0 .. m + 1
          PROVE  g[n] = Level(g, n)
      <3>1. CASE n = m + 1
        <4>1. m \in 0 .. m + 1 /\ m # m + 1 /\ n # 0 /\ n - 1 = m
          BY <3>1
        <4>2. g[n] = f[m] \cup Below(f[m]) /\ g[n - 1] = f[m]
          BY <3>1, <4>1
        <4> HIDE DEF g
        <4> QED BY <4>1, <4>2
      <3>2. CASE n # m + 1 /\ n = 0
        <4>1. g[n] = f[n] /\ n \in 0 .. m
          BY <3>2
        <4> HIDE DEF g
        <4> QED BY <3>2, <4>1, <2>1
      <3>3. CASE n # m + 1 /\ n # 0
        <4>1. n \in 0 .. m /\ n - 1 \in 0 .. m + 1 /\ n - 1 # m + 1
          BY <3>3
        <4>2. g[n] = f[n] /\ g[n - 1] = f[n - 1]
          BY <3>3, <4>1
        <4>3. f[n] = f[n - 1] \cup Below(f[n - 1])
          BY <3>3, <4>1, <2>1
        <4> HIDE DEF g
        <4> QED BY <3>3, <4>2, <4>3
      <3> QED BY <3>1, <3>2, <3>3
    <2>3. DOMAIN g = 0 .. m + 1
      OBVIOUS
    <2>4. g = [n \in 0 .. m + 1 |-> g[n]]
      OBVIOUS
    <2> HIDE DEF g
    <2>5. g = [n \in 0 .. m + 1 |-> Level(g, n)]
      BY <2>2, <2>4
    <2> QED BY <2>5
  <1>3. MaxDepth \in Upto
    <2> HIDE DEF Upto
    <2>1. Nat \subseteq Upto
      BY <1>1, <1>2, Induction
    <2> QED BY <2>1, ArchiveAssumption
  <1>4. Within = [n \in 0 .. MaxDepth |-> Level(Within, n)]
    <2>1. \E f : f = [n \in 0 .. MaxDepth |-> Level(f, n)]
      BY <1>3
    <2> QED BY <2>1, Zenon DEF Within
  <1>5. 0 \in 0 .. MaxDepth
    BY ArchiveAssumption
  <1>6. ASSUME NEW n \in Nat, n + 1 <= MaxDepth
        PROVE  Within[n + 1] = Within[n] \cup Below(Within[n])
    <2>1. n + 1 \in 0 .. MaxDepth /\ n + 1 # 0 /\ (n + 1) - 1 = n
      BY <1>6, ArchiveAssumption
    <2>2. Within[n + 1] = Level(Within, n + 1)
      BY <2>1, <1>4
    <2> QED BY <2>1, <2>2
  <1>7. Within[0] = {<<root, root>>}
    BY <1>4, <1>5
  <1> QED BY <1>6, <1>7


-----------------------------------------------------------------------------
(***************************************************************************)
(* The theorems                                                            *)
(***************************************************************************)

\* Front takes away what Append adds.
LEMMA FrontOfAppend ==
    ASSUME NEW p \in Seq(Names), NEW a \in Names
    PROVE  Front(Append(p, a)) = p
  <1> DEFINE q == Append(p, a)
  <1>1. /\ q \in Seq(Names) /\ q # <<>> /\ Len(q) = Len(p) + 1 /\ Len(p) \in Nat
        /\ \A i \in 1 .. Len(p) : q[i] = p[i]
    BY AppendProperties, LenProperties
  <1> HIDE DEF q
  <1>2. /\ Front(q) \in Seq(Names) /\ Len(Front(q)) = Len(q) - 1
        /\ \A i \in 1 .. Len(q) - 1 : Front(q)[i] = q[i]
    BY <1>1, FrontFacts
  <1>3. Len(Front(q)) = Len(p) /\ \A i \in 1 .. Len(Front(q)) : Front(q)[i] = p[i]
    BY <1>1, <1>2
  <1>4. Front(q) = p
    BY <1>1, <1>2, <1>3, SeqEqual
  <1> QED BY <1>4 DEF q

\* Level by level, everything in the archive is in the reference.
LEMMA NothingElse ==
    ASSUME Inv
    PROVE  Archived \subseteq Within[MaxDepth]
  <1> DEFINE m == Len(archive)
             level(i) == Len(archive[i].name) - Len(root)
             pair(i) == <<archive[i].name, archive[i].of>>
  <1>1. /\ m \in Nat /\ DOMAIN archive = 1 .. m /\ root \in Seq(Names) /\ Len(root) \in Nat
        /\ \A i \in 1 .. m : archive[i].name \in Seq(Names)
    BY Shape DEF Inv, Entries
  <1>2. \A i \in 1 .. m : Len(archive[i].name) \in Nat /\ level(i) \in 0 .. MaxDepth
    BY <1>1, LenProperties DEF Inv, Grounded
  <1>3. \A i \in 1 .. m : pair(i) \in Within[level(i)]
    <2> DEFINE Good == {k \in Nat : \A i \in 1 .. m : i <= k => pair(i) \in Within[level(i)]}
    <2>1. 0 \in Good
      OBVIOUS
    <2>2. ASSUME NEW k \in Nat, k \in Good
          PROVE  k + 1 \in Good
      <3> SUFFICES ASSUME NEW i \in 1 .. m, i <= k + 1
                   PROVE  pair(i) \in Within[level(i)]
        OBVIOUS
      <3>1. CASE i <= k
        BY <3>1, <2>2
      <3>2. CASE i = 1
        <4>1. archive[i].name = root /\ archive[i].of = root
          BY <3>2, <1>1 DEF Inv, Grounded
        <4>2. level(i) = 0
          BY <4>1, <1>1
        <4> QED BY <4>1, <4>2, WithinLevels
      <3>3. CASE i = k + 1 /\ i # 1
        <4>1. PICK j \in 1 .. i - 1 : \E c \in Children(archive[j].of) :
                  /\ archive[i].name = Append(archive[j].name, Last(c))
                  /\ archive[i].of = Target(c)
          <5>1. i > 1
            BY <3>3
          <5> QED BY <5>1, <1>1 DEF Inv, Grounded
        <4>2. PICK c \in Children(archive[j].of) :
                  /\ archive[i].name = Append(archive[j].name, Last(c))
                  /\ archive[i].of = Target(c)
          BY <4>1
        <4>3. j \in 1 .. m /\ j <= k
          BY <3>3, <1>1
        <4>4. pair(j) \in Within[level(j)]
          BY <4>3, <2>2
        <4>5. level(i) = level(j) + 1
          <5>1. Last(c) \in Names
            BY ChildFacts
          <5>2. Len(archive[i].name) = Len(archive[j].name) + 1
            BY <5>1, <4>2, <4>3, <1>1, AppendProperties
          <5> QED BY <5>2, <4>3, <1>1, <1>2
        <4>6. level(j) \in Nat /\ level(j) + 1 <= MaxDepth
          BY <4>3, <4>5, <1>2, ArchiveAssumption
        <4>7. pair(i) \in Below(Within[level(j)])
          BY <4>2, <4>4 DEF Below
        <4> HIDE DEF level, pair
        <4> QED BY <4>5, <4>6, <4>7, WithinLevels
      <3> QED BY <3>1, <3>2, <3>3
    <2>3. Nat \subseteq Good
      <3> HIDE DEF Good
      <3> QED BY <2>1, <2>2, Induction
    <2>4. m \in Good /\ \A i \in 1 .. m : i <= m
      BY <2>3, <1>1
    <2> QED BY <2>4
  <1>4. ASSUME NEW l \in 0 .. MaxDepth
        PROVE  Within[l] \subseteq Within[MaxDepth]
    <2> DEFINE Good == {k \in Nat : l + k <= MaxDepth => Within[l] \subseteq Within[l + k]}
    <2>1. 0 \in Good
      OBVIOUS
    <2>2. ASSUME NEW k \in Nat, k \in Good
          PROVE  k + 1 \in Good
      <3> SUFFICES ASSUME l + (k + 1) <= MaxDepth
                   PROVE  Within[l] \subseteq Within[l + (k + 1)]
        OBVIOUS
      <3>1. /\ l + k \in Nat /\ (l + k) + 1 = l + (k + 1) /\ (l + k) + 1 <= MaxDepth
            /\ l + k <= MaxDepth
        BY ArchiveAssumption
      <3>2. Within[(l + k) + 1] = Within[l + k] \cup Below(Within[l + k])
        BY <3>1, WithinLevels
      <3> QED BY <3>1, <3>2, <2>2
    <2>3. Nat \subseteq Good
      <3> HIDE DEF Good
      <3> QED BY <2>1, <2>2, Induction
    <2>4. MaxDepth - l \in Nat /\ l + (MaxDepth - l) = MaxDepth
      BY ArchiveAssumption
    <2>5. MaxDepth - l \in Good
      BY <2>3, <2>4
    <2>6. l + (MaxDepth - l) <= MaxDepth
      BY <2>4, ArchiveAssumption
    <2> QED BY <2>4, <2>5, <2>6
  <1>5. \A i \in 1 .. m : pair(i) \in Within[MaxDepth]
    BY <1>2, <1>3, <1>4
  <1> QED BY <1>1, <1>5 DEF Archived

\* Nothing to come and the root archived: every level of the reference is archived.
LEMMA NothingMissing ==
    ASSUME Inv, status = "complete"
    PROVE  Within[MaxDepth] \subseteq Archived
  <1>1. stack = <<>> /\ archive # <<>> /\ DOMAIN stack = {}
    BY DEF Inv, Stages
  <1>2. Len(archive) \in Nat /\ DOMAIN archive = 1 .. Len(archive) /\ Len(archive) # 0
    BY <1>1, Shape DEF Inv
  <1>3. <<root, root>> \in Archived
    <2>1. 1 \in DOMAIN archive
      BY <1>2
    <2>2. archive[1].name = root /\ archive[1].of = root
      BY <2>1 DEF Inv, Grounded
    <2> QED BY <2>1, <2>2 DEF Archived
  <1>4. Below(Archived) \subseteq Archived
    <2> SUFFICES ASSUME NEW w \in Archived, NEW c \in Children(w[2])
                 PROVE  <<Append(w[1], Last(c)), Target(c)>> \in Archived
      BY DEF Below
    <2>a. PICK i \in DOMAIN archive : w = <<archive[i].name, archive[i].of>>
      BY DEF Archived
    <2>1. ~Pending(stack, archive[i].name, archive[i].of, c)
      BY <1>1 DEF Pending
    <2>2. c \in Children(archive[i].of) /\ w[1] = archive[i].name
      BY <2>a
    <2> QED BY <2>1, <2>2 DEF Inv, Covered
  <1>5. \A S : S \subseteq Archived => Below(S) \subseteq Archived
    <2>1. \A S : S \subseteq Archived => Below(S) \subseteq Below(Archived)
      BY DEF Below
    <2> QED BY <2>1, <1>4
  <1> DEFINE Good == {n \in Nat : n <= MaxDepth => Within[n] \subseteq Archived}
  <1>6. 0 \in Good
    BY <1>3, WithinLevels
  <1>7. ASSUME NEW n \in Nat, n \in Good
        PROVE  n + 1 \in Good
    <2> SUFFICES ASSUME n + 1 <= MaxDepth
                 PROVE  Within[n + 1] \subseteq Archived
      OBVIOUS
    <2>1. n <= MaxDepth
      BY ArchiveAssumption
    <2>2. Within[n] \subseteq Archived
      BY <2>1, <1>7
    <2> QED BY <2>2, <1>5, WithinLevels
  <1>8. Nat \subseteq Good
    <2> HIDE DEF Good
    <2> QED BY <1>6, <1>7, Induction
  <1>9. MaxDepth \in Good /\ MaxDepth <= MaxDepth
    BY <1>8, ArchiveAssumption
  <1> QED BY <1>9

\* The state of handleDownloadZip stays within its types: a listing is of nodes, an
\* entry is read from a directory or a file.
THEOREM TypeCorrect == Spec => []TypeOK
  <1>1. Inv => TypeOK
    BY DEF Inv
  <1> QED BY <1>1, SpecInv, PTL

\* No name is written twice and every entry comes after its directory, on every volume
\* and in every order of its listings.
THEOREM ArchivesUnpack == Spec => []Unpacks
  <1>1. Inv => Unpacks
    <2> SUFFICES ASSUME Inv, NEW i \in DOMAIN archive
                 PROVE  /\ \A j \in DOMAIN archive : archive[i].name = archive[j].name => i = j
                        /\ i > 1 => \E j \in 1 .. i - 1 :
                              archive[j].isDir /\ archive[j].name = Front(archive[i].name)
      BY DEF Unpacks
    <2>1. \A j \in DOMAIN archive : archive[i].name = archive[j].name => i = j
      BY DEF Inv, NoNameTwice
    <2>2. ASSUME i > 1
          PROVE  \E j \in 1 .. i - 1 :
                    archive[j].isDir /\ archive[j].name = Front(archive[i].name)
      <3>1. PICK j \in 1 .. i - 1 : \E c \in Children(archive[j].of) :
                /\ archive[j].isDir
                /\ archive[i].name = Append(archive[j].name, Last(c))
        BY <2>2 DEF Inv, Grounded
      <3>2. PICK c \in Children(archive[j].of) :
                archive[i].name = Append(archive[j].name, Last(c))
        BY <3>1
      <3>3. j \in 1 .. Len(archive)
        BY Shape DEF Inv
      <3>4. archive[j].name \in Seq(Names)
        BY <3>3, Shape DEF Inv, Entries
      <3>5. Front(archive[i].name) = archive[j].name
        BY <3>2, <3>4, ChildFacts, FrontOfAppend
      <3> QED BY <3>1, <3>5
    <2> QED BY <2>1, <2>2
  <1> QED BY <1>1, SpecInv, PTL

\* A download that ends without an error holds what is below its root, all of it, in
\* full and nothing else, whatever junctions the volume has.
THEOREM CompleteArchives == Spec => []CompleteHasAll
  <1>1. Inv => CompleteHasAll
    <2> SUFFICES ASSUME Inv, status = "complete"
                 PROVE  /\ Archived = Within[MaxDepth]
                        /\ \A i \in DOMAIN archive : archive[i].whole
      BY DEF CompleteHasAll
    <2>1. Archived = Within[MaxDepth]
      BY NothingElse, NothingMissing
    <2>2. \A i \in DOMAIN archive : archive[i].whole
      BY DEF Inv, Stages, Whole
    <2> QED BY <2>1, <2>2
  <1> QED BY <1>1, SpecInv, PTL


\* What a user can rely on who is handed a truncated archive without being told (see
\* TruncationShows): all that is in it belongs there, and if its tar was ended, what is
\* missing is missing in whole entries, so that no file in it is short.
TruncatedIsSound ==
    /\ Archived \subseteq Within[MaxDepth]
    /\ seal = "tar" => \A i \in DOMAIN archive : archive[i].whole

\* The closes are deferred: the stream is open until the handler returns.
Sealed ==
    /\ status \in {"idle", "walking"} => seal = "open"
    /\ seal = "tar" => \A i \in DOMAIN archive : archive[i].whole

\* Whatever ends the tar has seen the last entry whole.
LEMMA NextSealed == Inv /\ Sealed /\ [Next]_vars => Sealed'
  <1> SUFFICES ASSUME Inv, Sealed, [Next]_vars PROVE Sealed'
    OBVIOUS
  <1>1. ASSUME NEW p \in Dirs \cup Files, handleDownloadZip(p)
        PROVE  Sealed'
    BY <1>1 DEF handleDownloadZip, Sealed
  <1>2. CASE walk \/ ListEntries \/ \E c \in Nodes : Descend(c)
    BY <1>2 DEF walk, ListEntries, Descend, Sealed
  <1>3. CASE CopyFile \/ Ascend
    <2>1. /\ status = "walking" /\ seal = "open"
          /\ \/ status' = "complete"
             \/ status' = status /\ seal' = seal
      BY <1>3 DEF CopyFile, Ascend, Return, Sealed
    <2>2. Inv'
      BY NextInv
    <2>3. status' = "complete" => \A i \in DOMAIN archive' : archive'[i].whole
      BY <2>2 DEF Inv, Stages, Whole
    <2> QED BY <2>1, <2>3 DEF Sealed
  <1>4. CASE Abort
    <2>1. /\ status = "walking" /\ status' = "truncated" /\ archive' = archive
          /\ seal' = IF archive # <<>> /\ ~Last(archive).whole THEN "gzip" ELSE "tar"
      BY <1>4 DEF Abort
    <2>2. ASSUME seal' = "tar", NEW i \in DOMAIN archive
          PROVE  archive[i].whole
      <3>1. archive # <<>> /\ i \in 1 .. Len(archive)
        BY Shape DEF Inv
      <3>2. archive[Len(archive)].whole
        BY <3>1, <2>1, <2>2 DEF Last
      <3> QED BY <3>2, <2>1 DEF Inv, Whole
    <2> QED BY <2>1, <2>2 DEF Sealed
  <1>5. CASE Hangup \/ UNCHANGED vars
    BY <1>5 DEF Hangup, vars, Sealed
  <1> QED BY <1>1, <1>2, <1>3, <1>4, <1>5 DEF Next, Walker

\* An archive cut off by an error (a link that does not resolve, a lost session) holds
\* nothing but what is below its root, at any moment; and when the deferred tw.Close has
\* made it look whole, every file in it is.
THEOREM TruncatedArchives == Spec => []TruncatedIsSound
  <1>1. Init => Sealed
    BY DEF Init, Sealed
  <1>2. Inv /\ Sealed => TruncatedIsSound
    BY NothingElse DEF TruncatedIsSound, Sealed
  <1> QED BY <1>1, <1>2, NextSealed, SpecInv, PTL DEF Spec


============================================================================
