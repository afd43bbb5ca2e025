----------------------------- MODULE ArchiveWalk -----------------------------
(***************************************************************************)
(* handleDownloadZip of internal/handlers/handlers.go: the recursive walk  *)
(* that streams a directory of the restored volume as a tar.gz.            *)
(*                                                                         *)
(* The recursion of rec is a stack of frames.  The order of a listing is   *)
(* the server's.  A junction is a link ListDir has resolved to a directory *)
(* (see JunctionResolve); a broken link is one that it could not resolve,  *)
(* and that Stat cannot follow either.  The session, from the pool, may be *)
(* lost at any time.                                                       *)
(***************************************************************************)
EXTENDS Naturals, Sequences, SequencesExt

CONSTANTS
    Dirs,       \* external: the directories of the volume, as paths
    Files,      \* external: its files
    Junction,   \* external: what each resolved link leads to
    Broken,     \* external: links that do not resolve
    MaxDepth    \* bounds the depth of the archive, for volumes with cycles

Nodes == Dirs \cup Files \cup Broken \cup DOMAIN Junction

\* A path is the sequence of the names on it.
Names == UNION {Range(p) : p \in Nodes}

ASSUME ArchiveAssumption ==
    /\ <<>> \in Dirs /\ Nodes \subseteq Seq(Names)
    /\ \A c \in Nodes \ {<<>>} : Front(c) \in Dirs
    /\ \A d \in DOMAIN Junction : Junction[d] \in Dirs
    /\ Dirs \cap Files = {}
    /\ (Dirs \cup Files) \cap (Broken \cup DOMAIN Junction) = {}
    /\ MaxDepth \in Nat

VARIABLES
    status,     \* of the request
    root,       \* the path it asks for
    stack,      \* the calls of rec that have not returned, innermost last
    archive,    \* the entries written so far
    seal,       \* how the deferred Close calls left the stream
    up          \* the SFTP session works

vars == <<status, root, stack, archive, seal, up>>

Children(d) == {c \in Nodes : c # <<>> /\ Front(c) = d}

\* The path an entry is read from: resolvedPathOf, or else its own.
Target(c) == IF c \in DOMAIN Junction THEN Junction[c] ELSE c

\* rec(rel, abs, isDir): at is what it does next, todo what is left of its listing.
Call(rel, abs, isDir) ==
    [rel |-> rel, abs |-> abs, isDir |-> isDir, at |-> "walk", todo |-> {}]

Top == Last(stack)

SetTop(frame) == stack' = [stack EXCEPT ![Len(stack)] = frame]

-----------------------------------------------------------------------------

Init ==
    /\ status = "idle"
    /\ root = <<>>
    /\ stack = <<>>
    /\ archive = <<>>
    /\ seal = "open"
    /\ up = TRUE

\* The path exists; otherwise the handler answers 404 and nothing is streamed.
handleDownloadZip(p) ==
    /\ status = "idle"
    /\ up
    /\ status' = "walking"
    /\ root' = p
    /\ stack' = <<Call(p, p, p \in Dirs)>>
    /\ UNCHANGED <<archive, seal, up>>

\* The walk closure up to tw.WriteHeader: Stat, then a header named after rel.
walk ==
    /\ status = "walking"
    /\ Top.at = "walk"
    /\ up /\ Top.abs \in Dirs \cup Files
    /\ archive' = Append(archive, [name |-> Top.rel, of |-> Top.abs, isDir |-> Top.isDir,
                                   whole |-> Top.isDir])
    /\ SetTop([Top EXCEPT !.at = IF Top.isDir THEN "list" ELSE "copy"])
    /\ UNCHANGED <<status, root, seal, up>>

\* rec returns nil to its caller, or to the handler.
Return ==
    /\ stack' = Front(stack)
    /\ IF Len(stack) = 1
          THEN status' = "complete" /\ seal' = "tar"
          ELSE UNCHANGED <<status, seal>>

\* The rest of walk for a file: Open and io.Copy to the end.
CopyFile ==
    /\ status = "walking"
    /\ Top.at = "copy"
    /\ up
    /\ archive' = [archive EXCEPT ![Len(archive)].whole = TRUE]
    /\ Return
    /\ UNCHANGED <<root, up>>

\* Mutant of ListEntries: links are left out of the listing.
ListNoLinks ==
    /\ status = "walking"
    /\ Top.at = "list"
    /\ up
    /\ SetTop([Top EXCEPT !.at = "loop", !.todo = Children(Top.abs) \ DOMAIN Junction])
    /\ UNCHANGED <<status, root, archive, seal, up>>

\* rec lists the directory it has just written the header of.
ListEntries ==
    /\ status = "walking"
    /\ Top.at = "list"
    /\ up
    /\ SetTop([Top EXCEPT !.at = "loop", !.todo = Children(Top.abs)])
    /\ UNCHANGED <<status, root, archive, seal, up>>

\* Mutant of Descend: what a link leads to gives the name in the archive too.
DescendRenamed(c) ==
    /\ status = "walking"
    /\ Top.at = "loop"
    /\ c \in Top.todo
    /\ Len(Top.rel) < MaxDepth
    /\ stack' = Append([stack EXCEPT ![Len(stack)].todo = @ \ {c}],
                       Call(Target(c), Target(c), c \in Dirs \cup DOMAIN Junction))
    /\ UNCHANGED <<status, root, archive, seal, up>>

\* The next entry: its own name in the archive, the resolved path on the server.
Descend(c) ==
    /\ status = "walking"
    /\ Top.at = "loop"
    /\ c \in Top.todo
    /\ Len(Top.rel) < MaxDepth
    /\ stack' = Append([stack EXCEPT ![Len(stack)].todo = @ \ {c}],
                       Call(Append(Top.rel, Last(c)), Target(c), c \in Dirs \cup DOMAIN Junction))
    /\ UNCHANGED <<status, root, archive, seal, up>>

Ascend ==
    /\ status = "walking"
    /\ Top.at = "loop"
    /\ Top.todo = {}
    /\ Return
    /\ UNCHANGED <<root, archive, up>>

\* A call of this frame on the session fails.  (Files are not empty: one whose copy
\* fails is short.)
CallFails ==
    \/ ~up /\ Top.at # "loop"
    \/ Top.at = "walk" /\ Top.abs \notin Dirs \cup Files

\* Mutant of Abort: an error of Stat is not returned.
AbortOnLossOnly ==
    /\ status = "walking"
    /\ ~up /\ Top.at # "loop"
    /\ status' = "truncated"
    /\ stack' = <<>>
    /\ seal' = "gzip"
    /\ UNCHANGED <<root, archive, up>>

\* Every rec returns the error and the handler returns.  The deferred tw.Close
\* writes the end of the tar unless the last file is short; the deferred
\* gz.Close ends the gzip stream in any case.
Abort ==
    /\ status = "walking"
    /\ CallFails
    /\ status' = "truncated"
    /\ stack' = <<>>
    /\ seal' = IF archive # <<>> /\ ~Last(archive).whole THEN "gzip" ELSE "tar"
    /\ UNCHANGED <<root, archive, up>>

\* The pool closes the session, or the connection breaks.
Hangup ==
    /\ up
    /\ up' = FALSE
    /\ UNCHANGED <<status, root, stack, archive, seal>>

Walker ==
    \/ walk
    \/ CopyFile
    \/ ListEntries
    \/ \E c \in Nodes : Descend(c)
    \/ Ascend
    \/ Abort

Next ==
    \/ \E p \in Dirs \cup Files : handleDownloadZip(p)
    \/ Walker
    \/ Hangup

Spec == Init /\ [][Next]_vars

\* The handler's goroutine runs while SFTP requests are answered or fail.
FairSpec == Spec /\ WF_vars(Walker)

-----------------------------------------------------------------------------
(***************************************************************************)
(* Properties                                                              *)
(***************************************************************************)

Frames ==
    [rel : Seq(Names), abs : Dirs \cup Files \cup Broken, isDir : BOOLEAN,
     at : {"walk", "list", "copy", "loop"}, todo : SUBSET Nodes]

\* Of an entry, of is the path its header and its contents were read from.
Entries == [name : Seq(Names), of : Dirs \cup Files, isDir : BOOLEAN, whole : BOOLEAN]

TypeOK ==
    /\ status \in {"idle", "walking", "complete", "truncated"}
    /\ root \in Dirs \cup Files
    /\ stack \in Seq(Frames)
    /\ archive \in Seq(Entries)
    /\ seal \in {"open", "gzip", "tar"}
    /\ up \in BOOLEAN

\* The archive can be unpacked as it streams: no name twice, and every entry
\* after the directory it is in, through junctions too.
Unpacks ==
    \A i \in DOMAIN archive :
        /\ \A j \in DOMAIN archive : archive[i].name = archive[j].name => i = j
        /\ i > 1 => \E j \in 1 .. i - 1 :
                      archive[j].isDir /\ archive[j].name = Front(archive[i].name)

\* One level down: what is in the directories of W, with the path it is read from.
Below(W) ==
    UNION {{<<Append(w[1], Last(c)), Target(c)>> : c \in Children(w[2])} : w \in W}

\* Reference: the names, with what they stand for, within n levels of the root.
Within[n \in 0 .. MaxDepth] ==
    IF n = 0 THEN {<<root, root>>} ELSE Within[n - 1] \cup Below(Within[n - 1])

\* What has been archived: names, and what they stand for.
Archived == {<<archive[i].name, archive[i].of>> : i \in DOMAIN archive}

\* A walk that ends without an error has archived every file and directory
\* below the root, those behind junctions under their junction's name, in full, and
\* nothing else.
CompleteHasAll ==
    status = "complete" =>
        /\ Archived = Within[MaxDepth]
        /\ \A i \in DOMAIN archive : archive[i].whole

\* The handler returns, on a volume whose junctions form no cycle.
WalkEnds == status = "walking" ~> status \in {"complete", "truncated"}

-----------------------------------------------------------------------------
(***************************************************************************)
(* What the documentation says, and the code does not keep.                *)
(***************************************************************************)

\* handlers.go:764: after an error, "just truncate the archive (gzip CRC will
\* fail client-side ...)": a truncated archive does not pass for a whole one.
TruncationShows == status = "truncated" => seal # "tar"

==============================================================================
