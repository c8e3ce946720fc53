---------------------------- MODULE CleanTarget ----------------------------
(***************************************************************************)
(* What stands between `typeweaver generate' and the wrong directory:      *)
(* assertSafeCleanTarget (packages/cli), asked before anything is written  *)
(* and again under the lock, on a file system with symbolic links, and the *)
(* cleaning of the output directory that follows.  A path is the sequence  *)
(* of its names, resolved against the working directory (path.resolve).    *)
(***************************************************************************)
EXTENDS Naturals, Sequences, SequencesExt

CONSTANTS
  Names,       \* of directory entries
  Trees,       \* file systems
  Commands(_), \* marked, cwd, output, input and clean, on a file system
  MaxLinks     \* bound: links the kernel follows one after the other

Nowhere == <<"nowhere">>
Directory == [kind |-> "dir", to |-> << >>]
LinkTo(path) == [kind |-> "link", to |-> path]

\* Only directories hold entries.
FileSystem(t) ==
  /\ << >> \in DOMAIN t /\ t[<< >>].kind = "dir"
  /\ \A p \in DOMAIN t :
       /\ p \in Seq(Names) /\ t[p].to \in Seq(Names)
       /\ t[p].kind \in {"dir", "file", "link"}
       /\ p # << >> => Front(p) \in DOMAIN t /\ t[Front(p)].kind = "dir"

ASSUME FileSystemsAssumption ==
  /\ "nowhere" \notin Names /\ MaxLinks \in Nat /\ Trees # {}
  /\ \A t \in Trees :
       /\ FileSystem(t) /\ Commands(t) # {}
       /\ \A c \in Commands(t) :
            /\ c.cwd \in Seq(Names) /\ c.output \in Seq(Names) /\ c.input \in Seq(Names)
            /\ c.marked \subseteq DOMAIN t

VARIABLES
  tree,        \* the entries by their places: kind, and where a link leads to
  command,     \* directories with a workspace marker, and what generate is given
  stage,       \* "preflight", "mkdir", "locked", "clean", "done" or "failed"
  swapped,     \* the output directory has been replaced with a link
  cleaned      \* history: tree before the clean, and what it emptied

cleanVars == <<tree, command, stage, swapped, cleaned>>

NotCleaned == [tree |-> << >>, target |-> Nowhere]

-----------------------------------------------------------------------------
(* The file system                                                         *)

\* One name further on the way; a link leads where `follow' says.
Onward(t, at, name, follow) ==
  LET here == Append(at, name)
  IN IF here \notin DOMAIN t THEN Nowhere
     ELSE IF t[here].kind = "link" THEN follow[t[here].to] ELSE here

Along(t, path, follow) ==
  LET along[n \in 0 .. Len(path)] ==
        IF n = 0 THEN << >> ELSE Onward(t, along[n - 1], path[n], follow)
  IN along[Len(path)]

Unfollowed == [path \in Seq(Names) |-> Nowhere]

\* realpath: the place a path leads to, or Nowhere.  existsSync follows links too.
RealPath(t, path) ==
  LET real[k \in 0 .. MaxLinks] ==
        [p \in Seq(Names) |->
           Along(t, p, IF k = 0 THEN Unfollowed ELSE real[k - 1])]
  IN real[MaxLinks][path]

Exists(t, path) == RealPath(t, path) # Nowhere
Ancestors(path) == {SubSeq(path, 1, n) : n \in 0 .. Len(path)}
Longest(paths) == CHOOSE p \in paths : \A q \in paths : Len(q) <= Len(p)

\* lstat: the entry itself, which lies where its parent leads to.
IsSymbolicLink(t, path) ==
  path # << >> /\
    LET here == Append(RealPath(t, Front(path)), Last(path))
    IN here \in DOMAIN t /\ t[here].kind = "link"

-----------------------------------------------------------------------------
(* assertSafeCleanTargetWith, of a command `c' on a file system `t'        *)

\* canonicalizePathForContainment: the nearest existing ancestor is resolved.
Canonical(t, path) ==
  LET nearest == Longest({p \in Ancestors(path) : Exists(t, p)})
  IN RealPath(t, nearest) \o SubSeq(path, Len(nearest) + 1, Len(path))

\* isSameOrDescendantOf
SameOrDescendant(directory, ancestor) == IsPrefix(ancestor, directory)

\* hasWorkspaceMarker looks through links.
HasMarker(t, c, path) == RealPath(t, path) \in c.marked

\* findProtectedWorkspaceRoot
WorkspaceRoots(t, c, start) ==
  LET marked == {p \in Ancestors(start) : HasMarker(t, c, p)}
  IN IF marked = {} THEN {} ELSE {Longest(marked)}

IsRoot(t, c) == Canonical(t, c.output) = << >>

IsWorkingDirectory(t, c) ==
  \/ c.output = c.cwd
  \/ Canonical(t, c.output) = RealPath(t, c.cwd)

IsWorkspaceRoot(t, c) ==
  \E root \in WorkspaceRoots(t, c, c.cwd)
                \cup WorkspaceRoots(t, c, RealPath(t, c.cwd)) :
    \/ c.output = root
    \/ Canonical(t, c.output) = RealPath(t, root)

HoldsWorkingDirectory(t, c) ==
  \/ SameOrDescendant(c.cwd, c.output)
  \/ SameOrDescendant(RealPath(t, c.cwd), Canonical(t, c.output))

\* Only a run that cleans passes its input file.
HoldsInputFile(t, c) ==
  c.clean /\
    \/ SameOrDescendant(c.input, c.output)
    \/ SameOrDescendant(Canonical(t, c.input), Canonical(t, c.output))

\* realpath throws if the working directory is gone.
UnsafeCleanTarget(t, c) ==
  \/ ~Exists(t, c.cwd)
  \/ IsRoot(t, c) \/ IsWorkingDirectory(t, c) \/ IsWorkspaceRoot(t, c)
  \/ HoldsWorkingDirectory(t, c)
  \/ IsSymbolicLink(t, c.output) \/ HoldsInputFile(t, c)
  \/ HasMarker(t, c, Canonical(t, c.output))

-----------------------------------------------------------------------------
(* The generation                                                          *)

CleanInit ==
  /\ tree \in Trees /\ command \in Commands(tree)
  /\ stage = "preflight" /\ swapped = FALSE /\ cleaned = NotCleaned

\* prepareGeneration
Preflight ==
  /\ stage = "preflight"
  /\ stage' = IF UnsafeCleanTarget(tree, command) THEN "failed" ELSE "mkdir"
  /\ UNCHANGED <<tree, command, swapped, cleaned>>

\* The directories mkdir -p makes; a dangling link and a file are in its way.
Missing(t, path) == {p \in Ancestors(Canonical(t, path)) : ~Exists(t, p)}
Blocked(t, path) ==
  \/ Missing(t, path) \cap DOMAIN t # {}
  \/ Missing(t, path) = {} /\ t[RealPath(t, path)].kind # "dir"
  \/ \E p \in Missing(t, path) : Front(p) \in DOMAIN t /\ t[Front(p)].kind = "file"

WithDirectories(t, places) ==
  [p \in DOMAIN t \cup places |-> IF p \in places THEN Directory ELSE t[p]]

\* ensureOutputDirectories
MakeOutput ==
  /\ stage = "mkdir"
  /\ IF Blocked(tree, command.output) THEN stage' = "failed" /\ UNCHANGED tree
     ELSE /\ tree' = WithDirectories(tree, Missing(tree, command.output))
          /\ stage' = "locked"
  /\ UNCHANGED <<command, swapped, cleaned>>

\* A place becomes a link, and what was below it is gone.
Replaced(t, place, to) ==
  [p \in {q \in DOMAIN t : ~IsStrictPrefix(place, q)} |->
     IF p = place THEN LinkTo(to) ELSE t[p]]

\* Somebody puts a link in the place of the output directory before the lock is
\* there.  Between the second check and the clean nothing would notice it.
Swap ==
  /\ stage = "locked" /\ ~swapped
  /\ \E to \in DOMAIN tree :
       LET place == RealPath(tree, command.output)
       IN ~IsPrefix(place, to) /\ tree' = Replaced(tree, place, to)
  /\ swapped' = TRUE
  /\ UNCHANGED <<command, stage, cleaned>>

\* Mutant: the target is not looked at again under the lock.
TrustPreflight ==
  /\ stage = "locked"
  /\ stage' = "clean"
  /\ UNCHANGED <<tree, command, swapped, cleaned>>

\* prepareLockedOutput: the check is made again.
Revalidate ==
  /\ stage = "locked"
  /\ stage' = IF UnsafeCleanTarget(tree, command) THEN "failed" ELSE "clean"
  /\ UNCHANGED <<tree, command, swapped, cleaned>>

Emptied(t, place) == [p \in {q \in DOMAIN t : ~IsStrictPrefix(place, q)} |-> t[p]]

\* cleanOutputDirPreservingLock removes what it lists and follows no link below.
Clean ==
  /\ stage = "clean"
  /\ stage' = "done"
  /\ LET target == RealPath(tree, command.output)
     IN IF ~command.clean THEN UNCHANGED <<tree, cleaned>>
        ELSE cleaned' = [tree |-> tree, target |-> target]
               /\ tree' = Emptied(tree, target)
  /\ UNCHANGED <<command, swapped>>

CleanNext == Preflight \/ MakeOutput \/ Swap \/ Revalidate \/ Clean

-----------------------------------------------------------------------------
(* Properties                                                              *)

\* A path leads to a file.
HasFile(t, path) == Exists(t, path) /\ t[RealPath(t, path)].kind = "file"

\* No link on the way
Plain(t, path) == \A p \in Ancestors(path) : p \in DOMAIN t => t[p].kind # "link"

\* A clean that empties `place' of `t' and leaves `after' takes none of what it
\* has to spare.
Spares(t, c, place, after) ==
  /\ place \notin {<< >>} \cup c.marked
  /\ c.output \in DOMAIN t => t[c.output].kind = "dir"
  /\ ~IsPrefix(place, RealPath(t, c.cwd))
  /\ RealPath(t, c.input) \in DOMAIN after \cup {Nowhere}

\* Cleaning never takes away the directory the command runs in, a workspace, the
\* root of the file system, or the specification it was given, however links
\* spell the paths and whether or not the output existed, and never goes through
\* a link that took the output's place.  A target that was safe stays safe when
\* its directories are made, if there is a specification; and a directory apart
\* from all of those, with no link on the way, is not refused.
CleanSparesTheWorkspace ==
  /\ cleaned # NotCleaned => Spares(cleaned.tree, command, cleaned.target, tree)
  /\ stage = "locked" /\ ~swapped /\ HasFile(tree, command.input) =>
       ~UnsafeCleanTarget(tree, command)
  /\ stage = "preflight" /\ UnsafeCleanTarget(tree, command) =>
       \/ \E path \in {command.output, command.cwd, command.input} :
            ~Plain(tree, path)
       \/ ~Exists(tree, command.cwd)
       \/ command.output \in {<< >>} \cup command.marked
       \/ IsPrefix(command.output, command.cwd)
       \/ command.clean /\ IsPrefix(command.output, command.input)
=============================================================================
