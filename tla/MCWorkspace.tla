---------------------------- MODULE MCWorkspace ----------------------------
(***************************************************************************)
(* The init of MCProjectInit; two scaffolds of two files; and every file   *)
(* system over two names, two levels deep below one of them, with up to    *)
(* two symbolic links and the specification anywhere in it.                *)
(***************************************************************************)
EXTENDS Workspace, TLC

CONSTANTS readme, spec, package, above, root, api

PlannedFiles == <<readme, spec, package>>
FileDirs == readme :> {above, root} @@ spec :> {above, root, api}
              @@ package :> {above, root}
DirDepth == above :> 0 @@ root :> 1 @@ api :> 2

-----------------------------------------------------------------------------
(* File systems                                                            *)

Places == {<<"a">>, <<"b">>, <<"a", "a">>, <<"a", "b">>}
Written == UNION {[1 .. n -> {"a", "b"}] : n \in 0 .. 3}

IsDirectory(t, p) == p \in DOMAIN t /\ t[p].kind = "dir"
DirectoriesOf(t) == {p \in DOMAIN t : IsDirectory(t, p)}
Bare ==
  {[p \in S \cup {<< >>} |-> Directory] :
     S \in {T \in SUBSET Places : \A p \in T : Front(p) \in T \cup {<< >>}}}

\* A link wherever there is room for one, to every place
OneMoreLink(trees) ==
  trees \cup UNION {
    {(p :> LinkTo(to)) @@ t :
       p \in {q \in Places \ DOMAIN t : IsDirectory(t, Front(q))},
       to \in Places \cup {<< >>}} : t \in trees}

SpecFile == [kind |-> "file", to |-> << >>]
AllTrees ==
  UNION {{(Append(d, "spec") :> SpecFile) @@ t : d \in DirectoriesOf(t)} :
           t \in OneMoreLink(OneMoreLink(Bare))}

Leads(t, path) == IsDirectory(t, RealPath(t, path))
AllCommands(t) ==
  LET Cwds == {p \in Written : Len(p) < 3 /\ Leads(t, p)}
  IN [marked : {{}}, cwd : Cwds, output : Written, clean : {TRUE},
      input : {Append(p, "spec") : p \in
                 {q \in Written : Append(RealPath(t, q), "spec") \in DOMAIN t}}]
     \cup
     [marked : {{}}, cwd : {<< >>}, output : Written, clean : {TRUE},
      input : {<<"b", "spec">>, <<"a", "a", "spec">>}]
     \cup
     [marked : {{m} : m \in DirectoriesOf(t)}, cwd : Cwds, clean : {FALSE},
      output : Written \cup {<<"spec">>, <<"spec", "a">>},
      input : {<<"spec">>} \cap DOMAIN t]
=============================================================================
