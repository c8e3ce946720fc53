--------------------------- MODULE WorkspaceProofs ---------------------------
(***************************************************************************)
(* Proofs about Workspace: the scaffolds of `add plugin', for any number   *)
(* of them, of templates and of failing calls, with one target; and        *)
(* `init', for any plan, directories and failing calls, if one init at a   *)
(* time works on its target; and the guard of the directory `generate'     *)
(* empties, on any file system with symbolic links.                        *)
(***************************************************************************)
EXTENDS Workspace, SequenceTheorems, WellFoundedInduction, TLAPS

-----------------------------------------------------------------------------
(* The scaffolds: who has the target                                       *)

Making == {"makeDirectory", "create", "fill", "complete"}
Ats == {"exists", "makeTarget", "onExit", "done", "dead"} \cup Making
Endings == {"none", "ok", "exists", "failed", "defect"}
Texts == [by : Scaffolds \cup {Nobody, Owner}, whole : BOOLEAN]

ScaffoldType ==
  /\ site \in Scaffolds \cup {Nobody, Owner}
  /\ content \in [Slots -> Texts]
  /\ placed \subseteq Slots
  /\ at \in [Scaffolds -> Ats]
  /\ written \in [Scaffolds -> 0 .. TemplateFiles]
  /\ ownsTarget \in [Scaffolds -> BOOLEAN]
  /\ complete \in [Scaffolds -> BOOLEAN]
  /\ ending \in [Scaffolds -> Endings]
  /\ inFlight \in [Scaffolds -> {"none", "flying", "landed"}]
  /\ failures \in Nat

\* What is in the target is its maker's or its user's.
PlaceInv ==
  /\ site \in Scaffolds => ownsTarget[site]
  /\ \A f \in Slots : content[f].by \in Scaffolds => content[f].by = site
  /\ site = Nobody => \A f \in Slots : content[f] = NoText
  /\ placed \subseteq By(Owner)

\* It has succeeded, or is about to say so.
Succeeds(s) == at[s] \in {"onExit", "done"} /\ ending[s] = "ok"

\* It made the target, and has not given it up by ending badly.
Holds(s) ==
  ownsTarget[s] /\ (at[s] \notin {"done", "dead"} \/ (at[s] = "done" /\ ending[s] = "ok"))

ScaffoldInv(s) ==
  /\ Holds(s) => site = s
  /\ at[s] \in {"exists", "makeTarget"} => written[s] = 0
  /\ inFlight[s] # "none" => ownsTarget[s]
  /\ at[s] \in {"create", "fill"} => written[s] < TemplateFiles
  /\ at[s] = "fill" => content[Turn(s)] = Torn(s)
  /\ at[s] \in Making \/ Succeeds(s) =>
       ownsTarget[s] /\ \A f \in 1 .. written[s] : content[f] = Text(s)
  /\ at[s] = "complete" \/ Succeeds(s) => written[s] = TemplateFiles /\ complete[s]
  /\ at[s] = "done" /\ ending[s] \in {"exists", "failed"} =>
       By(s) = {} /\ (site = s => inFlight[s] = "landed")

ScaffoldIInv == ScaffoldType /\ PlaceInv /\ \A s \in Scaffolds : ScaffoldInv(s)

ScaffoldStepOf(s) ==
  \/ CheckAbsent(s) \/ MakeTarget(s) \/ MakeDirectoryOf(s) \/ CreateFile(s)
  \/ FillFile(s) \/ SetComplete(s) \/ Succeed(s)
  \/ OnExit(s)
  \/ CallFails(s) \/ RemoveDies(s) \/ InterruptScaffold(s)
  \/ LateDirectory(s) \/ ScaffoldDies(s)

-----------------------------------------------------------------------------
(* Types                                                                   *)

LEMMA TextTypes ==
  ASSUME NEW s \in Scaffolds
  PROVE  NoText \in Texts /\ Torn(s) \in Texts /\ Text(s) \in Texts /\ Text(Owner) \in Texts
  BY DEF NoText, Torn, Text, Texts

LEMMA ScaffoldTypeStep ==
  ASSUME ScaffoldType, NEW s \in Scaffolds, ScaffoldStepOf(s), ScaffoldInv(s)
  PROVE  ScaffoldType'
<1> USE DEF place, flags, Move, Exits
<1>0. /\ \A a \in Ats : [at EXCEPT ![s] = a] \in [Scaffolds -> Ats]
      /\ \A e \in Endings : [ending EXCEPT ![s] = e] \in [Scaffolds -> Endings]
      /\ {"makeTarget", "makeDirectory", "create", "fill", "complete", "onExit", "done", "dead"}
           \subseteq Ats
      /\ {"ok", "exists", "failed", "defect"} \subseteq Endings
  BY DEF ScaffoldType, Ats, Making, Endings
<1>1. CASE CheckAbsent(s) \/ MakeTarget(s) \/ MakeDirectoryOf(s)
  BY <1>0, <1>1, ZenonT(60) DEF CheckAbsent, MakeTarget, MakeDirectoryOf, ScaffoldType
<1>2. CASE CreateFile(s)
  <2>1. content' \in [Slots -> Texts]
    BY <1>2, TextTypes DEF CreateFile, ScaffoldType
  <2> QED
    BY <1>0, <1>2, <2>1 DEF CreateFile, ScaffoldType
<1>3. CASE FillFile(s)
  <2>1. content' \in [Slots -> Texts]
    BY <1>3, TextTypes DEF FillFile, ScaffoldType
  <2>2. Turn(s) \in 0 .. TemplateFiles
    BY <1>3, ScaffoldAssumption DEF FillFile, ScaffoldInv, ScaffoldType, Turn
  <2>3. written' \in [Scaffolds -> 0 .. TemplateFiles]
    BY <1>3, <2>2 DEF FillFile, ScaffoldType
  <2> QED
    BY <1>0, <1>3, <2>1, <2>3 DEF FillFile, ScaffoldType
<1>4. CASE SetComplete(s)
  <2>1. complete' \in [Scaffolds -> BOOLEAN]
    BY <1>4 DEF SetComplete, ScaffoldType
  <2> QED
    BY <1>0, <1>4, <2>1 DEF SetComplete, ScaffoldType
<1>10. CASE Succeed(s) \/ ScaffoldDies(s)
  BY <1>0, <1>10 DEF Succeed, ScaffoldDies, ScaffoldType
<1>9. CASE InterruptScaffold(s)
  <2>1. inFlight' \in [Scaffolds -> {"none", "flying", "landed"}]
    BY <1>9 DEF InterruptScaffold, ScaffoldType
  <2> QED
    BY <1>0, <1>9, <2>1 DEF InterruptScaffold, ScaffoldType
<1>5. CASE OnExit(s)
  <2>1. content' \in [Slots -> Texts] /\ placed' \subseteq Slots
        /\ site' \in Scaffolds \cup {Nobody, Owner}
    BY <1>5, TextTypes DEF OnExit, RemoveTarget, ScaffoldType
  <2> QED
    BY <1>0, <1>5, <2>1 DEF OnExit, ScaffoldType
<1>6. CASE CallFails(s)
  BY <1>0, <1>6 DEF CallFails, ScaffoldType
<1>7. CASE RemoveDies(s)
  <2>1. content' \in [Slots -> Texts] /\ placed' \subseteq Slots
    BY <1>7, TextTypes DEF RemoveDies, ScaffoldType
  <2> QED
    BY <1>0, <1>7, <2>1 DEF RemoveDies, ScaffoldType
<1>8. CASE LateDirectory(s)
  BY <1>8 DEF LateDirectory, ScaffoldType
<1> QED
  BY <1>1, <1>2, <1>3, <1>4, <1>5, <1>6, <1>7, <1>8, <1>9, <1>10
     DEF ScaffoldStepOf

-----------------------------------------------------------------------------
(* What one scaffold relies on, and every other one leaves it              *)

Private(t) ==
  /\ at'[t] = at[t] /\ written'[t] = written[t] /\ ownsTarget'[t] = ownsTarget[t]
  /\ complete'[t] = complete[t] /\ ending'[t] = ending[t] /\ inFlight'[t] = inFlight[t]

Rely(t) ==
  /\ Holds(t) => site' = site
  /\ Holds(t) => \A f \in Slots : content[f].by = t => content'[f] = content[f]
  /\ site' = t => site = t
  /\ \A f \in Slots : content'[f].by = t => content[f].by = t

LEMMA PrivateStep ==
  ASSUME ScaffoldType, NEW s \in Scaffolds, ScaffoldStepOf(s), NEW t \in Scaffolds \ {s}
  PROVE  Private(t)
<1> USE DEF place, flags, Move, Exits, Private, ScaffoldType
<1>1. CASE CheckAbsent(s) \/ MakeTarget(s) \/ MakeDirectoryOf(s) \/ CreateFile(s) \/ FillFile(s)
  BY <1>1 DEF CheckAbsent, MakeTarget, MakeDirectoryOf, CreateFile, FillFile
<1>2. CASE SetComplete(s) \/ Succeed(s) \/ InterruptScaffold(s) \/ ScaffoldDies(s) \/ OnExit(s)
  BY <1>2 DEF SetComplete, Succeed, InterruptScaffold, ScaffoldDies, OnExit
<1>3. CASE CallFails(s) \/ RemoveDies(s) \/ LateDirectory(s)
  BY <1>3 DEF CallFails, RemoveDies, LateDirectory
<1> QED
  BY <1>1, <1>2, <1>3 DEF ScaffoldStepOf

LEMMA RelyKeeps ==
  ASSUME ScaffoldType, NEW t \in Scaffolds, ScaffoldInv(t), Private(t), Rely(t)
  PROVE  ScaffoldInv(t)'
<1>1. (Holds(t)' <=> Holds(t)) /\ (Succeeds(t)' <=> Succeeds(t)) /\ Turn(t)' = Turn(t)
  BY DEF Private, Holds, Succeeds, Turn
<1>2. (at[t] \in Making \/ Succeeds(t)) => Holds(t)
  BY DEF ScaffoldInv, Holds, Succeeds, Making
<1>3. Text(t).by = t /\ Torn(t).by = t
  BY DEF Text, Torn
<1>4. at[t] = "fill" => content'[Turn(t)] = Torn(t)
  <2> HAVE at[t] = "fill"
  <2>1. content[Turn(t)] = Torn(t) /\ Turn(t) \in Slots
    BY ScaffoldAssumption DEF ScaffoldInv, Turn, Slots, ScaffoldType
  <2> QED
    BY <1>2, <1>3, <2>1 DEF Rely, Making
<1>5. at[t] \in Making \/ Succeeds(t) => \A f \in 1 .. written[t] : content'[f] = Text(t)
  <2>1. 1 .. written[t] \subseteq Slots
    BY ScaffoldAssumption DEF Slots, ScaffoldType
  <2> QED
    BY <1>2, <1>3, <2>1 DEF Rely, ScaffoldInv
<1>6. By(t) = {} => By(t)' = {}
  BY DEF By, Rely
<1> QED
  BY <1>1, <1>4, <1>5, <1>6 DEF ScaffoldInv, Private, Rely

\* Two scaffolds do not hold the target at once.
LEMMA OneHolder ==
  ASSUME NEW s \in Scaffolds, NEW t \in Scaffolds \ {s}, ScaffoldInv(s), ScaffoldInv(t), Holds(s)
  PROVE  ~Holds(t) /\ site = s
  BY DEF ScaffoldInv

-----------------------------------------------------------------------------
(* A step of one scaffold                                                  *)

\* Steps that leave the target alone
Talks(s) ==
  \/ CheckAbsent(s) \/ SetComplete(s) \/ Succeed(s)
  \/ CallFails(s) \/ InterruptScaffold(s) \/ ScaffoldDies(s)

LEMMA TalkStep ==
  ASSUME ScaffoldType, PlaceInv, NEW s \in Scaffolds, ScaffoldInv(s), Talks(s)
  PROVE  PlaceInv' /\ ScaffoldInv(s)' /\ \A t \in Scaffolds \ {s} : Rely(t)
<1> USE DEF place, flags, Move, Exits
<1>1. UNCHANGED <<site, content, placed, ownsTarget, written>>
  BY DEF Talks, CheckAbsent, SetComplete, Succeed, CallFails, InterruptScaffold, ScaffoldDies
<1>2. PlaceInv' /\ \A t : Rely(t)
  BY <1>1 DEF PlaceInv, By, Rely
<1>3. By(s)' = By(s) /\ Turn(s)' = Turn(s)
  BY <1>1 DEF By, Turn
<1>4. ScaffoldInv(s)'
  <2>1. CASE CheckAbsent(s)
    <3>1. /\ at[s] = "exists" /\ at'[s] \in {"onExit", "makeTarget"}
          /\ UNCHANGED <<complete, inFlight>>
          /\ at'[s] = "onExit" => ending'[s] = "exists"
      BY <2>1 DEF CheckAbsent, ScaffoldType
    <3> QED
      BY <1>1, <1>3, <3>1 DEF ScaffoldInv, Holds, Succeeds, Making
  <2>2. CASE SetComplete(s)
    <3>1. /\ at[s] = "makeDirectory" /\ written[s] = TemplateFiles /\ at'[s] = "complete"
          /\ complete'[s] /\ UNCHANGED <<ending, inFlight>>
      BY <2>2 DEF SetComplete, ScaffoldType
    <3> QED
      BY <1>1, <1>3, <3>1 DEF ScaffoldInv, Holds, Succeeds, Making
  <2>3. CASE Succeed(s)
    <3>1. /\ at[s] = "complete" /\ at'[s] = "onExit" /\ ending'[s] = "ok"
          /\ UNCHANGED <<complete, inFlight>>
      BY <2>3 DEF Succeed, ScaffoldType
    <3> QED
      BY <1>1, <1>3, <3>1 DEF ScaffoldInv, Holds, Succeeds, Making
  <2>4. CASE CallFails(s) \/ InterruptScaffold(s)
    <3>1. /\ at[s] \in Working \cup {"complete"} /\ at'[s] = "onExit" /\ ending'[s] = "failed"
          /\ UNCHANGED complete
      BY <2>4 DEF CallFails, InterruptScaffold, ScaffoldType
    <3>2. inFlight'[s] # "none" => inFlight[s] # "none" \/ at[s] = "makeDirectory"
      BY <2>4 DEF CallFails, InterruptScaffold, ScaffoldType
    <3>3. ~Succeeds(s)' /\ at'[s] \notin Making
      BY <3>1 DEF Succeeds, Making
    <3>4. Holds(s)' => Holds(s)
      BY <1>1, <3>1 DEF Holds, Working
    <3>5. inFlight'[s] # "none" => ownsTarget'[s]
      BY <1>1, <3>2 DEF ScaffoldInv, Making
    <3> QED
      BY <1>1, <3>1, <3>3, <3>4, <3>5 DEF ScaffoldInv
  <2>5. CASE ScaffoldDies(s)
    <3>1. at'[s] = "dead" /\ UNCHANGED <<ending, inFlight, complete>>
      BY <2>5 DEF ScaffoldDies, ScaffoldType
    <3> QED
      BY <1>1, <3>1 DEF ScaffoldInv, Holds, Succeeds, Making
  <2> QED
    BY <2>1, <2>2, <2>3, <2>4, <2>5 DEF Talks
<1> QED
  BY <1>2, <1>4

\* Steps that make the directory, if it is not there
LEMMA DirectoryStep ==
  ASSUME ScaffoldType, PlaceInv, NEW s \in Scaffolds, \A t \in Scaffolds : ScaffoldInv(t),
         MakeTarget(s) \/ MakeDirectoryOf(s) \/ LateDirectory(s)
  PROVE  PlaceInv' /\ ScaffoldInv(s)' /\ \A t \in Scaffolds \ {s} : Rely(t)
<1> USE DEF place, flags, Move, Exits
<1>0. s # Nobody /\ s # Owner
  BY ScaffoldAssumption
<1>1. UNCHANGED <<content, placed, written, complete>>
  BY DEF MakeTarget, MakeDirectoryOf, LateDirectory
<1>2. site' = site \/ (site = Nobody /\ site' = s /\ ownsTarget'[s])
  BY DEF MakeTarget, MakeDirectoryOf, LateDirectory, ScaffoldType, ScaffoldInv, Making
<1>3. /\ \A t \in Scaffolds \ {s} : ownsTarget'[t] = ownsTarget[t]
      /\ ownsTarget[s] => ownsTarget'[s]
  BY DEF MakeTarget, MakeDirectoryOf, LateDirectory, ScaffoldType
<1>4. PlaceInv'
  <2>1. site' \in Scaffolds => ownsTarget'[site']
    BY <1>0, <1>2, <1>3 DEF PlaceInv
  <2>2. \A f \in Slots : content'[f].by \in Scaffolds => content'[f].by = site'
    <3>1. site = Nobody => \A f \in Slots : content[f].by = Nobody
      BY DEF PlaceInv, NoText
    <3> QED
      BY <1>0, <1>1, <1>2, <3>1, ScaffoldAssumption DEF PlaceInv
  <2>3. site' = Nobody => \A f \in Slots : content'[f] = NoText
    BY <1>0, <1>1, <1>2 DEF PlaceInv
  <2>4. placed' \subseteq By(Owner)'
    BY <1>1 DEF PlaceInv, By
  <2> QED
    BY <2>1, <2>2, <2>3, <2>4 DEF PlaceInv
<1>5. ASSUME NEW t \in Scaffolds \ {s} PROVE Rely(t)
  <2>1. Holds(t) => site = t /\ t # Nobody
    BY ScaffoldAssumption DEF ScaffoldInv
  <2> QED
    BY <1>1, <1>2, <2>1 DEF Rely
<1>6. By(s)' = By(s) /\ Turn(s)' = Turn(s)
  BY <1>1 DEF By, Turn
<1>7. ScaffoldInv(s)'
  <2>0. ScaffoldInv(s)
    OBVIOUS
  <2>1. CASE MakeTarget(s)
    <3>1. at[s] = "makeTarget" /\ UNCHANGED inFlight
      BY <2>1 DEF MakeTarget
    <3>2. CASE site # Nobody
      <4>1. at'[s] = "onExit" /\ ending'[s] = "exists" /\ UNCHANGED <<site, ownsTarget>>
        BY <2>1, <3>2 DEF MakeTarget, ScaffoldType
      <4> QED
        BY <1>1, <1>6, <2>0, <3>1, <4>1 DEF ScaffoldInv, Holds, Succeeds, Making
    <3>3. CASE site = Nobody
      <4>1. at'[s] = "makeDirectory" /\ ownsTarget'[s] /\ site' = s
        BY <2>1, <3>3 DEF MakeTarget, ScaffoldType
      <4>2. written'[s] = 0
        BY <1>1, <2>0, <3>1 DEF ScaffoldInv
      <4>3. ~Succeeds(s)' /\ \A f \in 1 .. written'[s] : FALSE
        BY <4>1, <4>2 DEF Succeeds
      <4> QED
        BY <1>1, <4>1, <4>2, <4>3 DEF ScaffoldInv
    <3> QED
      BY <3>2, <3>3
  <2>2. CASE MakeDirectoryOf(s)
    <3>1. /\ at[s] = "makeDirectory" /\ written[s] < TemplateFiles /\ at'[s] = "create"
          /\ UNCHANGED <<flags, ending, inFlight>>
      BY <2>2 DEF MakeDirectoryOf, ScaffoldType
    <3>2. Holds(s) /\ site = s
      BY <2>0, <3>1 DEF ScaffoldInv, Holds, Making
    <3> QED
      BY <1>0, <1>1, <1>2, <2>0, <3>1, <3>2 DEF ScaffoldInv, Holds, Succeeds, Making
  <2>3. CASE LateDirectory(s)
    <3>1. /\ UNCHANGED <<at, flags, ending>>
          /\ inFlight[s] = "flying" /\ inFlight'[s] = "landed"
      BY <2>3 DEF LateDirectory, ScaffoldType
    <3> QED
      BY <1>0, <1>1, <1>2, <1>6, <2>0, <3>1 DEF ScaffoldInv, Holds, Succeeds
  <2> QED
    BY <2>1, <2>2, <2>3
<1> QED
  BY <1>4, <1>5, <1>7

\* Steps that write a template
LEMMA TextStep ==
  ASSUME ScaffoldType, PlaceInv, NEW s \in Scaffolds, \A t \in Scaffolds : ScaffoldInv(t),
         CreateFile(s) \/ FillFile(s)
  PROVE  PlaceInv' /\ ScaffoldInv(s)' /\ \A t \in Scaffolds \ {s} : Rely(t)
<1> USE DEF place, flags, Move, Exits
<1>0. s # Nobody /\ s # Owner
  BY ScaffoldAssumption
<1>1. UNCHANGED <<site, placed, ownsTarget, complete, inFlight>>
  BY DEF CreateFile, FillFile
<1>2. ScaffoldInv(s) /\ at[s] \in {"create", "fill"} /\ Holds(s) /\ site = s
  BY DEF CreateFile, FillFile, ScaffoldInv, Holds, Making
<1>3. Turn(s) \in Slots /\ written[s] \in Nat
  BY <1>2, ScaffoldAssumption DEF ScaffoldInv, ScaffoldType, Turn, Slots
<1>4. \A f \in Slots : content'[f] # content[f] =>
        f = Turn(s) /\ content[f].by \in {Nobody, s} /\ content'[f].by = s
  BY <1>2, <1>3 DEF CreateFile, FillFile, ScaffoldInv, ScaffoldType, NoText, Torn, Text
<1>5. PlaceInv'
  <2>1. By(Owner)' = By(Owner)
    BY <1>0, <1>4, ScaffoldAssumption DEF By
  <2>2. \A f \in Slots : content'[f].by \in Scaffolds => content'[f].by = site'
    BY <1>1, <1>2, <1>4 DEF PlaceInv
  <2> QED
    BY <1>0, <1>1, <1>2, <2>1, <2>2 DEF PlaceInv
<1>6. ASSUME NEW t \in Scaffolds \ {s} PROVE Rely(t)
  BY <1>1, <1>4, ScaffoldAssumption DEF Rely
<1>7. \A f \in 1 .. written[s] : f \in Slots /\ f # Turn(s) /\ content'[f] = Text(s)
  <2>1. \A f \in 1 .. written[s] : f \in Slots /\ f # Turn(s)
    BY <1>3, ScaffoldAssumption DEF ScaffoldType, Slots, Turn
  <2>2. \A f \in 1 .. written[s] : content[f] = Text(s)
    BY <1>2 DEF ScaffoldInv, Making
  <2> QED
    BY <1>4, <2>1, <2>2
<1>8. ScaffoldInv(s)'
  <2>1. CASE CreateFile(s) /\ content[Turn(s)] # NoText
    <3>1. at'[s] = "onExit" /\ ending'[s] = "failed" /\ UNCHANGED <<content, written>>
      BY <2>1 DEF CreateFile, ScaffoldType
    <3> QED
      BY <1>1, <1>2, <3>1 DEF ScaffoldInv, Holds, Succeeds, Making
  <2>2. CASE CreateFile(s) /\ content[Turn(s)] = NoText
    <3>1. /\ at[s] = "create" /\ at'[s] = "fill" /\ UNCHANGED <<written, ending>>
          /\ content'[Turn(s)] = Torn(s)
      BY <1>3, <2>2 DEF CreateFile, ScaffoldType
    <3>2. Turn(s)' = Turn(s)
      BY <3>1 DEF Turn
    <3>3. content'[Turn(s)'] = Torn(s)
      BY <3>1, <3>2
    <3> QED
      BY <1>1, <1>2, <1>7, <3>1, <3>3 DEF ScaffoldInv, Holds, Succeeds, Making
  <2>3. CASE FillFile(s)
    <3>1. /\ at[s] = "fill" /\ at'[s] = "makeDirectory" /\ UNCHANGED ending
          /\ content'[Turn(s)] = Text(s) /\ written'[s] = Turn(s)
      BY <1>3, <2>3 DEF FillFile, ScaffoldType
    <3>2. \A f \in 1 .. Turn(s) : f = Turn(s) \/ f \in 1 .. written[s]
      BY <1>3 DEF Turn
    <3>3. \A f \in 1 .. written'[s] : content'[f] = Text(s)
      BY <1>7, <3>1, <3>2
    <3> QED
      BY <1>1, <1>2, <3>1, <3>3 DEF ScaffoldInv, Holds, Succeeds, Making
  <2> QED
    BY <2>1, <2>2, <2>3
<1> QED
  BY <1>5, <1>6, <1>8

\* Steps that take the target away, or some of it
LEMMA RemoveStep ==
  ASSUME ScaffoldType, PlaceInv, NEW s \in Scaffolds, \A t \in Scaffolds : ScaffoldInv(t),
         OnExit(s) \/ RemoveDies(s)
  PROVE  PlaceInv' /\ ScaffoldInv(s)' /\ \A t \in Scaffolds \ {s} : Rely(t)
<1> USE DEF place, flags, Move, Exits
<1>0. ScaffoldInv(s) /\ s # Nobody /\ s # Owner /\ Nobody # Owner
  BY ScaffoldAssumption
<1>1. at[s] = "onExit" /\ at'[s] = "done" /\ UNCHANGED <<written, ownsTarget, complete, inFlight>>
  BY DEF OnExit, RemoveDies, ScaffoldType
<1>2. ownsTarget[s] => site = s /\ \A t \in Scaffolds \ {s} : ~Holds(t)
  BY <1>1, OneHolder DEF Holds, ScaffoldInv
<1>3. Turn(s)' = Turn(s)
  BY <1>1 DEF Turn
<1>4. CASE /\ OnExit(s) /\ UNCHANGED place
           /\ ~ownsTarget[s] \/ (complete[s] /\ ending[s] = "ok")
  <2>1. UNCHANGED <<site, content, placed, ending>>
    BY <1>4 DEF OnExit
  <2>2. PlaceInv' /\ \A t : Rely(t)
    BY <1>1, <2>1 DEF PlaceInv, By, Rely
  <2>3. ~ownsTarget[s] => By(s) = {} /\ site # s
    BY DEF PlaceInv, By
  <2>4. By(s)' = By(s)
    BY <2>1 DEF By
  <2>5. ScaffoldInv(s)'
    BY <1>0, <1>1, <1>3, <1>4, <2>1, <2>3, <2>4 DEF ScaffoldInv, Holds, Succeeds, Making
  <2> QED
    BY <2>2, <2>5
<1>5. CASE OnExit(s) /\ RemoveTarget /\ ownsTarget[s] /\ ~(complete[s] /\ ending[s] = "ok")
  <2>1. /\ site' = Nobody /\ placed' = {} /\ UNCHANGED ending
        /\ \A f \in Slots : content'[f] = NoText
    BY <1>5 DEF OnExit, RemoveTarget
  <2>2. PlaceInv'
    <3>1. NoText.by \notin Scaffolds /\ site' \notin Scaffolds
      BY <2>1, ScaffoldAssumption DEF NoText
    <3> QED
      BY <2>1, <3>1 DEF PlaceInv
  <2>3. \A t \in Scaffolds \ {s} : Rely(t)
    BY <1>2, <1>5, <2>1, ScaffoldAssumption DEF Rely, NoText
  <2>4. By(s)' = {}
    BY <1>0, <2>1 DEF By, NoText
  <2>5. ~Holds(s)' /\ ~Succeeds(s)'
    BY <1>0, <1>1, <1>5, <2>1 DEF ScaffoldInv, Holds, Succeeds
  <2>6. ScaffoldInv(s)'
    BY <1>0, <1>1, <2>1, <2>4, <2>5 DEF ScaffoldInv, Making
  <2> QED
    BY <2>2, <2>3, <2>6
<1>6. CASE RemoveDies(s)
  <2>1. /\ UNCHANGED site /\ ownsTarget[s] /\ ending'[s] = "defect"
        /\ placed' = {f \in placed : content'[f].by = Owner}
        /\ \A f \in Slots : content'[f] = NoText \/ content'[f] = content[f]
    BY <1>6 DEF RemoveDies, ScaffoldType
  <2>2. PlaceInv'
    <3>1. placed' \subseteq By(Owner)'
      BY <2>1 DEF By, ScaffoldType
    <3>2. \A f \in Slots : content'[f].by \in Scaffolds => content'[f].by = site'
      BY <2>1, ScaffoldAssumption DEF PlaceInv, NoText
    <3> QED
      BY <1>0, <1>1, <1>2, <2>1, <3>1, <3>2 DEF PlaceInv
  <2>3. \A t \in Scaffolds \ {s} : Rely(t)
    BY <1>2, <2>1, ScaffoldAssumption DEF Rely, NoText
  <2>4. ScaffoldInv(s)'
    BY <1>0, <1>1, <2>1 DEF ScaffoldInv, Holds, Succeeds, Making
  <2> QED
    BY <2>2, <2>3, <2>4
<1> QED
  BY <1>4, <1>5, <1>6 DEF OnExit, ScaffoldType

LEMMA ScaffoldStep ==
  ASSUME ScaffoldIInv, NEW s \in Scaffolds, ScaffoldStepOf(s)
  PROVE  ScaffoldIInv'
<1> ScaffoldType /\ PlaceInv /\ ScaffoldInv(s) /\ \A t \in Scaffolds : ScaffoldInv(t)
  BY DEF ScaffoldIInv
<1>1. PlaceInv' /\ ScaffoldInv(s)' /\ \A t \in Scaffolds \ {s} : Rely(t)
  <2>1. CASE Talks(s)
    BY <2>1, TalkStep
  <2>2. CASE MakeTarget(s) \/ MakeDirectoryOf(s) \/ LateDirectory(s)
    BY <2>2, DirectoryStep
  <2>3. CASE CreateFile(s) \/ FillFile(s)
    BY <2>3, TextStep
  <2>4. CASE OnExit(s) \/ RemoveDies(s)
    BY <2>4, RemoveStep
  <2> QED
    BY <2>1, <2>2, <2>3, <2>4 DEF ScaffoldStepOf, Talks
<1>2. \A t \in Scaffolds \ {s} : ScaffoldInv(t)'
  BY <1>1, PrivateStep, RelyKeeps
<1>3. ScaffoldType'
  BY ScaffoldTypeStep
<1> QED
  BY <1>1, <1>2, <1>3 DEF ScaffoldIInv

\* The user puts a file where there is none.
LEMMA OwnerStep ==
  ASSUME ScaffoldIInv, OwnerWrites
  PROVE  ScaffoldIInv'
<1> USE DEF place, flags
<1> ScaffoldType /\ PlaceInv /\ \A t \in Scaffolds : ScaffoldInv(t)
  BY DEF ScaffoldIInv
<1>1. PICK f \in Slots \ placed :
        /\ content[f] = NoText
        /\ content' = [content EXCEPT ![f] = Text(Owner)]
        /\ placed' = placed \cup {f}
  BY DEF OwnerWrites
<1>2. /\ UNCHANGED <<site, at, written, flags, ending, inFlight, failures>>
      /\ site # Nobody
  BY DEF OwnerWrites
<1>3. Text(Owner) \in Texts /\ Text(Owner).by = Owner /\ NoText.by = Nobody
  BY DEF Text, Texts, NoText
<1>4. ScaffoldType'
  <2>1. content' \in [Slots -> Texts]
    BY <1>1, <1>3 DEF ScaffoldType
  <2> QED
    BY <1>1, <1>2, <2>1 DEF ScaffoldType
<1>5. PlaceInv'
  <2>1. \A h \in Slots : content'[h] = IF h = f THEN Text(Owner) ELSE content[h]
    BY <1>1 DEF ScaffoldType
  <2>2. placed' \subseteq By(Owner)'
    BY <1>1, <1>3, <2>1 DEF PlaceInv, By
  <2>3. \A h \in Slots : content'[h].by \in Scaffolds => content'[h].by = site'
    BY <1>2, <1>3, <2>1, ScaffoldAssumption DEF PlaceInv
  <2> QED
    BY <1>2, <2>2, <2>3 DEF PlaceInv
<1>6. ASSUME NEW t \in Scaffolds PROVE ScaffoldInv(t)'
  <2>1. Private(t)
    BY <1>2 DEF Private
  <2>2. Rely(t)
    BY <1>1, <1>2, <1>3, ScaffoldAssumption DEF Rely, ScaffoldType
  <2> QED
    BY <2>1, <2>2, RelyKeeps
<1> QED
  BY <1>4, <1>5, <1>6 DEF ScaffoldIInv

\* Scaffolds with one target do not disturb one another or its user: a success has
\* written everything, a failure has taken only its own away
\* (PluginScaffolder.ts: scaffold, publishScaffold and its onExit).
THEOREM ScaffoldIsExclusiveAlways == Spec => []ScaffoldIsExclusive
<1>1. Init => ScaffoldIInv
  <2> SUFFICES ASSUME Init PROVE ScaffoldIInv
    OBVIOUS
  <2>1. ScaffoldInit
    BY DEF Init
  <2>2. ScaffoldType
    BY <2>1, TextTypes, ScaffoldAssumption
       DEF ScaffoldInit, ScaffoldType, Ats, Endings, NoText, Texts
  <2>3. PlaceInv
    BY <2>1, ScaffoldAssumption DEF ScaffoldInit, PlaceInv, NoText
  <2>4. \A s \in Scaffolds : ScaffoldInv(s)
    BY <2>1 DEF ScaffoldInit, ScaffoldInv, Holds, Succeeds, Making
  <2> QED
    BY <2>2, <2>3, <2>4 DEF ScaffoldIInv
<1>2. ScaffoldIInv /\ [Next]_vars => ScaffoldIInv'
  <2> SUFFICES ASSUME ScaffoldIInv, [Next]_vars PROVE ScaffoldIInv'
    OBVIOUS
  <2>1. CASE UNCHANGED scaffoldVars
    <3>1. ScaffoldType' /\ PlaceInv'
      BY <2>1 DEF ScaffoldIInv, ScaffoldType, PlaceInv, By, scaffoldVars
    <3>2. ASSUME NEW t \in Scaffolds PROVE ScaffoldInv(t)'
      <4>1. Private(t) /\ Rely(t)
        BY <2>1 DEF Private, Rely, scaffoldVars
      <4> QED
        BY <4>1, RelyKeeps DEF ScaffoldIInv
    <3> QED
      BY <3>1, <3>2 DEF ScaffoldIInv
  <2>2. CASE ScaffoldNext
    BY <2>2, ScaffoldStep, OwnerStep DEF ScaffoldNext, ScaffoldStepOf
  <2> QED
    BY <2>1, <2>2 DEF Next, InitCommand, AddPluginCommand, GenerateCommand, vars
<1>3. ScaffoldIInv => ScaffoldIsExclusive
  <2> SUFFICES ASSUME ScaffoldIInv PROVE ScaffoldIsExclusive
    OBVIOUS
  <2>1. site = Owner => \A f \in Slots : content[f].by \in {Nobody, Owner}
    BY ScaffoldAssumption DEF ScaffoldIInv, ScaffoldType, PlaceInv, Texts
  <2>2. ASSUME NEW s \in Scaffolds, at[s] = "done", ending[s] = "ok"
        PROVE  site = s /\ \A f \in Slots : content[f] = Text(s)
    BY <2>2 DEF ScaffoldIInv, ScaffoldInv, Succeeds, Holds, Slots
  <2> QED
    BY <2>1, <2>2 DEF ScaffoldIsExclusive, ScaffoldIInv, ScaffoldInv, PlaceInv
<1> QED
  BY <1>1, <1>2, <1>3, PTL DEF Spec

-----------------------------------------------------------------------------
(* init: what is where                                                     *)

Early == {"inspect", "stage", "missing"}
Busy == CommitPcs \cup {"undo", "undoRename"}
Pcs == Early \cup Busy \cup {"cleanUp", "done", "dead"}
Outcomes == {"none", "ok", "failed", "interrupted", "rollbackFailed", "defect"}
Contents == Inits \cup {User, Absent}
Commits == [file : Files, backed : BOOLEAN]

InitType ==
  /\ target \in [Files -> Contents] /\ dirs \subseteq Dirs
  /\ backup \in [Inits -> [Files -> Contents]]
  /\ force \in [Inits -> BOOLEAN]
  /\ pc \in [Inits -> Pcs]
  /\ plan \in [Inits -> Seq(Files)]
  /\ occupied \in [Inits -> BOOLEAN]
  /\ committed \in [Inits -> Seq(Commits)]
  /\ missing \in [Inits -> SUBSET Dirs]
  /\ unrestored \in [Inits -> Files \cup {NoFile}]
  /\ outcome \in [Inits -> Outcomes]
  /\ recovery \in [Inits -> SUBSET Files]
  /\ preserve \in [Inits -> BOOLEAN] /\ signal \in [Inits -> BOOLEAN]
  /\ faults \in Nat
  /\ before \in [files : [Files -> {User, Absent}], dirs : SUBSET Dirs]

\* The target was a file system: a file's directories exist, and those above them.
BeforeInv ==
  /\ \A f \in Files : before.files[f] # Absent => Within[f] \subseteq before.dirs
  /\ \A d \in Dirs, e \in before.dirs : e \in Below(d) => d \in before.dirs

Planned(i) == ToSet(plan[i])
IsCommitted(i, f) == \E k \in 1 .. Len(committed[i]) : committed[i][k].file = f

\* No file is planned or committed twice, an existing package.json not once.
PlanInv(i) ==
  /\ IsInjective(plan[i])
  /\ \A k, l \in 1 .. Len(committed[i]) : committed[i][k].file = committed[i][l].file => k = l
  /\ \A f \in Planned(i) : ~IsCommitted(i, f)
  /\ before.files[Package] = User => Package \notin Planned(i) /\ ~IsCommitted(i, Package)

\* What a phase starts with
StepPhase(i) ==
  /\ pc[i] \in Busy \ {"check"} => plan[i] # << >>
  /\ pc[i] = "undoRename" => committed[i] # << >> /\ Last(committed[i]).backed
PhaseInv(i) ==
  /\ StepPhase(i)
  /\ pc[i] \in Early => committed[i] = << >> /\ missing[i] = {}
  /\ plan[i] = << >> /\ committed[i] = << >> => missing[i] = {}

\* An original is kept for every file that had one.
CommitInv(i) ==
  \A k \in 1 .. Len(committed[i]) :
    LET f == committed[i][k].file IN
    IF committed[i][k].backed
      THEN before.files[f] = User /\ force[i] /\ (backup[i][f] = User \/ Complete(i))
      ELSE before.files[f] = Absent /\ backup[i][f] = Absent

\* Moved away, and not yet replaced or put back
Displaced(i, f) ==
  \/ /\ pc[i] \in {"replace", "restore", "dead"} /\ outcome[i] = "none"
     /\ plan[i] # << >> /\ f = File(i)
  \/ unrestored[i] = f

\* A file that is not committed is as it was, or its original is in the backup.
FileInv(i) ==
  \A f \in Files : ~IsCommitted(i, f) =>
    \/ target[f] = before.files[f] /\ backup[i][f] = Absent
    \/ /\ target[f] = Absent /\ backup[i][f] = User /\ before.files[f] = User
       /\ force[i] /\ f # Package /\ Displaced(i, f)

\* What the file in turn is like
TurnInv(i) ==
  /\ pc[i] \in Early \cup CommitPcs => unrestored[i] = NoFile
  /\ pc[i] \in {"mkdir", "publish", "backUp"} =>
       /\ occupied[i] <=> target[File(i)] # Absent
       /\ occupied[i] => force[i]
  /\ pc[i] = "backUp" => occupied[i]
  /\ pc[i] = "publish" => ~occupied[i]
  /\ pc[i] \in {"replace", "restore"} => target[File(i)] = Absent /\ backup[i][File(i)] = User

DirsInv(i) ==
  /\ before.dirs \subseteq dirs /\ dirs \subseteq before.dirs \cup missing[i]
  /\ missing[i] \cap before.dirs = {}
  /\ pc[i] \in CommitPcs => \A f \in Planned(i) : Within[f] \subseteq before.dirs \cup missing[i]

OutcomeInv(i) ==
  /\ pc[i] \in Early \cup Busy => outcome[i] = "none" /\ recovery[i] = {}
  /\ pc[i] \in {"cleanUp", "done"} => outcome[i] # "none"
  /\ outcome[i] \in {"failed", "interrupted"} =>
       committed[i] = << >> /\ unrestored[i] = NoFile /\ missing[i] = {}
  /\ outcome[i] = "ok" => plan[i] = << >> /\ unrestored[i] = NoFile
  /\ outcome[i] = "defect" => pc[i] = "done"
  /\ outcome[i] = "rollbackFailed" =>
       /\ plan[i] # << >>
       /\ \/ recovery[i] = Files
          \/ committed[i] = << >> /\ recovery[i] = {unrestored[i]}
  /\ recovery[i] # {} /\ ~preserve[i] => signal[i]

\* All of it, until the release may remove what could not be put back
ProjectInv(i) ==
  /\ PlanInv(i) /\ PhaseInv(i) /\ CommitInv(i) /\ FileInv(i)
  /\ TurnInv(i) /\ DirsInv(i) /\ OutcomeInv(i)

\* A forced init, interrupted, is about to end; package.json is where it was.
AbandonedInv(i) ==
  /\ pc[i] \in {"cleanUp", "done", "dead"} /\ signal[i]
  /\ \A f \in Files : before.files[f] = User => target[f] = User \/ (force[i] /\ f # Package)

InitInv(i) ==
  /\ ~Abandoned(i) => ProjectInv(i)
  /\ Abandoned(i) => AbandonedInv(i)

ProjectIInv == InitType /\ BeforeInv /\ \A i \in Inits : InitInv(i)

ProjectStepOf(i) ==
  \/ Inspect(i) \/ Stage(i) \/ Interrupt(i) \/ InterruptLater(i)
  \/ CollectMissing(i) \/ Commit(i) \/ Rollback(i) \/ Unlink(i) \/ CleanUp(i)
  \/ FailsEarly(i) \/ CommitFails(i) \/ UndoFails(i) \/ CleanUpDies(i)
  \/ Die(i)

-----------------------------------------------------------------------------
(* Sequences                                                               *)

LEMMA FrontLast ==
  ASSUME NEW S, NEW s \in Seq(S), s # << >>
  PROVE  /\ Front(s) \in Seq(S) /\ Len(Front(s)) = Len(s) - 1 /\ Len(s) \in Nat \ {0}
         /\ \A k \in 1 .. Len(s) - 1 : Front(s)[k] = s[k]
         /\ Last(s) \in S /\ Last(s) = s[Len(s)]
<1>1. Len(s) \in Nat \ {0}
  OBVIOUS
<1>2. /\ SubSeq(s, 1, Len(s) - 1) \in Seq(S) /\ Len(SubSeq(s, 1, Len(s) - 1)) = Len(s) - 1
      /\ \A k \in 1 .. Len(s) - 1 : SubSeq(s, 1, Len(s) - 1)[k] = s[k]
  <2> DEFINE n == Len(s) - 1
  <2>1. n \in Int /\ 1 \in Int /\ \A k \in 1 .. n : s[k] \in S
    BY <1>1
  <2> HIDE DEF n
  <2>2. /\ SubSeq(s, 1, n) \in Seq(S)
        /\ Len(SubSeq(s, 1, n)) = IF 1 <= n THEN n - 1 + 1 ELSE 0
        /\ \A k \in 1 .. n - 1 + 1 : SubSeq(s, 1, n)[k] = s[1 + k - 1]
    BY <2>1, SubSeqProperties
  <2>3. n \in Nat /\ n - 1 + 1 = n /\ \A k \in 1 .. n : 1 + k - 1 = k
    BY <1>1 DEF n
  <2> QED
    BY <2>2, <2>3 DEF n
<1> QED
  BY <1>1, <1>2 DEF Front, Last

LEMMA HeadTail ==
  ASSUME NEW S, NEW s \in Seq(S), s # << >>
  PROVE  /\ Head(s) \in S /\ Head(s) = s[1] /\ Tail(s) \in Seq(S)
         /\ Head(s) \in ToSet(s) /\ ToSet(Tail(s)) \subseteq ToSet(s)
         /\ IsInjective(s) => IsInjective(Tail(s)) /\ Head(s) \notin ToSet(Tail(s))
<1>1. /\ Head(s) \in S /\ Head(s) = s[1] /\ Tail(s) \in Seq(S) /\ Len(s) \in Nat \ {0}
      /\ Len(Tail(s)) = Len(s) - 1
      /\ \A k \in 1 .. Len(s) - 1 : Tail(s)[k] = s[k + 1]
  OBVIOUS
<1>2. /\ \A k \in DOMAIN Tail(s) : k + 1 \in DOMAIN s /\ Tail(s)[k] = s[k + 1] /\ k + 1 # 1
      /\ 1 \in DOMAIN s /\ \A k \in DOMAIN Tail(s) : k \in Nat
  BY <1>1
<1>3. Head(s) \in ToSet(s) /\ ToSet(Tail(s)) \subseteq ToSet(s)
  BY <1>1, <1>2 DEF ToSet
<1>4. ASSUME IsInjective(s)
      PROVE  IsInjective(Tail(s)) /\ Head(s) \notin ToSet(Tail(s))
  BY <1>1, <1>2, <1>4 DEF IsInjective, ToSet
<1> QED
  BY <1>1, <1>3, <1>4

LEMMA PlanForType ==
  ASSUME InitType, NEW i \in Inits
  PROVE  /\ PlanFor(i) \in Seq(Files) /\ IsInjective(PlanFor(i))
         /\ target[Package] # Absent => Package \notin ToSet(PlanFor(i))
<1>1. /\ Templates \in Seq(Files) /\ Templates # << >>
      /\ IsInjective(Templates) /\ Last(Templates) = Package
  BY PlanAssumption
<1>2. /\ Front(Templates) \in Seq(Files) /\ Len(Front(Templates)) = Len(Templates) - 1
      /\ Len(Templates) \in Nat \ {0} /\ Package = Templates[Len(Templates)]
      /\ \A k \in 1 .. Len(Templates) - 1 : Front(Templates)[k] = Templates[k]
  BY <1>1, FrontLast
<1>3. \A k \in DOMAIN Front(Templates) :
        /\ k \in DOMAIN Templates /\ Len(Templates) \in DOMAIN Templates /\ k # Len(Templates)
        /\ Front(Templates)[k] = Templates[k]
  BY <1>1, <1>2
<1>4. IsInjective(Front(Templates))
  BY <1>1, <1>3 DEF IsInjective
<1>5. Package \notin ToSet(Front(Templates))
  BY <1>1, <1>2, <1>3 DEF ToSet, IsInjective
<1> QED
  BY <1>1, <1>2, <1>4, <1>5 DEF PlanFor

-----------------------------------------------------------------------------
(* Types                                                                   *)

LEMMA GotoType ==
  ASSUME InitType, NEW i \in Inits, NEW to \in Pcs, Goto(i, to)
  PROVE  pc' \in [Inits -> Pcs] /\ pc'[i] = to
  BY DEF InitType, Goto

LEMMA EndsType ==
  ASSUME InitType, NEW i \in Inits, NEW how \in Outcomes, Ends(i, how)
  PROVE  /\ outcome' \in [Inits -> Outcomes] /\ outcome'[i] = how
         /\ recovery' = recovery /\ preserve' = preserve
  BY DEF InitType, Ends

LEMMA FileType ==
  ASSUME InitType, NEW i \in Inits, plan[i] # << >>
  PROVE  File(i) \in Files /\ File(i) \in Planned(i)
  BY HeadTail DEF InitType, File, Planned

LEMMA DiskType ==
  ASSUME InitType, NEW i \in Inits, NEW f \in Files
  PROVE  /\ \A c \in Contents :
              target' = [target EXCEPT ![f] = c] => target' \in [Files -> Contents]
         /\ \A c \in Contents : backup' = [backup EXCEPT ![i][f] = c] =>
              backup' \in [Inits -> [Files -> Contents]]
         /\ target[f] \in Contents /\ backup[i][f] \in Contents
<1>1. /\ \A c \in Contents : target' = [target EXCEPT ![f] = c] => target' \in [Files -> Contents]
      /\ target[f] \in Contents /\ backup[i][f] \in Contents
  BY DEF InitType
<1>2. \A c \in Contents : [backup[i] EXCEPT ![f] = c] \in [Files -> Contents]
  BY DEF InitType
<1>3. \A c \in Contents : backup' = [backup EXCEPT ![i][f] = c] =>
        backup' \in [Inits -> [Files -> Contents]]
  BY <1>2 DEF InitType
<1> QED
  BY <1>1, <1>3

LEMMA CommittedType ==
  ASSUME InitType, NEW i \in Inits, plan[i] # << >>, NEW backed \in BOOLEAN, Committed(i, backed)
  PROVE  /\ committed' \in [Inits -> Seq(Commits)] /\ plan' \in [Inits -> Seq(Files)]
         /\ pc' \in [Inits -> Pcs]
         /\ committed'[i] = Append(committed[i], [file |-> File(i), backed |-> backed])
         /\ plan'[i] = Tail(plan[i]) /\ pc'[i] = "check"
<1>1. [file |-> File(i), backed |-> backed] \in Commits
  BY FileType DEF Commits
<1>2. Append(committed[i], [file |-> File(i), backed |-> backed]) \in Seq(Commits)
  BY <1>1 DEF InitType
<1>3. Tail(plan[i]) \in Seq(Files)
  BY HeadTail DEF InitType
<1>4. "check" \in Pcs
  BY DEF Pcs, Busy, CommitPcs
<1> QED
  BY <1>2, <1>3, <1>4, GotoType DEF InitType, Committed

LEMMA PoppedType ==
  ASSUME InitType, NEW i \in Inits, committed[i] # << >>
  PROVE  /\ Last(committed[i]) \in Commits /\ Last(committed[i]).file \in Files
         /\ Popped(i) => committed' \in [Inits -> Seq(Commits)]
                           /\ committed'[i] = Front(committed[i])
<1>1. Front(committed[i]) \in Seq(Commits) /\ Last(committed[i]) \in Commits
  BY FrontLast DEF InitType
<1> QED
  BY <1>1, ZenonT(60) DEF InitType, Popped, Commits

LEMMA CommitFiles ==
  ASSUME InitType, NEW i \in Inits
  PROVE  \A k \in 1 .. Len(committed[i]) : committed[i][k].file \in Files
<1>1. committed[i] \in Seq(Commits)
  BY DEF InitType
<1>2. \A k \in 1 .. Len(committed[i]) : committed[i][k] \in Commits
  BY <1>1
<1> QED
  BY <1>2 DEF Commits

LEMMA PcNames ==
  /\ Early \subseteq Pcs /\ CommitPcs \subseteq Busy /\ Busy \subseteq Pcs
  /\ "stage" \in Early /\ "missing" \in Early /\ {"undo", "undoRename"} \subseteq Busy
  /\ {"check", "mkdir", "publish", "backUp", "replace", "restore"} \subseteq CommitPcs
  /\ {"cleanUp", "done", "dead"} \subseteq Pcs
  BY DEF Early, CommitPcs, Busy, Pcs

\* Where only what is needed to see a step is well typed is known of the invariant
LEMMA ProjectTypeStep ==
  ASSUME InitType, NEW i \in Inits, ProjectStepOf(i), StepPhase(i)
  PROVE  InitType'
<1> USE DEF disk, given, ended
<1>0. /\ \A to \in Pcs : Goto(i, to) => pc' \in [Inits -> Pcs]
      /\ \A how \in Outcomes : Ends(i, how) =>
           outcome' \in [Inits -> Outcomes] /\ UNCHANGED <<recovery, preserve>>
      /\ {"ok", "failed", "interrupted", "rollbackFailed", "defect"} \subseteq Outcomes
      /\ \A files \in SUBSET Files : CannotRestore(i, files) =>
           /\ outcome' \in [Inits -> Outcomes] /\ recovery' \in [Inits -> SUBSET Files]
           /\ preserve' \in [Inits -> BOOLEAN]
      /\ RollbackFails(i) => /\ outcome' \in [Inits -> Outcomes] /\ pc' \in [Inits -> Pcs]
                             /\ recovery' \in [Inits -> SUBSET Files]
                             /\ preserve' \in [Inits -> BOOLEAN]
  <2>1. ASSUME NEW files \in SUBSET Files, CannotRestore(i, files)
        PROVE  /\ outcome' \in [Inits -> Outcomes] /\ recovery' \in [Inits -> SUBSET Files]
               /\ preserve' \in [Inits -> BOOLEAN]
    <3>1. "rollbackFailed" \in Outcomes
      BY DEF Outcomes
    <3>2. preserve' \in [Inits -> BOOLEAN]
      <4>1. (~signal[i]) \in BOOLEAN
        OBVIOUS
      <4> QED
        BY <2>1, <4>1, ZenonT(60) DEF CannotRestore, InitType
    <3> QED
      BY <2>1, <3>1, <3>2 DEF CannotRestore, InitType
  <2>2. RollbackFails(i) => pc' \in [Inits -> Pcs] /\ CannotRestore(i, Files)
    BY GotoType DEF RollbackFails, Pcs
  <2> QED
    BY <2>1, <2>2, GotoType, EndsType DEF Outcomes
<1>00. /\ {"stage", "missing", "undo", "undoRename", "cleanUp", "done", "dead"} \subseteq Pcs
       /\ CommitPcs \subseteq Pcs
       /\ {"check", "mkdir", "publish", "backUp", "replace", "restore"} \subseteq CommitPcs
  BY DEF Pcs, Early, Busy, CommitPcs
<1>1. CASE Inspect(i)
  <2>1. plan' \in [Inits -> Seq(Files)]
    BY <1>1, PlanForType, ZenonT(60) DEF Inspect, InitType
  <2> QED
    BY <1>0, <1>00, <1>1, <2>1 DEF Inspect, InitType
<1>2. CASE Stage(i) \/ FailsEarly(i) \/ Die(i) \/ AllCommitted(i)
  BY <1>0, <1>00, <1>2 DEF Stage, FailsEarly, Fault, Die, AllCommitted, InitType
<1>17. CASE Interrupt(i) \/ InterruptLater(i)
  <2>1. signal' \in [Inits -> BOOLEAN]
    BY <1>17, ZenonT(60) DEF Interrupt, InterruptLater, InitType
  <2> QED
    BY <1>0, <1>00, <1>17, <2>1 DEF Interrupt, InterruptLater, InitType
<1>3. CASE CollectMissing(i)
  <2>1. missing' \in [Inits -> SUBSET Dirs]
    <3>1. MissingFor(i) \subseteq Dirs
      BY DirAssumption DEF MissingFor, PlannedDirs, InitType, ToSet
    <3> QED
      BY <1>3, <3>1 DEF CollectMissing, InitType
  <2> QED
    BY <1>0, <1>00, <1>3, <2>1 DEF CollectMissing, InitType
<1>4. CASE CheckTarget(i)
  <2>1. occupied' \in [Inits -> BOOLEAN]
    BY <1>4 DEF CheckTarget, InitType
  <2>2. pc' \in [Inits -> Pcs]
    BY <1>0, <1>00, <1>4 DEF CheckTarget
  <2> QED
    BY <1>4, <2>1, <2>2 DEF CheckTarget, InitType
<1>5. CASE MakeDirectory(i)
  <2>1. dirs' \subseteq Dirs
    BY <1>5, FileType, DirAssumption DEF MakeDirectory, At, StepPhase, Busy, CommitPcs, InitType
  <2>2. pc' \in [Inits -> Pcs]
    BY <1>0, <1>00, <1>5 DEF MakeDirectory
  <2> QED
    BY <1>5, <2>1, <2>2 DEF MakeDirectory, InitType
<1>6. CASE PublishNew(i) \/ Replace(i)
  <2>1. plan[i] # << >> /\ i \in Contents
    BY <1>6 DEF PublishNew, Replace, At, StepPhase, Busy, CommitPcs, Contents
  <2>2. /\ committed' \in [Inits -> Seq(Commits)] /\ plan' \in [Inits -> Seq(Files)]
        /\ pc' \in [Inits -> Pcs]
    BY <1>0, <1>00, <1>6, <2>1, CommittedType DEF PublishNew, Replace, InitType
  <2>3. target' \in [Files -> Contents]
    BY <1>6, <2>1, DiskType, FileType DEF PublishNew, Replace, InitType
  <2> QED
    BY <1>6, <2>2, <2>3 DEF PublishNew, Replace, InitType
<1>7. CASE BackUp(i)
  <2>1. plan[i] # << >> /\ Absent \in Contents
    BY <1>7 DEF BackUp, At, StepPhase, Busy, CommitPcs, Contents
  <2>2. target' \in [Files -> Contents] /\ backup' \in [Inits -> [Files -> Contents]]
    BY <1>7, <2>1, DiskType, FileType DEF BackUp, InitType
  <2>3. pc' \in [Inits -> Pcs]
    BY <1>0, <1>00, <1>7 DEF BackUp
  <2> QED
    BY <1>7, <2>2, <2>3 DEF BackUp, InitType
<1>8. ASSUME NEW f \in Files, PutBack(i, f)
      PROVE  target' \in [Files -> Contents] /\ backup' \in [Inits -> [Files -> Contents]]
  BY <1>8, DiskType DEF PutBack, Contents
<1>9. CASE RestoreCurrent(i)
  <2>1. plan[i] # << >>
    BY <1>9 DEF RestoreCurrent, At, StepPhase, Busy, CommitPcs
  <2>2. target' \in [Files -> Contents] /\ backup' \in [Inits -> [Files -> Contents]]
    BY <1>8, <1>9, <2>1, FileType DEF RestoreCurrent, InitType
  <2>3. unrestored' \in [Inits -> Files \cup {NoFile}]
    BY <1>9, <2>1, FileType, ZenonT(60) DEF RestoreCurrent, InitType
  <2>4. pc' \in [Inits -> Pcs]
    BY <1>0, <1>00, <1>9 DEF RestoreCurrent
  <2> QED
    BY <1>9, <2>2, <2>3, <2>4 DEF RestoreCurrent, InitType
<1>10. CASE UndoRemove(i)
  <2>1. target' \in [Files -> Contents]
    BY <1>10, PoppedType, DiskType DEF UndoRemove, Contents
  <2>2. committed' \in [Inits -> Seq(Commits)] /\ pc' \in [Inits -> Pcs]
    BY <1>0, <1>00, <1>10, PoppedType DEF UndoRemove, InitType
  <2> QED
    BY <1>10, <2>1, <2>2 DEF UndoRemove, InitType
<1>11. CASE UndoRename(i)
  <2>1. committed[i] # << >>
    BY <1>11 DEF UndoRename, At, StepPhase
  <2>2. target' \in [Files -> Contents] /\ backup' \in [Inits -> [Files -> Contents]]
    BY <1>8, <1>11, <2>1, PoppedType DEF UndoRename, InitType
  <2>3. committed' \in [Inits -> Seq(Commits)] /\ pc' \in [Inits -> Pcs]
    BY <1>0, <1>00, <1>11, <2>1, PoppedType DEF UndoRename, InitType
  <2>4. /\ outcome' \in [Inits -> Outcomes] /\ recovery' \in [Inits -> SUBSET Files]
        /\ preserve' \in [Inits -> BOOLEAN]
    BY <1>0, <1>11 DEF UndoRename, InitType
  <2> QED
    BY <1>11, <2>2, <2>3, <2>4 DEF UndoRename, InitType
<1>12. CASE UndoDirectory(i)
  <2>1. dirs' \subseteq Dirs /\ missing' \in [Inits -> SUBSET Dirs]
    BY <1>12 DEF UndoDirectory, InitType
  <2> QED
    BY <1>12, <2>1 DEF UndoDirectory, InitType
<1>13. CASE RolledBack(i)
  <2>1. /\ recovery' \in [Inits -> SUBSET Files] /\ outcome' \in [Inits -> Outcomes]
        /\ preserve' \in [Inits -> BOOLEAN]
    <3>1. CASE Ends(i, "failed")
      BY <1>0, <3>1 DEF InitType
    <3>2. CASE unrestored[i] # NoFile /\ CannotRestore(i, {unrestored[i]})
      <4>1. {unrestored[i]} \in SUBSET Files
        BY <3>2 DEF InitType
      <4> QED
        BY <1>0, <3>2, <4>1
    <3> QED
      BY <1>13, <3>1, <3>2 DEF RolledBack
  <2> QED
    BY <1>0, <1>00, <1>13, <2>1 DEF RolledBack, InitType
<1>14. CASE Unlink(i) \/ CleanUp(i) \/ CleanUpDies(i)
  <2>1. backup' \in [Inits -> [Files -> Contents]]
    BY <1>14, DiskType DEF Unlink, CleanUp, CleanUpDies, Contents, InitType
  <2>2. /\ outcome' \in [Inits -> Outcomes] /\ pc' \in [Inits -> Pcs]
        /\ UNCHANGED <<recovery, preserve>> /\ faults' \in Nat
    BY <1>0, <1>00, <1>14 DEF Unlink, CleanUp, CleanUpDies, Fault, InitType
  <2> QED
    BY <1>14, <2>1, <2>2 DEF Unlink, CleanUp, CleanUpDies, InitType
<1>15. CASE CommitFails(i)
  <2>1. unrestored' \in [Inits -> Files \cup {NoFile}]
    BY <1>15, FileType DEF CommitFails, InitType
  <2>2. pc' \in [Inits -> Pcs] /\ faults' \in Nat
    BY <1>0, <1>00, <1>15 DEF CommitFails, Fault, InitType
  <2> QED
    BY <1>15, <2>1, <2>2 DEF CommitFails, InitType
<1>16. CASE UndoFails(i)
  BY <1>0, <1>16 DEF UndoFails, Fault, InitType
<1> QED
  BY <1>1, <1>2, <1>3, <1>4, <1>5, <1>6, <1>7, <1>9, <1>10, <1>11, <1>12, <1>13, <1>14, <1>15,
     <1>16, <1>17 DEF ProjectStepOf, Commit, Rollback

-----------------------------------------------------------------------------
(* What a step of the only init keeps                                      *)

\* Nothing in the target, in the backup or in the plan changes.
LEMMA QuietKeeps ==
  ASSUME NEW i \in Inits, ProjectInv(i),
         UNCHANGED <<target, backup, force, before, plan, committed>>,
         \A f \in Files : Displaced(i, f) => Displaced(i, f)'
  PROVE  PlanInv(i)' /\ CommitInv(i)' /\ FileInv(i)'
<1>1. (\A f : IsCommitted(i, f)' <=> IsCommitted(i, f)) /\ Planned(i)' = Planned(i)
      /\ Complete(i)' = Complete(i)
  BY DEF IsCommitted, Planned, Complete
<1>2. PlanInv(i)'
  BY <1>1 DEF ProjectInv, PlanInv
<1>3. CommitInv(i)'
  BY <1>1 DEF ProjectInv, CommitInv
<1>4. FileInv(i)'
  BY <1>1 DEF ProjectInv, FileInv
<1> QED
  BY <1>2, <1>3, <1>4

\* The plan and the directories to be removed are as they were.
LEMMA DirsKept ==
  ASSUME NEW i \in Inits, DirsInv(i), UNCHANGED <<dirs, missing, before>>,
         pc'[i] \in CommitPcs => pc[i] \in CommitPcs /\ Planned(i)' \subseteq Planned(i)
  PROVE  DirsInv(i)'
  BY DEF DirsInv

\* The file in turn has not been touched until it is backed up.
LEMMA Untouched ==
  ASSUME InitType, NEW i \in Inits, ProjectInv(i), plan[i] # << >>,
         pc[i] \in {"check", "mkdir", "publish", "backUp"}
  PROVE  /\ target[File(i)] = before.files[File(i)] /\ backup[i][File(i)] = Absent
         /\ ~IsCommitted(i, File(i))
<1>1. File(i) \in Files /\ File(i) \in Planned(i)
  BY FileType
<1>2. ~IsCommitted(i, File(i))
  BY <1>1 DEF ProjectInv, PlanInv
<1>3. ~Displaced(i, File(i))
  BY <1>1, ContentAssumption DEF ProjectInv, TurnInv, Displaced, CommitPcs
<1> QED
  BY <1>1, <1>2, <1>3 DEF ProjectInv, FileInv

\* Before the first commit everything is in place.
LEMMA AllInPlace ==
  ASSUME InitType, NEW i \in Inits, ProjectInv(i), committed[i] = << >>, unrestored[i] = NoFile,
         pc[i] \notin {"replace", "restore", "dead"}
  PROVE  /\ target = before.files
         /\ \A f \in Files : target[f] = before.files[f] /\ backup[i][f] = Absent
<1>1. \A f \in Files : ~IsCommitted(i, f) /\ ~Displaced(i, f)
  BY ContentAssumption DEF IsCommitted, Displaced
<1>2. \A f \in Files : target[f] = before.files[f] /\ backup[i][f] = Absent
  BY <1>1 DEF ProjectInv, FileInv
<1> QED
  BY <1>2 DEF InitType

\* A commit moves the file in turn from the plan to what is committed.
LEMMA CommittedKeeps ==
  ASSUME InitType, NEW i \in Inits, PlanInv(i), plan[i] # << >>, NEW backed \in BOOLEAN,
         Committed(i, backed), before.files[File(i)] = User => File(i) # Package, UNCHANGED given
  PROVE  /\ PlanInv(i)'
         /\ Len(committed'[i]) = Len(committed[i]) + 1 /\ Len(committed[i]) \in Nat
         /\ committed'[i][Len(committed[i]) + 1] = [file |-> File(i), backed |-> backed]
         /\ \A k \in 1 .. Len(committed[i]) : committed'[i][k] = committed[i][k]
         /\ \A f : IsCommitted(i, f)' <=> IsCommitted(i, f) \/ f = File(i)
         /\ Planned(i)' \subseteq Planned(i)
         /\ committed'[i] # << >>
<1> USE DEF given
<1> DEFINE n == Len(committed[i])
<1>1. /\ committed'[i] = Append(committed[i], [file |-> File(i), backed |-> backed])
      /\ plan'[i] = Tail(plan[i]) /\ committed[i] \in Seq(Commits) /\ plan[i] \in Seq(Files)
  BY CommittedType DEF InitType
<1>2. /\ Len(committed'[i]) = n + 1 /\ n \in Nat
      /\ committed'[i][n + 1] = [file |-> File(i), backed |-> backed]
      /\ \A k \in 1 .. n : committed'[i][k] = committed[i][k]
      /\ committed'[i] # << >>
  BY <1>1
<1>3. /\ IsInjective(plan'[i]) /\ File(i) \notin Planned(i)' /\ Planned(i)' \subseteq Planned(i)
      /\ File(i) \in Planned(i)
  BY <1>1, HeadTail DEF PlanInv, File, Planned
<1>4. \A k \in 1 .. n + 1 : k = n + 1 \/ k \in 1 .. n
  BY <1>2
<1>5. ASSUME NEW f PROVE IsCommitted(i, f)' <=> IsCommitted(i, f) \/ f = File(i)
  <2>1. committed'[i][n + 1].file = File(i) /\ n + 1 \in 1 .. n + 1 /\ 1 .. n \subseteq 1 .. n + 1
    BY <1>2
  <2> QED
    BY <1>2, <1>4, <2>1 DEF IsCommitted
<1>6. ASSUME NEW k \in 1 .. n + 1, NEW l \in 1 .. n + 1,
             committed'[i][k].file = committed'[i][l].file
      PROVE  k = l
  <2>1. \A m \in 1 .. n : committed'[i][m].file # File(i)
    BY <1>2, <1>3 DEF PlanInv, IsCommitted
  <2>2. committed'[i][n + 1].file = File(i)
    BY <1>2
  <2> QED
    BY <1>2, <1>4, <1>6, <2>1, <2>2 DEF PlanInv
<1>7. PlanInv(i)'
  BY <1>2, <1>3, <1>5, <1>6 DEF PlanInv
<1> QED
  BY <1>2, <1>3, <1>5, <1>7

\* A rollback takes the last commit back.
LEMMA PoppedKeeps ==
  ASSUME InitType, NEW i \in Inits, PlanInv(i), CommitInv(i), committed[i] # << >>, Popped(i),
         UNCHANGED <<plan, given>>,
         \A f \in Files \ {Last(committed[i]).file} : backup'[i][f] = backup[i][f]
  PROVE  /\ PlanInv(i)'
         /\ plan[i] # << >> => CommitInv(i)'
         /\ \A f : IsCommitted(i, f)' <=> IsCommitted(i, f) /\ f # Last(committed[i]).file
<1> USE DEF given
<1> DEFINE n == Len(committed[i])
<1>1. /\ committed'[i] = Front(committed[i]) /\ committed[i] \in Seq(Commits)
      /\ committed'[i] \in Seq(Commits)
  BY PoppedType DEF InitType
<1>2. /\ Len(committed'[i]) = n - 1 /\ n \in Nat \ {0} /\ Last(committed[i]) = committed[i][n]
      /\ \A k \in 1 .. n - 1 : committed'[i][k] = committed[i][k]
  BY <1>1, FrontLast
<1>3. \A k \in 1 .. n : k = n \/ k \in 1 .. n - 1
  BY <1>2
<1>4. \A k \in 1 .. n - 1 : k \in 1 .. n /\ k # n
  BY <1>2
<1>5. \A k \in 1 .. n - 1 : committed[i][k].file # Last(committed[i]).file
  BY <1>2, <1>4 DEF PlanInv
<1>6. \A f : IsCommitted(i, f)' <=> IsCommitted(i, f) /\ f # Last(committed[i]).file
  BY <1>2, <1>3, <1>4, <1>5 DEF IsCommitted
<1>7. PlanInv(i)'
  BY <1>2, <1>4, <1>6 DEF PlanInv, Planned
<1>8. ASSUME plan[i] # << >> PROVE CommitInv(i)'
  <2>1. ~Complete(i)
    BY <1>8 DEF Complete
  <2>2. \A k \in 1 .. n : committed[i][k] \in Commits
    BY <1>1, <1>2
  <2>3. \A k \in 1 .. n - 1 :
          /\ committed[i][k].file \in Files
          /\ backup'[i][committed[i][k].file] = backup[i][committed[i][k].file]
    BY <1>4, <1>5, <2>2 DEF Commits
  <2>4. \A k \in 1 .. n - 1 :
          IF committed[i][k].backed
            THEN /\ before.files[committed[i][k].file] = User /\ force[i]
                 /\ backup[i][committed[i][k].file] = User
            ELSE before.files[committed[i][k].file] = Absent
                 /\ backup[i][committed[i][k].file] = Absent
    BY <1>4, <2>1 DEF CommitInv
  <2>5. before' = before /\ force' = force
    OBVIOUS
  <2>6. ASSUME NEW k \in 1 .. Len(committed'[i])
        PROVE  IF committed'[i][k].backed
                 THEN /\ before'.files[committed'[i][k].file] = User /\ force'[i]
                      /\ backup'[i][committed'[i][k].file] = User
                 ELSE before'.files[committed'[i][k].file] = Absent
                      /\ backup'[i][committed'[i][k].file] = Absent
    <3>1. k \in 1 .. n - 1 /\ committed'[i][k] = committed[i][k]
      BY <1>2
    <3> QED
      BY <2>3, <2>4, <2>5, <3>1
  <2> QED
    BY <2>6 DEF CommitInv
<1> QED
  BY <1>6, <1>7, <1>8

-----------------------------------------------------------------------------
(* A step of the only init                                                 *)

LEMMA GoesTo ==
  ASSUME InitType, NEW i \in Inits
  PROVE  /\ \A to : Goto(i, to) => pc'[i] = to
         /\ \A how : Ends(i, how) => outcome'[i] = how /\ recovery'[i] = recovery[i]
         /\ \A files : CannotRestore(i, files) =>
              /\ outcome'[i] = "rollbackFailed" /\ recovery'[i] = files
              /\ ~preserve'[i] => signal[i]
         /\ RollbackFails(i) => pc'[i] = "cleanUp" /\ CannotRestore(i, Files)
<1>1. \A to : Goto(i, to) => pc'[i] = to
  BY DEF InitType, Goto
<1>2. \A how : Ends(i, how) => outcome'[i] = how /\ recovery'[i] = recovery[i]
  BY DEF InitType, Ends
<1>3. ASSUME NEW files, CannotRestore(i, files)
      PROVE  /\ outcome'[i] = "rollbackFailed" /\ recovery'[i] = files
             /\ ~preserve'[i] => signal[i]
  <2>1. outcome'[i] = "rollbackFailed" /\ recovery'[i] = files
    BY <1>3 DEF InitType, CannotRestore
  <2>2. preserve'[i] = ~signal[i]
    BY <1>3, ZenonT(60) DEF InitType, CannotRestore
  <2> QED
    BY <2>1, <2>2
<1> QED
  BY <1>1, <1>2, <1>3 DEF RollbackFails

\* Up to the first commit nothing is changed.
LEMMA EarlyStep ==
  ASSUME InitType, NEW i \in Inits, ProjectInv(i),
         Inspect(i) \/ Stage(i) \/ Interrupt(i) \/ FailsEarly(i) \/ CollectMissing(i)
  PROVE  ProjectInv(i)'
<1> USE DEF disk, given, ended
<1>0. /\ pc[i] \in Early /\ committed[i] = << >> /\ missing[i] = {} /\ unrestored[i] = NoFile
      /\ outcome[i] = "none" /\ recovery[i] = {}
      /\ dirs = before.dirs /\ committed' = committed
      /\ UNCHANGED <<target, dirs, backup, force, before, occupied, unrestored>>
  <2>1. pc[i] \in Early /\ committed' = committed
        /\ UNCHANGED <<target, dirs, backup, force, before, occupied, unrestored>>
    BY DEF Inspect, Stage, Interrupt, FailsEarly, CollectMissing, At, Early
  <2>2. /\ committed[i] = << >> /\ missing[i] = {} /\ unrestored[i] = NoFile
        /\ outcome[i] = "none" /\ recovery[i] = {}
    BY <2>1 DEF ProjectInv, PhaseInv, StepPhase, TurnInv, OutcomeInv
  <2>3. dirs = before.dirs
    BY <2>2 DEF ProjectInv, DirsInv
  <2> QED
    BY <2>1, <2>2, <2>3
<1>1. /\ target = before.files
      /\ \A f \in Files : target[f] = before.files[f] /\ backup[i][f] = Absent
  BY <1>0, AllInPlace DEF Early
<1>2. /\ \A f : ~IsCommitted(i, f) /\ ~IsCommitted(i, f)'
      /\ Len(committed[i]) = 0 /\ 1 .. 0 = {}
  BY <1>0 DEF IsCommitted
<1>3. CommitInv(i)' /\ FileInv(i)'
  BY <1>0, <1>1, <1>2 DEF CommitInv, FileInv
<1>4. \/ UNCHANGED plan
      \/ plan'[i] = PlanFor(i)
  BY DEF Inspect, Stage, Interrupt, FailsEarly, CollectMissing, InitType
<1>5. PlanInv(i)'
  <2>1. CASE UNCHANGED plan
    BY <1>0, <1>2, <2>1 DEF PlanInv, ProjectInv, Planned
  <2>2. CASE plan'[i] = PlanFor(i)
    <3>1. IsInjective(plan'[i])
      BY <2>2, PlanForType
    <3>2. before.files[Package] = User => Package \notin Planned(i)'
      <4>1. target = before.files /\ User # Absent
        BY <1>1, ContentAssumption
      <4> QED
        BY <2>2, <4>1, PlanForType DEF Planned
    <3> QED
      BY <1>0, <1>2, <3>1, <3>2 DEF PlanInv
  <2> QED
    BY <1>4, <2>1, <2>2
<1>6. CASE CollectMissing(i)
  <2>1. /\ pc'[i] = "check" /\ outcome'[i] = "none" /\ missing'[i] = MissingFor(i)
        /\ plan' = plan /\ UNCHANGED ended
    BY <1>0, <1>6, GoesTo DEF CollectMissing, InitType
  <2>2. PhaseInv(i)' /\ TurnInv(i)' /\ OutcomeInv(i)'
    <3>1. plan[i] = << >> => MissingFor(i) = {}
      BY DEF MissingFor, PlannedDirs, ToSet
    <3> QED
      BY <1>0, <2>1, <3>1 DEF PhaseInv, StepPhase, TurnInv, OutcomeInv, Early, Busy, CommitPcs
  <2>3. DirsInv(i)'
    <3>1. Planned(i)' = Planned(i) /\ \A f \in Planned(i) : Within[f] \subseteq PlannedDirs(i)
      BY <2>1 DEF Planned, PlannedDirs
    <3>2. missing'[i] = PlannedDirs(i) \ before.dirs
      BY <1>0, <2>1 DEF MissingFor
    <3> QED
      BY <1>0, <3>1, <3>2 DEF DirsInv
  <2> QED
    BY <1>3, <1>5, <2>2, <2>3 DEF ProjectInv
<1>7. CASE ~CollectMissing(i)
  <2>1. /\ UNCHANGED missing
        /\ \/ pc'[i] \in {"stage", "missing"} /\ outcome'[i] = "none"
           \/ pc'[i] \in {"cleanUp", "done"} /\ outcome'[i] \in {"failed", "interrupted"}
        /\ recovery'[i] = {}
    <3>1. CASE Inspect(i)
      BY <1>0, <3>1, GoesTo DEF Inspect
    <3>2. CASE Stage(i)
      BY <1>0, <3>2, GoesTo DEF Stage
    <3>3. CASE Interrupt(i)
      BY <1>0, <3>3, GoesTo DEF Interrupt
    <3>4. CASE FailsEarly(i)
      BY <1>0, <3>4, GoesTo DEF FailsEarly
    <3> QED
      BY <1>7, <3>1, <3>2, <3>3, <3>4
  <2>2. PhaseInv(i)' /\ TurnInv(i)' /\ OutcomeInv(i)' /\ DirsInv(i)'
    BY <1>0, <2>1 DEF PhaseInv, StepPhase, TurnInv, OutcomeInv, DirsInv, Early, Busy, CommitPcs
  <2> QED
    BY <1>3, <1>5, <2>2 DEF ProjectInv
<1> QED
  BY <1>6, <1>7

\* Steps of commitFile that move no file, a failing one among them
LEMMA TryStep ==
  ASSUME InitType, NEW i \in Inits, ProjectInv(i),
         \/ CheckTarget(i) \/ MakeDirectory(i) \/ AllCommitted(i) \/ CommitFails(i)
  PROVE  ProjectInv(i)'
<1> USE DEF disk, given, ended
<1>0. /\ pc[i] \in CommitPcs /\ outcome[i] = "none" /\ unrestored[i] = NoFile
      /\ recovery[i] = {}
      /\ UNCHANGED <<target, backup, force, before, plan, committed, missing>>
  <2>1. pc[i] \in CommitPcs
        /\ UNCHANGED <<target, backup, force, before, plan, committed, missing>>
    BY DEF CheckTarget, MakeDirectory, AllCommitted, CommitFails, At, CommitPcs
  <2> QED
    BY <2>1 DEF ProjectInv, TurnInv, OutcomeInv, Busy
<1>1. File(i)' = File(i) /\ Planned(i)' = Planned(i)
  BY <1>0 DEF File, Planned
<1>2. CASE CheckTarget(i)
  <2>1. /\ pc[i] = "check" /\ plan[i] # << >> /\ occupied'[i] = (target[File(i)] # Absent)
        /\ pc'[i] = IF target[File(i)] # Absent /\ ~force[i] THEN "undo" ELSE "mkdir"
        /\ UNCHANGED <<dirs, unrestored, outcome, recovery>>
    BY <1>2, GoesTo DEF CheckTarget, At, InitType
  <2>2. PlanInv(i)' /\ CommitInv(i)' /\ FileInv(i)'
    BY <1>0, <2>1, QuietKeeps DEF Displaced
  <2>3. PhaseInv(i)' /\ TurnInv(i)' /\ OutcomeInv(i)'
    BY <1>0, <1>1, <2>1 DEF PhaseInv, StepPhase, TurnInv, OutcomeInv, Early, Busy, CommitPcs
  <2>4. DirsInv(i)'
    BY <1>0, <1>1, <2>1, DirsKept DEF ProjectInv
  <2> QED
    BY <2>2, <2>3, <2>4 DEF ProjectInv
<1>3. CASE MakeDirectory(i)
  <2>1. /\ pc[i] = "mkdir" /\ plan[i] # << >> /\ dirs' = dirs \cup Within[File(i)]
        /\ pc'[i] = IF occupied[i] THEN "backUp" ELSE "publish"
        /\ UNCHANGED <<unrestored, outcome, recovery, occupied>>
    BY <1>3, GoesTo DEF MakeDirectory, At, ProjectInv, PhaseInv, StepPhase, Busy, CommitPcs
  <2>2. PlanInv(i)' /\ CommitInv(i)' /\ FileInv(i)'
    BY <1>0, <2>1, QuietKeeps DEF Displaced
  <2>3. PhaseInv(i)' /\ TurnInv(i)' /\ OutcomeInv(i)'
    BY <1>0, <1>1, <2>1
       DEF PhaseInv, StepPhase, TurnInv, OutcomeInv, ProjectInv, Early, Busy, CommitPcs
  <2>4. DirsInv(i)'
    BY <1>0, <1>1, <2>1, FileType DEF ProjectInv, DirsInv
  <2> QED
    BY <2>2, <2>3, <2>4 DEF ProjectInv
<1>4. CASE AllCommitted(i)
  <2>1. /\ plan[i] = << >> /\ pc'[i] = "cleanUp" /\ outcome'[i] = "ok" /\ recovery'[i] = {}
        /\ UNCHANGED <<dirs, unrestored>>
    BY <1>0, <1>4, GoesTo DEF AllCommitted
  <2>2. PlanInv(i)' /\ CommitInv(i)' /\ FileInv(i)'
    BY <1>0, <1>4, <2>1, QuietKeeps DEF Displaced, AllCommitted, At
  <2>3. PhaseInv(i)' /\ TurnInv(i)' /\ OutcomeInv(i)'
    BY <1>0, <2>1 DEF ProjectInv, PhaseInv, StepPhase, TurnInv, OutcomeInv, Early, Busy, CommitPcs
  <2>4. DirsInv(i)'
    BY <1>0, <2>1, DirsKept DEF ProjectInv, CommitPcs
  <2> QED
    BY <2>2, <2>3, <2>4 DEF ProjectInv
<1>5. CASE CommitFails(i)
  <2>1. /\ plan[i] # << >> /\ pc'[i] = (IF pc[i] = "replace" THEN "restore" ELSE "undo")
        /\ unrestored'[i] = (IF pc[i] = "restore" THEN File(i) ELSE NoFile)
        /\ UNCHANGED <<dirs, outcome, recovery>>
    BY <1>0, <1>5, GoesTo DEF CommitFails, At, InitType
  <2>2. PlanInv(i)' /\ CommitInv(i)' /\ FileInv(i)'
    <3>1. \A f \in Files : Displaced(i, f) => Displaced(i, f)'
      <4> SUFFICES ASSUME NEW f \in Files, Displaced(i, f) PROVE Displaced(i, f)'
        OBVIOUS
      <4>1. pc[i] \in {"replace", "restore"} /\ f = File(i)
        BY <1>0, ContentAssumption DEF Displaced, CommitPcs
      <4> QED
        BY <1>0, <1>1, <2>1, <4>1 DEF Displaced
    <3> QED
      BY <1>0, <3>1, QuietKeeps
  <2>3. PhaseInv(i)' /\ OutcomeInv(i)'
    BY <1>0, <2>1 DEF PhaseInv, StepPhase, OutcomeInv, Early, Busy, CommitPcs
  <2>4. TurnInv(i)'
    BY <1>0, <1>1, <2>1 DEF TurnInv, ProjectInv, Early, CommitPcs
  <2>5. DirsInv(i)'
    BY <1>0, <1>1, <2>1, DirsKept DEF ProjectInv
  <2> QED
    BY <2>2, <2>3, <2>4, <2>5 DEF ProjectInv
<1> QED
  BY <1>2, <1>3, <1>4, <1>5

\* A rename of commitFile that does not reach its directory
LEMMA UnreachableStep ==
  ASSUME InitType, NEW i \in Inits, ProjectInv(i),
         UNCHANGED <<disk, given, plan, occupied, committed, missing, ended>>,
         \/ pc[i] \in {"publish", "backUp"} /\ pc'[i] = "undo" /\ unrestored'[i] = unrestored[i]
         \/ pc[i] = "replace" /\ pc'[i] = "restore" /\ unrestored'[i] = unrestored[i]
         \/ pc[i] = "restore" /\ pc'[i] = "undo" /\ unrestored'[i] = File(i)
  PROVE  ProjectInv(i)'
<1> USE DEF disk, given, ended
<1>0. /\ pc[i] \in CommitPcs /\ outcome[i] = "none" /\ unrestored[i] = NoFile /\ plan[i] # << >>
      /\ recovery[i] = {}
      /\ pc'[i] # "restore" \/ pc[i] = "replace"
  BY DEF ProjectInv, TurnInv, OutcomeInv, PhaseInv, StepPhase, Busy, CommitPcs
<1>1. File(i)' = File(i) /\ Planned(i)' = Planned(i)
  BY DEF File, Planned
<1>2. PlanInv(i)' /\ CommitInv(i)' /\ FileInv(i)'
  <2>1. \A f \in Files : Displaced(i, f) => Displaced(i, f)'
    <3> SUFFICES ASSUME NEW f \in Files, Displaced(i, f) PROVE Displaced(i, f)'
      OBVIOUS
    <3>1. pc[i] \in {"replace", "restore"} /\ f = File(i)
      BY <1>0, ContentAssumption DEF Displaced, CommitPcs
    <3> QED
      BY <1>0, <1>1, <3>1 DEF Displaced
  <2> QED
    BY <2>1, QuietKeeps
<1>3. PhaseInv(i)' /\ OutcomeInv(i)'
  BY <1>0 DEF PhaseInv, StepPhase, OutcomeInv, Early, Busy, CommitPcs
<1>4. TurnInv(i)'
  BY <1>0, <1>1 DEF TurnInv, ProjectInv, Early, CommitPcs
<1>5. DirsInv(i)'
  BY <1>0, <1>1, DirsKept DEF ProjectInv
<1> QED
  BY <1>2, <1>3, <1>4, <1>5 DEF ProjectInv

\* What is left of the invariant once a file has been committed
LEMMA CommittedGoesOn ==
  ASSUME InitType, NEW i \in Inits, ProjectInv(i), pc[i] \in CommitPcs, pc'[i] = "check",
         Planned(i)' \subseteq Planned(i), committed'[i] # << >>,
         UNCHANGED <<dirs, given, missing, unrestored, ended>>
  PROVE  PhaseInv(i)' /\ TurnInv(i)' /\ DirsInv(i)' /\ OutcomeInv(i)'
<1> USE DEF given, ended
<1>1. outcome[i] = "none" /\ unrestored[i] = NoFile /\ recovery[i] = {}
  BY DEF ProjectInv, TurnInv, OutcomeInv, Busy
<1>2. PhaseInv(i)' /\ TurnInv(i)' /\ OutcomeInv(i)'
  BY <1>1 DEF PhaseInv, StepPhase, TurnInv, OutcomeInv, Early, Busy, CommitPcs
<1>3. DirsInv(i)'
  BY DirsKept DEF ProjectInv
<1> QED
  BY <1>2, <1>3

\* The rename of a new file into its place
LEMMA PublishStep ==
  ASSUME InitType, NEW i \in Inits, ProjectInv(i), PublishNew(i)
  PROVE  ProjectInv(i)'
<1> USE DEF disk, given, ended
<1>0. pc[i] = "publish" /\ plan[i] # << >> /\ unrestored[i] = NoFile /\ File(i) \in Files
  BY FileType DEF PublishNew, At, ProjectInv, PhaseInv, StepPhase, TurnInv, Busy, CommitPcs
<1>1. CASE Reachable(File(i))
  <2> DEFINE n == Len(committed[i])
  <2>1. /\ target' = [target EXCEPT ![File(i)] = i] /\ Committed(i, FALSE)
        /\ UNCHANGED <<dirs, backup, given, occupied, missing, unrestored, ended, faults>>
    BY <1>1 DEF PublishNew
  <2>2. /\ target[File(i)] = before.files[File(i)] /\ target[File(i)] = Absent
        /\ backup[i][File(i)] = Absent /\ User # Absent
    BY <1>0, Untouched, ContentAssumption DEF ProjectInv, TurnInv
  <2>3. before.files[File(i)] = User => File(i) # Package
    BY <2>2
  <2>4. /\ PlanInv(i)' /\ Len(committed'[i]) = n + 1 /\ n \in Nat
        /\ committed'[i][n + 1] = [file |-> File(i), backed |-> FALSE]
        /\ \A k \in 1 .. n : committed'[i][k] = committed[i][k]
        /\ \A f : IsCommitted(i, f)' <=> IsCommitted(i, f) \/ f = File(i)
        /\ Planned(i)' \subseteq Planned(i) /\ committed'[i] # << >>
    <3>1. PlanInv(i)
      BY DEF ProjectInv
    <3> QED
      BY <1>0, <2>1, <2>3, <3>1, CommittedKeeps
  <2>5. CommitInv(i)'
    <3> SUFFICES ASSUME NEW k \in 1 .. n + 1
                 PROVE  IF committed'[i][k].backed
                          THEN /\ before.files[committed'[i][k].file] = User /\ force[i]
                               /\ backup[i][committed'[i][k].file] = User \/ Complete(i)'
                          ELSE /\ before.files[committed'[i][k].file] = Absent
                               /\ backup[i][committed'[i][k].file] = Absent
      BY <2>1, <2>4 DEF CommitInv
    <3>1. CASE k = n + 1
      <4>1. committed'[i][k].file = File(i) /\ committed'[i][k].backed = FALSE
        BY <2>4, <3>1
      <4> QED
        BY <2>2, <4>1
    <3>2. CASE k \in 1 .. n
      <4>1. ~Complete(i)
        BY <1>0 DEF Complete
      <4> QED
        BY <2>4, <3>2, <4>1 DEF ProjectInv, CommitInv
    <3> QED
      BY <2>4, <3>1, <3>2
  <2>6. FileInv(i)'
    <3> SUFFICES ASSUME NEW f \in Files, ~IsCommitted(i, f)'
                 PROVE  target'[f] = before.files[f] /\ backup[i][f] = Absent
      BY <2>1 DEF FileInv
    <3>1. f # File(i) /\ ~IsCommitted(i, f) /\ target'[f] = target[f]
      BY <2>1, <2>4 DEF InitType
    <3>2. ~Displaced(i, f)
      BY <1>0, ContentAssumption DEF Displaced
    <3> QED
      BY <3>1, <3>2 DEF ProjectInv, FileInv
  <2>7. pc'[i] = "check"
    BY <2>1, GoesTo DEF Committed
  <2>8. PhaseInv(i)' /\ TurnInv(i)' /\ DirsInv(i)' /\ OutcomeInv(i)'
    BY <1>0, <2>1, <2>4, <2>7, CommittedGoesOn DEF CommitPcs
  <2> QED
    BY <2>4, <2>5, <2>6, <2>8 DEF ProjectInv
<1>2. CASE ~Reachable(File(i))
  <2>1. /\ UNCHANGED <<disk, given, plan, occupied, committed, missing, ended, unrestored>>
        /\ pc'[i] = "undo"
    BY <1>2, GoesTo DEF PublishNew
  <2> QED
    BY <1>0, <2>1, UnreachableStep
<1> QED
  BY <1>1, <1>2

\* The file in turn while its original is in the backup
LEMMA Moved ==
  ASSUME InitType, NEW i \in Inits, ProjectInv(i), pc[i] \in {"replace", "restore"}
  PROVE  /\ plan[i] # << >> /\ File(i) \in Files /\ unrestored[i] = NoFile
         /\ target[File(i)] = Absent /\ backup[i][File(i)] = User
         /\ before.files[File(i)] = User /\ force[i] /\ File(i) # Package
         /\ ~IsCommitted(i, File(i))
         /\ \A f \in Files \ {File(i)} : ~Displaced(i, f)
<1>1. plan[i] # << >> /\ File(i) \in Files /\ File(i) \in Planned(i) /\ unrestored[i] = NoFile
  BY FileType DEF ProjectInv, PhaseInv, StepPhase, TurnInv, Busy, CommitPcs
<1>2. target[File(i)] = Absent /\ backup[i][File(i)] = User /\ User # Absent
  BY ContentAssumption DEF ProjectInv, TurnInv
<1>3. ~IsCommitted(i, File(i))
  BY <1>1 DEF ProjectInv, PlanInv
<1>4. before.files[File(i)] = User /\ force[i] /\ File(i) # Package
  BY <1>1, <1>2, <1>3 DEF ProjectInv, FileInv
<1>5. \A f \in Files \ {File(i)} : ~Displaced(i, f)
  BY <1>1, ContentAssumption DEF Displaced
<1> QED
  BY <1>1, <1>2, <1>3, <1>4, <1>5

\* The rename of a file whose original is in the backup
LEMMA ReplaceStep ==
  ASSUME InitType, NEW i \in Inits, ProjectInv(i), Replace(i)
  PROVE  ProjectInv(i)'
<1> USE DEF disk, given, ended
<1>0. pc[i] = "replace"
  BY DEF Replace, At
<1>00. /\ plan[i] # << >> /\ File(i) \in Files /\ unrestored[i] = NoFile
       /\ target[File(i)] = Absent /\ backup[i][File(i)] = User
       /\ before.files[File(i)] = User /\ force[i] /\ File(i) # Package
       /\ ~IsCommitted(i, File(i))
       /\ \A f \in Files \ {File(i)} : ~Displaced(i, f)
  BY <1>0, Moved
<1>1. CASE Reachable(File(i))
  <2> DEFINE n == Len(committed[i])
  <2>1. /\ target' = [target EXCEPT ![File(i)] = i] /\ Committed(i, TRUE)
        /\ UNCHANGED <<dirs, backup, given, occupied, missing, unrestored, ended, faults>>
    BY <1>1 DEF Replace
  <2>4. /\ PlanInv(i)' /\ Len(committed'[i]) = n + 1 /\ n \in Nat
        /\ committed'[i][n + 1] = [file |-> File(i), backed |-> TRUE]
        /\ \A k \in 1 .. n : committed'[i][k] = committed[i][k]
        /\ \A f : IsCommitted(i, f)' <=> IsCommitted(i, f) \/ f = File(i)
        /\ Planned(i)' \subseteq Planned(i) /\ committed'[i] # << >>
    <3>1. PlanInv(i)
      BY DEF ProjectInv
    <3> QED
      BY <1>00, <2>1, <3>1, CommittedKeeps
  <2>5. CommitInv(i)'
    <3> SUFFICES ASSUME NEW k \in 1 .. n + 1
                 PROVE  IF committed'[i][k].backed
                          THEN /\ before.files[committed'[i][k].file] = User /\ force[i]
                               /\ backup[i][committed'[i][k].file] = User \/ Complete(i)'
                          ELSE /\ before.files[committed'[i][k].file] = Absent
                               /\ backup[i][committed'[i][k].file] = Absent
      BY <2>1, <2>4 DEF CommitInv
    <3>1. CASE k = n + 1
      BY <1>00, <2>4, <3>1
    <3>2. CASE k \in 1 .. n
      <4>1. ~Complete(i)
        BY <1>00 DEF Complete
      <4> QED
        BY <2>4, <3>2, <4>1 DEF ProjectInv, CommitInv
    <3> QED
      BY <2>4, <3>1, <3>2
  <2>6. FileInv(i)'
    <3> SUFFICES ASSUME NEW f \in Files, ~IsCommitted(i, f)'
                 PROVE  target'[f] = before.files[f] /\ backup[i][f] = Absent
      BY <2>1 DEF FileInv
    <3>1. f # File(i) /\ ~IsCommitted(i, f) /\ target'[f] = target[f]
      BY <2>1, <2>4 DEF InitType
    <3> QED
      BY <1>00, <3>1 DEF ProjectInv, FileInv
  <2>7. pc'[i] = "check"
    BY <2>1, GoesTo DEF Committed
  <2>8. PhaseInv(i)' /\ TurnInv(i)' /\ DirsInv(i)' /\ OutcomeInv(i)'
    BY <1>0, <2>1, <2>4, <2>7, CommittedGoesOn DEF CommitPcs
  <2> QED
    BY <2>4, <2>5, <2>6, <2>8 DEF ProjectInv
<1>2. CASE ~Reachable(File(i))
  <2>1. /\ UNCHANGED <<disk, given, plan, occupied, committed, missing, ended, unrestored>>
        /\ pc'[i] = "restore"
    BY <1>2, GoesTo DEF Replace
  <2> QED
    BY <1>0, <2>1, UnreachableStep
<1> QED
  BY <1>1, <1>2

\* The rename of the original into the backup
LEMMA BackUpStep ==
  ASSUME InitType, NEW i \in Inits, ProjectInv(i), BackUp(i)
  PROVE  ProjectInv(i)'
<1> USE DEF disk, given, ended
<1>0. /\ pc[i] = "backUp" /\ plan[i] # << >> /\ unrestored[i] = NoFile /\ File(i) \in Files
      /\ File(i) \in Planned(i) /\ outcome[i] = "none" /\ recovery[i] = {}
  BY FileType DEF BackUp, At, ProjectInv, PhaseInv, StepPhase, TurnInv, OutcomeInv, Busy, CommitPcs
<1>1. CASE target[File(i)] # Absent
  <2>1. /\ backup' = [backup EXCEPT ![i][File(i)] = target[File(i)]]
        /\ target' = [target EXCEPT ![File(i)] = Absent]
        /\ pc'[i] = "replace"
        /\ UNCHANGED <<dirs, given, plan, occupied, committed, missing, unrestored, ended>>
    BY <1>1, GoesTo DEF BackUp
  <2>2. /\ before.files[File(i)] = User /\ target[File(i)] = User /\ force[i]
        /\ File(i) # Package /\ ~IsCommitted(i, File(i))
    <3>1. /\ target[File(i)] = before.files[File(i)] /\ ~IsCommitted(i, File(i))
          /\ before.files[File(i)] \in {User, Absent}
      BY <1>0, Untouched DEF InitType
    <3>2. force[i]
      BY <1>0 DEF ProjectInv, TurnInv
    <3>3. before.files[Package] = User => Package \notin Planned(i)
      BY DEF ProjectInv, PlanInv
    <3> QED
      BY <1>0, <1>1, <3>1, <3>2, <3>3
  <2>3. /\ target'[File(i)] = Absent /\ backup'[i][File(i)] = User
        /\ \A f \in Files \ {File(i)} :
             target'[f] = target[f] /\ backup'[i][f] = backup[i][f]
    BY <1>0, <2>1, <2>2 DEF InitType
  <2>4. /\ File(i)' = File(i) /\ Planned(i)' = Planned(i) /\ Complete(i)' = Complete(i)
        /\ \A f : IsCommitted(i, f)' <=> IsCommitted(i, f)
    BY <2>1 DEF File, Planned, Complete, IsCommitted
  <2>5. PlanInv(i)'
    BY <2>1, <2>4 DEF ProjectInv, PlanInv
  <2>6. CommitInv(i)'
    <3>1. \A k \in 1 .. Len(committed[i]) :
            /\ committed[i][k].file \in Files \ {File(i)}
            /\ backup'[i][committed[i][k].file] = backup[i][committed[i][k].file]
      <4>1. \A k \in 1 .. Len(committed[i]) : committed[i][k].file \in Files
        BY CommitFiles
      <4> QED
        BY <2>2, <2>3, <4>1 DEF IsCommitted
    <3> QED
      BY <2>1, <2>4, <3>1 DEF ProjectInv, CommitInv
  <2>7. FileInv(i)'
    <3> SUFFICES ASSUME NEW f \in Files, ~IsCommitted(i, f)
                 PROVE  \/ target'[f] = before.files[f] /\ backup'[i][f] = Absent
                        \/ /\ target'[f] = Absent /\ backup'[i][f] = User
                           /\ before.files[f] = User
                           /\ force[i] /\ f # Package /\ Displaced(i, f)'
      BY <2>1, <2>4 DEF FileInv
    <3>1. CASE f = File(i)
      <4>1. Displaced(i, f)'
        BY <1>0, <2>1, <2>4, <3>1 DEF Displaced
      <4> QED
        BY <2>2, <2>3, <3>1, <4>1
    <3>2. CASE f # File(i)
      <4>1. ~Displaced(i, f)
        BY <1>0, ContentAssumption DEF Displaced
      <4> QED
        BY <2>3, <3>2, <4>1 DEF ProjectInv, FileInv
    <3> QED
      BY <3>1, <3>2
  <2>8. PhaseInv(i)' /\ TurnInv(i)' /\ OutcomeInv(i)'
    BY <1>0, <2>1, <2>3, <2>4 DEF PhaseInv, StepPhase, TurnInv, OutcomeInv, Early, Busy, CommitPcs
  <2>9. DirsInv(i)'
    BY <1>0, <2>1, <2>4, DirsKept DEF ProjectInv, CommitPcs
  <2> QED
    BY <2>5, <2>6, <2>7, <2>8, <2>9 DEF ProjectInv
<1>2. CASE target[File(i)] = Absent
  <2>1. /\ UNCHANGED <<disk, given, plan, occupied, committed, missing, ended, unrestored>>
        /\ pc'[i] = "undo"
    BY <1>2, GoesTo DEF BackUp
  <2> QED
    BY <1>0, <2>1, UnreachableStep
<1> QED
  BY <1>1, <1>2

\* The rename of the original out of the backup, inside commitFile
LEMMA RestoreStep ==
  ASSUME InitType, NEW i \in Inits, ProjectInv(i), RestoreCurrent(i)
  PROVE  ProjectInv(i)'
<1> USE DEF disk, given, ended
<1>0. pc[i] = "restore" /\ pc'[i] = "undo"
  BY GoesTo DEF RestoreCurrent, At
<1>00. /\ plan[i] # << >> /\ File(i) \in Files /\ unrestored[i] = NoFile
       /\ target[File(i)] = Absent /\ backup[i][File(i)] = User
       /\ before.files[File(i)] = User
       /\ ~IsCommitted(i, File(i))
       /\ \A f \in Files \ {File(i)} : ~Displaced(i, f)
  BY <1>0, Moved
<1>1. CASE Reachable(File(i))
  <2>1. /\ PutBack(i, File(i))
        /\ UNCHANGED <<dirs, given, plan, occupied, committed, missing, unrestored, ended>>
    BY <1>1 DEF RestoreCurrent
  <2>2. /\ target'[File(i)] = User /\ backup'[i][File(i)] = Absent
        /\ \A f \in Files \ {File(i)} :
             target'[f] = target[f] /\ backup'[i][f] = backup[i][f]
    BY <1>00, <2>1 DEF InitType, PutBack
  <2>3. /\ Planned(i)' = Planned(i) /\ Complete(i)' = Complete(i)
        /\ \A f : IsCommitted(i, f)' <=> IsCommitted(i, f)
    BY <2>1 DEF Planned, Complete, IsCommitted
  <2>4. PlanInv(i)'
    BY <2>1, <2>3 DEF ProjectInv, PlanInv
  <2>5. CommitInv(i)'
    <3>1. \A k \in 1 .. Len(committed[i]) :
            backup'[i][committed[i][k].file] = backup[i][committed[i][k].file]
      <4>1. \A k \in 1 .. Len(committed[i]) : committed[i][k].file \in Files
        BY CommitFiles
      <4> QED
        BY <1>00, <2>2, <4>1 DEF IsCommitted
    <3> QED
      BY <2>1, <2>3, <3>1 DEF ProjectInv, CommitInv
  <2>6. FileInv(i)'
    <3> SUFFICES ASSUME NEW f \in Files, ~IsCommitted(i, f)
                 PROVE  target'[f] = before.files[f] /\ backup'[i][f] = Absent
      BY <2>1, <2>3 DEF FileInv
    <3> QED
      BY <1>00, <2>2 DEF ProjectInv, FileInv
  <2>7. PhaseInv(i)' /\ TurnInv(i)'
    BY <1>0, <1>00, <2>1 DEF PhaseInv, StepPhase, TurnInv, Early, Busy, CommitPcs
  <2>8. DirsInv(i)' /\ OutcomeInv(i)'
    BY <1>0, <1>00, <2>1 DEF ProjectInv, DirsInv, OutcomeInv, Early, Busy, CommitPcs
  <2> QED
    BY <2>4, <2>5, <2>6, <2>7, <2>8 DEF ProjectInv
<1>2. CASE ~Reachable(File(i))
  <2>1. /\ UNCHANGED <<disk, given, plan, occupied, committed, missing, ended>>
        /\ unrestored'[i] = File(i)
    BY <1>2 DEF RestoreCurrent, InitType
  <2> QED
    BY <1>0, <2>1, UnreachableStep
<1> QED
  BY <1>1, <1>2

-----------------------------------------------------------------------------
(* The rollback                                                            *)

\* Every file committed is removed, its original is still in the backup.
LEMMA LastCommit ==
  ASSUME InitType, NEW i \in Inits, ProjectInv(i), committed[i] # << >>, plan[i] # << >>
  PROVE  LET last == Last(committed[i]) IN
         /\ last.file \in Files /\ IsCommitted(i, last.file)
         /\ IF last.backed
              THEN before.files[last.file] = User /\ backup[i][last.file] = User
              ELSE before.files[last.file] = Absent /\ backup[i][last.file] = Absent
<1> DEFINE n == Len(committed[i])
<1>1. Last(committed[i]) = committed[i][n] /\ n \in 1 .. n /\ Last(committed[i]).file \in Files
  BY FrontLast, PoppedType DEF InitType
<1>2. ~Complete(i)
  BY DEF Complete
<1> QED
  BY <1>1, <1>2 DEF ProjectInv, CommitInv, IsCommitted

\* A commit that has been taken back leaves its file as it was.
LEMMA TakenBack ==
  ASSUME InitType, NEW i \in Inits, ProjectInv(i), committed[i] # << >>, Popped(i),
         plan[i] # << >>, UNCHANGED <<plan, given, dirs, missing, unrestored, ended>>,
         pc[i] \in {"undo", "undoRename"}, pc'[i] = "undo",
         LET f == Last(committed[i]).file IN
           /\ target'[f] = before.files[f] /\ backup'[i][f] = Absent
           /\ \A g \in Files \ {f} : target'[g] = target[g] /\ backup'[i][g] = backup[i][g]
  PROVE  ProjectInv(i)'
<1> USE DEF given, ended
<1> DEFINE f == Last(committed[i]).file
<1>1. /\ PlanInv(i)' /\ CommitInv(i)'
      /\ \A g : IsCommitted(i, g)' <=> IsCommitted(i, g) /\ g # f
  <2>1. PlanInv(i) /\ CommitInv(i)
    BY DEF ProjectInv
  <2> QED
    BY <2>1, PoppedKeeps
<1>2. FileInv(i)'
  <2> SUFFICES ASSUME NEW g \in Files, ~IsCommitted(i, g) \/ g = f
               PROVE  \/ target'[g] = before.files[g] /\ backup'[i][g] = Absent
                      \/ /\ target'[g] = Absent /\ backup'[i][g] = User
                         /\ before.files[g] = User
                         /\ force[i] /\ g # Package /\ Displaced(i, g)'
    BY <1>1 DEF FileInv
  <2>1. CASE g = f
    BY <2>1
  <2>2. CASE g # f
    <3>1. Displaced(i, g) => Displaced(i, g)'
      BY DEF Displaced
    <3> QED
      BY <2>2, <3>1 DEF ProjectInv, FileInv
  <2> QED
    BY <2>1, <2>2
<1>3. PhaseInv(i)' /\ TurnInv(i)'
  BY DEF PhaseInv, StepPhase, TurnInv, Early, Busy, CommitPcs
<1>4. DirsInv(i)'
  BY DirsKept DEF ProjectInv, CommitPcs
<1>5. OutcomeInv(i)'
  <2>1. outcome[i] = "none" /\ recovery[i] = {}
    BY DEF ProjectInv, OutcomeInv, Busy
  <2> QED
    BY <2>1 DEF OutcomeInv
<1> QED
  BY <1>1, <1>2, <1>3, <1>4, <1>5 DEF ProjectInv

LEMMA UndoRemoveStep ==
  ASSUME InitType, NEW i \in Inits, ProjectInv(i), UndoRemove(i)
  PROVE  ProjectInv(i)'
<1> USE DEF disk, given, ended
<1> DEFINE f == Last(committed[i]).file
<1>0. /\ pc[i] = "undo" /\ plan[i] # << >> /\ committed[i] # << >>
      /\ target' = [target EXCEPT ![f] = Absent]
      /\ UNCHANGED <<dirs, backup, given, plan, occupied, missing, unrestored, ended>>
  BY DEF UndoRemove, At, ProjectInv, PhaseInv, StepPhase, Busy, CommitPcs
<1>1. /\ f \in Files /\ IsCommitted(i, f)
      /\ ~Last(committed[i]).backed =>
           before.files[f] = Absent /\ backup[i][f] = Absent
  BY <1>0, LastCommit
<1>2. target'[f] = Absent /\ \A g \in Files \ {f} : target'[g] = target[g]
  BY <1>0, <1>1 DEF InitType
<1>3. CASE ~Last(committed[i]).backed
  <2>1. Popped(i) /\ UNCHANGED pc
    BY <1>3 DEF UndoRemove
  <2> QED
    BY <1>0, <1>1, <1>2, <1>3, <2>1, TakenBack
<1>4. CASE Last(committed[i]).backed
  <2>1. pc'[i] = "undoRename" /\ UNCHANGED committed
    BY <1>4, GoesTo DEF UndoRemove
  <2>2. /\ Planned(i)' = Planned(i) /\ Complete(i)' = Complete(i)
        /\ \A g : IsCommitted(i, g)' <=> IsCommitted(i, g)
    BY <1>0, <2>1 DEF Planned, Complete, IsCommitted
  <2>3. PlanInv(i)' /\ CommitInv(i)'
    BY <1>0, <2>1, <2>2 DEF ProjectInv, PlanInv, CommitInv
  <2>4. FileInv(i)'
    <3> SUFFICES ASSUME NEW g \in Files, ~IsCommitted(i, g)
                 PROVE  \/ target'[g] = before.files[g] /\ backup[i][g] = Absent
                        \/ /\ target'[g] = Absent /\ backup[i][g] = User
                           /\ before.files[g] = User
                           /\ force[i] /\ g # Package /\ Displaced(i, g)'
      BY <1>0, <2>2 DEF FileInv
    <3>1. target'[g] = target[g]
      BY <1>1, <1>2
    <3>2. Displaced(i, g) => Displaced(i, g)'
      BY <1>0, <2>1 DEF Displaced
    <3> QED
      BY <3>1, <3>2 DEF ProjectInv, FileInv
  <2>5. PhaseInv(i)' /\ TurnInv(i)'
    BY <1>0, <1>4, <2>1 DEF PhaseInv, StepPhase, TurnInv, Early, Busy, CommitPcs
  <2>6. DirsInv(i)'
    BY <1>0, <2>1, DirsKept DEF ProjectInv, CommitPcs
  <2>7. OutcomeInv(i)'
    BY <1>0, <2>1 DEF ProjectInv, OutcomeInv, Early, Busy
  <2> QED
    BY <2>3, <2>4, <2>5, <2>6, <2>7 DEF ProjectInv
<1> QED
  BY <1>3, <1>4

\* The rollback gives up, or ends: only what is reported changes.
LEMMA RollbackEnds ==
  ASSUME InitType, NEW i \in Inits, ProjectInv(i), pc[i] \in {"undo", "undoRename"},
         RollbackFails(i) \/ RolledBack(i),
         UNCHANGED <<disk, given, plan, occupied, committed, missing, unrestored>>
  PROVE  ProjectInv(i)'
<1> USE DEF disk, given, ended
<1>1. plan[i] # << >> /\ outcome[i] = "none" /\ recovery[i] = {}
  BY DEF ProjectInv, PhaseInv, StepPhase, OutcomeInv, Busy, CommitPcs
<1>2. pc'[i] = "cleanUp"
  BY GoesTo DEF RolledBack
<1>3. PlanInv(i)' /\ CommitInv(i)' /\ FileInv(i)'
  <2>1. \A f \in Files : Displaced(i, f) => Displaced(i, f)'
    BY DEF Displaced
  <2> QED
    BY <2>1, QuietKeeps
<1>4. PhaseInv(i)' /\ TurnInv(i)'
  BY <1>1, <1>2 DEF PhaseInv, StepPhase, TurnInv, Early, Busy, CommitPcs
<1>5. DirsInv(i)'
  BY <1>2, DirsKept DEF ProjectInv, CommitPcs
<1>6. OutcomeInv(i)'
  <2>1. CASE RollbackFails(i)
    <3>1. /\ outcome'[i] = "rollbackFailed" /\ recovery'[i] = Files
          /\ ~preserve'[i] => signal'[i]
      BY <2>1, GoesTo
    <3> QED
      BY <1>1, <1>2, <3>1 DEF OutcomeInv, Early, Busy, CommitPcs
  <2>2. CASE RolledBack(i)
    <3>1. committed[i] = << >> /\ missing[i] = {}
      BY <2>2 DEF RolledBack
    <3>2. CASE unrestored[i] = NoFile
      <4>1. outcome'[i] = "failed" /\ recovery'[i] = {}
        BY <1>1, <2>2, <3>2, GoesTo DEF RolledBack
      <4> QED
        BY <1>2, <3>1, <3>2, <4>1 DEF OutcomeInv, Early, Busy, CommitPcs
    <3>3. CASE unrestored[i] # NoFile
      <4>1. /\ outcome'[i] = "rollbackFailed" /\ recovery'[i] = {unrestored[i]}
            /\ ~preserve'[i] => signal'[i]
        BY <2>2, <3>3, GoesTo DEF RolledBack
      <4> QED
        BY <1>1, <1>2, <3>1, <4>1 DEF OutcomeInv, Early, Busy, CommitPcs
    <3> QED
      BY <3>2, <3>3
  <2> QED
    BY <2>1, <2>2
<1> QED
  BY <1>3, <1>4, <1>5, <1>6 DEF ProjectInv

LEMMA UndoRenameStep ==
  ASSUME InitType, NEW i \in Inits, ProjectInv(i), UndoRename(i)
  PROVE  ProjectInv(i)'
<1> USE DEF disk, given, ended
<1> DEFINE f == Last(committed[i]).file
<1>0. /\ pc[i] = "undoRename" /\ plan[i] # << >>
      /\ committed[i] # << >> /\ Last(committed[i]).backed
      /\ UNCHANGED <<dirs, given, plan, occupied, missing, unrestored, faults>>
  BY DEF UndoRename, At, ProjectInv, PhaseInv, StepPhase, Busy
<1>1. f \in Files /\ before.files[f] = User /\ backup[i][f] = User
  BY <1>0, LastCommit
<1>2. CASE Reachable(f)
  <2>1. PutBack(i, f) /\ Popped(i) /\ pc'[i] = "undo" /\ UNCHANGED ended
    BY <1>2, GoesTo DEF UndoRename
  <2>2. /\ target'[f] = User /\ backup'[i][f] = Absent
        /\ \A g \in Files \ {f} : target'[g] = target[g] /\ backup'[i][g] = backup[i][g]
    BY <1>1, <2>1 DEF InitType, PutBack
  <2> QED
    BY <1>0, <1>1, <2>1, <2>2, TakenBack
<1>3. CASE ~Reachable(f)
  <2>1. RollbackFails(i) /\ UNCHANGED <<target, backup, committed>>
    BY <1>3 DEF UndoRename
  <2> QED
    BY <1>0, <2>1, RollbackEnds
<1> QED
  BY <1>2, <1>3

\* The deepest directory made is empty: its files are gone, those below it too.
LEMMA UndoDirectoryStep ==
  ASSUME InitType, BeforeInv, NEW i \in Inits, ProjectInv(i), UndoDirectory(i)
  PROVE  ProjectInv(i)'
<1> USE DEF disk, given, ended
<1>0. /\ pc[i] = "undo" /\ committed[i] = << >>
      /\ UNCHANGED <<target, backup, given, pc, plan, occupied, committed, unrestored, ended>>
  BY DEF UndoDirectory, At
<1>1. PICK d \in missing[i] :
        /\ \A e \in missing[i] : Depth[e] <= Depth[d]
        /\ dirs' = IF HasEntries(d) THEN dirs ELSE dirs \ {d}
        /\ missing' = [missing EXCEPT ![i] = @ \ {d}]
  BY DEF UndoDirectory
<1>2. missing'[i] = missing[i] \ {d} /\ d \in Dirs /\ d \notin before.dirs
  BY <1>1 DEF InitType, ProjectInv, DirsInv
<1>3. ~HasEntries(d)
  <2>1. ASSUME NEW f \in Files, d \in Within[f] PROVE target[f] = Absent
    <3>1. target[f] = before.files[f] \/ target[f] = Absent
      BY <1>0 DEF ProjectInv, FileInv, IsCommitted
    <3>2. before.files[f] = Absent
      BY <1>2, <2>1 DEF BeforeInv
    <3> QED
      BY <3>1, <3>2
  <2>2. ASSUME NEW e \in Below(d), e \in dirs PROVE FALSE
    <3>1. e \in Dirs /\ Depth[e] > Depth[d] /\ Depth[e] \in Nat /\ Depth[d] \in Nat
      BY <1>2, <2>2, DirAssumption DEF Below
    <3>2. e \notin missing[i]
      BY <1>1, <3>1
    <3>3. e \in before.dirs
      BY <2>2, <3>2 DEF ProjectInv, DirsInv
    <3> QED
      BY <1>2, <2>2, <3>3 DEF BeforeInv
  <2> QED
    BY <2>1, <2>2 DEF HasEntries
<1>4. dirs' = dirs \ {d}
  BY <1>1, <1>3
<1>5. DirsInv(i)'
  BY <1>0, <1>2, <1>4 DEF ProjectInv, DirsInv, CommitPcs
<1>6. PlanInv(i)' /\ CommitInv(i)' /\ FileInv(i)'
  <2>1. \A f \in Files : Displaced(i, f) => Displaced(i, f)'
    BY <1>0 DEF Displaced, File
  <2> QED
    BY <1>0, <2>1, QuietKeeps
<1>7. PhaseInv(i)' /\ TurnInv(i)' /\ OutcomeInv(i)'
  BY <1>0 DEF ProjectInv, PhaseInv, StepPhase, TurnInv, OutcomeInv, Early, Busy, CommitPcs
<1> QED
  BY <1>5, <1>6, <1>7 DEF ProjectInv

-----------------------------------------------------------------------------
(* The end, and sudden ones                                                *)

\* A file of the backup goes, when nothing in it is needed any more.
LEMMA UnlinkStep ==
  ASSUME InitType, NEW i \in Inits, ProjectInv(i), ~Abandoned(i), Unlink(i)
  PROVE  ProjectInv(i)'
<1> USE DEF given, ended
<1>1. /\ pc[i] = "cleanUp" /\ recovery[i] = {}
      /\ UNCHANGED <<target, dirs, given, pc, plan, occupied, committed, missing, unrestored,
                     ended>>
  BY DEF Unlink, At, Abandoned
<1>2. PICK g \in Files : backup[i][g] # Absent /\ backup' = [backup EXCEPT ![i][g] = Absent]
  BY DEF Unlink
<1>3. outcome[i] # "rollbackFailed"
  <2>1. plan[i] # << >> => Files # {}
    BY FileType
  <2> QED
    BY <1>1, <2>1 DEF ProjectInv, OutcomeInv
<1>4. outcome[i] \in {"ok", "failed", "interrupted"} /\ unrestored[i] = NoFile
  BY <1>1, <1>3 DEF ProjectInv, OutcomeInv, InitType, Outcomes
<1>5. IsCommitted(i, g)
  <2>1. ~Displaced(i, g)
    BY <1>1, <1>4, ContentAssumption DEF Displaced
  <2> QED
    BY <1>2, <2>1 DEF ProjectInv, FileInv
<1>6. Complete(i)
  <2>1. committed[i] # << >>
    BY <1>5 DEF IsCommitted
  <2> QED
    BY <1>4, <2>1 DEF ProjectInv, OutcomeInv, Complete
<1>7. /\ Planned(i)' = Planned(i) /\ Complete(i)' = Complete(i)
      /\ \A f : IsCommitted(i, f)' <=> IsCommitted(i, f)
      /\ \A f : Displaced(i, f)' <=> Displaced(i, f)
  BY <1>1 DEF Planned, Complete, IsCommitted, Displaced, File
<1>8. \A f \in Files : backup'[i][f] = IF f = g THEN Absent ELSE backup[i][f]
  BY <1>2 DEF InitType
<1>9. PlanInv(i)'
  BY <1>1, <1>7 DEF ProjectInv, PlanInv
<1>10. CommitInv(i)'
  <2>1. \A k \in 1 .. Len(committed[i]) : committed[i][k].file \in Files
    BY CommitFiles
  <2>2. \A k \in 1 .. Len(committed[i]) :
          LET f == committed[i][k].file IN backup[i][f] = Absent => backup'[i][f] = Absent
    BY <1>8, <2>1
  <2> QED
    BY <1>1, <1>6, <1>7, <2>2 DEF ProjectInv, CommitInv
<1>11. FileInv(i)'
  <2>1. \A f \in Files : ~IsCommitted(i, f) => backup'[i][f] = backup[i][f]
    BY <1>5, <1>8
  <2> QED
    BY <1>1, <1>7, <2>1 DEF ProjectInv, FileInv
<1>12. PhaseInv(i)' /\ TurnInv(i)' /\ DirsInv(i)' /\ OutcomeInv(i)'
  BY <1>1 DEF ProjectInv, PhaseInv, StepPhase, TurnInv, DirsInv, OutcomeInv, Early, Busy, CommitPcs
<1> QED
  BY <1>9, <1>10, <1>11, <1>12 DEF ProjectInv

\* The command ends or dies where it is, and leaves everything as it is.
LEMMA EndStep ==
  ASSUME InitType, NEW i \in Inits, ProjectInv(i), CleanUp(i) \/ CleanUpDies(i) \/ Die(i)
  PROVE  ProjectInv(i)'
<1> USE DEF disk, given, ended
<1>1. /\ UNCHANGED <<disk, given, plan, occupied, committed, missing, unrestored, recovery,
                     preserve>>
      /\ outcome'[i] \in {outcome[i], "defect"}
      /\ \/ pc[i] = "cleanUp" /\ pc'[i] = "done"
         \/ pc[i] # "done" /\ pc'[i] = "dead" /\ outcome'[i] = outcome[i]
  <2>1. CASE CleanUp(i)
    BY <2>1, GoesTo DEF CleanUp, At
  <2>2. CASE CleanUpDies(i)
    BY <2>2, GoesTo DEF CleanUpDies, At, Ends
  <2>3. CASE Die(i)
    BY <2>3, GoesTo DEF Die
  <2> QED
    BY <2>1, <2>2, <2>3
<1>2. PlanInv(i)' /\ CommitInv(i)' /\ FileInv(i)'
  <2>1. \A f \in Files : Displaced(i, f) => Displaced(i, f)'
    BY <1>1 DEF Displaced, File
  <2> QED
    BY <1>1, <2>1, QuietKeeps
<1>3. PhaseInv(i)' /\ TurnInv(i)'
  BY <1>1 DEF ProjectInv, PhaseInv, StepPhase, TurnInv, Early, Busy, CommitPcs
<1>4. DirsInv(i)'
  BY <1>1, DirsKept DEF ProjectInv, CommitPcs
<1>5. OutcomeInv(i)'
  BY <1>1 DEF ProjectInv, OutcomeInv, Early, Busy, CommitPcs
<1> QED
  BY <1>2, <1>3, <1>4, <1>5 DEF ProjectInv

\* An interruption that waits
LEMMA SignalStep ==
  ASSUME InitType, NEW i \in Inits, ProjectInv(i), InterruptLater(i)
  PROVE  ProjectInv(i)'
<1> USE DEF disk, ended
<1>1. /\ UNCHANGED <<disk, force, before, pc, plan, occupied, committed, missing, unrestored,
                     ended>>
      /\ signal'[i]
  <2>1. signal' = [signal EXCEPT ![i] = TRUE]
    BY DEF InterruptLater
  <2>2. signal'[i]
    BY <2>1, ZenonT(60) DEF InitType
  <2> QED
    BY <2>2 DEF InterruptLater
<1>2. PlanInv(i)' /\ CommitInv(i)' /\ FileInv(i)'
  <2>1. \A f \in Files : Displaced(i, f) => Displaced(i, f)'
    BY <1>1 DEF Displaced, File
  <2> QED
    BY <1>1, <2>1, QuietKeeps
<1>3. File(i)' = File(i) /\ Planned(i)' = Planned(i)
  BY <1>1 DEF File, Planned
<1>4. PhaseInv(i)' /\ TurnInv(i)' /\ DirsInv(i)' /\ OutcomeInv(i)'
  BY <1>1, <1>3 DEF ProjectInv, PhaseInv, StepPhase, TurnInv, DirsInv, OutcomeInv
<1> QED
  BY <1>2, <1>4 DEF ProjectInv

LEMMA UndoFailsStep ==
  ASSUME InitType, NEW i \in Inits, ProjectInv(i), UndoFails(i) \/ RolledBack(i)
  PROVE  ProjectInv(i)'
<1>1. /\ pc[i] \in {"undo", "undoRename"}
      /\ RollbackFails(i) \/ RolledBack(i)
      /\ UNCHANGED <<disk, given, plan, occupied, committed, missing, unrestored>>
  BY DEF UndoFails, RolledBack, At
<1> QED
  BY <1>1, RollbackEnds

\* A file that was there and is gone has been moved or replaced by --force.
LEMMA ForcedOnly ==
  ASSUME NEW i \in Inits, ProjectInv(i), NEW f \in Files, before.files[f] = User
  PROVE  \/ target[f] = User
         \/ force[i] /\ f # Package /\ (backup[i][f] = User \/ Complete(i))
<1>1. User # Absent
  BY ContentAssumption
<1>2. CASE IsCommitted(i, f)
  <2>1. f # Package
    BY <1>2 DEF ProjectInv, PlanInv
  <2>2. force[i] /\ (backup[i][f] = User \/ Complete(i))
    BY <1>1, <1>2 DEF ProjectInv, CommitInv, IsCommitted
  <2> QED
    BY <2>1, <2>2
<1>3. CASE ~IsCommitted(i, f)
  BY <1>1, <1>3 DEF ProjectInv, FileInv
<1> QED
  BY <1>2, <1>3

\* The tapError that would keep the staging directory has not run.
LEMMA AbandonedFacts ==
  ASSUME InitType, NEW i \in Inits, ProjectInv(i), Abandoned(i)
  PROVE  AbandonedInv(i)
<1>1. pc[i] \in {"cleanUp", "done", "dead"} /\ signal[i]
  BY DEF InitType, Pcs, ProjectInv, OutcomeInv, Abandoned
<1> QED
  BY <1>1, ForcedOnly DEF AbandonedInv

\* From there on only the release is left, and the target stays as it is.
LEMMA AbandonedStep ==
  ASSUME InitType, NEW i \in Inits, Abandoned(i), AbandonedInv(i), ProjectStepOf(i)
  PROVE  Abandoned(i)' /\ AbandonedInv(i)'
<1> USE DEF disk, given, ended, At
<1>1. pc[i] \in {"cleanUp", "done", "dead"} /\ signal[i]
  BY DEF AbandonedInv
<1>2. Unlink(i) \/ CleanUp(i) \/ CleanUpDies(i) \/ Die(i)
  <2>1. ~Commit(i) /\ ~CommitFails(i)
    BY <1>1 DEF Commit, CheckTarget, MakeDirectory, PublishNew, BackUp, Replace,
       RestoreCurrent, AllCommitted, CommitFails, CommitPcs
  <2>2. ~Rollback(i) /\ ~UndoFails(i)
    BY <1>1 DEF Rollback, UndoRemove, UndoRename, UndoDirectory, RolledBack, UndoFails
  <2>3. /\ ~Inspect(i) /\ ~Stage(i) /\ ~Interrupt(i) /\ ~InterruptLater(i)
        /\ ~CollectMissing(i) /\ ~FailsEarly(i)
    BY <1>1 DEF Inspect, Stage, Interrupt, InterruptLater, CollectMissing, FailsEarly
  <2> QED
    BY <2>1, <2>2, <2>3 DEF ProjectStepOf
<1>3. /\ UNCHANGED <<target, force, before, signal, recovery, preserve>>
      /\ pc'[i] \in {"cleanUp", "done", "dead"}
  BY <1>1, <1>2, GoesTo DEF Unlink, CleanUp, CleanUpDies, Die, Ends
<1> QED
  BY <1>3 DEF Abandoned, AbandonedInv

LEMMA ProjectStep ==
  ASSUME ProjectIInv, NEW i \in Inits, ProjectStepOf(i)
  PROVE  InitType' /\ BeforeInv' /\ InitInv(i)'
<1>1. InitType /\ BeforeInv /\ InitInv(i) /\ StepPhase(i)
  <2>1. CASE Abandoned(i)
    <3>1. pc[i] \in {"cleanUp", "done", "dead"}
      BY <2>1 DEF ProjectIInv, InitInv, AbandonedInv
    <3> QED
      BY <3>1 DEF ProjectIInv, StepPhase, Early, Busy, CommitPcs
  <2>2. CASE ~Abandoned(i)
    BY <2>2 DEF ProjectIInv, InitInv, ProjectInv, PhaseInv, StepPhase
  <2> QED
    BY <2>1, <2>2
<1>2. InitType'
  BY <1>1, ProjectTypeStep
<1>3. BeforeInv'
  <2>1. UNCHANGED before
    BY DEF ProjectStepOf, Commit, Rollback, given, Inspect, Stage, Interrupt, InterruptLater,
           CollectMissing,
           CheckTarget, MakeDirectory, PublishNew, BackUp, Replace, RestoreCurrent, AllCommitted,
           UndoRemove, UndoRename, UndoDirectory, RolledBack, Unlink, CleanUp, FailsEarly,
           CommitFails, UndoFails, CleanUpDies, Die
  <2> QED
    BY <1>1, <2>1 DEF BeforeInv, Below
<1>4. CASE Abandoned(i)
  <2>1. Abandoned(i)' /\ AbandonedInv(i)'
    BY <1>1, <1>4, AbandonedStep DEF InitInv
  <2> QED
    BY <1>2, <1>3, <2>1 DEF InitInv
<1>5. CASE ~Abandoned(i)
  <2>1. ProjectInv(i)
    BY <1>1, <1>5 DEF InitInv
  <2>2. ProjectInv(i)'
    BY <1>1, <1>5, <2>1, EarlyStep, SignalStep, TryStep, PublishStep, ReplaceStep, BackUpStep,
       RestoreStep, UndoRemoveStep, UndoRenameStep, UndoDirectoryStep, UnlinkStep, EndStep,
       UndoFailsStep DEF ProjectStepOf, Commit, Rollback
  <2>3. InitType' /\ ProjectInv(i)' /\ Abandoned(i)' => AbandonedInv(i)'
    BY AbandonedFacts, PTL
  <2> QED
    BY <1>2, <1>3, <2>2, <2>3 DEF InitInv
<1> QED
  BY <1>4, <1>5

LEMMA ProjectStart ==
  ASSUME InitStart
  PROVE  ProjectIInv
<1>1. InitType
  <2>1. "inspect" \in Pcs /\ "none" \in Outcomes /\ << >> \in Seq(Files) /\ << >> \in Seq(Commits)
    BY DEF Pcs, Early, Outcomes
  <2>2. /\ target \in [Files -> {User, Absent}] /\ dirs \in SUBSET Dirs
        /\ before = [files |-> target, dirs |-> dirs]
    BY DEF InitStart
  <2>3. before \in [files : [Files -> {User, Absent}], dirs : SUBSET Dirs]
    BY <2>2
  <2>4. target \in [Files -> Contents] /\ backup \in [Inits -> [Files -> Contents]]
    BY <2>2 DEF InitStart, Contents
  <2> QED
    BY <2>1, <2>3, <2>4 DEF InitStart, InitType
<1>2. BeforeInv
  BY DEF InitStart, BeforeInv
<1>3. ASSUME NEW i \in Inits PROVE InitInv(i)
  <2>1. /\ pc[i] = "inspect" /\ plan[i] = << >> /\ committed[i] = << >> /\ missing[i] = {}
        /\ unrestored[i] = NoFile /\ outcome[i] = "none" /\ recovery[i] = {}
        /\ before.files = target /\ before.dirs = dirs
        /\ \A f \in Files : backup[i][f] = Absent
    BY <1>3 DEF InitStart
  <2>2. Planned(i) = {} /\ IsInjective(plan[i]) /\ \A f : ~IsCommitted(i, f)
    BY <2>1 DEF Planned, IsCommitted, ToSet, IsInjective
  <2>3. PlanInv(i) /\ CommitInv(i) /\ FileInv(i)
    BY <2>1, <2>2 DEF PlanInv, CommitInv, FileInv
  <2>4. PhaseInv(i) /\ TurnInv(i) /\ DirsInv(i) /\ OutcomeInv(i)
    BY <2>1 DEF PhaseInv, StepPhase, TurnInv, DirsInv, OutcomeInv, Early, Busy, CommitPcs
  <2> QED
    BY <2>1, <2>3, <2>4 DEF ProjectInv, InitInv, Abandoned
<1> QED
  BY <1>1, <1>2, <1>3 DEF ProjectIInv

LEMMA ProjectStutter ==
  ASSUME ProjectIInv, UNCHANGED initVars
  PROVE  ProjectIInv'
<1> USE DEF initVars
<1>1. InitType' /\ BeforeInv'
  BY DEF ProjectIInv, InitType, BeforeInv, Below
<1>2. ASSUME NEW i \in Inits, Abandoned(i) PROVE InitInv(i)'
  BY <1>2 DEF ProjectIInv, InitInv, Abandoned, AbandonedInv
<1>3. ASSUME NEW i \in Inits, ~Abandoned(i) PROVE InitInv(i)'
  <2>1. ProjectInv(i)
    BY <1>3 DEF ProjectIInv, InitInv
  <2>2. /\ Planned(i)' = Planned(i) /\ Complete(i)' = Complete(i) /\ File(i)' = File(i)
        /\ \A f : (IsCommitted(i, f)' <=> IsCommitted(i, f))
                    /\ (Displaced(i, f)' <=> Displaced(i, f))
    BY DEF Planned, Complete, File, IsCommitted, Displaced
  <2>3. PlanInv(i)' /\ CommitInv(i)' /\ FileInv(i)'
    BY <2>1, <2>2 DEF ProjectInv, PlanInv, CommitInv, FileInv
  <2>4. PhaseInv(i)' /\ TurnInv(i)' /\ DirsInv(i)' /\ OutcomeInv(i)'
    BY <2>1, <2>2 DEF ProjectInv, PhaseInv, StepPhase, TurnInv, DirsInv, OutcomeInv
  <2> QED
    BY <1>3, <2>3, <2>4 DEF ProjectInv, InitInv, Abandoned
<1> QED
  BY <1>1, <1>2, <1>3 DEF ProjectIInv

-----------------------------------------------------------------------------
(* What init promises                                                      *)

LEMMA ProjectPromises ==
  ASSUME ProjectIInv, Inits # {}
  PROVE  OriginalsSurvive /\ FailureRestores
<1>1. ASSUME NEW i \in Inits, NEW f \in Files, before.files[f] = User
      PROVE  \/ target[f] = User
             \/ /\ force[i] /\ f # Package
                /\ backup[i][f] = User \/ Complete(i) \/ Abandoned(i)
  BY <1>1, ForcedOnly DEF ProjectIInv, InitInv, AbandonedInv
<1>2. ASSUME NEW i \in Inits, At(i, "done"), ~Abandoned(i)
      PROVE  /\ Reported(i) = "failed" => target = before.files /\ dirs = before.dirs
             /\ Reported(i) = "interrupted" =>
                  \/ target = before.files /\ dirs = before.dirs
                  \/ Complete(i) \/ recovery[i] # {}
  <2>1. InitType /\ ProjectInv(i) /\ pc[i] = "done"
    BY <1>2 DEF ProjectIInv, InitInv, At
  <2>2. CASE committed[i] = << >> /\ unrestored[i] = NoFile /\ missing[i] = {}
    <3>1. target = before.files
      BY <2>1, <2>2, AllInPlace
    <3>2. dirs = before.dirs
      BY <2>1, <2>2 DEF ProjectInv, DirsInv
    <3>3. outcome[i] = "rollbackFailed" => recovery[i] # {}
      <4>1. plan[i] # << >> => Files # {}
        BY <2>1, FileType
      <4> QED
        BY <2>1, <4>1 DEF ProjectInv, OutcomeInv
    <3> QED
      BY <3>1, <3>2, <3>3
  <2>3. CASE outcome[i] = "ok"
    <3>1. plan[i] = << >> /\ unrestored[i] = NoFile
      BY <2>1, <2>3 DEF ProjectInv, OutcomeInv
    <3>2. committed[i] = << >> => missing[i] = {}
      BY <2>1, <3>1 DEF ProjectInv, PhaseInv, StepPhase
    <3>3. committed[i] # << >> => Complete(i)
      BY <3>1 DEF Complete
    <3>4. Reported(i) # "failed"
      BY <2>3 DEF Reported
    <3> QED
      BY <2>2, <3>1, <3>2, <3>3, <3>4
  <2>4. CASE outcome[i] = "rollbackFailed"
    <3>1. plan[i] # << >> => Files # {}
      BY <2>1, FileType
    <3>2. recovery[i] # {} /\ Reported(i) # "failed"
      BY <2>1, <2>4, <3>1 DEF ProjectInv, OutcomeInv, Reported
    <3> QED
      BY <3>2
  <2>5. CASE outcome[i] = "defect"
    BY <2>5 DEF Reported
  <2>6. CASE outcome[i] \in {"failed", "interrupted"}
    BY <2>1, <2>2, <2>6 DEF ProjectInv, OutcomeInv
  <2>7. outcome[i] \in Outcomes \ {"none"}
    BY <2>1 DEF InitType, ProjectInv, OutcomeInv
  <2> QED
    BY <2>3, <2>4, <2>5, <2>6, <2>7 DEF Outcomes
<1>3. ASSUME NEW i \in Inits, Abandoned(i)
      PROVE  Reported(i) \in {"interrupted", "defect"} /\ recovery[i] # {}
  BY <1>3 DEF ProjectIInv, InitInv, AbandonedInv, Abandoned, Reported
<1>4. ASSUME NEW i \in Inits, Reported(i) = "rollbackFailed",
             NEW f \in Files, before.files[f] = User, target[f] # User
      PROVE  f \in recovery[i] /\ backup[i][f] = User
  <2>1. outcome[i] = "rollbackFailed" /\ ~Abandoned(i)
    BY <1>3, <1>4 DEF Reported
  <2>2. /\ ProjectInv(i) /\ plan[i] # << >> /\ ~Complete(i)
        /\ recovery[i] = Files \/ (committed[i] = << >> /\ recovery[i] = {unrestored[i]})
        /\ User # Absent
    BY <2>1, ContentAssumption DEF ProjectIInv, InitInv, ProjectInv, OutcomeInv, Complete
  <2>3. CASE IsCommitted(i, f)
    <3>1. recovery[i] = Files
      BY <2>2, <2>3 DEF IsCommitted
    <3>2. backup[i][f] = User
      BY <1>4, <2>2, <2>3 DEF ProjectInv, CommitInv, IsCommitted
    <3> QED
      BY <3>1, <3>2
  <2>4. CASE ~IsCommitted(i, f)
    <3>1. backup[i][f] = User /\ Displaced(i, f)
      BY <1>4, <2>2, <2>4 DEF ProjectInv, FileInv
    <3>2. unrestored[i] = f
      BY <2>1, <3>1 DEF Displaced
    <3> QED
      BY <2>2, <3>1, <3>2
  <2> QED
    BY <2>3, <2>4
<1>5. OriginalsSurvive
  BY <1>1 DEF OriginalsSurvive
<1>6. FailureRestores
  BY <1>2, <1>3, <1>4 DEF FailureRestores
<1> QED
  BY <1>5, <1>6

LEMMA ProjectInvariance ==
  ASSUME NEW one, Inits = {one}
  PROVE  Spec => []ProjectIInv
<1>1. Init => ProjectIInv
  BY ProjectStart DEF Init
<1>2. ProjectIInv /\ [Next]_vars => ProjectIInv'
  <2> SUFFICES ASSUME ProjectIInv, [Next]_vars PROVE ProjectIInv'
    OBVIOUS
  <2>1. CASE InitNext
    <3>1. ProjectStepOf(one)
      BY <2>1 DEF InitNext, ProjectStepOf
    <3>2. InitType' /\ BeforeInv' /\ InitInv(one)'
      BY <3>1, ProjectStep
    <3> QED
      BY <3>2 DEF ProjectIInv
  <2>2. CASE UNCHANGED initVars
    BY <2>2, ProjectStutter
  <2> QED
    BY <2>1, <2>2 DEF Next, InitCommand, AddPluginCommand, GenerateCommand, vars
<1> QED
  BY <1>1, <1>2, PTL DEF Spec

\* An original file of the target is never lost, whatever fails, whenever the
\* fiber is interrupted and wherever the process dies, if no other init works on
\* it; only an interruption that waits for a failed rollback may cost one
\* (commitFile, rollbackFiles, executePlan).
THEOREM OriginalsSurviveAlways ==
  ASSUME NEW one, Inits = {one}
  PROVE  Spec => []OriginalsSurvive
<1>1. ProjectIInv => OriginalsSurvive
  BY ProjectPromises
<1>2. Spec => []ProjectIInv
  BY ProjectInvariance
<1> QED
  BY <1>1, <1>2, PTL

\* An init that reports an ordinary failure has restored the target, files and
\* directories; one that reports a failed rollback names and keeps every original
\* it still holds; an interrupted one has published everything or restored
\* everything, unless its rollback failed (publishProject, rollbackFiles).
THEOREM FailureRestoresAlways ==
  ASSUME NEW one, Inits = {one}
  PROVE  Spec => []FailureRestores
<1>1. ProjectIInv => FailureRestores
  BY ProjectPromises
<1>2. Spec => []ProjectIInv
  BY ProjectInvariance
<1> QED
  BY <1>1, <1>2, PTL

-----------------------------------------------------------------------------
(* Any number of inits, none of them forced                                *)

Unforced == \A i \in Inits : ~force[i]
Inhabited == \E f \in Files : before.files[f] = User
KeptOut ==
  Unforced /\ Inhabited =>
    target = before.files /\ pc \in [Inits -> {"inspect", "done", "dead"}]

LEMMA KeptOutStep ==
  ASSUME KeptOut, InitNext
  PROVE  KeptOut'
<1> USE DEF At, Goto, disk, given
<1>1. PICK i \in Inits :
        \/ Inspect(i) \/ Stage(i) \/ Interrupt(i) \/ InterruptLater(i)
        \/ CollectMissing(i) \/ Commit(i) \/ Rollback(i) \/ Unlink(i) \/ CleanUp(i)
        \/ FailsEarly(i) \/ CommitFails(i) \/ UndoFails(i) \/ CleanUpDies(i)
        \/ Die(i)
  BY DEF InitNext
<1>2. force' = force /\ before' = before
  <2>1. CASE Inspect(i) \/ Stage(i) \/ Interrupt(i) \/ InterruptLater(i) \/ CollectMissing(i)
    BY <2>1 DEF Inspect, Stage, Interrupt, InterruptLater, CollectMissing
  <2>2. CASE Commit(i)
    BY <2>2 DEF Commit, CheckTarget, MakeDirectory, PublishNew, BackUp, Replace,
       RestoreCurrent, AllCommitted, Committed
  <2>3. CASE Rollback(i)
    BY <2>3 DEF Rollback, UndoRemove, UndoRename, UndoDirectory, RolledBack, RollbackFails
  <2>4. CASE FailsEarly(i) \/ CommitFails(i) \/ UndoFails(i)
    BY <2>4 DEF FailsEarly, CommitFails, UndoFails, RollbackFails
  <2>5. CASE Unlink(i) \/ CleanUp(i) \/ CleanUpDies(i) \/ Die(i)
    BY <2>5 DEF Unlink, CleanUp, CleanUpDies, Die
  <2> QED
    BY <1>1, <2>1, <2>2, <2>3, <2>4, <2>5
<1>3. ASSUME Unforced, Inhabited
      PROVE  target' = target /\ pc' \in [Inits -> {"inspect", "done", "dead"}]
  <2>1. pc[i] \in {"inspect", "done", "dead"} /\ ~force[i]
    BY <1>3 DEF KeptOut, Unforced
  <2>2. HasEntries(Root)
    BY <1>3, DirAssumption, ContentAssumption DEF KeptOut, Inhabited, HasEntries
  <2>3. Inspect(i) \/ Interrupt(i) \/ FailsEarly(i) \/ Die(i)
    <3>1. ~Commit(i)
      BY <2>1 DEF Commit, CheckTarget, MakeDirectory, PublishNew, BackUp, Replace,
         RestoreCurrent, AllCommitted
    <3>2. /\ ~Rollback(i) /\ ~Unlink(i) /\ ~CleanUp(i) /\ ~CommitFails(i) /\ ~UndoFails(i)
          /\ ~CleanUpDies(i)
      BY <2>1 DEF Rollback, UndoRemove, UndoRename, UndoDirectory, RolledBack, Unlink, CleanUp,
         CommitFails, CommitPcs, UndoFails, CleanUpDies
    <3>3. ~Stage(i) /\ ~InterruptLater(i) /\ ~CollectMissing(i)
      BY <2>1 DEF Stage, InterruptLater, CollectMissing
    <3> QED
      BY <1>1, <3>1, <3>2, <3>3
  <2>4. target' = target /\ \E to \in {"done", "dead"} : pc' = [pc EXCEPT ![i] = to]
    BY <2>1, <2>2, <2>3 DEF Inspect, Interrupt, FailsEarly, Die
  <2> QED
    BY <1>3, <2>4 DEF KeptOut
<1> QED
  BY <1>2, <1>3 DEF KeptOut, Unforced, Inhabited

\* However many inits work on one target and fail or die, they never lose a file
\* of the user's as long as none of them was given --force: what is there keeps
\* them all out (inspectTarget).
THEOREM UnforcedOriginalsSurviveAlways ==
  Spec => []((\A i \in Inits : ~force[i]) => OriginalsSurvive)
<1>1. Init => KeptOut
  <2> SUFFICES ASSUME InitStart PROVE KeptOut
    BY DEF Init
  <2>1. before = [files |-> target, dirs |-> dirs] /\ pc = [i \in Inits |-> "inspect"]
    BY DEF InitStart
  <2> QED
    BY <2>1 DEF KeptOut
<1>2. KeptOut /\ [Next]_vars => KeptOut'
  <2> SUFFICES ASSUME KeptOut, [Next]_vars PROVE KeptOut'
    OBVIOUS
  <2>1. CASE InitCommand
    BY <2>1, KeptOutStep DEF InitCommand
  <2>2. CASE UNCHANGED initVars
    BY <2>2 DEF initVars, KeptOut, Unforced, Inhabited
  <2> QED
    BY <2>1, <2>2 DEF Next, AddPluginCommand, GenerateCommand, vars
<1>3. KeptOut => ((\A i \in Inits : ~force[i]) => OriginalsSurvive)
  BY DEF KeptOut, Unforced, Inhabited, OriginalsSurvive
<1> QED
  BY <1>1, <1>2, <1>3, PTL DEF Spec
-----------------------------------------------------------------------------
(* The clean target: paths                                                 *)

Numbered == {pair \in Nat \X Nat : pair[1] < pair[2]}

LEMMA OneBefore ==
  ASSUME NEW N \in Nat, NEW m \in 0 .. N, m # 0
  PROVE  m - 1 \in 0 .. N /\ m - 1 < N /\ m - 1 + 1 = m /\ m - 1 < m
OBVIOUS

\* What holds at 0 and goes on from a number to the next holds as far as it goes on.
LEMMA UpTo ==
  ASSUME NEW N \in Nat, NEW T, 0 \in T, \A n \in T : n \in Nat /\ n < N => n + 1 \in T
  PROVE  \A n \in 0 .. N : n \in T
<1> DEFINE Outside == {n \in 0 .. N : n \notin T}
<1> SUFFICES ASSUME Outside # {} PROVE FALSE
  OBVIOUS
<1>1. Outside \in SUBSET Nat
  OBVIOUS
<1>2. PICK m \in Outside : \A k \in Outside : ~(k < m)
  <2>1. IsWellFoundedOn(Numbered, Nat)
    BY NatLessThanWellFounded DEF OpToRel, Numbered
  <2>2. PICK m \in Outside : \A k \in Outside : <<k, m>> \notin Numbered
    BY <1>1, <2>1, WFMin
  <2> QED
    BY <1>1, <2>2 DEF Numbered
<1>3. m \in 0 .. N /\ m # 0
  BY <1>2
<1>4. PICK k \in 0 .. N : k < N /\ k + 1 = m /\ k < m
  BY <1>3, OneBefore
<1>5. k \in T
  BY <1>2, <1>4
<1>6. k \in Nat /\ k < N
  BY <1>4
<1>7. k + 1 \in T
  BY <1>5, <1>6
<1> QED
  BY <1>2, <1>4, <1>7

LEMMA Shortened ==
  ASSUME NEW p \in Seq(Names), NEW n \in 0 .. Len(p)
  PROVE  /\ SubSeq(p, 1, n) \in Seq(Names) /\ Len(SubSeq(p, 1, n)) = n
         /\ \A i \in 1 .. n : SubSeq(p, 1, n)[i] = p[i]
OBVIOUS

\* A path is empty or one name longer than another.
LEMMA PathCases ==
  ASSUME NEW p \in Seq(Names), p # << >>
  PROVE  /\ Front(p) \in Seq(Names) /\ Last(p) \in Names /\ p = Append(Front(p), Last(p))
         /\ Len(Front(p)) = Len(p) - 1
<1>1. Len(p) \in Nat /\ Len(p) # 0
  <2>1. Len(p) \in Nat \ {0}
    BY EmptySeq
  <2> QED
    BY <2>1
<1>2. Front(p) \in Seq(Names) /\ Len(Front(p)) = Len(p) - 1
        /\ \A i \in 1 .. Len(p) - 1 : Front(p)[i] = p[i]
  <2>1. Len(p) - 1 \in 0 .. Len(p)
    BY <1>1
  <2> QED
    BY <2>1, Shortened DEF Front
<1>3. Last(p) \in Names
  BY <1>1 DEF Last
<1>4. p = Append(Front(p), Last(p))
  <2> DEFINE r == Append(Front(p), Last(p))
  <2>1. /\ r \in Seq(Names) /\ Len(r) = Len(Front(p)) + 1
        /\ r[Len(Front(p)) + 1] = Last(p)
        /\ \A i \in 1 .. Len(Front(p)) : r[i] = Front(p)[i]
    BY <1>2, <1>3, AppendProperties
  <2>2. \A i \in 1 .. Len(p) : r[i] = p[i]
    <3> HIDE DEF r
    <3> QED
      BY <1>1, <1>2, <2>1 DEF Last
  <2>3. Len(r) = Len(p)
    BY <1>1, <1>2, <2>1
  <2> HIDE DEF r
  <2>4. p = r
    BY <2>1, <2>2, <2>3, SeqEqual
  <2> QED
    BY <2>4 DEF r
<1> QED
  BY <1>2, <1>3, <1>4

LEMMA PathEnds ==
  ASSUME NEW p \in Seq(Names), NEW x \in Names
  PROVE  /\ Append(p, x) \in Seq(Names) /\ Append(p, x) # << >>
         /\ Len(Append(p, x)) = Len(p) + 1
         /\ Front(Append(p, x)) = p /\ Last(Append(p, x)) = x
<1>1. Append(p, x) \in Seq(Names) /\ Len(Append(p, x)) = Len(p) + 1
        /\ Append(p, x)[Len(p) + 1] = x /\ Len(p) \in Nat
        /\ \A i \in 1 .. Len(p) : Append(p, x)[i] = p[i]
  OBVIOUS
<1>2. Front(Append(p, x)) = p
  <2> DEFINE r == SubSeq(Append(p, x), 1, Len(p))
  <2>1. r \in Seq(Names) /\ Len(r) = Len(p) /\ \A i \in 1 .. Len(p) : r[i] = p[i]
    BY <1>1
  <2>2. r = p
    <3> HIDE DEF r
    <3> QED
      BY <2>1, SeqEqual
  <2> QED
    BY <1>1, <2>2 DEF Front
<1> QED
  BY <1>1, <1>2, EmptySeq DEF Last

\* What holds of the root and goes on from a path to the next name holds of every path.
LEMMA PathInduction ==
  ASSUME NEW T, << >> \in T,
         \A p \in Seq(Names) : p \in T => \A x \in Names : Append(p, x) \in T
  PROVE  \A p \in Seq(Names) : p \in T
<1> TAKE p \in Seq(Names)
<1> DEFINE S == {n \in Nat : \A q \in Seq(Names) : Len(q) = n => q \in T}
<1>1. 0 \in S
  BY EmptySeq
<1>2. \A n \in S : n \in Nat /\ n < Len(p) => n + 1 \in S
  <2> SUFFICES ASSUME NEW n \in S, NEW q \in Seq(Names), Len(q) = n + 1 PROVE q \in T
    OBVIOUS
  <2>1. q # << >> /\ n \in Nat
    BY EmptySeq
  <2>2. Front(q) \in T
    BY <2>1, PathCases
  <2> QED
    BY <2>1, <2>2, PathCases
<1>3. Len(p) \in Nat
  OBVIOUS
<1>4. \A n \in 0 .. Len(p) : n \in S
  <2> HIDE DEF S
  <2> QED
    BY <1>1, <1>2, <1>3, UpTo
<1> QED
  BY <1>3, <1>4

LEMMA AncestorsOf ==
  ASSUME NEW p \in Seq(Names)
  PROVE  /\ p \in Ancestors(p) /\ << >> \in Ancestors(p)
         /\ Ancestors(p) \subseteq Seq(Names)
         /\ Ancestors(<< >>) = {<< >>}
<1>1. Len(p) \in Nat /\ SubSeq(p, 1, Len(p)) = p /\ SubSeq(p, 1, 0) = << >>
  BY SubSeqFull
<1>2. 0 \in 0 .. Len(p) /\ Len(p) \in 0 .. Len(p)
  BY <1>1
<1>3. \A n \in 0 .. Len(p) : SubSeq(p, 1, n) \in Seq(Names)
  BY Shortened
<1>4. Ancestors(<< >>) = {<< >>}
  <2>1. Len(<< >>) = 0 /\ 0 .. 0 = {0} /\ SubSeq(<< >>, 1, 0) = << >>
    OBVIOUS
  <2> QED
    BY <2>1 DEF Ancestors
<1>5. \A n \in 0 .. Len(p) : SubSeq(p, 1, n) \in Ancestors(p)
  BY DEF Ancestors
<1>6. p \in Ancestors(p)
  BY <1>1, <1>2, <1>5
<1>7. << >> \in Ancestors(p)
  BY <1>1, <1>2, <1>5
<1> QED
  BY <1>3, <1>4, <1>6, <1>7 DEF Ancestors

LEMMA LongerAncestors ==
  ASSUME NEW p \in Seq(Names), NEW x \in Names
  PROVE  Ancestors(Append(p, x)) = Ancestors(p) \cup {Append(p, x)}
<1> DEFINE r == Append(p, x)
<1>1. r \in Seq(Names) /\ Len(r) = Len(p) + 1 /\ Len(p) \in Nat
  BY PathEnds
<1>2. 0 .. Len(r) = (0 .. Len(p)) \cup {Len(r)}
  BY <1>1
<1>3. SubSeq(r, 1, Len(r)) = r
  BY <1>1, SubSeqFull
<1>4. ASSUME NEW n \in 0 .. Len(p)
      PROVE  SubSeq(r, 1, n) = SubSeq(p, 1, n)
  <2>1. n \in 0 .. Len(r)
    BY <1>1
  <2>2. \A i \in 1 .. n : r[i] = p[i]
    BY <1>1
  <2>3. /\ SubSeq(r, 1, n) \in Seq(Names) /\ Len(SubSeq(r, 1, n)) = n
        /\ \A i \in 1 .. n : SubSeq(r, 1, n)[i] = r[i]
    BY <1>1, <2>1, Shortened
  <2>4. /\ SubSeq(p, 1, n) \in Seq(Names) /\ Len(SubSeq(p, 1, n)) = n
        /\ \A i \in 1 .. n : SubSeq(p, 1, n)[i] = p[i]
    BY Shortened
  <2> HIDE DEF r
  <2>5. \A i \in 1 .. n : SubSeq(r, 1, n)[i] = SubSeq(p, 1, n)[i]
    BY <2>2, <2>3, <2>4
  <2> QED
    BY <2>3, <2>4, <2>5, SeqEqual
<1> HIDE DEF r
<1>5. Ancestors(r) = {SubSeq(r, 1, n) : n \in 0 .. Len(p)} \cup {r}
  BY <1>2, <1>3 DEF Ancestors
<1>6. {SubSeq(r, 1, n) : n \in 0 .. Len(p)} = Ancestors(p)
  BY <1>4 DEF Ancestors
<1> QED
  BY <1>5, <1>6 DEF r

LEMMA AncestorsNest ==
  ASSUME NEW p \in Seq(Names)
  PROVE  \A q \in Ancestors(p) : Ancestors(q) \subseteq Ancestors(p)
<1> DEFINE T == {r \in Seq(Names) : \A q \in Ancestors(r) : Ancestors(q) \subseteq Ancestors(r)}
<1>1. << >> \in T
  BY AncestorsOf, EmptySeq
<1>2. ASSUME NEW r \in Seq(Names), r \in T, NEW x \in Names
      PROVE  Append(r, x) \in T
  <2>1. Ancestors(Append(r, x)) = Ancestors(r) \cup {Append(r, x)}
    BY LongerAncestors
  <2>2. Append(r, x) \in Seq(Names)
    BY PathEnds
  <2>3. \A q \in Ancestors(r) : Ancestors(q) \subseteq Ancestors(r)
    BY <1>2
  <2>4. \A q \in Ancestors(Append(r, x)) : Ancestors(q) \subseteq Ancestors(Append(r, x))
    BY <2>1, <2>3
  <2> QED
    BY <2>2, <2>4
<1>3. \A r \in Seq(Names) : r \in T
  <2> HIDE DEF T
  <2> QED
    BY <1>1, <1>2, PathInduction
<1> QED
  BY <1>3

LEMMA PrefixIsAncestor ==
  ASSUME NEW p \in Seq(Names), NEW q \in Seq(Names)
  PROVE  IsPrefix(q, p) <=> q \in Ancestors(p)
<1>1. SubSeq(q, 1, Len(q)) = q /\ Len(q) \in Nat /\ Len(p) \in Nat
  BY SubSeqFull
<1>2. ASSUME IsPrefix(q, p) PROVE q \in Ancestors(p)
  <2>1. Len(q) \in 0 .. Len(p) /\ SubSeq(p, 1, Len(q)) = q
    BY <1>1, <1>2 DEF IsPrefix
  <2> QED
    BY <2>1 DEF Ancestors
<1>3. ASSUME q \in Ancestors(p) PROVE IsPrefix(q, p)
  <2>1. PICK n \in 0 .. Len(p) : q = SubSeq(p, 1, n)
    BY <1>3 DEF Ancestors
  <2>2. Len(q) = n
    BY <2>1, Shortened
  <2> QED
    BY <1>1, <2>1, <2>2 DEF IsPrefix
<1> QED
  BY <1>2, <1>3

LEMMA NowhereIsNoPath ==
  Nowhere \notin Seq(Names) /\ \A x : Append(Nowhere, x) \notin Seq(Names)
<1>1. "nowhere" \notin Names
  BY FileSystemsAssumption
<1>2. ASSUME Nowhere \in Seq(Names) PROVE FALSE
  <2>1. Len(Nowhere) = 1 /\ Nowhere[1] = "nowhere"
    BY DEF Nowhere
  <2>2. 1 \in 1 .. Len(Nowhere)
    BY <2>1
  <2>3. Nowhere[1] \in Names
    BY <1>2, <2>2, ElementOfSeq
  <2> QED
    BY <1>1, <2>1, <2>3
<1>3. ASSUME NEW x, Append(Nowhere, x) \in Seq(Names) PROVE FALSE
  <2>1. Len(Append(Nowhere, x)) = 2 /\ Append(Nowhere, x)[1] = "nowhere"
    BY DEF Nowhere
  <2>2. 1 \in 1 .. Len(Append(Nowhere, x))
    BY <2>1
  <2>3. Append(Nowhere, x)[1] \in Names
    BY <1>3, <2>2, ElementOfSeq
  <2> QED
    BY <1>1, <2>1, <2>3
<1> QED
  BY <1>2, <1>3

-----------------------------------------------------------------------------
(* The clean target: where a path leads                                    *)

\* Where a path may lead: to an entry that is no link, or nowhere
Landings(t) == {p \in DOMAIN t : t[p].kind # "link"} \cup {Nowhere}

\* A chain of steps
HasChain(N, V, start, step) ==
  \E f \in [0 .. N -> V] :
    f[0] = start /\ \A n \in 1 .. N : f[n] = step[n][f[n - 1]]

LEMMA ChainExists ==
  ASSUME NEW N \in Nat, NEW V, NEW start \in V, NEW step \in [1 .. N -> [V -> V]]
  PROVE  HasChain(N, V, start, step)
<1> DEFINE Chained(f, m) ==
             f \in [0 .. m -> V] /\ f[0] = start /\ \A n \in 1 .. m : f[n] = step[n][f[n - 1]]
           Reached == {m \in 0 .. N : \E f : Chained(f, m)}
<1>1. 0 \in Reached
  <2>1. Chained([n \in 0 .. 0 |-> start], 0)
    OBVIOUS
  <2> HIDE DEF Chained
  <2>2. \E f : Chained(f, 0)
    BY <2>1
  <2> QED
    BY <2>2
<1>2. \A m \in Reached : m \in Nat /\ m < N => m + 1 \in Reached
  <2> TAKE m \in Reached
  <2> SUFFICES ASSUME m \in Nat, m < N PROVE \E f : Chained(f, m + 1)
    <3> HIDE DEF Chained
    <3> QED
      OBVIOUS
  <2>1. PICK f : Chained(f, m)
    OBVIOUS
  <2> DEFINE g == [n \in 0 .. m + 1 |-> IF n <= m THEN f[n] ELSE step[n][f[n - 1]]]
  <2>2. m + 1 \in 1 .. N /\ m \in 0 .. m /\ m + 1 - 1 = m /\ ~(m + 1 <= m)
    OBVIOUS
  <2>3. \A n \in 0 .. m : n \in 0 .. m + 1 /\ n <= m
    OBVIOUS
  <2>4. \A n \in 0 .. m : g[n] = f[n]
    BY <2>3
  <2>5. g[m + 1] = step[m + 1][f[m]]
    BY <2>2
  <2>6. f[m] \in V /\ step[m + 1][f[m]] \in V
    BY <2>1, <2>2
  <2>7. \A n \in 0 .. m + 1 : n \in 0 .. m \/ n = m + 1
    OBVIOUS
  <2>8. g \in [0 .. m + 1 -> V]
    <3>1. \A n \in 0 .. m + 1 : g[n] \in V
      BY <2>1, <2>4, <2>5, <2>6, <2>7
    <3> QED
      BY <3>1
  <2>9. \A n \in 1 .. m + 1 : g[n] = step[n][g[n - 1]]
    <3> TAKE n \in 1 .. m + 1
    <3>1. CASE n = m + 1
      <4>1. n - 1 = m
        BY <3>1, <2>2
      <4>2. g[n] = step[n][f[n - 1]] /\ g[n - 1] = f[n - 1]
        BY <2>2, <2>4, <2>5, <3>1, <4>1
      <4> QED
        BY <4>2
    <3>2. CASE n # m + 1
      <4>1. n \in 1 .. m /\ n \in 0 .. m /\ n - 1 \in 0 .. m
        BY <3>2
      <4> QED
        BY <2>1, <2>4, <4>1
    <3> QED
      BY <3>1, <3>2
  <2>10. 0 \in 0 .. m
    OBVIOUS
  <2>11. g[0] = start
    BY <2>1, <2>4, <2>10
  <2>12. Chained(g, m + 1)
    <3> HIDE DEF g
    <3> QED
      BY <2>8, <2>9, <2>11
  <2> QED
    <3> HIDE DEF Chained, g
    <3> QED
      BY <2>12
<1>3. \A m \in 0 .. N : m \in Reached
  <2> HIDE DEF Reached
  <2> QED
    BY <1>1, <1>2, UpTo
<1>4. \E f : Chained(f, N)
  <2> HIDE DEF Chained
  <2>1. N \in 0 .. N
    OBVIOUS
  <2> QED
    BY <1>3, <2>1
<1> QED
  BY <1>4 DEF HasChain

LEMMA OnwardLands ==
  ASSUME NEW t, FileSystem(t), NEW follow \in [Seq(Names) -> Landings(t)],
         NEW here \in Landings(t), NEW x
  PROVE  Onward(t, here, x, follow) \in Landings(t)
<1>1. \A p \in DOMAIN t : t[p].to \in Seq(Names)
  BY DEF FileSystem
<1>2. \A p \in Seq(Names) : follow[p] \in Landings(t)
  OBVIOUS
<1>3. Nowhere \in Landings(t)
  BY DEF Landings
<1> QED
  BY <1>1, <1>2, <1>3 DEF Onward, Landings

\* The walk along a path is the chain of its names.
HasRun(t, path, follow) ==
  \E run \in [0 .. Len(path) -> Landings(t)] :
    /\ run[0] = << >> /\ Along(t, path, follow) = run[Len(path)]
    /\ \A n \in 1 .. Len(path) : run[n] = Onward(t, run[n - 1], path[n], follow)

LEMMA AlongRuns ==
  ASSUME NEW t, FileSystem(t), NEW follow \in [Seq(Names) -> Landings(t)],
         NEW path \in Seq(Names)
  PROVE  HasRun(t, path, follow)
<1> DEFINE N == Len(path)
           Run(f) == f = [n \in 0 .. N |-> IF n = 0 THEN << >>
                                           ELSE Onward(t, f[n - 1], path[n], follow)]
           K == CHOOSE f : Run(f)
           step == [n \in 1 .. N |->
                      [here \in Landings(t) |-> Onward(t, here, path[n], follow)]]
<1>1. N \in Nat
  OBVIOUS
<1>2. << >> \in Landings(t)
  BY DEF FileSystem, Landings
<1>3. step \in [1 .. N -> [Landings(t) -> Landings(t)]]
  <2>1. \A n \in 1 .. N : \A here \in Landings(t) :
          Onward(t, here, path[n], follow) \in Landings(t)
    BY OnwardLands
  <2> QED
    BY <2>1
<1>4. PICK f \in [0 .. N -> Landings(t)] :
        f[0] = << >> /\ \A n \in 1 .. N : f[n] = step[n][f[n - 1]]
  <2> HIDE DEF N, step
  <2>1. HasChain(N, Landings(t), << >>, step)
    BY <1>1, <1>2, <1>3, ChainExists
  <2> QED
    BY <2>1 DEF HasChain
<1>5. \A n \in 1 .. N : f[n] = Onward(t, f[n - 1], path[n], follow)
  <2> TAKE n \in 1 .. N
  <2>1. n - 1 \in 0 .. N
    BY <1>1
  <2>2. f[n - 1] \in Landings(t)
    BY <2>1
  <2>3. step[n][f[n - 1]] = Onward(t, f[n - 1], path[n], follow)
    BY <2>2
  <2> QED
    BY <1>4, <2>3
<1>6. Run(f)
  <2>1. \A n \in 0 .. N : f[n] = IF n = 0 THEN << >>
                                 ELSE Onward(t, f[n - 1], path[n], follow)
    <3> TAKE n \in 0 .. N
    <3>1. n = 0 \/ n \in 1 .. N
      BY <1>1
    <3> QED
      BY <1>4, <1>5, <3>1
  <2> QED
    BY <2>1
<1>7. Run(K)
  <2> HIDE DEF Run
  <2> QED
    BY <1>6
<1>8. Along(t, path, follow) = K[N]
  BY DEF Along
<1> HIDE DEF K
<1>9. K[0] = << >> /\ \A n \in 1 .. N : K[n] = Onward(t, K[n - 1], path[n], follow)
  <2>1. \A n \in 0 .. N : K[n] = IF n = 0 THEN << >>
                                 ELSE Onward(t, K[n - 1], path[n], follow)
    BY <1>7
  <2>2. 0 \in 0 .. N
    BY <1>1
  <2>3. \A n \in 1 .. N : n \in 0 .. N /\ n # 0
    OBVIOUS
  <2> QED
    BY <2>1, <2>2, <2>3
<1>10. K \in [0 .. N -> Landings(t)]
  <2> DEFINE T == {n \in 0 .. N : K[n] \in Landings(t)}
  <2>1. 0 \in T
    BY <1>1, <1>2, <1>9
  <2>2. \A n \in T : n \in Nat /\ n < N => n + 1 \in T
    <3> TAKE n \in T
    <3> HAVE n \in Nat /\ n < N
    <3>1. n + 1 \in 1 .. N /\ n + 1 - 1 = n /\ n + 1 \in 0 .. N
      BY <1>1
    <3>2. K[n + 1] = Onward(t, K[n], path[n + 1], follow)
      BY <1>9, <3>1
    <3>3. K[n + 1] \in Landings(t)
      BY <3>2, OnwardLands
    <3> QED
      BY <3>1, <3>3
  <2>3. \A n \in 0 .. N : n \in T
    <3> HIDE DEF T
    <3> QED
      BY <1>1, <2>1, <2>2, UpTo
  <2>4. DOMAIN K = 0 .. N /\ K = [n \in 0 .. N |-> K[n]]
    BY <1>7
  <2> QED
    BY <2>3, <2>4
<1> QED
  BY <1>8, <1>9, <1>10 DEF HasRun

\* One name more is one step more.
LEMMA AlongFacts ==
  ASSUME NEW t, FileSystem(t), NEW follow \in [Seq(Names) -> Landings(t)]
  PROVE  /\ Along(t, << >>, follow) = << >>
         /\ \A p \in Seq(Names) : Along(t, p, follow) \in Landings(t)
         /\ \A p \in Seq(Names), x \in Names :
              Along(t, Append(p, x), follow) = Onward(t, Along(t, p, follow), x, follow)
<1>1. Along(t, << >>, follow) = << >>
  <2>1. << >> \in Seq(Names) /\ Len(<< >>) = 0
    OBVIOUS
  <2>2. HasRun(t, << >>, follow)
    BY <2>1, AlongRuns
  <2> QED
    BY <2>1, <2>2 DEF HasRun
<1>2. ASSUME NEW p \in Seq(Names) PROVE Along(t, p, follow) \in Landings(t)
  <2>1. Len(p) \in 0 .. Len(p)
    OBVIOUS
  <2>2. HasRun(t, p, follow)
    BY AlongRuns
  <2> QED
    BY <2>1, <2>2 DEF HasRun
<1>3. ASSUME NEW p \in Seq(Names), NEW x \in Names
      PROVE  Along(t, Append(p, x), follow) = Onward(t, Along(t, p, follow), x, follow)
  <2> DEFINE r == Append(p, x)
             N == Len(p)
  <2>1. /\ r \in Seq(Names) /\ Len(r) = N + 1 /\ N \in Nat
        /\ \A n \in 1 .. N : r[n] = p[n]
        /\ r[N + 1] = x
    OBVIOUS
  <2> HIDE DEF r, N
  <2>2. PICK f \in [0 .. N -> Landings(t)] :
          /\ f[0] = << >> /\ Along(t, p, follow) = f[N]
          /\ \A n \in 1 .. N : f[n] = Onward(t, f[n - 1], p[n], follow)
    <3>1. HasRun(t, p, follow)
      BY AlongRuns
    <3> QED
      BY <3>1 DEF HasRun, N
  <2>3. PICK g \in [0 .. N + 1 -> Landings(t)] :
          /\ g[0] = << >> /\ Along(t, r, follow) = g[N + 1]
          /\ \A n \in 1 .. N + 1 : g[n] = Onward(t, g[n - 1], r[n], follow)
    <3>1. HasRun(t, r, follow)
      BY <2>1, AlongRuns
    <3> QED
      BY <2>1, <3>1 DEF HasRun
  <2> DEFINE T == {n \in 0 .. N : g[n] = f[n]}
  <2>4. 0 \in T
    BY <2>1, <2>2, <2>3
  <2>5. \A n \in T : n \in Nat /\ n < N => n + 1 \in T
    <3> TAKE n \in T
    <3> HAVE n \in Nat /\ n < N
    <3>1. n + 1 \in 1 .. N /\ n + 1 - 1 = n /\ n + 1 \in 0 .. N /\ n + 1 \in 1 .. N + 1
      BY <2>1
    <3>2. g[n + 1] = Onward(t, g[n], r[n + 1], follow)
      BY <2>3, <3>1
    <3>3. f[n + 1] = Onward(t, f[n], p[n + 1], follow)
      BY <2>2, <3>1
    <3>4. g[n] = f[n] /\ r[n + 1] = p[n + 1]
      BY <2>1, <3>1
    <3> QED
      BY <3>1, <3>2, <3>3, <3>4
  <2>6. \A n \in 0 .. N : n \in T
    <3> HIDE DEF T
    <3> QED
      BY <2>1, <2>4, <2>5, UpTo
  <2>7. N \in 0 .. N /\ N + 1 \in 1 .. N + 1 /\ N + 1 - 1 = N
    BY <2>1
  <2>8. g[N + 1] = Onward(t, g[N], x, follow)
    BY <2>1, <2>3, <2>7
  <2> QED
    BY <2>2, <2>3, <2>6, <2>7, <2>8 DEF r
<1> QED
  BY <1>1, <1>2, <1>3

\* What every number of links leads to
Reals(t) ==
  CHOOSE real : real = [k \in 0 .. MaxLinks |->
                          [p \in Seq(Names) |->
                             Along(t, p, IF k = 0 THEN Unfollowed ELSE real[k - 1])]]

\* Where links lead, when `k' more may be followed
Follow(t, k) == IF k = 0 THEN Unfollowed ELSE Reals(t)[k - 1]

LEMMA RealsFacts ==
  ASSUME NEW t, FileSystem(t)
  PROVE  /\ \A k \in 0 .. MaxLinks :
              /\ Follow(t, k) \in [Seq(Names) -> Landings(t)]
              /\ Reals(t)[k] = [p \in Seq(Names) |-> Along(t, p, Follow(t, k))]
         /\ \A p \in Seq(Names) : RealPath(t, p) = Along(t, p, Follow(t, MaxLinks))
<1> DEFINE N == MaxLinks
           V == [Seq(Names) -> Landings(t)]
           Walk(f) == [p \in Seq(Names) |-> Along(t, p, f)]
           Level(R, k) == Walk(IF k = 0 THEN Unfollowed ELSE R[k - 1])
           Levels(R) == R = [k \in 0 .. N |-> Level(R, k)]
           step == [n \in 1 .. N |-> [f \in V |-> Walk(f)]]
<1>1. N \in Nat
  BY FileSystemsAssumption
<1>2. Unfollowed \in V
  BY DEF Unfollowed, Landings
<1>3. \A f \in V : Walk(f) \in V
  <2> TAKE f \in V
  <2>1. \A p \in Seq(Names) : Along(t, p, f) \in Landings(t)
    BY AlongFacts
  <2> QED
    BY <2>1
<1>4. PICK R \in [0 .. N -> V] :
        R[0] = Walk(Unfollowed) /\ \A n \in 1 .. N : R[n] = Walk(R[n - 1])
  <2>1. Walk(Unfollowed) \in V
    BY <1>2, <1>3
  <2> HIDE DEF V, Walk
  <2>2. step \in [1 .. N -> [V -> V]]
    BY <1>3
  <2>3. HasChain(N, V, Walk(Unfollowed), step)
    <3> HIDE DEF step, N
    <3> QED
      BY <1>1, <2>1, <2>2, ChainExists
  <2>4. PICK R \in [0 .. N -> V] :
          R[0] = Walk(Unfollowed) /\ \A n \in 1 .. N : R[n] = step[n][R[n - 1]]
    <3> HIDE DEF step
    <3> QED
      BY <2>3 DEF HasChain
  <2>5. \A n \in 1 .. N : R[n] = Walk(R[n - 1])
    <3> TAKE n \in 1 .. N
    <3>1. n - 1 \in 0 .. N
      BY <1>1
    <3>2. R[n - 1] \in V
      BY <3>1
    <3>3. step[n][R[n - 1]] = Walk(R[n - 1])
      BY <3>2
    <3> QED
      BY <2>4, <3>3
  <2> QED
    BY <2>4, <2>5
<1> HIDE DEF V, Walk
<1>5. Levels(R)
  <2>1. \A k \in 0 .. N : R[k] = Level(R, k)
    <3> TAKE k \in 0 .. N
    <3>1. k = 0 \/ (k # 0 /\ k \in 1 .. N)
      BY <1>1
    <3> QED
      BY <1>4, <3>1
  <2> QED
    BY <2>1
<1>6. Levels(Reals(t))
  <2>1. Reals(t) = CHOOSE S : Levels(S)
    BY DEF Reals, Walk
  <2> HIDE DEF Levels
  <2> QED
    BY <1>5, <2>1
<1>7. \A p \in Seq(Names) : RealPath(t, p) = Reals(t)[N][p]
  BY DEF RealPath, Reals
<1>8. \A k \in 0 .. N : Reals(t)[k] = Walk(Follow(t, k))
  BY <1>6 DEF Follow
<1> DEFINE T == {k \in 0 .. N : Follow(t, k) \in V}
<1>9. \A k \in 0 .. N : k \in T
  <2>1. 0 \in T
    BY <1>1, <1>2 DEF Follow
  <2>2. \A k \in T : k \in Nat /\ k < N => k + 1 \in T
    <3> TAKE k \in T
    <3> HAVE k \in Nat /\ k < N
    <3>1. k + 1 \in 0 .. N /\ k + 1 # 0 /\ k + 1 - 1 = k /\ k \in 0 .. N
      BY <1>1
    <3>2. Follow(t, k + 1) = Reals(t)[k]
      BY <3>1 DEF Follow
    <3>3. Follow(t, k) \in V
      OBVIOUS
    <3>4. Reals(t)[k] \in V
      BY <1>3, <1>8, <3>1, <3>3
    <3> QED
      BY <3>1, <3>2, <3>4
  <2> HIDE DEF T
  <2> QED
    BY <1>1, <2>1, <2>2, UpTo
<1>10. N \in 0 .. N
  BY <1>1
<1>11. \A p \in Seq(Names) : RealPath(t, p) = Along(t, p, Follow(t, N))
  BY <1>7, <1>8, <1>10 DEF Walk
<1> QED
  BY <1>8, <1>9, <1>11 DEF V, Walk

\* A path leads on by its names, from the root, and nowhere is not further than
\* where it was.
LEMMA RealPathFacts ==
  ASSUME NEW t, FileSystem(t)
  PROVE  /\ RealPath(t, << >>) = << >>
         /\ \A p \in Seq(Names) : RealPath(t, p) \in Landings(t)
         /\ \A p \in Seq(Names), x \in Names :
              /\ RealPath(t, Append(p, x))
                   = Onward(t, RealPath(t, p), x, Follow(t, MaxLinks))
              /\ Exists(t, Append(p, x)) => Exists(t, p)
<1>1. Follow(t, MaxLinks) \in [Seq(Names) -> Landings(t)]
  <2>1. MaxLinks \in 0 .. MaxLinks
    BY FileSystemsAssumption
  <2> QED
    BY <2>1, RealsFacts
<1>2. << >> \in Seq(Names) /\ \A p \in Seq(Names), x \in Names : Append(p, x) \in Seq(Names)
  BY PathEnds, EmptySeq
<1>3. \A p \in Seq(Names) : RealPath(t, p) = Along(t, p, Follow(t, MaxLinks))
  BY RealsFacts
<1>4. RealPath(t, << >>) = << >> /\ \A p \in Seq(Names) : RealPath(t, p) \in Landings(t)
  BY <1>1, <1>2, <1>3, AlongFacts
<1>5. \A p \in Seq(Names), x \in Names :
        RealPath(t, Append(p, x)) = Onward(t, RealPath(t, p), x, Follow(t, MaxLinks))
  <2> TAKE p \in Seq(Names), x \in Names
  <2>1. Along(t, Append(p, x), Follow(t, MaxLinks))
          = Onward(t, Along(t, p, Follow(t, MaxLinks)), x, Follow(t, MaxLinks))
    BY <1>1, AlongFacts
  <2>2. RealPath(t, Append(p, x)) = Along(t, Append(p, x), Follow(t, MaxLinks))
    BY <1>2, <1>3
  <2>3. RealPath(t, p) = Along(t, p, Follow(t, MaxLinks))
    BY <1>3
  <2> QED
    BY <2>1, <2>2, <2>3
<1>6. ASSUME NEW p \in Seq(Names), NEW x \in Names, Exists(t, Append(p, x))
      PROVE  Exists(t, p)
  <2>1. RealPath(t, p) = Nowhere => Append(RealPath(t, p), x) \notin DOMAIN t
    BY NowhereIsNoPath DEF FileSystem
  <2> QED
    BY <1>5, <1>6, <2>1 DEF Exists, Onward
<1> QED
  BY <1>4, <1>5, <1>6

LEMMA EntriesHaveParents ==
  ASSUME NEW t, FileSystem(t), NEW p \in Seq(Names), NEW x \in Names,
         Append(p, x) \in DOMAIN t
  PROVE  p \in DOMAIN t /\ t[p].kind = "dir"
<1>1. Append(p, x) # << >> /\ Front(Append(p, x)) = p
  BY PathEnds
<1>2. \A q \in DOMAIN t : q # << >> => Front(q) \in DOMAIN t /\ t[Front(q)].kind = "dir"
  BY DEF FileSystem
<1>3. Front(Append(p, x)) \in DOMAIN t /\ t[Front(Append(p, x))].kind = "dir"
  BY <1>1, <1>2
<1> QED
  BY <1>1, <1>3

\* Above an entry there are directories.
LEMMA AboveEntries ==
  ASSUME NEW t, FileSystem(t), NEW p \in DOMAIN t
  PROVE  /\ p \in Seq(Names)
         /\ \A q \in Ancestors(p) : q = p \/ (q \in DOMAIN t /\ t[q].kind = "dir")
<1> DEFINE T == {r \in Seq(Names) : r \in DOMAIN t =>
                   \A q \in Ancestors(r) : q = r \/ (q \in DOMAIN t /\ t[q].kind = "dir")}
<1>1. << >> \in T
  BY AncestorsOf, EmptySeq
<1>2. ASSUME NEW r \in Seq(Names), r \in T, NEW x \in Names
      PROVE  Append(r, x) \in T
  <2>1. Append(r, x) \in Seq(Names)
    BY PathEnds
  <2>2. ASSUME Append(r, x) \in DOMAIN t
        PROVE  r \in DOMAIN t /\ t[r].kind = "dir"
    BY <2>2, EntriesHaveParents
  <2>3. Ancestors(Append(r, x)) = Ancestors(r) \cup {Append(r, x)}
    BY LongerAncestors
  <2>4. r \in DOMAIN t => \A q \in Ancestors(r) : q = r \/ (q \in DOMAIN t /\ t[q].kind = "dir")
    BY <1>2
  <2>5. Append(r, x) \in DOMAIN t =>
          \A q \in Ancestors(Append(r, x)) :
            q = Append(r, x) \/ (q \in DOMAIN t /\ t[q].kind = "dir")
    BY <2>2, <2>3, <2>4
  <2> QED
    BY <2>1, <2>5
<1>3. \A r \in Seq(Names) : r \in T
  <2> HIDE DEF T
  <2> QED
    BY <1>1, <1>2, PathInduction
<1>4. p \in Seq(Names)
  BY DEF FileSystem
<1> QED
  BY <1>3, <1>4

\* A path with no link on the way leads to itself, if it is there.
LEMMA PlainReal ==
  ASSUME NEW t, FileSystem(t), NEW p \in Seq(Names), Plain(t, p)
  PROVE  RealPath(t, p) = IF p \in DOMAIN t THEN p ELSE Nowhere
<1> DEFINE T == {r \in Seq(Names) : Plain(t, r) =>
                   RealPath(t, r) = IF r \in DOMAIN t THEN r ELSE Nowhere}
<1>1. << >> \in T
  BY RealPathFacts, EmptySeq DEF FileSystem
<1>2. ASSUME NEW r \in Seq(Names), r \in T, NEW x \in Names
      PROVE  Append(r, x) \in T
  <2> DEFINE longer == Append(r, x)
  <2>1. longer \in Seq(Names)
    BY PathEnds
  <2> HIDE DEF longer
  <2> SUFFICES ASSUME Plain(t, longer)
               PROVE  RealPath(t, longer) = IF longer \in DOMAIN t THEN longer ELSE Nowhere
    BY <2>1 DEF longer
  <2> USE DEF longer
  <2>2. Ancestors(Append(r, x)) = Ancestors(r) \cup {Append(r, x)}
    BY LongerAncestors
  <2>3. RealPath(t, r) = IF r \in DOMAIN t THEN r ELSE Nowhere
    BY <1>2, <2>2 DEF Plain
  <2>4. Append(r, x) \in DOMAIN t => r \in DOMAIN t /\ t[Append(r, x)].kind # "link"
    BY <2>2, EntriesHaveParents DEF Plain
  <2>5. Append(Nowhere, x) \notin DOMAIN t
    BY NowhereIsNoPath DEF FileSystem
  <2>6. RealPath(t, Append(r, x))
          = Onward(t, RealPath(t, r), x, Follow(t, MaxLinks))
    BY RealPathFacts
  <2> QED
    BY <2>3, <2>4, <2>5, <2>6 DEF Onward
<1>3. \A r \in Seq(Names) : r \in T
  <2> HIDE DEF T
  <2> QED
    BY <1>1, <1>2, PathInduction
<1> QED
  BY <1>3

\* Where a path leads to, no link is left on the way.
LEMMA LandingsReal ==
  ASSUME NEW t, FileSystem(t), NEW p \in Landings(t), p # Nowhere
  PROVE  /\ p \in DOMAIN t /\ t[p].kind # "link" /\ p \in Seq(Names)
         /\ \A q \in Ancestors(p) :
              /\ q \in Seq(Names) /\ q \in Landings(t) /\ q \in DOMAIN t
              /\ RealPath(t, q) = q /\ Exists(t, q)
<1>1. p \in DOMAIN t /\ t[p].kind # "link" /\ p \in Seq(Names)
  BY DEF Landings, FileSystem
<1>2. \A q \in Ancestors(p) : q \in Seq(Names) /\ q \in DOMAIN t /\ t[q].kind # "link"
  BY <1>1, AboveEntries, AncestorsOf
<1>3. ASSUME NEW q \in Ancestors(p)
      PROVE  q \in Landings(t) /\ RealPath(t, q) = q /\ Exists(t, q)
  <2>1. Plain(t, q)
    BY <1>1, <1>2, AncestorsNest DEF Plain
  <2>2. RealPath(t, q) = q
    BY <1>2, <2>1, PlainReal
  <2>3. q # Nowhere
    BY <1>2, NowhereIsNoPath
  <2> QED
    BY <1>2, <2>2, <2>3 DEF Exists, Landings
<1> QED
  BY <1>1, <1>2, <1>3

\* A path that exists leads to such a place, and the paths above it exist.
LEMMA ExistingPaths ==
  ASSUME NEW t, FileSystem(t), NEW p \in Seq(Names), Exists(t, p)
  PROVE  /\ RealPath(t, p) \in Landings(t) /\ RealPath(t, p) # Nowhere
         /\ RealPath(t, p) \in Seq(Names) /\ RealPath(t, p) \in DOMAIN t
         /\ \A q \in Ancestors(p) : Exists(t, q)
<1> DEFINE T == {r \in Seq(Names) : Exists(t, r) => \A q \in Ancestors(r) : Exists(t, q)}
<1>1. << >> \in T
  BY AncestorsOf, EmptySeq
<1>2. ASSUME NEW r \in Seq(Names), r \in T, NEW x \in Names
      PROVE  Append(r, x) \in T
  <2>1. Append(r, x) \in Seq(Names) /\ (Exists(t, Append(r, x)) => Exists(t, r))
    BY PathEnds, RealPathFacts
  <2>2. Ancestors(Append(r, x)) = Ancestors(r) \cup {Append(r, x)}
    BY LongerAncestors
  <2> QED
    BY <1>2, <2>1, <2>2
<1>3. \A r \in Seq(Names) : r \in T
  <2> HIDE DEF T
  <2> QED
    BY <1>1, <1>2, PathInduction
<1>4. RealPath(t, p) \in Landings(t) /\ RealPath(t, p) # Nowhere
  BY RealPathFacts DEF Exists
<1>5. RealPath(t, p) \in Seq(Names) /\ RealPath(t, p) \in DOMAIN t
  BY <1>4, LandingsReal
<1> QED
  BY <1>3, <1>4, <1>5

-----------------------------------------------------------------------------
(* The clean target: canonical paths                                       *)

LEMMA LongestIs ==
  ASSUME NEW p \in Seq(Names), NEW S \in SUBSET Ancestors(p), NEW m \in S,
         \A q \in S : Len(q) <= Len(m)
  PROVE  Longest(S) = m
<1> DEFINE c == Longest(S)
<1>1. c \in S /\ \A q \in S : Len(q) <= Len(c)
  BY DEF Longest
<1> HIDE DEF c
<1>2. PICK i \in 0 .. Len(p) : c = SubSeq(p, 1, i)
  BY <1>1 DEF Ancestors
<1>3. PICK j \in 0 .. Len(p) : m = SubSeq(p, 1, j)
  BY DEF Ancestors
<1>4. Len(c) = i /\ Len(m) = j
  BY <1>2, <1>3, Shortened
<1>5. i <= j /\ j <= i
  BY <1>1, <1>4
<1>6. i = j
  BY <1>5
<1> QED
  BY <1>2, <1>3, <1>6 DEF c

Existing(t, path) == {p \in Ancestors(path) : Exists(t, p)}
Nearest(t, path) == Longest(Existing(t, path))

LEMMA NearestFacts ==
  ASSUME NEW t, FileSystem(t)
  PROVE  /\ \A p \in Seq(Names) :
              /\ Nearest(t, p) \in Ancestors(p) /\ Exists(t, Nearest(t, p))
              /\ Exists(t, p) => Nearest(t, p) = p
         /\ \A p \in Seq(Names), x \in Names :
              ~Exists(t, Append(p, x)) => Nearest(t, Append(p, x)) = Nearest(t, p)
<1>1. ASSUME NEW p \in Seq(Names), Exists(t, p)
      PROVE  Nearest(t, p) = p
  <2>1. \A q \in Ancestors(p) : Len(q) <= Len(p)
    <3>1. \A n \in 0 .. Len(p) : Len(SubSeq(p, 1, n)) = n /\ n <= Len(p)
      BY Shortened
    <3> QED
      BY <3>1 DEF Ancestors
  <2>2. p \in Existing(t, p) /\ Existing(t, p) \in SUBSET Ancestors(p)
    BY <1>1, AncestorsOf DEF Existing
  <2> QED
    BY <2>1, <2>2, LongestIs DEF Nearest
<1>2. ASSUME NEW p \in Seq(Names), NEW x \in Names, ~Exists(t, Append(p, x))
      PROVE  Nearest(t, Append(p, x)) = Nearest(t, p)
  <2>1. Existing(t, Append(p, x)) = Existing(t, p)
    <3>1. Ancestors(Append(p, x)) = Ancestors(p) \cup {Append(p, x)}
      BY LongerAncestors
    <3>2. \A q : q \in Existing(t, Append(p, x)) <=> q \in Existing(t, p)
      BY <1>2, <3>1 DEF Existing
    <3> QED
      BY <3>2
  <2> QED
    BY <2>1 DEF Nearest
<1> DEFINE T == {p \in Seq(Names) : Nearest(t, p) \in Ancestors(p) /\ Exists(t, Nearest(t, p))}
<1>3. << >> \in T
  <2>1. << >> \in Seq(Names)
    BY EmptySeq
  <2>2. Exists(t, << >>)
    BY <2>1, RealPathFacts, NowhereIsNoPath DEF Exists
  <2> QED
    BY <1>1, <2>1, <2>2, AncestorsOf
<1>4. ASSUME NEW p \in Seq(Names), p \in T, NEW x \in Names
      PROVE  Append(p, x) \in T
  <2>1. Append(p, x) \in Seq(Names)
    BY PathEnds
  <2>2. CASE Exists(t, Append(p, x))
    BY <1>1, <2>1, <2>2, AncestorsOf
  <2>3. CASE ~Exists(t, Append(p, x))
    BY <1>2, <1>4, <2>1, <2>3, LongerAncestors
  <2> QED
    BY <2>2, <2>3
<1>5. \A p \in Seq(Names) : p \in T
  <2> HIDE DEF T
  <2> QED
    BY <1>3, <1>4, PathInduction
<1> QED
  BY <1>1, <1>2, <1>5

\* What is left of a path one name longer is one name longer.
LEMMA RestGrows ==
  ASSUME NEW p \in Seq(Names), NEW x \in Names, NEW n \in 0 .. Len(p), NEW g \in Seq(Names)
  PROVE  /\ g \o SubSeq(p, n + 1, Len(p)) \in Seq(Names)
         /\ g \o SubSeq(Append(p, x), n + 1, Len(Append(p, x)))
              = Append(g \o SubSeq(p, n + 1, Len(p)), x)
<1> DEFINE r == Append(p, x)
           s == SubSeq(p, n + 1, Len(p))
           u == SubSeq(r, n + 1, Len(r))
<1>1. Len(p) \in Nat /\ n \in Nat /\ n <= Len(p)
  OBVIOUS
<1>2. /\ r \in Seq(Names) /\ Len(r) = Len(p) + 1 /\ r[Len(p) + 1] = x
      /\ \A i \in 1 .. Len(p) : r[i] = p[i]
  BY <1>1
<1>3. s \in Seq(Names) /\ Len(s) = Len(p) - n /\ \A i \in 1 .. Len(p) - n : s[i] = p[n + i]
  BY <1>1
<1> HIDE DEF r
<1>4. u \in Seq(Names) /\ Len(u) = Len(p) - n + 1
        /\ \A i \in 1 .. Len(p) - n + 1 : u[i] = r[n + i]
  BY <1>1, <1>2
<1> HIDE DEF s, u
<1>5. u = Append(s, x)
  <2>1. Append(s, x) \in Seq(Names) /\ Len(Append(s, x)) = Len(s) + 1
          /\ (\A i \in 1 .. Len(s) : Append(s, x)[i] = s[i]) /\ Append(s, x)[Len(s) + 1] = x
    BY <1>3, AppendProperties
  <2>2. \A i \in 1 .. Len(p) - n + 1 : u[i] = Append(s, x)[i]
    <3> TAKE i \in 1 .. Len(p) - n + 1
    <3>1. CASE i \in 1 .. Len(p) - n
      <4>1. n + i \in 1 .. Len(p)
        BY <1>1, <3>1
      <4>2. u[i] = r[n + i] /\ r[n + i] = p[n + i]
        BY <1>2, <1>4, <4>1
      <4>3. Append(s, x)[i] = s[i]
        BY <1>3, <2>1, <3>1
      <4> QED
        BY <1>3, <3>1, <4>2, <4>3
    <3>2. CASE i = Len(p) - n + 1
      <4>1. n + i = Len(p) + 1 /\ i = Len(s) + 1
        BY <1>1, <1>3, <3>2
      <4> QED
        BY <1>2, <1>4, <2>1, <4>1
    <3>3. i \in 1 .. Len(p) - n \/ i = Len(p) - n + 1
      BY <1>1
    <3> QED
      BY <3>1, <3>2, <3>3
  <2>3. Len(u) = Len(Append(s, x))
    BY <1>1, <1>3, <1>4, <2>1
  <2> QED
    BY <1>4, <2>1, <2>2, <2>3, SeqEqual
<1>6. g \o Append(s, x) = Append(g \o s, x)
  <2>1. g \o s \in Seq(Names) /\ <<x>> \in Seq(Names)
    BY <1>3, ConcatProperties
  <2>2. Append(s, x) = s \o <<x>> /\ Append(g \o s, x) = (g \o s) \o <<x>>
    BY <1>3, <2>1, AppendIsConcat
  <2>3. (g \o s) \o <<x>> = g \o (s \o <<x>>)
    BY <1>3, <2>1, ConcatAssociative
  <2> QED
    BY <2>2, <2>3
<1>7. g \o s \in Seq(Names)
  BY <1>3, ConcatProperties
<1> QED
  BY <1>5, <1>6, <1>7 DEF r, s, u

LEMMA CanonicalFacts ==
  ASSUME NEW t, FileSystem(t)
  PROVE  /\ \A p \in Seq(Names) :
              /\ Canonical(t, p) \in Seq(Names)
              /\ Exists(t, p) => Canonical(t, p) = RealPath(t, p)
         /\ \A p \in Seq(Names), x \in Names :
              ~Exists(t, Append(p, x)) =>
                Canonical(t, Append(p, x)) = Append(Canonical(t, p), x)
<1> DEFINE Rest(p) == SubSeq(p, Len(Nearest(t, p)) + 1, Len(p))
           g(p) == RealPath(t, Nearest(t, p))
<1>1. ASSUME NEW p \in Seq(Names)
      PROVE  /\ Canonical(t, p) = g(p) \o Rest(p)
             /\ g(p) \in Seq(Names) /\ Len(Nearest(t, p)) \in 0 .. Len(p)
  <2>1. Canonical(t, p) = g(p) \o Rest(p)
    BY DEF Canonical, Nearest, Existing
  <2>2. Nearest(t, p) \in Seq(Names) /\ Nearest(t, p) \in Ancestors(p) /\ Exists(t, Nearest(t, p))
    BY NearestFacts, AncestorsOf
  <2>3. PICK n \in 0 .. Len(p) : Nearest(t, p) = SubSeq(p, 1, n)
    BY <2>2 DEF Ancestors
  <2>4. Len(Nearest(t, p)) = n
    BY <2>3, Shortened
  <2>5. g(p) \in Seq(Names)
    BY <2>2, ExistingPaths
  <2> QED
    BY <2>1, <2>4, <2>5
<1>2. ASSUME NEW p \in Seq(Names), NEW x \in Names
      PROVE  /\ Canonical(t, p) \in Seq(Names)
             /\ ~Exists(t, Append(p, x)) =>
                  Canonical(t, Append(p, x)) = Append(Canonical(t, p), x)
  <2> DEFINE n == Len(Nearest(t, p))
  <2>1. n \in 0 .. Len(p) /\ g(p) \in Seq(Names)
    BY <1>1
  <2>2. /\ g(p) \o SubSeq(p, n + 1, Len(p)) \in Seq(Names)
        /\ g(p) \o SubSeq(Append(p, x), n + 1, Len(Append(p, x)))
             = Append(g(p) \o SubSeq(p, n + 1, Len(p)), x)
    <3> HIDE DEF n, g
    <3> QED
      BY <2>1, RestGrows
  <2>3. Canonical(t, p) = g(p) \o SubSeq(p, n + 1, Len(p))
    BY <1>1
  <2>4. ASSUME ~Exists(t, Append(p, x))
        PROVE  Canonical(t, Append(p, x)) = Append(Canonical(t, p), x)
    <3>1. Nearest(t, Append(p, x)) = Nearest(t, p)
      BY <2>4, NearestFacts
    <3>2. Append(p, x) \in Seq(Names)
      BY PathEnds
    <3>3. Canonical(t, Append(p, x)) = g(Append(p, x)) \o Rest(Append(p, x))
      BY <1>1, <3>2
    <3> QED
      BY <2>2, <2>3, <3>1, <3>3
  <2> QED
    BY <2>2, <2>3, <2>4
<1>3. ASSUME NEW p \in Seq(Names), Exists(t, p)
      PROVE  Canonical(t, p) = RealPath(t, p)
  <2>1. Nearest(t, p) = p /\ Len(p) \in Nat
    BY <1>3, NearestFacts
  <2>2. SubSeq(p, Len(p) + 1, Len(p)) = << >>
    BY <2>1, SubSeqEmpty
  <2>3. RealPath(t, p) \in Seq(Names)
    BY <1>3, ExistingPaths
  <2>4. RealPath(t, p) \o << >> = RealPath(t, p)
    BY <2>3, ConcatEmptySeq
  <2> QED
    BY <1>1, <2>1, <2>2, <2>4
<1>4. ASSUME NEW p \in Seq(Names)
      PROVE  Canonical(t, p) \in Seq(Names)
  <2>1. CASE Names = {}
    <3>1. p = << >>
      BY <2>1, PathCases
    <3>2. Exists(t, p)
      BY <3>1, RealPathFacts, NowhereIsNoPath DEF Exists
    <3> QED
      BY <1>3, <3>2, ExistingPaths
  <2>2. CASE Names # {}
    BY <1>2, <2>2
  <2> QED
    BY <2>1, <2>2
<1> QED
  BY <1>2, <1>3, <1>4

\* The part of a canonical path that exists leads to itself.
LEMMA CanonicalReal ==
  ASSUME NEW t, FileSystem(t), NEW p \in Seq(Names)
  PROVE  /\ \A q \in Ancestors(Canonical(t, p)) : Exists(t, q) => RealPath(t, q) = q
         /\ ~Exists(t, p) => ~Exists(t, Canonical(t, p))
<1> DEFINE Leads(r) == \A q \in Ancestors(r) : Exists(t, q) => RealPath(t, q) = q
           T == {r \in Seq(Names) : /\ Leads(Canonical(t, r))
                                    /\ ~Exists(t, r) => ~Exists(t, Canonical(t, r))}
<1>1. ASSUME NEW r \in Seq(Names), Exists(t, r)
      PROVE  Leads(Canonical(t, r))
  <2>1. Canonical(t, r) = RealPath(t, r) /\ RealPath(t, r) \in Landings(t)
          /\ RealPath(t, r) # Nowhere
    BY <1>1, CanonicalFacts, ExistingPaths
  <2>2. \A q \in Ancestors(RealPath(t, r)) : RealPath(t, q) = q
    BY <2>1, LandingsReal
  <2> QED
    BY <2>1, <2>2
<1>2. << >> \in T
  <2>1. << >> \in Seq(Names) /\ Exists(t, << >>)
    BY RealPathFacts, NowhereIsNoPath, EmptySeq DEF Exists
  <2> HIDE DEF Leads
  <2> QED
    BY <1>1, <2>1
<1>3. ASSUME NEW r \in Seq(Names), r \in T, NEW x \in Names
      PROVE  Append(r, x) \in T
  <2> DEFINE c == Canonical(t, r)
             longer == Append(r, x)
  <2>1. longer \in Seq(Names) /\ c \in Seq(Names)
    BY PathEnds, CanonicalFacts
  <2>2. Leads(c) /\ (~Exists(t, r) => ~Exists(t, c))
    BY <1>3
  <2>3. CASE Exists(t, longer)
    <3> HIDE DEF Leads, longer
    <3> QED
      BY <1>1, <2>1, <2>3 DEF longer
  <2>4. CASE ~Exists(t, longer)
    <3>1. Canonical(t, longer) = Append(c, x)
      BY <2>4, CanonicalFacts
    <3>2. ~Exists(t, Append(c, x))
      <4>1. CASE Exists(t, r)
        <5>1. c = RealPath(t, r) /\ c \in Landings(t) /\ c # Nowhere
          BY <4>1, CanonicalFacts, ExistingPaths
        <5>2. RealPath(t, c) = c
          BY <2>1, <5>1, LandingsReal, AncestorsOf
        <5>3. RealPath(t, Append(c, x)) = Onward(t, RealPath(t, c), x, Follow(t, MaxLinks))
          BY <2>1, RealPathFacts
        <5>4. RealPath(t, longer) = Onward(t, RealPath(t, r), x, Follow(t, MaxLinks))
          BY RealPathFacts
        <5>5. RealPath(t, longer) = Nowhere
          BY <2>4 DEF Exists
        <5> HIDE DEF c, longer
        <5> QED
          BY <5>1, <5>2, <5>3, <5>4, <5>5 DEF Exists
      <4>2. CASE ~Exists(t, r)
        BY <2>1, <2>2, <4>2, RealPathFacts
      <4> QED
        BY <4>1, <4>2
    <3>3. Ancestors(Append(c, x)) = Ancestors(c) \cup {Append(c, x)}
      BY <2>1, LongerAncestors
    <3>4. Leads(Append(c, x))
      BY <2>2, <3>2, <3>3
    <3> HIDE DEF Leads, c, longer
    <3> QED
      BY <2>1, <3>1, <3>2, <3>4 DEF longer
  <2> QED
    BY <2>3, <2>4
<1>4. \A r \in Seq(Names) : r \in T
  <2> HIDE DEF T
  <2> QED
    BY <1>2, <1>3, PathInduction
<1> QED
  BY <1>4

\* A path to be made lies on the way of the ones below it.
LEMMA CanonicalNests ==
  ASSUME NEW t, FileSystem(t), NEW p \in Seq(Names), NEW q \in Ancestors(p), ~Exists(t, q)
  PROVE  Canonical(t, q) \in Ancestors(Canonical(t, p))
<1> DEFINE T == {r \in Seq(Names) : \A s \in Ancestors(r) :
                   ~Exists(t, s) => Canonical(t, s) \in Ancestors(Canonical(t, r))}
<1>1. << >> \in T
  <2>1. << >> \in Seq(Names) /\ Canonical(t, << >>) \in Seq(Names)
    BY CanonicalFacts, EmptySeq
  <2> QED
    BY <2>1, AncestorsOf
<1>2. ASSUME NEW r \in Seq(Names), r \in T, NEW x \in Names
      PROVE  Append(r, x) \in T
  <2> DEFINE longer == Append(r, x)
  <2>1. longer \in Seq(Names) /\ Canonical(t, r) \in Seq(Names)
          /\ Canonical(t, longer) \in Seq(Names)
    BY PathEnds, CanonicalFacts
  <2>2. ASSUME NEW s \in Ancestors(longer), ~Exists(t, s)
        PROVE  Canonical(t, s) \in Ancestors(Canonical(t, longer))
    <3>1. CASE s = longer
      BY <2>1, <3>1, AncestorsOf
    <3>2. CASE s # longer
      <4>1. s \in Ancestors(r)
        BY <3>2, LongerAncestors
      <4>2. ~Exists(t, r)
        BY <2>2, <4>1, ExistingPaths
      <4>3. ~Exists(t, longer)
        BY <4>2, RealPathFacts
      <4>4. Canonical(t, longer) = Append(Canonical(t, r), x)
        BY <4>3, CanonicalFacts
      <4>5. Canonical(t, s) \in Ancestors(Canonical(t, r))
        BY <1>2, <2>2, <4>1
      <4>6. Ancestors(Append(Canonical(t, r), x))
              = Ancestors(Canonical(t, r)) \cup {Append(Canonical(t, r), x)}
        BY <2>1, LongerAncestors
      <4> HIDE DEF longer
      <4> QED
        BY <4>4, <4>5, <4>6
    <3> QED
      BY <3>1, <3>2
  <2> HIDE DEF longer
  <2>3. longer \in T
    BY <2>1, <2>2
  <2> QED
    BY <2>3 DEF longer
<1>3. \A r \in Seq(Names) : r \in T
  <2> HIDE DEF T
  <2> QED
    BY <1>1, <1>2, PathInduction
<1> QED
  BY <1>3

\* A path with no link on the way is canonical.
LEMMA CanonicalPlain ==
  ASSUME NEW t, FileSystem(t), NEW p \in Seq(Names), Plain(t, p)
  PROVE  Canonical(t, p) = p
<1> DEFINE T == {r \in Seq(Names) : Plain(t, r) => Canonical(t, r) = r}
<1>1. ASSUME NEW r \in Seq(Names), Plain(t, r), Exists(t, r)
      PROVE  Canonical(t, r) = r
  <2>1. RealPath(t, r) = r
    BY <1>1, PlainReal DEF Exists
  <2> QED
    BY <1>1, <2>1, CanonicalFacts
<1>2. << >> \in T
  BY <1>1, RealPathFacts, NowhereIsNoPath, EmptySeq DEF Exists
<1>3. ASSUME NEW r \in Seq(Names), r \in T, NEW x \in Names
      PROVE  Append(r, x) \in T
  <2> DEFINE longer == Append(r, x)
  <2>1. longer \in Seq(Names)
    BY PathEnds
  <2>2. ASSUME Plain(t, longer) PROVE Canonical(t, longer) = longer
    <3>1. CASE Exists(t, longer)
      BY <1>1, <2>1, <2>2, <3>1
    <3>2. CASE ~Exists(t, longer)
      <4>1. Plain(t, r)
        BY <2>2, LongerAncestors DEF Plain
      <4>2. Canonical(t, r) = r
        BY <1>3, <4>1
      <4> QED
        BY <3>2, <4>2, CanonicalFacts
    <3> QED
      BY <3>1, <3>2
  <2> HIDE DEF longer
  <2>3. longer \in T
    BY <2>1, <2>2
  <2> QED
    BY <2>3 DEF longer
<1>4. \A r \in Seq(Names) : r \in T
  <2> HIDE DEF T
  <2> QED
    BY <1>2, <1>3, PathInduction
<1> QED
  BY <1>4

-----------------------------------------------------------------------------
(* The clean target: making its directories                                *)

Made(t, p) == WithDirectories(t, Missing(t, p))

LEMMA MissingFacts ==
  ASSUME NEW t, FileSystem(t), NEW p \in Seq(Names), ~Blocked(t, p)
  PROVE  /\ \A m \in Missing(t, p) :
              /\ m \in Seq(Names) /\ m # << >> /\ m \notin DOMAIN t
              /\ m \in Ancestors(Canonical(t, p))
              /\ Front(m) \in Missing(t, p) \/ (Front(m) \in DOMAIN t /\ t[Front(m)].kind = "dir")
         /\ Exists(t, p) => Missing(t, p) = {} /\ t[RealPath(t, p)].kind = "dir"
<1> DEFINE c == Canonical(t, p)
           M == Missing(t, p)
<1>1. c \in Seq(Names)
  BY CanonicalFacts
<1>2. \A q \in Ancestors(c) : Exists(t, q) => RealPath(t, q) = q
  BY CanonicalReal
<1>3. \A q \in Ancestors(c) : q \in Seq(Names)
  BY <1>1, AncestorsOf
<1>4. \A q : q \in M <=> q \in Ancestors(c) /\ ~Exists(t, q)
  BY DEF Missing
<1>5. /\ \A m \in M : m \notin DOMAIN t
      /\ M = {} => t[RealPath(t, p)].kind = "dir"
      /\ \A m \in M : Front(m) \in DOMAIN t => t[Front(m)].kind # "file"
  BY DEF Blocked
<1> HIDE DEF c, M
<1>6. ASSUME NEW m \in M
      PROVE  /\ m \in Seq(Names) /\ m # << >> /\ m \notin DOMAIN t /\ m \in Ancestors(c)
             /\ Front(m) \in M \/ (Front(m) \in DOMAIN t /\ t[Front(m)].kind = "dir")
  <2>1. m \in Seq(Names) /\ m \in Ancestors(c) /\ m \notin DOMAIN t
    BY <1>3, <1>4, <1>5
  <2>2. m # << >>
    BY <2>1 DEF FileSystem
  <2>3. Front(m) \in Seq(Names) /\ Last(m) \in Names /\ m = Append(Front(m), Last(m))
    BY <2>1, <2>2, PathCases
  <2>4. Front(m) \in Ancestors(m)
    <3>1. Ancestors(Append(Front(m), Last(m)))
            = Ancestors(Front(m)) \cup {Append(Front(m), Last(m))}
      BY <2>3, LongerAncestors
    <3>2. Front(m) \in Ancestors(Front(m))
      BY <2>3, AncestorsOf
    <3> QED
      BY <2>3, <3>1, <3>2
  <2>5. Front(m) \in Ancestors(c)
    BY <1>1, <2>1, <2>4, AncestorsNest
  <2>6. CASE Exists(t, Front(m))
    <3>1. RealPath(t, Front(m)) = Front(m)
      BY <1>2, <2>5, <2>6
    <3>2. Front(m) \in Landings(t) /\ Front(m) # Nowhere
      BY <2>3, <2>6, <3>1, ExistingPaths
    <3>3. Front(m) \in DOMAIN t /\ t[Front(m)].kind # "link"
      BY <3>2, LandingsReal
    <3>4. t[Front(m)].kind \in {"dir", "file", "link"}
      BY <3>3 DEF FileSystem
    <3> QED
      BY <1>5, <2>1, <2>2, <3>3, <3>4
  <2>7. CASE ~Exists(t, Front(m))
    BY <1>4, <2>1, <2>2, <2>5, <2>7
  <2> QED
    BY <2>6, <2>7
<1>7. ASSUME Exists(t, p) PROVE M = {} /\ t[RealPath(t, p)].kind = "dir"
  <2>1. c = RealPath(t, p) /\ c \in Landings(t) /\ c # Nowhere
    BY <1>7, CanonicalFacts, ExistingPaths DEF c
  <2>2. \A q \in Ancestors(c) : Exists(t, q)
    BY <2>1, LandingsReal
  <2>3. M = {}
    BY <1>4, <2>2
  <2> QED
    BY <1>5, <2>3
<1> QED
  BY <1>6, <1>7 DEF c, M

Extended(t, new, t2) ==
  /\ DOMAIN t2 = DOMAIN t \cup new
  /\ \A q \in DOMAIN t : q \notin new => t2[q] = t[q]
  /\ \A m \in new : t2[m] = Directory

LEMMA MadeEntries ==
  ASSUME NEW t, NEW p
  PROVE  Extended(t, Missing(t, p), Made(t, p))
BY DEF Made, WithDirectories, Extended

LEMMA MadeFileSystem ==
  ASSUME NEW t, FileSystem(t), NEW p \in Seq(Names), ~Blocked(t, p)
  PROVE  FileSystem(Made(t, p))
<1> DEFINE M == Missing(t, p)
           t2 == Made(t, p)
<1>1. /\ DOMAIN t2 = DOMAIN t \cup M
      /\ \A q \in DOMAIN t : q \notin M => t2[q] = t[q]
      /\ \A m \in M : t2[m] = Directory
  <2>1. Extended(t, M, t2)
    BY MadeEntries
  <2> QED
    BY <2>1 DEF Extended
<1>2. \A m \in M :
        /\ m \in Seq(Names) /\ m # << >> /\ m \notin DOMAIN t
        /\ Front(m) \in M \/ (Front(m) \in DOMAIN t /\ t[Front(m)].kind = "dir")
  BY MissingFacts
<1>3. Directory.kind = "dir" /\ Directory.to \in Seq(Names)
  BY EmptySeq DEF Directory
<1> HIDE DEF M, t2
<1>4. \A q \in DOMAIN t : q \notin M /\ t2[q] = t[q]
  BY <1>1, <1>2
<1>5. \A m \in M : t2[m].kind = "dir" /\ t2[m].to \in Seq(Names)
  BY <1>1, <1>3
<1>6. << >> \in DOMAIN t2 /\ t2[<< >>].kind = "dir"
  BY <1>1, <1>4 DEF FileSystem
<1>7. ASSUME NEW q \in DOMAIN t2
      PROVE  /\ q \in Seq(Names) /\ t2[q].to \in Seq(Names)
             /\ t2[q].kind \in {"dir", "file", "link"}
             /\ q # << >> => Front(q) \in DOMAIN t2 /\ t2[Front(q)].kind = "dir"
  <2>1. CASE q \in DOMAIN t
    BY <1>1, <1>4, <2>1 DEF FileSystem
  <2>2. CASE q \in M
    BY <1>1, <1>2, <1>4, <1>5, <2>2
  <2> QED
    BY <1>1, <2>1, <2>2
<1>8. FileSystem(t2)
  BY <1>6, <1>7 DEF FileSystem
<1> QED
  BY <1>8 DEF t2

\* A path leads where it led, or to one of the new directories.
Grown(new, was, is) == is = was \/ (was = Nowhere /\ is \in new)

LEMMA AlongGrows ==
  ASSUME NEW t, FileSystem(t), NEW p \in Seq(Names), ~Blocked(t, p),
         NEW f \in [Seq(Names) -> Landings(t)], NEW g \in [Seq(Names) -> Landings(Made(t, p))],
         \A q \in Seq(Names) : Grown(Missing(t, p), f[q], g[q])
  PROVE  \A q \in Seq(Names) :
           Grown(Missing(t, p), Along(t, q, f), Along(Made(t, p), q, g))
<1> DEFINE M == Missing(t, p)
           t2 == Made(t, p)
           T == {q \in Seq(Names) : Grown(M, Along(t, q, f), Along(t2, q, g))}
<1>1. FileSystem(t2)
  BY MadeFileSystem
<1>2. /\ DOMAIN t2 = DOMAIN t \cup M
      /\ \A q \in DOMAIN t : q \notin M => t2[q] = t[q]
      /\ \A m \in M : t2[m] = Directory
  <2>1. Extended(t, M, t2)
    BY MadeEntries
  <2> QED
    BY <2>1 DEF Extended
<1>3. \A m \in M : m \in Seq(Names) /\ m \notin DOMAIN t
  BY MissingFacts
<1>4. g \in [Seq(Names) -> Landings(t2)] /\ \A q \in Seq(Names) : Grown(M, f[q], g[q])
  OBVIOUS
<1> HIDE DEF M, t2
<1>5. << >> \in T
  <2>1. Along(t, << >>, f) = << >> /\ Along(t2, << >>, g) = << >>
    BY <1>1, <1>4, AlongFacts
  <2> QED
    BY <2>1, EmptySeq DEF Grown
<1>6. ASSUME NEW q \in Seq(Names), q \in T, NEW x \in Names
      PROVE  Append(q, x) \in T
  <2> DEFINE a == Along(t, q, f)
             b == Along(t2, q, g)
  <2>1. Grown(M, a, b) /\ a \in Landings(t)
    BY <1>6, AlongFacts
  <2>2. /\ Along(t, Append(q, x), f) = Onward(t, a, x, f)
        /\ Along(t2, Append(q, x), g) = Onward(t2, b, x, g)
    BY <1>1, <1>4, AlongFacts
  <2> HIDE DEF a, b
  <2>3. Grown(M, Onward(t, a, x, f), Onward(t2, b, x, g))
    <3>1. CASE b = a /\ Append(a, x) \in DOMAIN t
      <4>1. t2[Append(a, x)] = t[Append(a, x)] /\ Append(a, x) \in DOMAIN t2
        BY <1>2, <1>3, <3>1
      <4>2. t[Append(a, x)].to \in Seq(Names)
        BY <3>1 DEF FileSystem
      <4>3. Grown(M, f[t[Append(a, x)].to], g[t[Append(a, x)].to])
        BY <1>4, <4>2
      <4> QED
        BY <3>1, <4>1, <4>3 DEF Onward, Grown
    <3>2. CASE b = a /\ Append(a, x) \notin DOMAIN t
      <4>1. Onward(t, a, x, f) = Nowhere
        BY <3>2 DEF Onward
      <4>2. Append(a, x) \in DOMAIN t2 => Append(a, x) \in M /\ t2[Append(a, x)] = Directory
        BY <1>2, <3>2
      <4> QED
        BY <3>2, <4>1, <4>2 DEF Onward, Grown, Directory
    <3>3. CASE a = Nowhere /\ b \in M
      <4>1. Onward(t, a, x, f) = Nowhere
        BY <3>3, NowhereIsNoPath DEF Onward, FileSystem
      <4>2. b \in Seq(Names) /\ b \notin DOMAIN t
        BY <1>3, <3>3
      <4>3. Append(b, x) \notin DOMAIN t
        BY <4>2, EntriesHaveParents
      <4>4. Append(b, x) \in DOMAIN t2 =>
              Append(b, x) \in M /\ t2[Append(b, x)].kind = "dir"
        BY <1>2, <4>3 DEF Directory
      <4>5. Onward(t2, b, x, g) \in M \cup {Nowhere}
        BY <4>4 DEF Onward
      <4> QED
        BY <4>1, <4>5 DEF Grown
    <3> QED
      BY <2>1, <3>1, <3>2, <3>3 DEF Grown
  <2>4. Append(q, x) \in Seq(Names)
    BY PathEnds
  <2> QED
    BY <2>2, <2>3, <2>4
<1>7. \A q \in Seq(Names) : q \in T
  <2> HIDE DEF T
  <2> QED
    BY <1>5, <1>6, PathInduction
<1> QED
  BY <1>7 DEF M, t2

LEMMA PathsGrow ==
  ASSUME NEW t, FileSystem(t), NEW p \in Seq(Names), ~Blocked(t, p)
  PROVE  \A q \in Seq(Names) :
           Grown(Missing(t, p), RealPath(t, q), RealPath(Made(t, p), q))
<1> DEFINE M == Missing(t, p)
           t2 == Made(t, p)
           Alike(k) == \A q \in Seq(Names) : Grown(M, Follow(t, k)[q], Follow(t2, k)[q])
           T == {k \in 0 .. MaxLinks : Alike(k)}
<1>1. FileSystem(t2) /\ MaxLinks \in Nat
  BY MadeFileSystem, FileSystemsAssumption
<1>2. \A k \in 0 .. MaxLinks :
        /\ Follow(t, k) \in [Seq(Names) -> Landings(t)]
        /\ Reals(t)[k] = [q \in Seq(Names) |-> Along(t, q, Follow(t, k))]
  BY RealsFacts
<1>3. \A k \in 0 .. MaxLinks :
        /\ Follow(t2, k) \in [Seq(Names) -> Landings(t2)]
        /\ Reals(t2)[k] = [q \in Seq(Names) |-> Along(t2, q, Follow(t2, k))]
  BY <1>1, RealsFacts
<1>4. ASSUME NEW k \in 0 .. MaxLinks, Alike(k)
      PROVE  \A q \in Seq(Names) : Grown(M, Along(t, q, Follow(t, k)), Along(t2, q, Follow(t2, k)))
  <2>1. Follow(t, k) \in [Seq(Names) -> Landings(t)]
          /\ Follow(t2, k) \in [Seq(Names) -> Landings(Made(t, p))]
    BY <1>2, <1>3
  <2> QED
    BY <1>4, <2>1, AlongGrows
<1> HIDE DEF M, t2
<1>5. 0 \in T
  <2>1. Alike(0)
    BY DEF Follow, Grown
  <2> QED
    BY <1>1, <2>1
<1>6. \A k \in T : k \in Nat /\ k < MaxLinks => k + 1 \in T
  <2> TAKE k \in T
  <2> HAVE k \in Nat /\ k < MaxLinks
  <2>1. k + 1 \in 0 .. MaxLinks /\ k + 1 # 0 /\ k + 1 - 1 = k /\ k \in 0 .. MaxLinks
    BY <1>1
  <2>2. Follow(t, k + 1) = Reals(t)[k] /\ Follow(t2, k + 1) = Reals(t2)[k]
    BY <2>1 DEF Follow
  <2>3. \A q \in Seq(Names) : Grown(M, Along(t, q, Follow(t, k)), Along(t2, q, Follow(t2, k)))
    BY <1>4, <2>1
  <2>4. \A q \in Seq(Names) :
          /\ Follow(t, k + 1)[q] = Along(t, q, Follow(t, k))
          /\ Follow(t2, k + 1)[q] = Along(t2, q, Follow(t2, k))
    <3>1. /\ Reals(t)[k] = [q \in Seq(Names) |-> Along(t, q, Follow(t, k))]
          /\ Reals(t2)[k] = [q \in Seq(Names) |-> Along(t2, q, Follow(t2, k))]
      BY <1>2, <1>3, <2>1
    <3> QED
      BY <2>2, <3>1
  <2>5. Alike(k + 1)
    BY <2>3, <2>4
  <2> QED
    BY <2>1, <2>5
<1>7. \A k \in 0 .. MaxLinks : k \in T
  <2> HIDE DEF T
  <2> QED
    BY <1>1, <1>5, <1>6, UpTo
<1>8. MaxLinks \in 0 .. MaxLinks
  BY <1>1
<1>9. \A q \in Seq(Names) :
        /\ RealPath(t, q) = Along(t, q, Follow(t, MaxLinks))
        /\ RealPath(t2, q) = Along(t2, q, Follow(t2, MaxLinks))
  BY <1>1, RealsFacts
<1>10. \A q \in Seq(Names) : Grown(M, RealPath(t, q), RealPath(t2, q))
  BY <1>4, <1>7, <1>8, <1>9
<1> QED
  BY <1>10 DEF M, t2

\* The directories made, the path leads to its canonical one.
LEMMA MadePath ==
  ASSUME NEW t, FileSystem(t), NEW p \in Seq(Names), ~Blocked(t, p)
  PROVE  RealPath(Made(t, p), p) = Canonical(t, p) /\ Exists(Made(t, p), p)
<1> DEFINE M == Missing(t, p)
           t2 == Made(t, p)
           T == {q \in Seq(Names) : q \in Ancestors(p) => RealPath(t2, q) = Canonical(t, q)}
<1>1. FileSystem(t2)
  BY MadeFileSystem
<1>2. DOMAIN t2 = DOMAIN t \cup M /\ \A m \in M : t2[m] = Directory
  <2>1. Extended(t, M, t2)
    BY MadeEntries
  <2> QED
    BY <2>1 DEF Extended
<1>3. \A q \in Seq(Names) : Grown(M, RealPath(t, q), RealPath(t2, q))
  BY PathsGrow
<1>4. \A q : q \in M <=> q \in Ancestors(Canonical(t, p)) /\ ~Exists(t, q)
  BY DEF Missing
<1> HIDE DEF M, t2
<1>5. \A q \in Seq(Names) : Exists(t, q) => RealPath(t2, q) = Canonical(t, q)
  BY <1>3, CanonicalFacts DEF Grown, Exists
<1>6. << >> \in T
  <2>1. << >> \in Seq(Names) /\ Exists(t, << >>)
    BY RealPathFacts, NowhereIsNoPath, EmptySeq DEF Exists
  <2> QED
    BY <1>5, <2>1
<1>7. ASSUME NEW q \in Seq(Names), q \in T, NEW x \in Names
      PROVE  Append(q, x) \in T
  <2> DEFINE longer == Append(q, x)
             m == Append(Canonical(t, q), x)
  <2>1. longer \in Seq(Names)
    BY PathEnds
  <2>2. ASSUME longer \in Ancestors(p) PROVE RealPath(t2, longer) = Canonical(t, longer)
    <3>1. CASE Exists(t, longer)
      <4> HIDE DEF longer
      <4> QED
        BY <1>5, <2>1, <3>1
    <3>2. CASE ~Exists(t, longer)
      <4>1. q \in Ancestors(longer)
        <5>1. Ancestors(longer) = Ancestors(q) \cup {longer}
          BY LongerAncestors
        <5>2. q \in Ancestors(q)
          BY AncestorsOf
        <5> HIDE DEF longer
        <5> QED
          BY <5>1, <5>2
      <4>2. q \in Ancestors(p)
        BY <2>2, <4>1, AncestorsNest
      <4>3. RealPath(t2, q) = Canonical(t, q)
        BY <1>7, <4>2
      <4>4. Canonical(t, longer) = m
        BY <3>2, CanonicalFacts
      <4>5. m \in Ancestors(Canonical(t, p)) /\ ~Exists(t, m)
        <5> HIDE DEF longer, m
        <5> QED
          BY <2>1, <2>2, <3>2, <4>4, CanonicalNests, CanonicalReal
      <4>6. m \in DOMAIN t2 /\ t2[m] = Directory
        BY <1>2, <1>4, <4>5
      <4>7. RealPath(t2, longer) = Onward(t2, RealPath(t2, q), x, Follow(t2, MaxLinks))
        BY <1>1, RealPathFacts
      <4>8. Onward(t2, Canonical(t, q), x, Follow(t2, MaxLinks)) = m
        BY <4>6 DEF Onward, Directory
      <4> QED
        BY <4>3, <4>4, <4>7, <4>8
    <3> QED
      BY <3>1, <3>2
  <2> HIDE DEF longer
  <2>3. longer \in T
    BY <2>1, <2>2
  <2> QED
    BY <2>3 DEF longer
<1>8. \A q \in Seq(Names) : q \in T
  <2> HIDE DEF T
  <2> QED
    BY <1>6, <1>7, PathInduction
<1>9. RealPath(t2, p) = Canonical(t, p)
  BY <1>8, AncestorsOf
<1>10. Exists(t2, p)
  BY <1>9, CanonicalFacts, NowhereIsNoPath DEF Exists
<1> QED
  BY <1>9, <1>10 DEF t2

LEMMA LongestIn ==
  ASSUME NEW p \in Seq(Names), NEW S \in SUBSET Ancestors(p), S # {}
  PROVE  Longest(S) \in S
<1> DEFINE Has(X) == \E m \in X : \A q \in X : Len(q) <= Len(m)
           T == {r \in Seq(Names) : \A X \in SUBSET Ancestors(r) : X # {} => Has(X)}
<1>1. << >> \in T
  <2>1. << >> \in Seq(Names) /\ Ancestors(<< >>) = {<< >>} /\ Len(<< >>) <= Len(<< >>)
    BY AncestorsOf, EmptySeq
  <2> QED
    BY <2>1
<1>2. ASSUME NEW r \in Seq(Names), r \in T, NEW x \in Names
      PROVE  Append(r, x) \in T
  <2> DEFINE longer == Append(r, x)
  <2>1. longer \in Seq(Names) /\ Ancestors(longer) = Ancestors(r) \cup {longer}
    BY PathEnds, LongerAncestors
  <2>2. \A q \in Ancestors(longer) : Len(q) <= Len(longer)
    <3>1. \A n \in 0 .. Len(longer) : Len(SubSeq(longer, 1, n)) = n /\ n <= Len(longer)
      BY <2>1, Shortened
    <3> HIDE DEF longer
    <3> QED
      BY <3>1 DEF Ancestors
  <2> HIDE DEF longer
  <2>3. ASSUME NEW X \in SUBSET Ancestors(longer), X # {} PROVE Has(X)
    <3>1. CASE longer \in X
      BY <2>2, <3>1
    <3>2. CASE longer \notin X
      <4>1. X \in SUBSET Ancestors(r)
        BY <2>1, <3>2
      <4> QED
        BY <1>2, <2>3, <4>1
    <3> QED
      BY <3>1, <3>2
  <2>4. longer \in T
    <3> HIDE DEF Has
    <3> QED
      BY <2>1, <2>3
  <2> QED
    BY <2>4 DEF longer
<1>3. \A r \in Seq(Names) : r \in T
  <2> HIDE DEF T
  <2> QED
    BY <1>1, <1>2, PathInduction
<1>4. Has(S)
  BY <1>3
<1> QED
  BY <1>4 DEF Longest

-----------------------------------------------------------------------------
(* The clean target: a safe one stays safe                                 *)

GivenPaths(c) ==
  c.cwd \in Seq(Names) /\ c.output \in Seq(Names) /\ c.input \in Seq(Names)

LEMMA MarkersStay ==
  ASSUME NEW t, FileSystem(t), NEW c, GivenPaths(c), ~Blocked(t, c.output),
         c.marked \subseteq DOMAIN t, NEW q \in Seq(Names)
  PROVE  /\ HasMarker(Made(t, c.output), c, q) <=> HasMarker(t, c, q)
         /\ HasMarker(t, c, q) => RealPath(Made(t, c.output), q) = RealPath(t, q)
<1>1. c.output \in Seq(Names)
  BY DEF GivenPaths
<1>2. Grown(Missing(t, c.output), RealPath(t, q), RealPath(Made(t, c.output), q))
  BY <1>1, PathsGrow
<1>3. \A m \in Missing(t, c.output) : m \notin c.marked
  BY <1>1, MissingFacts
<1>4. Nowhere \notin c.marked
  BY NowhereIsNoPath DEF FileSystem
<1> QED
  BY <1>2, <1>3, <1>4 DEF Grown, HasMarker

LEMMA RootsStay ==
  ASSUME NEW t, FileSystem(t), NEW c, GivenPaths(c), ~Blocked(t, c.output),
         c.marked \subseteq DOMAIN t, NEW start \in Seq(Names)
  PROVE  /\ WorkspaceRoots(Made(t, c.output), c, start) = WorkspaceRoots(t, c, start)
         /\ \A root \in WorkspaceRoots(t, c, start) :
              RealPath(Made(t, c.output), root) = RealPath(t, root)
<1> DEFINE S == {q \in Ancestors(start) : HasMarker(t, c, q)}
           S2 == {q \in Ancestors(start) : HasMarker(Made(t, c.output), c, q)}
<1>1. \A q \in Ancestors(start) : q \in Seq(Names)
  BY AncestorsOf
<1>2. S2 = S
  BY <1>1, MarkersStay
<1>3. WorkspaceRoots(t, c, start) = (IF S = {} THEN {} ELSE {Longest(S)})
  BY DEF WorkspaceRoots
<1>4. WorkspaceRoots(Made(t, c.output), c, start) = (IF S2 = {} THEN {} ELSE {Longest(S2)})
  BY DEF WorkspaceRoots
<1>5. ASSUME NEW root \in WorkspaceRoots(t, c, start)
      PROVE  RealPath(Made(t, c.output), root) = RealPath(t, root)
  <2>1. S # {} /\ root = Longest(S)
    BY <1>3, <1>5
  <2>2. S \in SUBSET Ancestors(start)
    OBVIOUS
  <2>3. root \in S
    <3> HIDE DEF S
    <3> QED
      BY <2>1, <2>2, LongestIn
  <2> QED
    BY <1>1, <2>3, MarkersStay
<1> HIDE DEF S, S2
<1> QED
  BY <1>2, <1>3, <1>4, <1>5

LEMMA LinksStay ==
  ASSUME NEW t, FileSystem(t), NEW c, GivenPaths(c), ~Blocked(t, c.output),
         IsSymbolicLink(Made(t, c.output), c.output)
  PROVE  IsSymbolicLink(t, c.output)
<1> DEFINE p == c.output
           M == Missing(t, p)
           t2 == Made(t, p)
           up2 == RealPath(t2, Front(p))
           here2 == Append(up2, Last(p))
<1>1. p # << >> /\ here2 \in DOMAIN t2 /\ t2[here2].kind = "link"
  BY DEF IsSymbolicLink
<1>2. p \in Seq(Names)
  BY DEF GivenPaths
<1>3. Front(p) \in Seq(Names) /\ Last(p) \in Names
  BY <1>1, <1>2, PathCases
<1>4. Extended(t, M, t2) /\ FileSystem(t2)
  BY <1>2, MadeEntries, MadeFileSystem
<1>5. here2 \notin M
  BY <1>1, <1>4 DEF Extended, Directory
<1>6. here2 \in DOMAIN t /\ t[here2].kind = "link"
  BY <1>1, <1>4, <1>5 DEF Extended
<1>7. Grown(M, RealPath(t, Front(p)), up2)
  BY <1>2, <1>3, PathsGrow
<1>8. up2 \in Landings(t2)
  BY <1>3, <1>4, RealPathFacts
<1>9. up2 # Nowhere
  BY <1>6, NowhereIsNoPath DEF FileSystem
<1>10. up2 \in Seq(Names)
  BY <1>4, <1>8, <1>9, LandingsReal
<1>11. up2 \in DOMAIN t
  BY <1>3, <1>6, <1>10, EntriesHaveParents
<1>12. up2 \notin M
  BY <1>2, <1>11, MissingFacts
<1>13. RealPath(t, Front(p)) = up2
  BY <1>7, <1>9, <1>12 DEF Grown
<1> QED
  BY <1>1, <1>6, <1>13 DEF IsSymbolicLink

\* A file was there before directories were made.
LEMMA FilesStay ==
  ASSUME NEW t, FileSystem(t), NEW p \in Seq(Names), ~Blocked(t, p), NEW q \in Seq(Names),
         HasFile(Made(t, p), q)
  PROVE  Exists(t, q) /\ RealPath(Made(t, p), q) = RealPath(t, q)
<1>1. Grown(Missing(t, p), RealPath(t, q), RealPath(Made(t, p), q))
  BY PathsGrow
<1>2. Exists(Made(t, p), q) /\ Made(t, p)[RealPath(Made(t, p), q)].kind = "file"
  BY DEF HasFile
<1>3. RealPath(Made(t, p), q) \notin Missing(t, p)
  <2>1. Extended(t, Missing(t, p), Made(t, p))
    BY MadeEntries
  <2> QED
    BY <1>2, <2>1 DEF Extended, Directory
<1> QED
  BY <1>1, <1>2, <1>3 DEF Grown, Exists

\* A target that was safe is there and not the root when its directories are
\* made, and still safe, if there is a specification (assertSafeCleanTargetWith).
LEMMA SafeStays ==
  ASSUME NEW t, FileSystem(t), NEW c, GivenPaths(c), ~Blocked(t, c.output),
         c.marked \subseteq DOMAIN t, ~UnsafeCleanTarget(t, c)
  PROVE  /\ Exists(Made(t, c.output), c.output)
         /\ RealPath(Made(t, c.output), c.output) # << >>
         /\ HasFile(Made(t, c.output), c.input) => ~UnsafeCleanTarget(Made(t, c.output), c)
<1> DEFINE p == c.output
           t2 == Made(t, p)
           w == RealPath(t, c.cwd)
           C == Canonical(t, p)
<1>1. p \in Seq(Names) /\ c.cwd \in Seq(Names) /\ c.input \in Seq(Names)
  BY DEF GivenPaths
<1>2. FileSystem(t2)
  BY <1>1, MadeFileSystem
<1>3. RealPath(t2, p) = C /\ Exists(t2, p) /\ C \in Seq(Names)
  BY <1>1, MadePath, CanonicalFacts
<1>4. Canonical(t2, p) = C
  BY <1>1, <1>2, <1>3, CanonicalFacts
<1>5. C # << >>
  BY DEF UnsafeCleanTarget, IsRoot
<1>6. Exists(t, c.cwd)
  BY DEF UnsafeCleanTarget
<1>7. w \in Seq(Names) /\ w # Nowhere
  BY <1>1, <1>6, ExistingPaths
<1>8. RealPath(t2, c.cwd) = w
  <2>1. Grown(Missing(t, p), w, RealPath(t2, c.cwd))
    BY <1>1, PathsGrow
  <2> QED
    BY <1>7, <2>1 DEF Grown
<1>9. \A start \in {c.cwd, w} :
        /\ WorkspaceRoots(t2, c, start) = WorkspaceRoots(t, c, start)
        /\ \A root \in WorkspaceRoots(t, c, start) : RealPath(t2, root) = RealPath(t, root)
  <2> TAKE start \in {c.cwd, w}
  <2>1. start \in Seq(Names)
    BY <1>1, <1>7
  <2> QED
    BY <2>1, RootsStay
<1>10. HasMarker(t2, c, C) <=> HasMarker(t, c, C)
  BY <1>3, MarkersStay
<1>11. IsSymbolicLink(t2, p) => IsSymbolicLink(t, p)
  BY LinksStay
<1>12. ASSUME HasFile(t2, c.input)
       PROVE  Canonical(t2, c.input) = Canonical(t, c.input)
  <2>1. Exists(t, c.input) /\ RealPath(t2, c.input) = RealPath(t, c.input)
    BY <1>1, <1>12, FilesStay
  <2>2. Exists(t2, c.input)
    BY <1>12 DEF HasFile
  <2>3. Canonical(t2, c.input) = RealPath(t2, c.input)
    BY <1>1, <1>2, <2>2, CanonicalFacts
  <2>4. Canonical(t, c.input) = RealPath(t, c.input)
    BY <1>1, <2>1, CanonicalFacts
  <2> QED
    BY <2>1, <2>3, <2>4
<1> HIDE DEF t2
<1>13. ~IsRoot(t2, c) /\ ~IsWorkingDirectory(t2, c) /\ ~HoldsWorkingDirectory(t2, c)
  <2>1. ~IsRoot(t, c) /\ ~IsWorkingDirectory(t, c) /\ ~HoldsWorkingDirectory(t, c)
    BY DEF UnsafeCleanTarget
  <2> QED
    BY <1>4, <1>8, <2>1 DEF IsRoot, IsWorkingDirectory, HoldsWorkingDirectory
<1>14. ~IsWorkspaceRoot(t2, c)
  <2>1. ~IsWorkspaceRoot(t, c)
    BY DEF UnsafeCleanTarget
  <2>2. \A root \in WorkspaceRoots(t2, c, c.cwd) \cup WorkspaceRoots(t2, c, w) :
          /\ root \in WorkspaceRoots(t, c, c.cwd) \cup WorkspaceRoots(t, c, w)
          /\ RealPath(t2, root) = RealPath(t, root)
    BY <1>9
  <2> QED
    BY <1>4, <1>8, <2>1, <2>2 DEF IsWorkspaceRoot
<1>15. ~IsSymbolicLink(t2, p) /\ ~HasMarker(t2, c, C) /\ Exists(t2, c.cwd)
  BY <1>7, <1>8, <1>10, <1>11 DEF UnsafeCleanTarget, Exists
<1>16. ASSUME HasFile(t2, c.input) PROVE ~HoldsInputFile(t2, c)
  <2>1. ~HoldsInputFile(t, c)
    BY DEF UnsafeCleanTarget
  <2> QED
    BY <1>4, <1>12, <1>16, <2>1 DEF HoldsInputFile
<1>17. HasFile(t2, c.input) => ~UnsafeCleanTarget(t2, c)
  BY <1>4, <1>13, <1>14, <1>15, <1>16 DEF UnsafeCleanTarget
<1> QED
  BY <1>3, <1>5, <1>17 DEF t2

LEMMA NoLinkInPlace ==
  ASSUME NEW t, FileSystem(t), NEW p \in DOMAIN t, ~IsSymbolicLink(t, p)
  PROVE  t[p].kind # "link"
<1>1. CASE p = << >>
  BY <1>1 DEF FileSystem
<1>2. CASE p # << >>
  <2>1. p \in Seq(Names)
    BY DEF FileSystem
  <2>2. Front(p) \in Seq(Names) /\ Last(p) \in Names /\ p = Append(Front(p), Last(p))
    BY <1>2, <2>1, PathCases
  <2>3. Front(p) \in Landings(t)
    BY <1>2 DEF FileSystem, Landings
  <2>4. RealPath(t, Front(p)) = Front(p)
    BY <2>2, <2>3, LandingsReal, AncestorsOf, NowhereIsNoPath
  <2> QED
    BY <1>2, <2>2, <2>4 DEF IsSymbolicLink
<1> QED
  BY <1>1, <1>2

\* No file is in the place of the output.
LEMMA NoFileInTheWay ==
  ASSUME NEW t, FileSystem(t), NEW c, GivenPaths(c), ~Blocked(t, c.output),
         ~UnsafeCleanTarget(t, c), c.output \in DOMAIN Made(t, c.output)
  PROVE  Made(t, c.output)[c.output].kind # "file"
<1> DEFINE p == c.output
<1>1. p \in Seq(Names)
  BY DEF GivenPaths
<1>2. Extended(t, Missing(t, p), Made(t, p))
  BY MadeEntries
<1>3. CASE p \in Missing(t, p)
  BY <1>2, <1>3 DEF Extended, Directory
<1>4. CASE p \notin Missing(t, p)
  <2>1. p \in DOMAIN t /\ Made(t, p)[p] = t[p]
    BY <1>2, <1>4 DEF Extended
  <2>2. t[p].kind # "link"
    BY <2>1, NoLinkInPlace DEF UnsafeCleanTarget
  <2>3. p \in Landings(t) /\ p # Nowhere
    BY <1>1, <2>1, <2>2, NowhereIsNoPath DEF Landings
  <2>4. RealPath(t, p) = p /\ Exists(t, p)
    BY <1>1, <2>3, LandingsReal, AncestorsOf
  <2>5. t[p].kind = "dir"
    BY <1>1, <2>4, MissingFacts
  <2> QED
    BY <2>1, <2>5
<1> QED
  BY <1>3, <1>4

\* A link in the place of a directory leaves a file system.
LEMMA ReplacedFileSystem ==
  ASSUME NEW t, FileSystem(t), NEW spot \in DOMAIN t, spot # << >>, NEW to \in DOMAIN t
  PROVE  FileSystem(Replaced(t, spot, to))
<1> DEFINE t2 == Replaced(t, spot, to)
<1>1. DOMAIN t2 = {q \in DOMAIN t : ~IsStrictPrefix(spot, q)}
  BY DEF Replaced
<1>2. \A q \in DOMAIN t2 : t2[q] = IF q = spot THEN LinkTo(to) ELSE t[q]
  BY DEF Replaced
<1> HIDE DEF t2
<1>3. spot \in Seq(Names) /\ to \in Seq(Names)
  BY DEF FileSystem
<1>4. << >> \in DOMAIN t2 /\ t2[<< >>].kind = "dir"
  <2>1. << >> \in Seq(Names) /\ Ancestors(<< >>) = {<< >>}
    BY AncestorsOf, EmptySeq
  <2>2. ~IsStrictPrefix(spot, << >>)
    BY <1>3, <2>1, PrefixIsAncestor DEF IsStrictPrefix
  <2> QED
    BY <1>1, <1>2, <2>2 DEF FileSystem
<1>5. ASSUME NEW q \in DOMAIN t2
      PROVE  /\ q \in Seq(Names) /\ t2[q].to \in Seq(Names)
             /\ t2[q].kind \in {"dir", "file", "link"}
             /\ q # << >> => Front(q) \in DOMAIN t2 /\ t2[Front(q)].kind = "dir"
  <2>1. q \in DOMAIN t /\ q \in Seq(Names) /\ ~IsStrictPrefix(spot, q)
    BY <1>1, <1>5 DEF FileSystem
  <2>2. t2[q].to \in Seq(Names) /\ t2[q].kind \in {"dir", "file", "link"}
    BY <1>2, <1>3, <2>1 DEF FileSystem, LinkTo
  <2>3. ASSUME q # << >> PROVE Front(q) \in DOMAIN t2 /\ t2[Front(q)].kind = "dir"
    <3>1. /\ Front(q) \in Seq(Names) /\ Last(q) \in Names /\ q = Append(Front(q), Last(q))
          /\ Len(Front(q)) = Len(q) - 1
      BY <2>1, <2>3, PathCases
    <3>2. Ancestors(q) = Ancestors(Front(q)) \cup {q}
      <4>1. Ancestors(Append(Front(q), Last(q)))
              = Ancestors(Front(q)) \cup {Append(Front(q), Last(q))}
        BY <3>1, LongerAncestors
      <4> QED
        BY <3>1, <4>1
    <3>3. spot \notin Ancestors(Front(q))
      <4> SUFFICES ASSUME spot \in Ancestors(Front(q)) PROVE FALSE
        OBVIOUS
      <4>1. IsPrefix(spot, q)
        BY <1>3, <2>1, <3>2, PrefixIsAncestor
      <4>2. spot = q
        BY <2>1, <4>1 DEF IsStrictPrefix
      <4>3. PICK n \in 0 .. Len(Front(q)) : spot = SubSeq(Front(q), 1, n)
        BY DEF Ancestors
      <4>4. Len(spot) = n /\ n <= Len(Front(q)) /\ Len(q) \in Nat
        BY <2>1, <3>1, <4>3, Shortened
      <4> QED
        BY <3>1, <4>2, <4>4
    <3>4. ~IsStrictPrefix(spot, Front(q)) /\ spot # Front(q)
      BY <1>3, <3>1, <3>3, PrefixIsAncestor, AncestorsOf DEF IsStrictPrefix
    <3>5. Front(q) \in DOMAIN t /\ t[Front(q)].kind = "dir"
      BY <2>1, <2>3 DEF FileSystem
    <3> QED
      BY <1>1, <1>2, <3>4, <3>5
  <2> QED
    BY <2>1, <2>2, <2>3
<1>6. FileSystem(t2)
  BY <1>4, <1>5 DEF FileSystem
<1> QED
  BY <1>6 DEF t2

-----------------------------------------------------------------------------
(* The clean target: what a clean spares, and what is not refused          *)

LEMMA SafeSpares ==
  ASSUME NEW t, FileSystem(t), NEW c, GivenPaths(c), c.marked \subseteq Seq(Names), c.clean,
         ~UnsafeCleanTarget(t, c),
         c.output \in DOMAIN t => t[c.output].kind # "file"
  PROVE  Spares(t, c, RealPath(t, c.output), Emptied(t, RealPath(t, c.output)))
<1> DEFINE goal == RealPath(t, c.output)
           w == RealPath(t, c.cwd)
           input == RealPath(t, c.input)
<1>1. c.output \in Seq(Names) /\ c.cwd \in Seq(Names) /\ c.input \in Seq(Names)
  BY DEF GivenPaths
<1>2. Exists(t, c.cwd)
  BY DEF UnsafeCleanTarget
<1>3. w \in Seq(Names)
  BY <1>1, <1>2, ExistingPaths
<1>4. c.output \in DOMAIN t => t[c.output].kind = "dir"
  <2>1. ~IsSymbolicLink(t, c.output)
    BY DEF UnsafeCleanTarget
  <2>2. c.output \in DOMAIN t => t[c.output].kind # "link"
    BY <2>1, NoLinkInPlace
  <2>3. c.output \in DOMAIN t => t[c.output].kind \in {"dir", "file", "link"}
    BY DEF FileSystem
  <2> QED
    BY <2>2, <2>3
<1>5. DOMAIN Emptied(t, goal) = {q \in DOMAIN t : ~IsStrictPrefix(goal, q)}
  BY DEF Emptied
<1>6. input # Nowhere => input \in DOMAIN t /\ input \in Seq(Names) /\ Exists(t, c.input)
  BY <1>1, ExistingPaths DEF Exists
<1>7. CASE goal = Nowhere
  <2>1. \A q \in Seq(Names) : ~IsPrefix(goal, q)
    <3> TAKE q \in Seq(Names)
    <3>1. Len(goal) = 1 /\ SubSeq(goal, 1, 1) = goal
      <4>1. <<"nowhere">> \in Seq({"nowhere"}) /\ Len(<<"nowhere">>) = 1
        OBVIOUS
      <4>2. SubSeq(<<"nowhere">>, 1, Len(<<"nowhere">>)) = <<"nowhere">>
        BY <4>1, SubSeqFull
      <4> QED
        BY <1>7, <4>1, <4>2 DEF Nowhere
    <3>2. ASSUME IsPrefix(goal, q) PROVE goal \in Seq(Names)
      <4>1. 1 \in 0 .. Len(q) /\ SubSeq(q, 1, 1) = goal
        BY <3>1, <3>2 DEF IsPrefix
      <4> QED
        BY <4>1, Shortened
    <3> QED
      BY <1>7, <3>2, NowhereIsNoPath
  <2>2. goal \notin {<< >>} \cup c.marked
    BY <1>7, NowhereIsNoPath, EmptySeq
  <2>3. input \in DOMAIN Emptied(t, goal) \cup {Nowhere}
    BY <1>5, <1>6, <2>1 DEF IsStrictPrefix
  <2> QED
    BY <1>3, <1>4, <2>1, <2>2, <2>3 DEF Spares
<1>8. CASE goal # Nowhere
  <2>1. Exists(t, c.output) /\ goal \in Landings(t) /\ goal \in Seq(Names)
    BY <1>1, <1>8, ExistingPaths DEF Exists
  <2>2. Canonical(t, c.output) = goal
    BY <1>1, <2>1, CanonicalFacts
  <2>3. RealPath(t, goal) = goal
    BY <1>8, <2>1, LandingsReal, AncestorsOf
  <2>4. goal \notin {<< >>} \cup c.marked
    <3>1. ~IsRoot(t, c) /\ ~HasMarker(t, c, Canonical(t, c.output))
      BY DEF UnsafeCleanTarget
    <3> QED
      BY <2>2, <2>3, <3>1 DEF IsRoot, HasMarker
  <2>5. ~IsPrefix(goal, w)
    <3>1. ~HoldsWorkingDirectory(t, c)
      BY DEF UnsafeCleanTarget
    <3> QED
      BY <2>2, <3>1 DEF HoldsWorkingDirectory, SameOrDescendant
  <2>6. input # Nowhere => ~IsPrefix(goal, input)
    <3>1. ~HoldsInputFile(t, c)
      BY DEF UnsafeCleanTarget
    <3>2. input # Nowhere => Canonical(t, c.input) = input
      BY <1>1, <1>6, CanonicalFacts
    <3> QED
      BY <2>2, <3>1, <3>2 DEF HoldsInputFile, SameOrDescendant
  <2>7. input \in DOMAIN Emptied(t, goal) \cup {Nowhere}
    BY <1>5, <1>6, <2>6 DEF IsStrictPrefix
  <2> QED
    BY <1>4, <2>4, <2>5, <2>7 DEF Spares
<1> QED
  BY <1>7, <1>8

\* A directory apart from all there is to spare, with no link on the way, is safe.
LEMMA ApartIsSafe ==
  ASSUME NEW t, FileSystem(t), NEW c, GivenPaths(c), c.marked \subseteq Seq(Names),
         Plain(t, c.output), Plain(t, c.cwd), Plain(t, c.input), Exists(t, c.cwd),
         c.output \notin {<< >>} \cup c.marked, ~IsPrefix(c.output, c.cwd),
         ~(c.clean /\ IsPrefix(c.output, c.input))
  PROVE  ~UnsafeCleanTarget(t, c)
<1>1. c.output \in Seq(Names) /\ c.cwd \in Seq(Names) /\ c.input \in Seq(Names)
  BY DEF GivenPaths
<1>2. Canonical(t, c.output) = c.output /\ Canonical(t, c.input) = c.input
  BY <1>1, CanonicalPlain
<1>3. RealPath(t, c.cwd) = c.cwd
  BY <1>1, PlainReal DEF Exists
<1>4. ~IsRoot(t, c) /\ ~HoldsWorkingDirectory(t, c) /\ ~HoldsInputFile(t, c)
  BY <1>2, <1>3 DEF IsRoot, HoldsWorkingDirectory, HoldsInputFile, SameOrDescendant
<1>5. \A q \in Ancestors(c.cwd) : c.output # q
  BY <1>1, PrefixIsAncestor
<1>6. ~IsWorkingDirectory(t, c)
  BY <1>1, <1>2, <1>3, <1>5, AncestorsOf DEF IsWorkingDirectory
<1>7. ~IsWorkspaceRoot(t, c)
  <2> DEFINE S == {q \in Ancestors(c.cwd) : HasMarker(t, c, q)}
  <2>1. WorkspaceRoots(t, c, c.cwd) = (IF S = {} THEN {} ELSE {Longest(S)})
    BY DEF WorkspaceRoots
  <2>2. S # {} => Longest(S) \in S
    <3>1. S \in SUBSET Ancestors(c.cwd)
      OBVIOUS
    <3> HIDE DEF S
    <3> QED
      BY <1>1, <3>1, LongestIn
  <2>3. ASSUME NEW root \in WorkspaceRoots(t, c, c.cwd)
        PROVE  c.output # root /\ c.output # RealPath(t, root)
    <3>1. root \in Ancestors(c.cwd) /\ root \in Seq(Names)
      BY <1>1, <2>1, <2>2, <2>3, AncestorsOf
    <3>2. Plain(t, root)
      BY <1>1, <3>1, AncestorsNest DEF Plain
    <3>3. RealPath(t, root) = root
      BY <1>1, <3>1, <3>2, PlainReal, ExistingPaths DEF Exists
    <3> QED
      BY <1>5, <3>1, <3>3
  <2> QED
    BY <1>2, <1>3, <2>3 DEF IsWorkspaceRoot
<1>8. ~IsSymbolicLink(t, c.output)
  <2>1. Front(c.output) \in Seq(Names) /\ Last(c.output) \in Names
          /\ c.output = Append(Front(c.output), Last(c.output))
    BY <1>1, PathCases
  <2>2. Ancestors(Append(Front(c.output), Last(c.output)))
          = Ancestors(Front(c.output)) \cup {Append(Front(c.output), Last(c.output))}
    BY <2>1, LongerAncestors
  <2>3. Plain(t, Front(c.output))
    BY <2>1, <2>2 DEF Plain
  <2>4. RealPath(t, Front(c.output)) \in {Front(c.output), Nowhere}
    BY <2>1, <2>3, PlainReal
  <2>5. Append(Nowhere, Last(c.output)) \notin DOMAIN t
    BY NowhereIsNoPath DEF FileSystem
  <2>6. c.output \in DOMAIN t => t[c.output].kind # "link"
    BY <1>1, AncestorsOf DEF Plain
  <2> QED
    BY <2>1, <2>4, <2>5, <2>6 DEF IsSymbolicLink
<1>9. ~HasMarker(t, c, Canonical(t, c.output))
  <2>1. RealPath(t, c.output) \in {c.output, Nowhere}
    BY <1>1, PlainReal
  <2> QED
    BY <1>2, <2>1, NowhereIsNoPath DEF HasMarker
<1> QED
  BY <1>4, <1>6, <1>7, <1>8, <1>9 DEF UnsafeCleanTarget

-----------------------------------------------------------------------------
(* The clean target: every generation                                      *)

CleanInv ==
  /\ stage \in {"preflight", "mkdir", "locked", "clean", "done", "failed"}
  /\ GivenPaths(command) /\ command.marked \subseteq Seq(Names)
  /\ stage # "done" => FileSystem(tree) /\ cleaned = NotCleaned
  /\ stage \in {"preflight", "mkdir"} => command.marked \subseteq DOMAIN tree /\ ~swapped
  /\ stage \in {"mkdir", "clean"} => ~UnsafeCleanTarget(tree, command)
  /\ stage = "locked" /\ ~swapped =>
       /\ Exists(tree, command.output) /\ RealPath(tree, command.output) # << >>
       /\ HasFile(tree, command.input) => ~UnsafeCleanTarget(tree, command)
  /\ stage \in {"locked", "clean"} =>
       (command.output \in DOMAIN tree => tree[command.output].kind # "file")
  /\ cleaned # NotCleaned => Spares(cleaned.tree, command, cleaned.target, tree)

LEMMA CleanStart == Init => CleanInv
<1> SUFFICES ASSUME Init PROVE CleanInv
  OBVIOUS
<1>1. /\ stage = "preflight" /\ swapped = FALSE /\ cleaned = NotCleaned
      /\ tree \in Trees /\ command \in Commands(tree)
  <2>1. CASE CleanInit
    BY <2>1 DEF CleanInit
  <2>2. CASE CleanIdle
    <3>1. tree \in Trees
      BY <2>2, FileSystemsAssumption DEF CleanIdle
    <3>2. Commands(tree) # {}
      BY <3>1, FileSystemsAssumption
    <3>3. command \in Commands(tree)
      BY <2>2, <3>2 DEF CleanIdle
    <3> QED
      BY <2>2, <3>1, <3>3 DEF CleanIdle
  <2> QED
    BY <2>1, <2>2 DEF Init
<1>2. FileSystem(tree) /\ GivenPaths(command) /\ command.marked \subseteq DOMAIN tree
  BY <1>1, FileSystemsAssumption DEF GivenPaths
<1>3. command.marked \subseteq Seq(Names)
  BY <1>2 DEF FileSystem
<1> QED
  BY <1>1, <1>2, <1>3 DEF CleanInv

LEMMA CleanStep ==
  ASSUME CleanInv, CleanNext
  PROVE  CleanInv'
<1>1. CASE Preflight
  <2>1. stage = "preflight" /\ stage' = (IF UnsafeCleanTarget(tree, command) THEN "failed" ELSE "mkdir")
          /\ tree' = tree /\ command' = command /\ swapped' = swapped /\ cleaned' = cleaned
    BY <1>1 DEF Preflight
  <2> QED
    BY <2>1 DEF CleanInv
<1>2. CASE MakeOutput
  <2>1. /\ stage = "mkdir" /\ command' = command /\ swapped' = swapped /\ cleaned' = cleaned
        /\ \/ stage' = "failed" /\ tree' = tree
           \/ ~Blocked(tree, command.output) /\ stage' = "locked"
                /\ tree' = Made(tree, command.output)
    BY <1>2 DEF MakeOutput, Made
  <2>2. /\ FileSystem(tree) /\ GivenPaths(command) /\ command.marked \subseteq DOMAIN tree
        /\ ~UnsafeCleanTarget(tree, command) /\ ~swapped /\ cleaned = NotCleaned
    BY <2>1 DEF CleanInv
  <2>3. CASE stage' = "failed" /\ tree' = tree
    BY <2>1, <2>3 DEF CleanInv
  <2>4. CASE ~Blocked(tree, command.output) /\ stage' = "locked"
               /\ tree' = Made(tree, command.output)
    <3>1. command.output \in Seq(Names)
      BY <2>2 DEF GivenPaths
    <3> DEFINE t2 == Made(tree, command.output)
    <3>2. FileSystem(t2)
      BY <2>2, <2>4, <3>1, MadeFileSystem
    <3>3. /\ Exists(t2, command.output) /\ RealPath(t2, command.output) # << >>
          /\ HasFile(t2, command.input) => ~UnsafeCleanTarget(t2, command)
      BY <2>2, <2>4, SafeStays
    <3>4. command.output \in DOMAIN t2 => t2[command.output].kind # "file"
      BY <2>2, <2>4, NoFileInTheWay
    <3> HIDE DEF t2
    <3>5. tree' = t2
      BY <2>4 DEF t2
    <3> QED
      BY <2>1, <2>2, <2>4, <3>2, <3>3, <3>4, <3>5 DEF CleanInv
  <2> QED
    BY <2>1, <2>3, <2>4
<1>3. CASE Swap
  <2>1. stage = "locked" /\ ~swapped /\ swapped' /\ command' = command /\ stage' = stage
          /\ cleaned' = cleaned
    BY <1>3 DEF Swap
  <2> DEFINE spot == RealPath(tree, command.output)
  <2>2. PICK to \in DOMAIN tree : tree' = Replaced(tree, spot, to)
    BY <1>3 DEF Swap
  <2>3. FileSystem(tree) /\ cleaned = NotCleaned /\ spot # << >> /\ Exists(tree, command.output)
          /\ command.output \in Seq(Names)
    BY <2>1 DEF CleanInv, GivenPaths
  <2>4. spot \in DOMAIN tree
    BY <2>3, ExistingPaths
  <2> HIDE DEF spot
  <2>5. FileSystem(Replaced(tree, spot, to))
    BY <2>3, <2>4, ReplacedFileSystem
  <2>6. command.output \in DOMAIN Replaced(tree, spot, to) =>
          Replaced(tree, spot, to)[command.output].kind # "file"
    BY <2>1 DEF CleanInv, Replaced, LinkTo
  <2> QED
    BY <2>1, <2>2, <2>3, <2>5, <2>6 DEF CleanInv
<1>4. CASE Revalidate
  <2>1. stage = "locked" /\ stage' = (IF UnsafeCleanTarget(tree, command) THEN "failed" ELSE "clean")
          /\ tree' = tree /\ command' = command /\ swapped' = swapped /\ cleaned' = cleaned
    BY <1>4 DEF Revalidate
  <2> QED
    BY <2>1 DEF CleanInv
<1>5. CASE Clean
  <2>1. stage = "clean" /\ stage' = "done" /\ command' = command /\ swapped' = swapped
    BY <1>5 DEF Clean
  <2>2. CASE ~command.clean
    <3>1. tree' = tree /\ cleaned' = cleaned
      BY <1>5, <2>2 DEF Clean
    <3> QED
      BY <2>1, <3>1 DEF CleanInv
  <2>3. CASE command.clean
    <3> DEFINE goal == RealPath(tree, command.output)
    <3>1. cleaned' = [tree |-> tree, target |-> goal] /\ tree' = Emptied(tree, goal)
      BY <1>5, <2>3 DEF Clean
    <3>2. Spares(tree, command, goal, Emptied(tree, goal))
      BY <2>1, <2>3, SafeSpares DEF CleanInv
    <3>3. Spares(cleaned'.tree, command', cleaned'.target, tree')
      BY <2>1, <3>1, <3>2
    <3> QED
      BY <2>1, <3>3 DEF CleanInv
  <2> QED
    BY <2>2, <2>3
<1> QED
  BY <1>1, <1>2, <1>3, <1>4, <1>5 DEF CleanNext

\* Cleaning never takes away the directory the command runs in, a workspace, the
\* root or the specification, nor goes through a link that took the output's place;
\* a safe target stays safe when its directories are made; and a directory apart
\* from all of those is not refused.  This holds on every file system, however deep
\* its directories and however its links chain, wherever the paths lead and the
\* markers are (assertSafeCleanTargetWith, prepareLockedOutput,
\* cleanOutputDirPreservingLock).
THEOREM CleanSpares == Spec => []CleanSparesTheWorkspace
<1>1. CleanInv /\ [Next]_vars => CleanInv'
  <2> SUFFICES ASSUME CleanInv, [Next]_vars PROVE CleanInv'
    OBVIOUS
  <2>1. CASE CleanNext
    BY <2>1, CleanStep
  <2>2. CASE UNCHANGED cleanVars
    BY <2>2 DEF CleanInv, cleanVars
  <2> QED
    BY <2>1, <2>2 DEF Next, InitCommand, AddPluginCommand, GenerateCommand, vars
<1>2. CleanInv => CleanSparesTheWorkspace
  <2> SUFFICES ASSUME CleanInv PROVE CleanSparesTheWorkspace
    OBVIOUS
  <2>1. ASSUME stage = "preflight", UnsafeCleanTarget(tree, command)
        PROVE  \/ \E path \in {command.output, command.cwd, command.input} :
                     ~Plain(tree, path)
               \/ ~Exists(tree, command.cwd)
               \/ command.output \in {<< >>} \cup command.marked
               \/ IsPrefix(command.output, command.cwd)
               \/ command.clean /\ IsPrefix(command.output, command.input)
    <3>1. FileSystem(tree) /\ GivenPaths(command) /\ command.marked \subseteq Seq(Names)
      BY <2>1 DEF CleanInv
    <3> QED
      BY <2>1, <3>1, ApartIsSafe
  <2> QED
    BY <2>1 DEF CleanInv, CleanSparesTheWorkspace
<1> QED
  BY <1>1, <1>2, CleanStart, PTL DEF Spec
=============================================================================
