---------------------------- MODULE SymlinksProofs ----------------------------
(***************************************************************************)
(* Proofs about Symlinks for every pair of tables, every set of versions  *)
(* and every starting directory: the walk keeps the links it has checked  *)
(* or made in place, so a run that exits 0 leaves the whole farm in       *)
(* place, and a failure on an existing entry is never on a link the tool  *)
(* made itself.                                                            *)
(***************************************************************************)
EXTENDS Symlinks, TLAPS

(* The tables give each symlink() call a directory, a link and an         *)
(* original of the sets the directory state ranges over.                  *)
LEMMA JobType ==
    ASSUME NEW v \in Versions, NEW j \in Jobs
    PROVE  /\ Job(v, j).dir \in DirPaths
           /\ Job(v, j).link \in LinkPaths
           /\ Job(v, j).original \in Originals
BY DEF DirPaths, LinkPaths, Originals

(* A link path is asked for with one original only, whichever version and *)
(* whichever call ask for it: the tables name each source once.           *)
LEMMA LinkDeterminesOriginal ==
    ASSUME NEW v \in Versions, NEW w \in Versions, NEW i \in Jobs, NEW j \in Jobs,
           Job(v, i).link = Job(w, j).link
    PROVE  Job(v, i).original = Job(w, j).original
<1>a. NDir \in Nat /\ i \in 1 .. NJobs /\ j \in 1 .. NJobs
  BY SymlinksAssumption DEF Jobs, NJobs, NDir
<1>1. CASE i <= NDir /\ j <= NDir
  <2>1. DirJob(i).link = DirJob(j).link
    BY <1>1 DEF Job
  <2>2. DirLinks[i][1] = DirLinks[j][1]
    BY <2>1 DEF DirJob
  <2>3. i = j
    BY <1>1, <1>a, <2>2, TablesAssumption DEF NDir
  <2>. QED  BY <1>1, <2>3 DEF Job, DirJob
<1>2. CASE i > NDir /\ j > NDir
  <2> DEFINE a == i - NDir  b == j - NDir
  <2>1. a \in 1 .. Len(FileLinks) /\ b \in 1 .. Len(FileLinks)
    BY <1>2, <1>a DEF NJobs, NDir
  <2>2. FileJob(v, a).link = FileJob(w, b).link
    BY <1>2, <1>a DEF Job
  <2>3. FileLinks[a][1] = FileLinks[b][1] /\ FileLinks[a][3] = FileLinks[b][3] /\ v = w
    BY <2>2 DEF FileJob
  <2>4. a = b
    BY <2>1, <2>3, TablesAssumption
  <2>5. FileJob(v, a).original = FileJob(w, b).original
    BY <2>3, <2>4 DEF FileJob
  <2>. QED  BY <1>2, <1>a, <2>5 DEF Job
<1>3. CASE i <= NDir /\ j > NDir
  <2>1. DirJob(i).link = FileJob(w, j - NDir).link
    BY <1>3, <1>a DEF Job
  <2>. QED  BY <2>1 DEF DirJob, FileJob
<1>4. CASE i > NDir /\ j <= NDir
  <2>1. FileJob(v, i - NDir).link = DirJob(j).link
    BY <1>4, <1>a DEF Job
  <2>. QED  BY <2>1 DEF DirJob, FileJob
<1>. QED  BY <1>a, <1>1, <1>2, <1>3, <1>4
-----------------------------------------------------------------------------
(* Every link the tool made still points where the call that made it     *)
(* asked.                                                                  *)
MadeCorrect ==
    \A p \in made : \E v \in Versions, j \in Jobs :
        Job(v, j).link = p /\ fs[p] = LinkTo(Job(v, j).original)

(* Where the walk is: the calls before k have left their link in place,   *)
(* and an error on an existing entry is on a link the tool did not make.  *)
Walk ==
    /\ pc = "chdir" => k = 1
    /\ pc \in {"mkdir", "link"} => k \in Jobs
    /\ pc = "done" => k = NJobs + 1
    /\ exit = 0 => pc = "done"
    /\ exit \in {Running, 0} => \A j \in 1 .. k - 1 : InPlace(version, j)
    /\ err \in {"wrong", "broken"} =>
           exit = 1 /\ pc = "link" /\ Job(version, k).link \notin made

IInv == TypeOK /\ MadeCorrect /\ Walk

(* Creating an entry where there was none leaves every link as it was.     *)
LEMMA KeepLinks ==
    ASSUME TypeOK, NEW p \in AllPaths, fs[p] = Absent, NEW e,
           fs' = [fs EXCEPT ![p] = e],
           NEW q \in AllPaths, fs[q].kind = "link"
    PROVE  fs'[q] = fs[q]
BY DEF TypeOK, Absent

(* The tables are not empty, so the walk has a first call.                 *)
LEMMA FirstJob == 1 \in Jobs /\ NJobs \in Nat /\ NDir \in Nat
BY SymlinksAssumption DEF Jobs, NJobs, NDir

LEMMA InitIInv == Init => IInv
BY SymlinksAssumption, FirstJob
DEF Init, IInv, TypeOK, MadeCorrect, Walk, ErrKinds, Running

(* A `?` that ends the run changes only the exit code and the error.       *)
LEMMA FailIInv ==
    ASSUME IInv, NEW e \in ErrKinds \ {"wrong", "broken"}, Fail(e)
    PROVE  IInv'
BY DEF IInv, TypeOK, MadeCorrect, Walk, Fail, InPlace, ErrKinds, Running

LEMMA ChDirIInv ==
    ASSUME IInv, ChDir
    PROVE  IInv'
<1>1. CASE pc' = "mkdir" /\ UNCHANGED <<fs, run, version, k, exit, err, made>>
  BY <1>1, FirstJob DEF ChDir, IInv, TypeOK, MadeCorrect, Walk, InPlace
<1>2. CASE Fail("chdir")
  BY <1>2, FailIInv DEF ErrKinds
<1>. QED  BY <1>1, <1>2 DEF ChDir

LEMMA MkDirIInv ==
    ASSUME IInv, MkDir
    PROVE  IInv'
<1> DEFINE d == Job(version, k).dir
<1>a. k \in Jobs /\ d \in AllPaths /\ pc = "mkdir" /\ exit = Running
  BY JobType DEF MkDir, IInv, TypeOK, Walk, AllPaths
<1>1. CASE fs[d] = Dir /\ pc' = "link" /\ UNCHANGED <<fs, run, version, k, exit, err, made>>
  BY <1>1, <1>a DEF IInv, TypeOK, MadeCorrect, Walk, InPlace
<1>2. CASE fs[d] = Absent /\ fs' = [fs EXCEPT ![d] = Dir] /\ pc' = "link"
           /\ UNCHANGED <<run, version, k, exit, err, made>>
  <2>1. TypeOK'
    BY <1>2, <1>a DEF IInv, TypeOK, Entry
  <2>2. MadeCorrect'
    <3> SUFFICES ASSUME NEW p \in made
                 PROVE  \E v \in Versions, j \in Jobs :
                            Job(v, j).link = p /\ fs'[p] = LinkTo(Job(v, j).original)
      BY <1>2 DEF MadeCorrect
    <3>1. PICK v \in Versions, j \in Jobs : Job(v, j).link = p /\ fs[p] = LinkTo(Job(v, j).original)
      BY DEF IInv, MadeCorrect
    <3>2. p \in AllPaths /\ fs[p].kind = "link"
      BY <3>1, JobType DEF AllPaths, LinkTo
    <3>3. fs'[p] = fs[p]
      BY <1>2, <1>a, <3>2, KeepLinks DEF IInv
    <3>. QED  BY <3>1, <3>3
  <2>3. Walk'
    <3>1. ASSUME NEW j \in 1 .. k - 1, InPlace(version, j)
          PROVE  InPlace(version, j)'
      <4>1. j \in Jobs
        BY <1>a, FirstJob DEF Jobs
      <4>2. Job(version, j).link \in AllPaths /\ fs[Job(version, j).link].kind = "link"
        BY <3>1, <4>1, JobType DEF IInv, TypeOK, AllPaths, InPlace, LinkTo
      <4>. QED  BY <1>2, <1>a, <3>1, <4>2, KeepLinks DEF IInv, InPlace
    <3>. QED  BY <1>2, <1>a, <3>1 DEF IInv, Walk, Running
  <2>. QED  BY <2>1, <2>2, <2>3 DEF IInv
<1>3. CASE Fail("mkdir")
  BY <1>3, FailIInv DEF ErrKinds
<1>. QED  BY <1>1, <1>2, <1>3 DEF MkDir

(* The walk moves to the next call with every call up to this one in place. *)
LEMMA AdvanceWalk ==
    ASSUME IInv, pc = "link", exit = Running, Advance,
           \A j \in 1 .. k : InPlace(version, j)',
           UNCHANGED <<run, version, exit, err>>
    PROVE  Walk'
<1>a. k \in Jobs /\ NJobs \in Nat /\ err \notin {"wrong", "broken"}
  BY FirstJob DEF IInv, TypeOK, Walk, Jobs, Running
<1>1. \A j \in 1 .. k' - 1 : InPlace(version, j)'
  BY <1>a DEF Advance, Jobs
<1>2. (pc \in {"mkdir", "link"} => k \in Jobs)'
  BY <1>a DEF Advance, Jobs
<1>3. (pc = "done" => k = NJobs + 1)'
  BY <1>a DEF Advance, Jobs
<1>. QED  BY <1>a, <1>1, <1>2, <1>3 DEF Walk, Advance, Running

LEMMA SymLinkIInv ==
    ASSUME IInv, SymLink
    PROVE  IInv'
<1> DEFINE o == Job(version, k).original
           l == Job(version, k).link
<1>a. /\ k \in Jobs /\ pc = "link" /\ exit = Running
      /\ l \in AllPaths /\ l \in LinkPaths /\ o \in Originals
  BY JobType DEF SymLink, IInv, TypeOK, Walk, AllPaths
<1>b. ASSUME l \in made PROVE fs[l] = LinkTo(o)
  <2>1. PICK v \in Versions, j \in Jobs : Job(v, j).link = l /\ fs[l] = LinkTo(Job(v, j).original)
    BY <1>b DEF IInv, MadeCorrect
  <2>2. Job(v, j).original = o
    BY <1>a, <2>1, LinkDeterminesOriginal DEF IInv, TypeOK
  <2>. QED  BY <2>1, <2>2
<1>1. CASE fs[l] = LinkTo(o) /\ Advance /\ UNCHANGED <<fs, run, version, exit, err, made>>
  <2>1. TypeOK'
    BY <1>1, <1>a, FirstJob DEF IInv, TypeOK, Advance, Jobs
  <2>2. MadeCorrect'
    BY <1>1 DEF IInv, MadeCorrect
  <2>3. \A j \in 1 .. k : InPlace(version, j)'
    <3> SUFFICES ASSUME NEW j \in 1 .. k PROVE InPlace(version, j)'
      OBVIOUS
    <3>1. CASE j = k
      BY <1>1, <3>1 DEF InPlace
    <3>2. CASE j \in 1 .. k - 1
      BY <1>1, <1>a, <3>2 DEF IInv, Walk, InPlace, Running
    <3>. QED  BY <1>a, <3>1, <3>2, FirstJob DEF Jobs
  <2>4. Walk'
    BY <1>1, <1>a, <2>3, AdvanceWalk
  <2>. QED  BY <2>1, <2>2, <2>4 DEF IInv
<1>2. CASE fs[l].kind = "link" /\ fs[l] # LinkTo(o) /\ Fail("wrong")
  <2>1. l \notin made
    BY <1>2, <1>b
  <2>. QED  BY <1>2, <1>a, <2>1 DEF IInv, TypeOK, MadeCorrect, Walk, Fail, InPlace,
                                     ErrKinds, Running
<1>3. CASE /\ fs[l] = Absent
           /\ fs' = [fs EXCEPT ![l] = LinkTo(o)]
           /\ made' = made \cup {l}
           /\ Advance
           /\ UNCHANGED <<run, version, exit, err>>
  <2>1. TypeOK'
    BY <1>3, <1>a, FirstJob DEF IInv, TypeOK, Advance, Jobs, Entry
  <2>2. MadeCorrect'
    <3> SUFFICES ASSUME NEW p \in made'
                 PROVE  \E v \in Versions, j \in Jobs :
                            Job(v, j).link = p /\ fs'[p] = LinkTo(Job(v, j).original)
      BY DEF MadeCorrect
    <3>1. CASE p = l
      BY <1>3, <1>a, <3>1 DEF IInv, TypeOK
    <3>2. CASE p \in made
      <4>1. PICK v \in Versions, j \in Jobs :
                  Job(v, j).link = p /\ fs[p] = LinkTo(Job(v, j).original)
        BY <3>2 DEF IInv, MadeCorrect
      <4>2. p \in AllPaths /\ fs[p].kind = "link"
        BY <4>1, JobType DEF AllPaths, LinkTo
      <4>3. fs'[p] = fs[p]
        BY <1>3, <1>a, <4>2, KeepLinks DEF IInv
      <4>. QED  BY <4>1, <4>3
    <3>. QED  BY <1>3, <3>1, <3>2
  <2>3. \A j \in 1 .. k : InPlace(version, j)'
    <3> SUFFICES ASSUME NEW j \in 1 .. k PROVE InPlace(version, j)'
      OBVIOUS
    <3>1. CASE j = k
      BY <1>3, <1>a, <3>1 DEF IInv, TypeOK, InPlace
    <3>2. CASE j \in 1 .. k - 1
      <4>1. j \in Jobs /\ InPlace(version, j)
        BY <1>a, <3>2, FirstJob DEF IInv, Walk, Jobs, Running
      <4>2. Job(version, j).link \in AllPaths /\ fs[Job(version, j).link].kind = "link"
        BY <4>1, JobType DEF IInv, TypeOK, AllPaths, InPlace, LinkTo
      <4>. QED  BY <1>3, <1>a, <4>1, <4>2, KeepLinks DEF IInv, InPlace
    <3>. QED  BY <1>a, <3>1, <3>2, FirstJob DEF Jobs
  <2>5. Walk'
    BY <1>3, <1>a, <2>3, AdvanceWalk
  <2>. QED  BY <2>1, <2>2, <2>5 DEF IInv
<1>4. CASE Fail("io")
  BY <1>4, FailIInv DEF ErrKinds
<1>5. CASE fs[l] \in {Dir, RegFile} /\ Fail("broken")
  <2>1. l \notin made
    BY <1>5, <1>b DEF Dir, RegFile, LinkTo
  <2>. QED  BY <1>5, <1>a, <2>1 DEF IInv, TypeOK, MadeCorrect, Walk, Fail, InPlace,
                                     ErrKinds, Running
<1>. QED  BY <1>1, <1>2, <1>3, <1>4, <1>5 DEF SymLink

LEMMA FinishIInv ==
    ASSUME IInv, Finish
    PROVE  IInv'
BY DEF Finish, IInv, TypeOK, MadeCorrect, Walk, InPlace, Running

LEMMA KillIInv ==
    ASSUME IInv, Kill
    PROVE  IInv'
BY DEF Kill, IInv, TypeOK, MadeCorrect, Walk, InPlace, Running, Killed

LEMMA RerunIInv ==
    ASSUME IInv, Rerun
    PROVE  IInv'
<1>1. TypeOK'
  BY FirstJob, SymlinksAssumption DEF Rerun, IInv, TypeOK, ErrKinds, Running
<1>2. MadeCorrect'
  BY DEF Rerun, IInv, MadeCorrect
<1>3. Walk'
  BY DEF Rerun, Walk, Running
<1>. QED  BY <1>1, <1>2, <1>3 DEF IInv

(* IInv is an inductive invariant of Symlinks.                             *)
LEMMA NextIInv == IInv /\ [Next]_vars => IInv'
<1> SUFFICES ASSUME IInv, [Next]_vars PROVE IInv'
  OBVIOUS
<1>1. CASE ChDir    BY <1>1, ChDirIInv
<1>2. CASE MkDir    BY <1>2, MkDirIInv
<1>3. CASE SymLink  BY <1>3, SymLinkIInv
<1>4. CASE Finish   BY <1>4, FinishIInv
<1>5. CASE Kill     BY <1>5, KillIInv
<1>6. CASE Rerun    BY <1>6, RerunIInv
<1>7. CASE Stopped \/ UNCHANGED vars
  BY <1>7 DEF Stopped, vars, IInv, TypeOK, MadeCorrect, Walk, InPlace
<1>. QED  BY <1>1, <1>2, <1>3, <1>4, <1>5, <1>6, <1>7 DEF Next

LEMMA AlwaysIInv == Spec => []IInv
BY InitIInv, NextIInv, PTL DEF Spec

(* Every state of -s runs, kills and reruns is well typed.                 *)
THEOREM SymlinksTypeCorrect == Spec => []TypeOK
BY AlwaysIInv, PTL DEF IInv

(* For every pair of tables, set of versions and starting directory, a   *)
(* run of -s that exits 0 leaves every link of both loops, for its        *)
(* version, pointing at its original (symlink() keeps a link only when it *)
(* equals the original, and the walk reaches the end of both loops).      *)
THEOREM FarmInPlace == Spec => []LinksInPlace
<1>1. IInv => LinksInPlace
  <2> SUFFICES ASSUME IInv, exit = 0, NEW j \in Jobs PROVE InPlace(version, j)
    BY DEF LinksInPlace
  <2>1. pc = "done" /\ k = NJobs + 1
    BY DEF IInv, Walk
  <2>. QED  BY <2>1, FirstJob DEF IInv, Walk, Jobs, Running
<1>. QED  BY <1>1, AlwaysIInv, PTL

(* For every pair of tables in which each source is named once, "points  *)
(* to wrong item" and "is broken" are only ever reported on entries the   *)
(* tool did not make itself, whatever versions the reruns use.            *)
THEOREM FarmIdempotent == Spec => []NoSelfConflict
<1>1. IInv => NoSelfConflict
  BY DEF IInv, Walk, NoSelfConflict
<1>. QED  BY <1>1, AlwaysIInv, PTL
====
