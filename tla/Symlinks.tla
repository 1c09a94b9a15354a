------------------------------- MODULE Symlinks -------------------------------
(***************************************************************************)
(* symlinks(output, version) and symlink(original, link) of main.rs: the  *)
(* -s option.  After the firmware files are written, main chdirs into the *)
(* output directory and walks two tables: for each (source, dest) it      *)
(* creates the directory `source` and links source/gsp -> ../dest/gsp;    *)
(* for each (source, dest, kind) it creates source/gsp and links          *)
(* source/gsp/kind-version.bin -> ../../dest/gsp/kind-version.bin.        *)
(* symlink() reads the link first: a link already pointing at the         *)
(* original is kept, a link pointing elsewhere is an error, a missing     *)
(* entry is created, and any other entry is an error.  The first error    *)
(* ends the walk and main exits with 1.                                   *)
(*                                                                         *)
(* A path is the sequence of its components.  The directory holds, at     *)
(* each path the walk touches, nothing, a directory, a regular file, or a *)
(* symlink with its target.  The tool is run again over the same output  *)
(* directory, with any version, and may be killed between two steps.      *)
(***************************************************************************)
EXTENDS Integers, Sequences

CONSTANTS
    DirLinks,   \* the first table of symlinks(): <<source, dest>> pairs
    FileLinks,  \* the second table: <<source, dest, kind>> triples
    Versions,   \* the version strings the tool may be run with
    InitFs,     \* the states the output directory may be in before -s
    IoFaults,   \* whether chdir, create_dir_all and symlink may fail
    MaxRuns     \* how many times the tool is run over the directory

NDir == Len(DirLinks)
NJobs == Len(DirLinks) + Len(FileLinks)
Jobs == 1 .. NJobs

(* Loop 1 of symlinks(): create_dir_all(source), then                     *)
(* symlink("../dest/gsp", "source/gsp").                                  *)
DirJob(j) ==
    [dir      |-> <<DirLinks[j][1]>>,
     link     |-> <<DirLinks[j][1], "gsp">>,
     original |-> <<"..", DirLinks[j][2], "gsp">>]

(* Loop 2: create_dir_all("source/gsp"), then                              *)
(* symlink("../../dest/gsp/kind-version.bin",                               *)
(*         "source/gsp/kind-version.bin").                                  *)
FileJob(v, j) ==
    LET f == FileLinks[j] IN
    [dir      |-> <<f[1], "gsp">>,
     link     |-> <<f[1], "gsp", <<f[3], v>>>>,
     original |-> <<"..", "..", f[2], "gsp", <<f[3], v>>>>]

(* Mutant of Job: the link name of loop 2 leaves out the version, while  *)
(* its target keeps it ("{path}/{kind}.bin").                               *)
JobLinkWithoutVersion(v, j) ==
    IF j <= NDir THEN DirJob(j)
    ELSE LET f == FileLinks[j - NDir] IN
         [dir      |-> <<f[1], "gsp">>,
          link     |-> <<f[1], "gsp", <<f[3], "">>>>,
          original |-> <<"..", "..", f[2], "gsp", <<f[3], v>>>>]

(* The j-th symlink() call of a run with this version: the two loops one  *)
(* after the other.                                                        *)
Job(v, j) == IF j <= NDir THEN DirJob(j) ELSE FileJob(v, j - NDir)

DirPaths == {Job(v, j).dir : v \in Versions, j \in Jobs}
LinkPaths == {Job(v, j).link : v \in Versions, j \in Jobs}
AllPaths == DirPaths \cup LinkPaths
Originals == {Job(v, j).original : v \in Versions, j \in Jobs}

(* A symlink that some other hand made, pointing outside the farm.         *)
Elsewhere == <<"elsewhere">>
Absent == [kind |-> "absent", to |-> <<>>]
Dir == [kind |-> "dir", to |-> <<>>]
RegFile == [kind |-> "file", to |-> <<>>]
LinkTo(o) == [kind |-> "link", to |-> o]
Entry == {Absent, Dir, RegFile} \cup {LinkTo(o) : o \in Originals \cup {Elsewhere}}

ASSUME SymlinksAssumption ==
    /\ DirLinks \in Seq(Seq(STRING)) /\ FileLinks \in Seq(Seq(STRING))
    /\ DirLinks # <<>>
    /\ \A j \in 1 .. NDir : Len(DirLinks[j]) = 2
    /\ \A j \in 1 .. Len(FileLinks) : Len(FileLinks[j]) = 3
    /\ InitFs \subseteq [AllPaths -> Entry]
    /\ InitFs # {}
    /\ Versions # {}
    /\ IoFaults \in BOOLEAN
    /\ MaxRuns \in Nat \ {0}

(* Each table names a source (with a kind, in the second) once, so that   *)
(* no link path is asked for with two different originals.                 *)
ASSUME TablesAssumption ==
    /\ \A i, j \in 1 .. NDir : DirLinks[i][1] = DirLinks[j][1] => i = j
    /\ \A i, j \in 1 .. Len(FileLinks) :
           FileLinks[i][1] = FileLinks[j][1] /\ FileLinks[i][3] = FileLinks[j][3] => i = j

(* The "Link:" lines of the text whence() writes to WHENCE.txt, as        *)
(* <<link, original>> pairs relative to nvidia/.                           *)
WhenceLinks(v) ==
    LET D(s, d) == <<<<s, "gsp">>, <<"..", d, "gsp">>>>
        F(s, d, kind) == <<<<s, "gsp", <<kind, v>>>>, <<"..", "..", d, "gsp", <<kind, v>>>>>>
    IN  { D("tu104", "tu102"), D("tu106", "tu102"),
          F("tu116", "tu102", "bootloader"), D("tu117", "tu116"),
          D("ad103", "ad102"), D("ad104", "ad102"), D("ad106", "ad102"), D("ad107", "ad102"),
          D("ga103", "ga102"), D("ga104", "ga102"), D("ga106", "ga102"), D("ga107", "ga102"),
          F("tu116", "tu102", "gsp"), F("ga100", "tu102", "gsp"), F("ad102", "ga102", "gsp") }

Running == -1
Killed == 137
ErrKinds == {"none", "chdir", "mkdir", "io", "wrong", "broken"}

VARIABLES
    fs,         \* the entry at each path the walk touches
    run,        \* which run of the tool this is
    version,    \* its version
    k,          \* the symlink() call the walk is at
    pc,         \* "chdir", "mkdir", "link", "done"
    exit,       \* Running, or the exit code
    err,        \* the error that ended the run
    made        \* the link paths the tool itself has created (history)

vars == <<fs, run, version, k, pc, exit, err, made>>

-----------------------------------------------------------------------------
Fail(e) ==
    /\ exit' = 1
    /\ err' = e
    /\ UNCHANGED <<fs, run, version, k, pc, made>>

Init ==
    /\ fs \in InitFs
    /\ run = 1
    /\ version \in Versions
    /\ k = 1
    /\ pc = "chdir"
    /\ exit = Running
    /\ err = "none"
    /\ made = {}

(* env::set_current_dir(output).                                           *)
ChDir ==
    /\ exit = Running /\ pc = "chdir"
    /\ \/ /\ pc' = "mkdir"
          /\ UNCHANGED <<fs, run, version, k, exit, err, made>>
       \/ IoFaults /\ Fail("chdir")

(* fs::create_dir_all of the job's directory: nothing to do for a         *)
(* directory, created when absent (or an I/O error), an error on a file.   *)
MkDir ==
    /\ exit = Running /\ pc = "mkdir"
    /\ LET d == Job(version, k).dir IN
       \/ /\ fs[d] = Dir
          /\ pc' = "link"
          /\ UNCHANGED <<fs, run, version, k, exit, err, made>>
       \/ /\ fs[d] = Absent
          /\ fs' = [fs EXCEPT ![d] = Dir]
          /\ pc' = "link"
          /\ UNCHANGED <<run, version, k, exit, err, made>>
       \/ fs[d] = Absent /\ IoFaults /\ Fail("mkdir")
       \/ fs[d] = RegFile /\ Fail("mkdir")

(* The walk goes on with the next call, or returns Ok after the last.      *)
Advance ==
    /\ k' = k + 1
    /\ pc' = IF k < NJobs THEN "mkdir" ELSE "done"

(* Mutant of SymLink: the `if o == original` guard is dropped, so any     *)
(* existing link is taken as correct.                                      *)
SymLinkAcceptsAnyLink ==
    /\ exit = Running /\ pc = "link"
    /\ LET o == Job(version, k).original
           l == Job(version, k).link IN
       \/ /\ fs[l].kind = "link"
          /\ Advance
          /\ UNCHANGED <<fs, run, version, exit, err, made>>
       \/ /\ fs[l] = Absent
          /\ fs' = [fs EXCEPT ![l] = LinkTo(o)]
          /\ made' = made \cup {l}
          /\ Advance
          /\ UNCHANGED <<run, version, exit, err>>
       \/ fs[l] = Absent /\ IoFaults /\ Fail("io")
       \/ fs[l] \in {Dir, RegFile} /\ Fail("broken")

(* Mutant of SymLink: unix::fs::symlink(&link, &original), the arguments  *)
(* swapped, so the new link is made at the original's path.               *)
SymLinkSwapped ==
    /\ exit = Running /\ pc = "link"
    /\ LET o == Job(version, k).original
           l == Job(version, k).link IN
       \/ /\ fs[l] = LinkTo(o)
          /\ Advance
          /\ UNCHANGED <<fs, run, version, exit, err, made>>
       \/ /\ fs[l].kind = "link" /\ fs[l] # LinkTo(o)
          /\ Fail("wrong")
       \/ /\ fs[l] = Absent
          /\ fs' = [p \in DOMAIN fs \cup {o} |-> IF p = o THEN LinkTo(l) ELSE fs[p]]
          /\ made' = made \cup {o}
          /\ Advance
          /\ UNCHANGED <<run, version, exit, err>>
       \/ fs[l] = Absent /\ IoFaults /\ Fail("io")
       \/ fs[l] \in {Dir, RegFile} /\ Fail("broken")

(* symlink(original, link): match fs::read_link(link).                     *)
SymLink ==
    /\ exit = Running /\ pc = "link"
    /\ LET o == Job(version, k).original
           l == Job(version, k).link IN
       \/ /\ fs[l] = LinkTo(o)
          /\ Advance
          /\ UNCHANGED <<fs, run, version, exit, err, made>>
       \/ /\ fs[l].kind = "link" /\ fs[l] # LinkTo(o)
          /\ Fail("wrong")
       \/ /\ fs[l] = Absent
          /\ fs' = [fs EXCEPT ![l] = LinkTo(o)]
          /\ made' = made \cup {l}
          /\ Advance
          /\ UNCHANGED <<run, version, exit, err>>
       \/ fs[l] = Absent /\ IoFaults /\ Fail("io")
       \/ fs[l] \in {Dir, RegFile} /\ Fail("broken")

(* symlinks returned Ok: main returns ExitCode::SUCCESS.                    *)
Finish ==
    /\ exit = Running /\ pc = "done"
    /\ exit' = 0
    /\ UNCHANGED <<fs, run, version, k, pc, err, made>>

(* The process is killed between two steps.                                *)
Kill ==
    /\ exit = Running
    /\ exit' = Killed
    /\ UNCHANGED <<fs, run, version, k, pc, err, made>>

(* The tool is run again with -s over the same output directory.           *)
Rerun ==
    /\ exit # Running /\ run < MaxRuns
    /\ run' = run + 1
    /\ version' \in Versions
    /\ k' = 1
    /\ pc' = "chdir"
    /\ exit' = Running
    /\ err' = "none"
    /\ UNCHANGED <<fs, made>>

(* The last run has ended.                                                 *)
Stopped ==
    /\ exit # Running /\ run = MaxRuns
    /\ UNCHANGED vars

Next == ChDir \/ MkDir \/ SymLink \/ Finish \/ Kill \/ Rerun \/ Stopped

Spec == Init /\ [][Next]_vars

-----------------------------------------------------------------------------
TypeOK ==
    /\ fs \in [AllPaths -> Entry]
    /\ run \in 1 .. MaxRuns
    /\ version \in Versions
    /\ k \in 1 .. NJobs + 1
    /\ pc \in {"chdir", "mkdir", "link", "done"}
    /\ exit \in {Running, 0, 1, Killed}
    /\ err \in ErrKinds
    /\ made \subseteq LinkPaths

InPlace(v, j) == fs[Job(v, j).link] = LinkTo(Job(v, j).original)

(* A run of -s that exits 0 leaves every link of both tables, for its     *)
(* version, pointing at its original, whatever earlier runs, kills and    *)
(* failures left in the directory.  It is about symlink() accepting an    *)
(* existing link only when it equals the original, and about the walk    *)
(* reaching the end of both loops before Ok.                              *)
LinksInPlace ==
    exit = 0 => \A j \in Jobs : InPlace(version, j)

(* A rerun never fails on a link the tool made itself: "points to wrong   *)
(* item" and "is broken" are only reported for entries some other hand    *)
(* put there.  It is about the link names and targets of both loops      *)
(* agreeing across versions and runs, so that the farm is idempotent.     *)
NoSelfConflict ==
    err \in {"wrong", "broken"} => Job(version, k).link \notin made

(* symlinks() "mirrors what the WHENCE file in linux-firmware does", and   *)
(* whence() writes that file: a run of -s that exits 0 has made exactly    *)
(* the links WHENCE.txt lists, with the same targets.  It is about the two *)
(* tables of symlinks() against the Link: lines of whence().               *)
FarmMatchesWhence ==
    exit = 0 =>
        {<<Job(version, j).link, Job(version, j).original>> : j \in Jobs} = WhenceLinks(version)
=============================================================================
