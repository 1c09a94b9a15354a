------------------------------ MODULE Firmware ------------------------------
(***************************************************************************)
(* The firmware-image assembly of extract-firmware-nouveau (main.rs):     *)
(* main() runs the booter, bootloader and scrubber assemblers over a list *)
(* of targets, in order, and stops at the first error; then it optionally *)
(* writes WHENCE.txt.  Every read of a source array (get_bytes), every    *)
(* open, write_all and sync_all of an output file is a step.  The program *)
(* may be killed between any two steps and may be run again over the     *)
(* same output directory ("Overwriting files in ..."), up to MaxRuns runs.*)
(*                                                                         *)
(* A file is the set of its intact placed segments, its write cursor and  *)
(* its size.  A segment is a u32 word written by to_le_bytes or a blob of *)
(* bytes copied from a source array, placed at a byte offset and tagged   *)
(* with the field it holds and the run that wrote it.  A write at the     *)
(* cursor destroys every segment it overlaps; the files are opened with   *)
(* write(true).create(true) and no truncate(true), so an open keeps the   *)
(* old segments and the old size.  A get_bytes call is abstracted to its  *)
(* outcomes (an error, or a byte string of some length); module GetBytes  *)
(* models the scan itself.                                                 *)
(***************************************************************************)
EXTENDS ContainerFormat, Naturals, Sequences, FiniteSets

CONSTANTS
    Targets,        \* the booters, bootloaders, scrubber tables of main()
    Versions,       \* version strings a run may use (-r or version.mk)
    VersionLen,     \* the length of each version string
    ImageLens,      \* lengths get_bytes may return for an image array
    SigLens,        \* ... for a signature array
    DescLens,       \* ... for a bootloader descriptor array
    PatchLocs,      \* u32 values a 4-byte patch_loc array may decode to
    MetaVals,       \* u32 values a patch_meta word may decode to
    IoFaults,       \* whether mkdir/open/write/sync may fail
    OverflowChecks, \* whether the build panics on u32 overflow
    MaxRuns         \* how many times the tool is run

Kinds == {"booter", "bootloader", "scrubber"}

ASSUME TargetsAssumption ==
    /\ Targets \in Seq([kind : Kinds, sigsize : Nat \ {0}])
    /\ Len(Targets) >= 1

(* Image and descriptor lengths are at least 1: a zero-length blob has no  *)
(* bytes to read back, which the segment abstraction cannot place.        *)
ASSUME InputsAssumption ==
    /\ VersionLen \in [Versions -> Nat \ {0}]
    /\ ImageLens \subseteq Nat \ {0}
    /\ SigLens \subseteq Nat
    /\ DescLens \subseteq Nat \ {0}
    /\ PatchLocs \subseteq U32 /\ MetaVals \subseteq U32
    /\ IoFaults \in BOOLEAN /\ OverflowChecks \in BOOLEAN
    /\ MaxRuns \in Nat \ {0}

NoFile == [t |-> "nofile"]
Running == -1          \* the process has not exited
Killed == 137           \* killed by a signal (128 + SIGKILL)

Idx == 1 .. Len(Targets)
Signed(i) == Targets[i].kind \in {"booter", "scrubber"}

(* Output files: one per target and version (booter_load-<v>.bin, ...).   *)
Paths == Idx \X Versions

WordFields == {"bin", "hs", "patchLoc", "patchSig", "fuse", "engine", "ucode", "numSigs"}
BlobFields == {"image", "sigs", "desc", "whence"}

Seg == [t : {"word", "blob"}, f : WordFields \cup BlobFields, v : U32,
        n : Nat, g : Nat, at : Nat]
File == [segs : SUBSET Seg, pos : Nat, size : Nat, gen : Nat]

Word32(f, v, g, at) == [t |-> "word", f |-> f, v |-> v, n |-> 4, g |-> g, at |-> at]
Blob(f, n, g, at) == [t |-> "blob", f |-> f, v |-> 0, n |-> n, g |-> g, at |-> at]

(* The length of the WHENCE.txt text for a version string of length l:    *)
(* 1423 fixed bytes and 26 occurrences of the version.                     *)
WhenceLen(l) == 1423 + 26 * l

Steps == {"start", "mkdir", "image", "sigs", "patchloc", "patchmeta", "open",
          "binhdr", "hshdr", "sigwrite", "patchwrite", "desc", "descwrite",
          "imagewrite", "sync", "whence", "whencewrite", "whencesync", "done"}

(* The steps at which main() is at or inside the loop over Targets[tgt].  *)
TargetSteps == Steps \ {"whence", "whencewrite", "whencesync", "done"}

ErrKinds == {"none", "startup", "io", "source", "sigcount", "overflow"}

Ext == [image : Nat, sigs : Nat, numSigs : U32, patchLoc : U32,
        meta : [1 .. 3 -> U32], desc : Nat]
NoExt == [image |-> 0, sigs |-> 0, numSigs |-> 0, patchLoc |-> 0,
          meta |-> <<0, 0, 0>>, desc |-> 0]

VARIABLES
    fs,         \* Paths -> File \cup {NoFile}
    whence,     \* WHENCE.txt: File \cup {NoFile}
    run,        \* the number of the current run
    version,    \* the version of the current run
    wantWhence, \* the -w flag of the current run
    tgt,        \* index of the target being assembled
    pc,         \* the step of the current target
    ext,        \* what the current assembler has read so far
    exit,       \* Running, Killed, or the process exit code
    err         \* the kind of the error that ended the run

vars == <<fs, whence, run, version, wantWhence, tgt, pc, ext, exit, err>>

-----------------------------------------------------------------------------
(* Files.                                                                  *)
MaxOf(a, b) == IF a >= b THEN a ELSE b

(* A write of len bytes at the cursor that adds the segments new.          *)
Overlaps(x, pos, len) == x.at < pos + len /\ pos < x.at + x.n
Put(file, new, len) ==
    [file EXCEPT !.segs = {x \in @ : ~Overlaps(x, file.pos, len)} \cup new,
                 !.pos  = @ + len,
                 !.size = MaxOf(@, file.pos + len)]

(* write_all of a buffer of u32 words, each to_le_bytes, tagged f.         *)
PutWords(file, f, ws) ==
    Put(file, {Word32(f, ws[k], file.gen, file.pos + 4 * (k - 1)) : k \in 1 .. Len(ws)},
        4 * Len(ws))

PutBlob(file, f, n) == Put(file, {Blob(f, n, file.gen, file.pos)}, n)

(* OpenOptions::new().write(true).create(true).open: the cursor goes to 0, *)
(* the old contents and size stay.                                         *)
Reopen(file, g) ==
    IF file = NoFile THEN [segs |-> {}, pos |-> 0, size |-> 0, gen |-> g]
                     ELSE [file EXCEPT !.pos = 0, !.gen = g]

(* LittleEndian::read_u32 at byte off of the file, for a word of field f  *)
(* written by the file's last open; -1 if the bytes there are not that.   *)
ReadU32(file, off, f) ==
    IF \E x \in file.segs : x.at = off /\ x.t = "word" /\ x.f = f /\ x.g = file.gen
    THEN (CHOOSE x \in file.segs : x.at = off /\ x.t = "word" /\ x.f = f /\ x.g = file.gen).v
    ELSE -1

IsBlob(file, off, f, len) ==
    \E x \in file.segs : x.at = off /\ x.t = "blob" /\ x.f = f
                         /\ x.g = file.gen /\ AsU32(x.n) = len

-----------------------------------------------------------------------------
Path == <<tgt, version>>
Sig == Targets[tgt].sigsize

(* Every `?` of main.rs: the assembler returns Err, main prints it and    *)
(* returns ExitCode 1.                                                     *)
Fail(e) ==
    /\ exit' = 1
    /\ err' = e
    /\ UNCHANGED <<fs, whence, run, version, wantWhence, tgt, pc, ext>>

Goto(s) == pc' = s

Init ==
    /\ fs = [p \in Paths |-> NoFile]
    /\ whence = NoFile
    /\ run = 1
    /\ version \in Versions
    /\ wantWhence \in BOOLEAN
    /\ tgt = 1
    /\ pc = "start"
    /\ ext = NoExt
    /\ exit = Running
    /\ err = "none"

(* main(): chdir to -i, version.mk present, version found, create_dir of  *)
(* nvidia/ (AlreadyExists is accepted).  Their failures exit 2 or 1.       *)
Startup ==
    /\ exit = Running /\ pc = "start"
    /\ \/ /\ Goto("mkdir")
          /\ UNCHANGED <<fs, whence, run, version, wantWhence, tgt, ext, exit, err>>
       \/ /\ IoFaults
          /\ exit' \in {1, 2}
          /\ err' = "startup"
          /\ UNCHANGED <<fs, whence, run, version, wantWhence, tgt, pc, ext>>

(* fs::create_dir_all(<gpu>/gsp) at the start of every assembler.          *)
MkDir ==
    /\ exit = Running /\ pc = "mkdir"
    /\ \/ /\ Goto("image")
          /\ UNCHANGED <<fs, whence, run, version, wantWhence, tgt, ext, exit, err>>
       \/ IoFaults /\ Fail("io")
(* get_bytes(image array): Err when the array is missing, its size does   *)
(* not match or it does not decompress; else bytes of some length.         *)
ExtractImage ==
    /\ exit = Running /\ pc = "image"
    /\ \/ Fail("source")
       \/ \E n \in ImageLens :
            /\ ext' = [NoExt EXCEPT !.image = n]
            /\ Goto(IF Signed(tgt) THEN "sigs" ELSE "desc")
            /\ UNCHANGED <<fs, whence, run, version, wantWhence, tgt, exit, err>>

(* get_bytes(sig array), then: the size must be a multiple of sigsize and *)
(* hold at least one signature.                                            *)
ExtractSigs ==
    /\ exit = Running /\ pc = "sigs"
    /\ \/ Fail("source")
       \/ \E n \in SigLens :
            LET size == AsU32(n) IN
            \/ size % Sig # 0 /\ Fail("sigcount")
            \/ size % Sig = 0 /\ size \div Sig < 1 /\ Fail("sigcount")
            \/ /\ size % Sig = 0 /\ size \div Sig >= 1
               /\ ext' = [ext EXCEPT !.sigs = n, !.numSigs = size \div Sig]
               /\ Goto("patchloc")
               /\ UNCHANGED <<fs, whence, run, version, wantWhence, tgt, exit, err>>

(* get_bytes(patch_loc array, Some(4)) and LittleEndian::read_u32.         *)
ExtractPatchLoc ==
    /\ exit = Running /\ pc = "patchloc"
    /\ \/ Fail("source")
       \/ \E v \in PatchLocs :
            /\ ext' = [ext EXCEPT !.patchLoc = v]
            /\ Goto("patchmeta")
            /\ UNCHANGED <<fs, whence, run, version, wantWhence, tgt, exit, err>>

(* get_bytes(patch_meta array, Some(12)), read as three u32 words.        *)
ExtractPatchMeta ==
    /\ exit = Running /\ pc = "patchmeta"
    /\ \/ Fail("source")
       \/ \E m \in [1 .. 3 -> MetaVals] :
            /\ ext' = [ext EXCEPT !.meta = m]
            /\ Goto("open")
            /\ UNCHANGED <<fs, whence, run, version, wantWhence, tgt, exit, err>>

(* get_bytes(descriptor array): any length for a bootloader, Some(36) for *)
(* a booter or scrubber.                                                   *)
ExtractDesc ==
    /\ exit = Running /\ pc = "desc"
    /\ \/ Fail("source")
       \/ \E n \in IF Signed(tgt) THEN {36} ELSE DescLens :
            /\ ext' = [ext EXCEPT !.desc = n]
            /\ Goto(IF Signed(tgt) THEN "descwrite" ELSE "open")
            /\ UNCHANGED <<fs, whence, run, version, wantWhence, tgt, exit, err>>

(* Open the output file (no truncation).                                   *)
Open ==
    /\ exit = Running /\ pc = "open"
    /\ \/ /\ fs' = [fs EXCEPT ![Path] = Reopen(@, run)]
          /\ Goto("binhdr")
          /\ UNCHANGED <<whence, run, version, wantWhence, tgt, ext, exit, err>>
       \/ IoFaults /\ Fail("io")

(* One write_all of the current file; it may fail (nothing is added).      *)
WriteThen(f, ws, next) ==
    \/ /\ fs' = [fs EXCEPT ![Path] = PutWords(@, f, ws)]
       /\ Goto(next)
       /\ UNCHANGED <<whence, run, version, wantWhence, tgt, ext, exit, err>>
    \/ IoFaults /\ Fail("io")

WriteBlobThen(f, n, next) ==
    \/ /\ fs' = [fs EXCEPT ![Path] = PutBlob(@, f, n)]
       /\ Goto(next)
       /\ UNCHANGED <<whence, run, version, wantWhence, tgt, ext, exit, err>>
    \/ IoFaults /\ Fail("io")

(* The nvfw_bin_hdr.  Signed: total = round_up(120 + sigs + image, 256),  *)
(* payload at 120 + sigs.  Bootloader: total = round_up(24 + image + desc, *)
(* 256), payload at 24 + desc.  A u32 overflow panics (exit 101) in a     *)
(* checked build and wraps in a release build.                             *)
(* Mutant of SignedSums: the payload offset forgets the 4 words of the    *)
(* bin header's tail (116 instead of 120).                                 *)
SignedSumsBadOffset ==
    LET sig == AsU32(ext.sigs)
        fw  == AsU32(ext.image)
        s1  == Add(116, sig)
        s2  == Add(s1, fw)
    IN  [total |-> RoundUpToBase(s2, 256), offset |-> s1, size |-> fw,
         overflow |-> AddOverflows(116, sig) \/ AddOverflows(s1, fw)
                      \/ RoundUpOverflows(s2, 256)]

SignedSums ==
    LET sig == AsU32(ext.sigs)
        fw  == AsU32(ext.image)
        s1  == Add(120, sig)
        s2  == Add(s1, fw)
    IN  [total |-> RoundUpToBase(s2, 256), offset |-> s1, size |-> fw,
         overflow |-> AddOverflows(120, sig) \/ AddOverflows(s1, fw)
                      \/ RoundUpOverflows(s2, 256)]

PlainSums ==
    LET fw   == AsU32(ext.image)
        desc == AsU32(ext.desc)
        s1   == Add(24, fw)
        s2   == Add(s1, desc)
    IN  [total |-> RoundUpToBase(s2, 256), offset |-> Add(24, desc), size |-> fw,
         overflow |-> AddOverflows(24, fw) \/ AddOverflows(s1, desc)
                      \/ RoundUpOverflows(s2, 256) \/ AddOverflows(24, desc)]

(* Mutant of WriteBinHdr: the sums wrap even in a checked build.           *)
WriteBinHdrUnchecked ==
    /\ exit = Running /\ pc = "binhdr"
    /\ LET h == IF Signed(tgt) THEN SignedSums ELSE PlainSums IN
       WriteThen("bin", BinHdr(h.total, h.offset, h.size),
                 IF Signed(tgt) THEN "hshdr" ELSE "descwrite")

WriteBinHdr ==
    /\ exit = Running /\ pc = "binhdr"
    /\ LET h == IF Signed(tgt) THEN SignedSums ELSE PlainSums IN
       \/ /\ OverflowChecks /\ h.overflow
          /\ exit' = 101
          /\ err' = "overflow"
          /\ UNCHANGED <<fs, whence, run, version, wantWhence, tgt, pc, ext>>
       \/ /\ ~(OverflowChecks /\ h.overflow)
          /\ WriteThen("bin", BinHdr(h.total, h.offset, h.size),
                       IF Signed(tgt) THEN "hshdr" ELSE "descwrite")

(* The nvfw_hs_header_v2 for the signature block.                          *)
WriteHsHdr ==
    /\ exit = Running /\ pc = "hshdr"
    /\ WriteThen("hs", HsHdrV2(AsU32(ext.sigs)), "sigwrite")

WriteSigs ==
    /\ exit = Running /\ pc = "sigwrite"
    /\ WriteBlobThen("sigs", ext.sigs, "patchwrite")

(* patch_loc, patch_sig (0), fuse_ver, engine_id, ucode_id, num_sigs: one *)
(* write_all of six u32 words.                                             *)
PatchTags == <<"patchLoc", "patchSig", "fuse", "engine", "ucode", "numSigs">>
PatchWords == <<ext.patchLoc, 0, ext.meta[1], ext.meta[2], ext.meta[3], ext.numSigs>>

WritePatchMeta ==
    /\ exit = Running /\ pc = "patchwrite"
    /\ \/ /\ fs' = [fs EXCEPT ![Path] =
                      Put(@, {Word32(PatchTags[k], PatchWords[k], @.gen, @.pos + 4 * (k - 1)) :
                              k \in 1 .. 6}, 24)]
          /\ Goto("desc")
          /\ UNCHANGED <<whence, run, version, wantWhence, tgt, ext, exit, err>>
       \/ IoFaults /\ Fail("io")

WriteDesc ==
    /\ exit = Running /\ pc = "descwrite"
    /\ WriteBlobThen("desc", ext.desc, "imagewrite")

WriteImage ==
    /\ exit = Running /\ pc = "imagewrite"
    /\ WriteBlobThen("image", ext.image, "sync")

(* Mutant of Sync: the loop over the targets runs one past the end.       *)
SyncOffByOne ==
    /\ exit = Running /\ pc = "sync"
    /\ \/ /\ tgt' = tgt + 1
          /\ Goto(IF tgt <= Len(Targets) THEN "mkdir"
                  ELSE IF wantWhence THEN "whence" ELSE "done")
          /\ ext' = NoExt
          /\ UNCHANGED <<fs, whence, run, version, wantWhence, exit, err>>
       \/ IoFaults /\ Fail("io")

(* sync_all; the assembler returns Ok and main goes on with the next     *)
(* target, or, after the last, with WHENCE.txt when -w was given.         *)
Sync ==
    /\ exit = Running /\ pc = "sync"
    /\ \/ /\ tgt' = tgt + 1
          /\ Goto(IF tgt < Len(Targets) THEN "mkdir"
                  ELSE IF wantWhence THEN "whence" ELSE "done")
          /\ ext' = NoExt
          /\ UNCHANGED <<fs, whence, run, version, wantWhence, exit, err>>
       \/ IoFaults /\ Fail("io")

(* whence(): open WHENCE.txt (no truncation), write the text, sync.        *)
OpenWhence ==
    /\ exit = Running /\ pc = "whence"
    /\ \/ /\ whence' = Reopen(whence, run)
          /\ Goto("whencewrite")
          /\ UNCHANGED <<fs, run, version, wantWhence, tgt, ext, exit, err>>
       \/ IoFaults /\ Fail("io")

WriteWhence ==
    /\ exit = Running /\ pc = "whencewrite"
    /\ \/ /\ whence' = PutBlob(whence, "whence", WhenceLen(VersionLen[version]))
          /\ Goto("whencesync")
          /\ UNCHANGED <<fs, run, version, wantWhence, tgt, ext, exit, err>>
       \/ IoFaults /\ Fail("io")

SyncWhence ==
    /\ exit = Running /\ pc = "whencesync"
    /\ \/ /\ Goto("done")
          /\ UNCHANGED <<fs, whence, run, version, wantWhence, tgt, ext, exit, err>>
       \/ IoFaults /\ Fail("io")

(* ExitCode::SUCCESS.                                                      *)
Finish ==
    /\ exit = Running /\ pc = "done"
    /\ exit' = 0
    /\ UNCHANGED <<fs, whence, run, version, wantWhence, tgt, pc, ext, err>>

(* The process is killed between two steps.                                *)
Kill ==
    /\ exit = Running
    /\ exit' = Killed
    /\ UNCHANGED <<fs, whence, run, version, wantWhence, tgt, pc, ext, err>>

(* The tool is run again over the same output directory.                   *)
Rerun ==
    /\ exit # Running /\ run < MaxRuns
    /\ run' = run + 1
    /\ version' \in Versions
    /\ wantWhence' \in BOOLEAN
    /\ tgt' = 1
    /\ pc' = "start"
    /\ ext' = NoExt
    /\ exit' = Running
    /\ err' = "none"
    /\ UNCHANGED <<fs, whence>>

(* The last run has ended.                                                 *)
Stopped ==
    /\ exit # Running /\ run = MaxRuns
    /\ UNCHANGED vars

Next ==
    \/ Startup \/ MkDir
    \/ ExtractImage \/ ExtractSigs \/ ExtractPatchLoc \/ ExtractPatchMeta
    \/ ExtractDesc \/ Open
    \/ WriteBinHdr \/ WriteHsHdr \/ WriteSigs \/ WritePatchMeta
    \/ WriteDesc \/ WriteImage \/ Sync
    \/ OpenWhence \/ WriteWhence \/ SyncWhence \/ Finish
    \/ Kill \/ Rerun \/ Stopped

Spec == Init /\ [][Next]_vars

-----------------------------------------------------------------------------
(* Type correctness.                                                       *)
TypeOK ==
    /\ fs \in [Paths -> File \cup {NoFile}]
    /\ whence \in File \cup {NoFile}
    /\ run \in 1 .. MaxRuns
    /\ version \in Versions
    /\ wantWhence \in BOOLEAN
    /\ tgt \in 1 .. Len(Targets) + 1
    /\ pc \in Steps
    /\ pc \in TargetSteps => tgt \in Idx
    /\ ext \in Ext
    /\ exit \in {Running, Killed, 0, 1, 2, 101}
    /\ err \in ErrKinds

(* The steps that write the current output file, and the step after the   *)
(* last write; they come after its open.  A signed target reads its        *)
(* descriptor after the open, a bootloader before it.                      *)
WriteSteps == {"binhdr", "hshdr", "sigwrite", "patchwrite", "descwrite",
               "imagewrite", "sync"}

(* The file written at a write step has been opened: what strengthens     *)
(* TypeOK to an inductive invariant.                                       *)
Opened ==
    /\ pc \in WriteSteps \/ (pc = "desc" /\ Signed(tgt)) => fs[Path] \in File
    /\ pc = "whencewrite" => whence \in File
-----------------------------------------------------------------------------
(* Reading an output file back the way the driver does, through its own   *)
(* headers.                                                                *)
Hdr(file, off) == ReadU32(file, off, "bin")
Hs(file, off) == ReadU32(file, off, "hs")

(* nvfw_bin_hdr: magic, version, header offset, and the image at the       *)
(* payload offset with the payload size.                                   *)
BinOK(file) ==
    /\ Hdr(file, 0) = BinMagic /\ Hdr(file, 4) = 1 /\ Hdr(file, 12) = 24
    /\ IsBlob(file, Hdr(file, BinPayloadOff), "image", Hdr(file, BinSizeOff))

(* total_size is a multiple of 256 that covers the payload.                *)
TotalOK(file) ==
    /\ Hdr(file, BinTotalOff) % 256 = 0
    /\ Hdr(file, BinTotalOff) >= Hdr(file, BinPayloadOff) + Hdr(file, BinSizeOff)

(* Bootloader: the descriptor fills the bytes between header and payload. *)
PlainOK(file) ==
    /\ Hdr(file, BinPayloadOff) > 24
    /\ IsBlob(file, 24, "desc", Hdr(file, BinPayloadOff) - 24)

(* Booter and scrubber: every offset of nvfw_hs_header_v2 locates its      *)
(* field, and num_sigs signatures of sigsize bytes fill the sig block.     *)
SignedOK(file, sigsize) ==
    LET meta == Hs(file, HsMetaOff)
        nsig == ReadU32(file, Hs(file, HsNumSigOff), "numSigs")
    IN  /\ Hs(file, HsSigOff) = 60
        /\ IsBlob(file, 60, "sigs", Hs(file, HsSigSizeOff))
        /\ ReadU32(file, Hs(file, HsPatchLocOff), "patchLoc") >= 0
        /\ ReadU32(file, Hs(file, HsPatchSigOff), "patchSig") = 0
        /\ Hs(file, HsMetaSizeOff) = 12
        /\ ReadU32(file, meta, "fuse") >= 0
        /\ ReadU32(file, meta + 4, "engine") >= 0
        /\ ReadU32(file, meta + 8, "ucode") >= 0
        /\ nsig >= 1 /\ nsig * sigsize = Hs(file, HsSigSizeOff)
        /\ Hs(file, HsHeaderSizeOff) = 36
        /\ IsBlob(file, Hs(file, HsHeaderOff), "desc", 36)

Done(i) == i < tgt
FileOf(i) == fs[<<i, version>>]

(* Every image this run has finished (the assembler returned Ok) is a     *)
(* file written by this run that reads back through its own headers: the  *)
(* bin header locates the image, the hs header locates signatures, patch  *)
(* words and descriptor.  It is about the write order and the offset      *)
(* arithmetic of bootloader(), booter() and scrubber(), and about reruns  *)
(* over old files that are opened without truncation.                     *)
ImagesSound ==
    \A i \in Idx : Done(i) =>
        /\ FileOf(i) # NoFile
        /\ FileOf(i).gen = run
        /\ BinOK(FileOf(i)) /\ TotalOK(FileOf(i))
        /\ IF Signed(i) THEN SignedOK(FileOf(i), Targets[i].sigsize)
                        ELSE PlainOK(FileOf(i))

(* Spec section 8: total_size is a multiple of 256 and at least           *)
(* payload_offset + payload_size, for every finished image.  It is about  *)
(* the u32 sums of round_up_to_base in booter() and bootloader().         *)
TotalSizeSound ==
    \A i \in Idx : Done(i) => TotalOK(FileOf(i))

(* Spec section 3: an output file is created fresh on every run, never    *)
(* appended to: a finished image or WHENCE.txt is exactly as long as what *)
(* this run wrote.  It is about OpenOptions without truncate(true).       *)
NoStaleTail ==
    /\ \A i \in Idx : Done(i) => FileOf(i).size = FileOf(i).pos
    /\ pc = "done" /\ wantWhence => whence.size = whence.pos

(* Spec section 4.4: when an assembly is aborted by a missing or malformed *)
(* source array, no file is left with a valid-looking header written by   *)
(* this run.  It is about booter() reading the descriptor array after it  *)
(* has written the headers.                                                *)
NoHeaderAfterSourceError ==
    err = "source" /\ fs[Path] # NoFile /\ fs[Path].gen = run
        => Hdr(fs[Path], 0) # BinMagic
=============================================================================
