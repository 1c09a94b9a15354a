------------------------ MODULE FirmwareImagesProofs ------------------------
(***************************************************************************)
(* ImagesSound for every instance of the constants: in a build with       *)
(* overflow checks, every image the current run has finished reads back   *)
(* through its own headers, however earlier runs, kills and failures left *)
(* the output directory.                                                   *)
(*                                                                         *)
(* ImagesSound is not inductive: the step that finishes a target (Sync)   *)
(* must know what the run has written to the file so far.  The            *)
(* strengthening says, at each write step, exactly which segments of the  *)
(* current generation the open file holds and where its cursor is; that   *)
(* older segments carry an older generation; and what the extract steps   *)
(* have read.                                                              *)
(***************************************************************************)
EXTENDS FirmwareProofs

(* The segments of a file written since its last open.                     *)
Cur(file) == {x \in file.segs : x.g = file.gen}

(* The output file of the current target has been opened in this run.     *)
IsOpen == pc \in WriteSteps \/ (pc = "desc" /\ Signed(tgt))

H == IF Signed(tgt) THEN SignedSums ELSE PlainSums

(* What each write_all of the current assembler adds, at its offset.      *)
BinSegs == {Word32("bin", BinHdr(H.total, H.offset, H.size)[k], run, 4 * (k - 1)) :
            k \in 1 .. 6}
HsSegs == {Word32("hs", HsHdrV2(AsU32(ext.sigs))[k], run, 24 + 4 * (k - 1)) :
           k \in 1 .. 9}
SigsSeg == Blob("sigs", ext.sigs, run, 60)
PatchSegs == {Word32(PatchTags[k], PatchWords[k], run, 60 + ext.sigs + 4 * (k - 1)) :
              k \in 1 .. 6}

(* Everything before the descriptor, and where the descriptor goes.        *)
HeadSegs == IF Signed(tgt) THEN BinSegs \cup HsSegs \cup {SigsSeg} \cup PatchSegs
                           ELSE BinSegs
DescAt == IF Signed(tgt) THEN 84 + ext.sigs ELSE 24
ImageAt == DescAt + ext.desc
DescSeg == Blob("desc", ext.desc, run, DescAt)
ImageSeg == Blob("image", ext.image, run, ImageAt)

(* The current file holds exactly the segments of the writes done so far  *)
(* in this run, and its cursor is after the last of them.                  *)
Holds(segs, pos) == Cur(fs[Path]) = segs /\ fs[Path].pos = pos

Written ==
    /\ pc = "binhdr" => Holds({}, 0)
    /\ pc = "hshdr" => Holds(BinSegs, 24)
    /\ pc = "sigwrite" => Holds(BinSegs \cup HsSegs, 60)
    /\ pc = "patchwrite" => Holds(BinSegs \cup HsSegs \cup {SigsSeg}, 60 + ext.sigs)
    /\ IsOpen /\ pc \in {"desc", "descwrite"} => Holds(HeadSegs, DescAt)
    /\ pc = "imagewrite" => Holds(HeadSegs \cup {DescSeg}, ImageAt)
    /\ pc = "sync" => Holds(HeadSegs \cup {DescSeg, ImageSeg}, ImageAt + ext.image)

(* The open file carries this run's generation, and none of its segments  *)
(* of that generation reaches past the cursor.                             *)
Bounded ==
    IsOpen => /\ fs[Path].gen = run
              /\ \A x \in Cur(fs[Path]) : x.at + x.n <= fs[Path].pos

(* Every file's segments are of its generation or older, and only the     *)
(* files this run has opened carry its generation.                         *)
Generations ==
    \A p \in Paths : fs[p] # NoFile =>
        /\ fs[p].gen <= run
        /\ \A x \in fs[p].segs : x.g <= fs[p].gen
        /\ fs[p].gen = run => p[2] = version /\ (p[1] < tgt \/ (p[1] = tgt /\ IsOpen))

(* What the extract steps have read, from the step after each read on.    *)
AfterImage == {"sigs", "patchloc", "patchmeta", "open", "desc"} \cup WriteSteps
SignedOnly == {"sigs", "patchloc", "patchmeta", "hshdr", "sigwrite", "patchwrite"}
AfterSigs == {"patchloc", "patchmeta", "open", "desc"} \cup WriteSteps

Extracted ==
    /\ pc \in AfterImage => ext.image \in ImageLens
    /\ pc \in AfterSigs /\ Signed(tgt) =>
           /\ ext.sigs \in SigLens
           /\ AsU32(ext.sigs) % Sig = 0
           /\ ext.numSigs = AsU32(ext.sigs) \div Sig
           /\ ext.numSigs >= 1
    /\ pc \in {"open"} \cup WriteSteps /\ ~Signed(tgt) => ext.desc \in DescLens
    /\ pc \in {"descwrite", "imagewrite", "sync"} /\ Signed(tgt) => ext.desc = 36
    /\ OverflowChecks /\ IsOpen /\ pc # "binhdr" => ~H.overflow
    /\ pc \in SignedOnly => Signed(tgt)

SInv == IInv /\ Generations /\ Bounded /\ Written /\ Extracted /\ ImagesSound

(* The build checks overflow, and the signature and descriptor arrays are  *)
(* shorter than 2^WordBits bytes, so that `len() as u32` keeps them whole. *)
Checked ==
    /\ OverflowChecks
    /\ SigLens \subseteq U32
    /\ DescLens \subseteq U32
-----------------------------------------------------------------------------
(* A write at the cursor that lands between the cursor and its end, in a  *)
(* file none of whose current segments reaches past the cursor, destroys  *)
(* none of them: the current segments are the old ones and the new.       *)
LEMMA PutCur ==
    ASSUME NEW F \in File, NEW new \in SUBSET Seg, NEW len \in Nat,
           \A x \in new : x.g = F.gen /\ F.pos <= x.at /\ x.at + x.n <= F.pos + len,
           \A x \in Cur(F) : x.at + x.n <= F.pos
    PROVE  LET F2 == Put(F, new, len) IN
           /\ Cur(F2) = Cur(F) \cup new
           /\ F2.pos = F.pos + len /\ F2.gen = F.gen
           /\ \A x \in Cur(F2) : x.at + x.n <= F2.pos
           /\ (\A x \in F.segs : x.g <= F.gen) => \A x \in F2.segs : x.g <= F2.gen
<1>1. \A x \in Cur(F) : ~Overlaps(x, F.pos, len)
  BY DEF Overlaps, Cur, File, Seg
<1>2. Cur(Put(F, new, len)) = Cur(F) \cup new
  BY <1>1 DEF Put, Cur, File
<1>3. Put(F, new, len).pos = F.pos + len /\ Put(F, new, len).gen = F.gen
  BY DEF Put, File
<1>4. \A x \in Cur(Put(F, new, len)) : x.at + x.n <= F.pos + len
  BY <1>2 DEF File, Seg, Cur
<1>5. (\A x \in F.segs : x.g <= F.gen) =>
          \A x \in Put(F, new, len).segs : x.g <= Put(F, new, len).gen
  BY <1>3 DEF Put, File, Seg
<1>. QED  BY <1>2, <1>3, <1>4, <1>5

(* An open of a file last opened by an earlier run starts a generation    *)
(* with no segments.                                                       *)
LEMMA ReopenCur ==
    ASSUME NEW F \in File \cup {NoFile}, NEW g \in Nat,
           F # NoFile => F.gen < g /\ \A x \in F.segs : x.g <= F.gen
    PROVE  /\ Cur(Reopen(F, g)) = {}
           /\ Reopen(F, g).pos = 0 /\ Reopen(F, g).gen = g
           /\ \A x \in Reopen(F, g).segs : x.g <= g
<1>1. CASE F = NoFile
  BY <1>1 DEF Reopen, Cur
<1>2. CASE F # NoFile
  BY <1>2 DEF Reopen, Cur, File, Seg
<1>. QED  BY <1>1, <1>2

(* read_u32 at an offset where the current generation holds one word of   *)
(* the field asked for reads that word.                                    *)
LEMMA ReadWord ==
    ASSUME NEW F \in File, NEW w \in Cur(F), w.t = "word",
           \A y \in Cur(F) : y.t = "word" /\ y.f = w.f /\ y.at = w.at => y = w
    PROVE  ReadU32(F, w.at, w.f) = w.v
BY DEF ReadU32, Cur

(* A blob of the current generation is found where it was written.        *)
LEMMA ReadBlob ==
    ASSUME NEW F \in File, NEW w \in Cur(F), w.t = "blob"
    PROVE  IsBlob(F, w.at, w.f, AsU32(w.n))
BY DEF IsBlob, Cur
-----------------------------------------------------------------------------
(* A missing file is no file.                                              *)
LEMMA NoFileNotFile == NoFile \notin File
BY DEF NoFile, File

(* The step that finishes a target: what holds of the file it has written. *)
AtSync == Checked /\ IInv /\ Bounded /\ Written /\ Extracted /\ pc = "sync"

(* The bin header words of the current target.                             *)
BW == BinHdr(H.total, H.offset, H.size)

LEMMA SyncBasics ==
    ASSUME AtSync
    PROVE  /\ tgt \in Idx /\ Path \in Paths /\ run \in Nat
           /\ fs[Path] \in File /\ fs[Path].gen = run
           /\ Cur(fs[Path]) = HeadSegs \cup {DescSeg, ImageSeg}
           /\ ext \in Ext /\ ext.image \in ImageLens
           /\ Sig = Targets[tgt].sigsize /\ Sig \in Nat \ {0}
           /\ ~H.overflow
<1>1. pc \in TargetSteps /\ pc \in WriteSteps /\ IsOpen
  BY DEF AtSync, TargetSteps, Steps, WriteSteps, IsOpen
<1>2. tgt \in Idx /\ Path \in Paths /\ Sig \in Nat \ {0} /\ run \in Nat
  BY <1>1, PathType DEF AtSync, IInv, TypeOK
<1>3. fs[Path] \in File /\ fs[Path].gen = run
  BY <1>1, OpenFile DEF AtSync, Bounded
<1>4. Cur(fs[Path]) = HeadSegs \cup {DescSeg, ImageSeg}
  BY DEF AtSync, Written, Holds
<1>5. ext \in Ext /\ ext.image \in ImageLens /\ ~H.overflow
  BY <1>1 DEF AtSync, IInv, TypeOK, Extracted, AfterImage, Checked
<1>. QED  BY <1>2, <1>3, <1>4, <1>5 DEF Sig

(* What a signed target has read, and the sums it did not overflow.        *)
LEMMA SignedFacts ==
    ASSUME AtSync, Signed(tgt)
    PROVE  /\ ext.sigs \in U32 /\ AsU32(ext.sigs) = ext.sigs /\ ext.desc = 36
           /\ ext.sigs % Sig = 0 /\ ext.numSigs = ext.sigs \div Sig /\ ext.numSigs >= 1
           /\ ~AddOverflows(120, ext.sigs)
           /\ H = SignedSums
<1>1. ext.sigs \in SigLens /\ AsU32(ext.sigs) % Sig = 0
      /\ ext.numSigs = AsU32(ext.sigs) \div Sig /\ ext.numSigs >= 1 /\ ext.desc = 36
  BY DEF AtSync, Extracted, AfterSigs, WriteSteps
<1>2. ext.sigs \in U32
  BY <1>1 DEF AtSync, Checked
<1>5. AsU32(ext.sigs) = ext.sigs
  BY <1>2, WordFacts DEF AsU32, U32
<1>3. ~SignedSums.overflow
  BY SyncBasics DEF H
<1>4. ~AddOverflows(120, ext.sigs)
  BY <1>3, <1>5 DEF SignedSums
<1>. QED  BY <1>1, <1>2, <1>4, <1>5 DEF H

(* read_u32 of the bin header reads the words bootloader(), booter() and  *)
(* scrubber() wrote.                                                       *)
LEMMA BinReads ==
    ASSUME AtSync, NEW j \in 1 .. 6
    PROVE  ReadU32(fs[Path], 4 * (j - 1), "bin") = BW[j]
<1>a. /\ fs[Path] \in File /\ fs[Path].gen = run
      /\ Cur(fs[Path]) = HeadSegs \cup {DescSeg, ImageSeg}
  BY SyncBasics
<1> DEFINE w == Word32("bin", BW[j], run, 4 * (j - 1))
<1>1. w \in BinSegs
  BY DEF BinSegs, BW
<1>2. w \in Cur(fs[Path])
  BY <1>a, <1>1 DEF HeadSegs
<1>3. \A y \in Cur(fs[Path]) : y.t = "word" /\ y.f = "bin" => y \in BinSegs
  <2>1. \A z \in HsSegs : z.f = "hs"
    BY DEF HsSegs, Word32
  <2>2. \A z \in PatchSegs : z.f # "bin"
    <3> SUFFICES ASSUME NEW k \in 1 .. 6 PROVE PatchTags[k] # "bin"
      BY DEF PatchSegs, Word32
    <3>. QED  BY DEF PatchTags
  <2>3. \A z \in {SigsSeg, DescSeg, ImageSeg} : z.t = "blob"
    BY DEF SigsSeg, DescSeg, ImageSeg, Blob
  <2>. QED  BY <1>a, <2>1, <2>2, <2>3 DEF HeadSegs
<1>4. \A y \in BinSegs : y.at = w.at => y = w
  BY DEF BinSegs, Word32, BW
<1>5. ReadU32(fs[Path], w.at, w.f) = w.v
  BY <1>a, <1>2, <1>3, <1>4, ReadWord DEF Word32
<1>. QED  BY <1>5 DEF Word32

(* read_u32 of the hs header reads the words booter() and scrubber()       *)
(* wrote.                                                                  *)
LEMMA HsReads ==
    ASSUME AtSync, Signed(tgt), NEW j \in 1 .. 9
    PROVE  ReadU32(fs[Path], 24 + 4 * (j - 1), "hs") = HsHdrV2(AsU32(ext.sigs))[j]
<1>a. /\ fs[Path] \in File /\ fs[Path].gen = run
      /\ Cur(fs[Path]) = HeadSegs \cup {DescSeg, ImageSeg}
  BY SyncBasics
<1> DEFINE w == Word32("hs", HsHdrV2(AsU32(ext.sigs))[j], run, 24 + 4 * (j - 1))
<1>1. w \in HsSegs
  BY DEF HsSegs
<1>2. w \in Cur(fs[Path])
  BY <1>a, <1>1 DEF HeadSegs
<1>3. \A y \in Cur(fs[Path]) : y.t = "word" /\ y.f = "hs" => y \in HsSegs
  BY <1>a DEF HeadSegs, BinSegs, HsSegs, SigsSeg, PatchSegs, DescSeg, ImageSeg,
              Word32, Blob, PatchTags
<1>4. \A y \in HsSegs : y.at = w.at => y = w
  BY DEF HsSegs, Word32
<1>5. ReadU32(fs[Path], w.at, w.f) = w.v
  BY <1>a, <1>2, <1>3, <1>4, ReadWord DEF Word32
<1>. QED  BY <1>5 DEF Word32

(* read_u32 of each patch field reads the word written for it.             *)
LEMMA PatchReads ==
    ASSUME AtSync, Signed(tgt), NEW j \in 1 .. 6
    PROVE  ReadU32(fs[Path], 60 + ext.sigs + 4 * (j - 1), PatchTags[j]) = PatchWords[j]
<1>a. /\ fs[Path] \in File /\ fs[Path].gen = run
      /\ Cur(fs[Path]) = HeadSegs \cup {DescSeg, ImageSeg}
  BY SyncBasics
<1> DEFINE w == Word32(PatchTags[j], PatchWords[j], run, 60 + ext.sigs + 4 * (j - 1))
<1>1. w \in PatchSegs
  BY DEF PatchSegs
<1>2. w \in Cur(fs[Path])
  BY <1>a, <1>1 DEF HeadSegs
<1>3. \A k \in 1 .. 6 : PatchTags[k] = PatchTags[j] => k = j
  BY DEF PatchTags
<1>4. \A y \in Cur(fs[Path]) : y.t = "word" /\ y.f = w.f /\ y.at = w.at => y = w
  BY <1>a, <1>3 DEF HeadSegs, BinSegs, HsSegs, SigsSeg, PatchSegs, DescSeg, ImageSeg,
                    Word32, Blob, PatchTags
<1>5. ReadU32(fs[Path], w.at, w.f) = w.v
  BY <1>a, <1>2, <1>4, ReadWord DEF Word32
<1>. QED  BY <1>5 DEF Word32

(* The file a booter() or scrubber() call has written when it reaches     *)
(* sync_all reads back through its headers.                                *)
LEMMA SignedSound ==
    ASSUME AtSync, Signed(tgt)
    PROVE  /\ BinOK(fs[Path]) /\ TotalOK(fs[Path])
           /\ SignedOK(fs[Path], Targets[tgt].sigsize)
<1> DEFINE F == fs[Path]
           s == ext.sigs
           fw == AsU32(ext.image)
<1>a. /\ fs[Path] \in File /\ fs[Path].gen = run
      /\ Cur(fs[Path]) = HeadSegs \cup {DescSeg, ImageSeg}
      /\ ext \in Ext /\ Sig = Targets[tgt].sigsize /\ Sig \in Nat \ {0}
      /\ ~H.overflow
  BY SyncBasics
<1>b. /\ s \in U32 /\ AsU32(s) = s /\ ext.desc = 36
      /\ s % Sig = 0 /\ ext.numSigs = s \div Sig /\ ext.numSigs >= 1
      /\ ~AddOverflows(120, s) /\ H = SignedSums
  BY SignedFacts
(* The sums of booter(): no overflow, so they are the plain sums.         *)
<1>c. /\ s \in Nat /\ fw \in U32 /\ 120 + s < Word
      /\ SignedSums.offset = 120 + s /\ SignedSums.size = fw
  <2>1. s \in Nat /\ 120 + s < Word
    BY <1>b, WordFacts DEF AddOverflows, U32
  <2>2. fw \in U32
    BY <1>a, AddType DEF Ext
  <2>3. Add(120, AsU32(s)) = 120 + s
    BY <1>b, <2>1, WordFacts DEF Add
  <2>. QED  BY <2>1, <2>2, <2>3 DEF SignedSums
<1>d. /\ ~AddOverflows(120 + s, fw)
      /\ ~RoundUpOverflows(120 + s + fw, 256)
      /\ SignedSums.total = RoundUpToBase(120 + s + fw, 256)
  <2>1. ~SignedSums.overflow
    BY <1>a, <1>b
  <2>2. Add(120, AsU32(s)) = 120 + s
    BY <1>b, <1>c, WordFacts DEF Add
  <2>3. ~AddOverflows(120 + s, fw)
    BY <2>1, <2>2 DEF SignedSums
  <2>4. Add(120 + s, fw) = 120 + s + fw
    BY <2>3, <1>c, WordFacts DEF AddOverflows, Add, U32
  <2>. QED  BY <2>1, <2>2, <2>3, <2>4 DEF SignedSums
<1>e. /\ SignedSums.total % 256 = 0
      /\ SignedSums.total >= 120 + s + fw
  <2>1. 120 + s + fw \in U32
    BY <1>c, <1>d, WordFacts DEF AddOverflows, U32
  <2>. QED  BY <1>d, <2>1, RoundUpCorrect
(* The bin header as read back.                                            *)
<1>1. \A j \in 1 .. 6 : Hdr(F, 4 * (j - 1)) = BW[j]
  BY BinReads DEF Hdr
<1>2. /\ Hdr(F, 0) = BinMagic /\ Hdr(F, 4) = 1 /\ Hdr(F, 8) = SignedSums.total
      /\ Hdr(F, 12) = 24 /\ Hdr(F, 16) = 120 + s /\ Hdr(F, 20) = fw
  <2>1. /\ Hdr(F, 4 * (1 - 1)) = BW[1] /\ Hdr(F, 4 * (2 - 1)) = BW[2]
        /\ Hdr(F, 4 * (3 - 1)) = BW[3] /\ Hdr(F, 4 * (4 - 1)) = BW[4]
        /\ Hdr(F, 4 * (5 - 1)) = BW[5] /\ Hdr(F, 4 * (6 - 1)) = BW[6]
    BY <1>1
  <2>. QED  BY <2>1, <1>b, <1>c DEF BW, BinHdr
<1>3. BinOK(F)
  <2>1. ImageSeg \in Cur(F) /\ ImageSeg.t = "blob"
    BY <1>a DEF ImageSeg, Blob
  <2>2. IsBlob(F, ImageSeg.at, ImageSeg.f, AsU32(ImageSeg.n))
    BY <1>a, <2>1, ReadBlob
  <2>3. ImageSeg.at = 120 + s /\ ImageSeg.f = "image" /\ AsU32(ImageSeg.n) = fw
    BY <1>b, <1>c DEF ImageSeg, Blob, ImageAt, DescAt
  <2>. QED  BY <1>2, <2>2, <2>3 DEF BinOK, BinPayloadOff, BinSizeOff
<1>4. TotalOK(F)
  BY <1>2, <1>e DEF TotalOK, BinTotalOff, BinPayloadOff, BinSizeOff
(* The hs header as read back: the offsets are exact.                      *)
<1>5. \A j \in 1 .. 9 : Hs(F, 24 + 4 * (j - 1)) = HsHdrV2(s)[j]
  BY <1>b, HsReads DEF Hs
<1>6. /\ Hs(F, 24) = 60 /\ Hs(F, 28) = s /\ Hs(F, 32) = 60 + s /\ Hs(F, 36) = 64 + s
      /\ Hs(F, 40) = 68 + s /\ Hs(F, 44) = 12 /\ Hs(F, 48) = 80 + s
      /\ Hs(F, 52) = 84 + s /\ Hs(F, 56) = 36
  <2>1. /\ Hs(F, 24 + 4 * (1 - 1)) = HsHdrV2(s)[1] /\ Hs(F, 24 + 4 * (2 - 1)) = HsHdrV2(s)[2]
        /\ Hs(F, 24 + 4 * (3 - 1)) = HsHdrV2(s)[3] /\ Hs(F, 24 + 4 * (4 - 1)) = HsHdrV2(s)[4]
        /\ Hs(F, 24 + 4 * (5 - 1)) = HsHdrV2(s)[5] /\ Hs(F, 24 + 4 * (6 - 1)) = HsHdrV2(s)[6]
        /\ Hs(F, 24 + 4 * (7 - 1)) = HsHdrV2(s)[7] /\ Hs(F, 24 + 4 * (8 - 1)) = HsHdrV2(s)[8]
        /\ Hs(F, 24 + 4 * (9 - 1)) = HsHdrV2(s)[9]
    BY <1>5
  <2>2. /\ PatchLocOffset(s) = 60 + s /\ PatchSigOffset(s) = 64 + s
        /\ MetaDataOffset(s) = 68 + s /\ NumSigOffset(s) = 80 + s
        /\ HeaderOffset(s) = 84 + s
    BY <1>b, HsOffsetsExact
  <2>. QED  BY <2>1, <2>2 DEF HsHdrV2
(* The patch words as read back.                                           *)
<1>7. \A j \in 1 .. 6 : ReadU32(F, 60 + s + 4 * (j - 1), PatchTags[j]) = PatchWords[j]
  BY PatchReads
<1>8. /\ ReadU32(F, 60 + s, "patchLoc") = ext.patchLoc
      /\ ReadU32(F, 64 + s, "patchSig") = 0
      /\ ReadU32(F, 68 + s, "fuse") = ext.meta[1]
      /\ ReadU32(F, 72 + s, "engine") = ext.meta[2]
      /\ ReadU32(F, 76 + s, "ucode") = ext.meta[3]
      /\ ReadU32(F, 80 + s, "numSigs") = ext.numSigs
  <2>1. /\ ReadU32(F, 60 + s + 4 * (1 - 1), PatchTags[1]) = PatchWords[1]
        /\ ReadU32(F, 60 + s + 4 * (2 - 1), PatchTags[2]) = PatchWords[2]
        /\ ReadU32(F, 60 + s + 4 * (3 - 1), PatchTags[3]) = PatchWords[3]
        /\ ReadU32(F, 60 + s + 4 * (4 - 1), PatchTags[4]) = PatchWords[4]
        /\ ReadU32(F, 60 + s + 4 * (5 - 1), PatchTags[5]) = PatchWords[5]
        /\ ReadU32(F, 60 + s + 4 * (6 - 1), PatchTags[6]) = PatchWords[6]
    BY <1>7
  <2>. QED  BY <2>1, <1>c DEF PatchTags, PatchWords
<1>9. /\ ext.patchLoc >= 0 /\ ext.meta[1] >= 0 /\ ext.meta[2] >= 0 /\ ext.meta[3] >= 0
      /\ ext.numSigs * Sig = s
  BY <1>a, <1>b, <1>c DEF Ext, U32
(* The two blobs of the signed layout.                                     *)
<1>10. IsBlob(F, 60, "sigs", s) /\ IsBlob(F, 84 + s, "desc", 36)
  <2>1. SigsSeg \in Cur(F) /\ SigsSeg.t = "blob" /\ DescSeg \in Cur(F) /\ DescSeg.t = "blob"
    BY <1>a DEF HeadSegs, SigsSeg, DescSeg, Blob
  <2>2. IsBlob(F, SigsSeg.at, SigsSeg.f, AsU32(SigsSeg.n))
        /\ IsBlob(F, DescSeg.at, DescSeg.f, AsU32(DescSeg.n))
    BY <1>a, <2>1, ReadBlob
  <2>3. AsU32(36) = 36
    BY WordFacts DEF AsU32
  <2>. QED  BY <1>b, <2>2, <2>3 DEF SigsSeg, DescSeg, Blob, DescAt
<1>11. SignedOK(F, Targets[tgt].sigsize)
  <2>1. Hs(F, HsSigOff) = 60 /\ IsBlob(F, 60, "sigs", Hs(F, HsSigSizeOff))
    BY <1>6, <1>10 DEF HsSigOff, HsSigSizeOff
  <2>2. /\ ReadU32(F, Hs(F, HsPatchLocOff), "patchLoc") >= 0
        /\ ReadU32(F, Hs(F, HsPatchSigOff), "patchSig") = 0
    BY <1>6, <1>8, <1>9 DEF HsPatchLocOff, HsPatchSigOff
  <2>3. /\ Hs(F, HsMetaSizeOff) = 12
        /\ ReadU32(F, Hs(F, HsMetaOff), "fuse") >= 0
        /\ ReadU32(F, Hs(F, HsMetaOff) + 4, "engine") >= 0
        /\ ReadU32(F, Hs(F, HsMetaOff) + 8, "ucode") >= 0
    <3>1. Hs(F, HsMetaOff) = 68 + s /\ 68 + s + 4 = 72 + s /\ 68 + s + 8 = 76 + s
      BY <1>6, <1>c DEF HsMetaOff
    <3>. QED  BY <1>6, <1>8, <1>9, <3>1 DEF HsMetaSizeOff
  <2>4. LET nsig == ReadU32(F, Hs(F, HsNumSigOff), "numSigs") IN
        nsig >= 1 /\ nsig * Targets[tgt].sigsize = Hs(F, HsSigSizeOff)
    BY <1>a, <1>b, <1>6, <1>8, <1>9 DEF HsNumSigOff, HsSigSizeOff
  <2>5. Hs(F, HsHeaderSizeOff) = 36 /\ IsBlob(F, Hs(F, HsHeaderOff), "desc", 36)
    BY <1>6, <1>10 DEF HsHeaderSizeOff, HsHeaderOff
  <2>. QED  BY <2>1, <2>2, <2>3, <2>4, <2>5, Zenon DEF SignedOK
<1>. QED  BY <1>3, <1>4, <1>11
(* The file a bootloader() call has written when it reaches sync_all      *)
(* reads back through its header.                                          *)
LEMMA PlainSound ==
    ASSUME AtSync, ~Signed(tgt)
    PROVE  BinOK(fs[Path]) /\ TotalOK(fs[Path]) /\ PlainOK(fs[Path])
<1> DEFINE F == fs[Path]
           d == ext.desc
           fw == AsU32(ext.image)
<1>a. /\ fs[Path] \in File /\ fs[Path].gen = run
      /\ Cur(fs[Path]) = HeadSegs \cup {DescSeg, ImageSeg}
      /\ ext \in Ext /\ ~H.overflow
  BY SyncBasics
<1>b. d \in DescLens /\ H = PlainSums
  BY DEF AtSync, Extracted, WriteSteps, H
<1>c. d \in U32 /\ d \in Nat \ {0} /\ AsU32(d) = d /\ fw \in U32
  <2>1. d \in U32 /\ d \in Nat \ {0}
    BY <1>b, InputsAssumption DEF AtSync, Checked
  <2>2. AsU32(d) = d
    BY <2>1, WordFacts DEF AsU32, U32
  <2>3. fw \in U32
    BY <1>a, AddType DEF Ext
  <2>. QED  BY <2>1, <2>2, <2>3
(* The sums of bootloader(): no overflow, so they are the plain sums.     *)
<1>d. /\ PlainSums.offset = 24 + d /\ PlainSums.size = fw
      /\ ~RoundUpOverflows(24 + fw + d, 256)
      /\ PlainSums.total = RoundUpToBase(24 + fw + d, 256)
      /\ 24 + fw + d \in U32
  <2>1. ~PlainSums.overflow
    BY <1>a, <1>b
  <2>2. ~AddOverflows(24, fw) /\ ~AddOverflows(24, d)
    BY <1>c, <2>1 DEF PlainSums
  <2>3. Add(24, fw) = 24 + fw /\ Add(24, d) = 24 + d
    BY <1>c, <2>2, WordFacts DEF AddOverflows, Add, U32
  <2>4. ~AddOverflows(24 + fw, d)
    BY <1>c, <2>1, <2>3 DEF PlainSums
  <2>5. Add(24 + fw, d) = 24 + fw + d /\ 24 + fw + d \in U32
    BY <1>c, <2>4, WordFacts DEF AddOverflows, Add, U32
  <2>. QED  BY <1>c, <2>1, <2>3, <2>5 DEF PlainSums
<1>e. PlainSums.total % 256 = 0 /\ PlainSums.total >= 24 + fw + d
  BY <1>d, RoundUpCorrect
<1>1. \A j \in 1 .. 6 : Hdr(F, 4 * (j - 1)) = BW[j]
  BY BinReads DEF Hdr
<1>2. /\ Hdr(F, 0) = BinMagic /\ Hdr(F, 4) = 1 /\ Hdr(F, 8) = PlainSums.total
      /\ Hdr(F, 12) = 24 /\ Hdr(F, 16) = 24 + d /\ Hdr(F, 20) = fw
  <2>1. /\ Hdr(F, 4 * (1 - 1)) = BW[1] /\ Hdr(F, 4 * (2 - 1)) = BW[2]
        /\ Hdr(F, 4 * (3 - 1)) = BW[3] /\ Hdr(F, 4 * (4 - 1)) = BW[4]
        /\ Hdr(F, 4 * (5 - 1)) = BW[5] /\ Hdr(F, 4 * (6 - 1)) = BW[6]
    BY <1>1
  <2>. QED  BY <2>1, <1>b, <1>d DEF BW, BinHdr
<1>3. /\ ImageSeg.at = 24 + d /\ ImageSeg.f = "image" /\ AsU32(ImageSeg.n) = fw
      /\ DescSeg.at = 24 /\ DescSeg.f = "desc" /\ AsU32(DescSeg.n) = d
  BY <1>c DEF ImageSeg, DescSeg, Blob, ImageAt, DescAt
<1>4. BinOK(F)
  <2>1. ImageSeg \in Cur(F) /\ ImageSeg.t = "blob"
    BY <1>a DEF ImageSeg, Blob
  <2>2. IsBlob(F, ImageSeg.at, ImageSeg.f, AsU32(ImageSeg.n))
    BY <1>a, <2>1, ReadBlob
  <2>. QED  BY <1>2, <1>3, <2>2 DEF BinOK, BinPayloadOff, BinSizeOff
<1>5. TotalOK(F)
  <2>1. PlainSums.total >= (24 + d) + fw
    BY <1>c, <1>e DEF U32
  <2>2. Hdr(F, 8) % 256 = 0 /\ Hdr(F, 8) >= Hdr(F, 16) + Hdr(F, 20)
    BY <1>2, <1>e, <2>1
  <2>. QED  BY <2>2 DEF TotalOK, BinTotalOff, BinPayloadOff, BinSizeOff
<1>6. PlainOK(F)
  <2>1. DescSeg \in Cur(F) /\ DescSeg.t = "blob"
    BY <1>a DEF DescSeg, Blob
  <2>2. IsBlob(F, DescSeg.at, DescSeg.f, AsU32(DescSeg.n))
    BY <1>a, <2>1, ReadBlob
  <2>3. Hdr(F, BinPayloadOff) > 24 /\ Hdr(F, BinPayloadOff) - 24 = d
    BY <1>c, <1>2 DEF BinPayloadOff
  <2>. QED  BY <1>3, <2>2, <2>3 DEF PlainOK
<1>. QED  BY <1>4, <1>5, <1>6
-----------------------------------------------------------------------------
(* Steps that leave the output files, the run and the target alone.       *)

(* The finished images are the same files.                                 *)
LEMMA ImagesKept ==
    ASSUME ImagesSound, UNCHANGED <<fs, run, version, tgt>>
    PROVE  ImagesSound'
BY DEF ImagesSound, Done, FileOf

LEMMA GensKept ==
    ASSUME Generations, UNCHANGED <<fs, run, version, tgt>>, IsOpen => IsOpen'
    PROVE  Generations'
BY DEF Generations

(* A step that neither writes nor reads: only exit and err change.         *)
LEMMA FrameSInv ==
    ASSUME SInv, IInv', UNCHANGED <<fs, run, version, tgt, pc, ext>>
    PROVE  SInv'
<1>0. fs' = fs /\ run' = run /\ version' = version /\ tgt' = tgt /\ pc' = pc /\ ext' = ext
  OBVIOUS
<1>1. IsOpen' = IsOpen /\ H' = H /\ Sig' = Sig /\ Path' = Path
  BY <1>0 DEF IsOpen, H, SignedSums, PlainSums, Sig, Path, Signed
<1>6. BinSegs' = BinSegs /\ HsSegs' = HsSegs /\ SigsSeg' = SigsSeg /\ PatchSegs' = PatchSegs
  BY <1>0, <1>1 DEF BinSegs, HsSegs, SigsSeg, PatchSegs, PatchWords
<1>7. HeadSegs' = HeadSegs /\ DescAt' = DescAt /\ ImageAt' = ImageAt
      /\ DescSeg' = DescSeg /\ ImageSeg' = ImageSeg
  BY <1>0, <1>6 DEF HeadSegs, DescAt, ImageAt, DescSeg, ImageSeg, Signed
<1>2. Generations' /\ ImagesSound'
  BY <1>1, GensKept, ImagesKept DEF SInv
<1>3. Bounded'
  BY <1>0, <1>1 DEF SInv, Bounded, Cur
<1>4. Written'
  BY <1>0, <1>1, <1>6, <1>7 DEF SInv, Written, Holds, Cur
<1>5. Extracted'
  BY <1>0, <1>1 DEF SInv, Extracted
<1>. QED  BY <1>2, <1>3, <1>4, <1>5 DEF SInv

(* A step outside the writes of the current file, which stays closed.     *)
LEMMA QuietSInv ==
    ASSUME SInv, UNCHANGED <<fs, run, version, tgt>>, ~IsOpen, ~IsOpen',
           pc' \notin WriteSteps
    PROVE  Generations' /\ Bounded' /\ Written' /\ ImagesSound'
<1>1. Generations' /\ ImagesSound'
  BY GensKept, ImagesKept DEF SInv
<1>2. Bounded'
  BY DEF Bounded
<1>3. Written'
  BY DEF Written, WriteSteps
<1>. QED  BY <1>1, <1>2, <1>3

(* The steps at which no output image is open and nothing has been read.  *)
Idle == {"start", "mkdir", "image", "whence", "whencewrite", "whencesync", "done"}

LEMMA IdleSInv ==
    ASSUME SInv, IInv', UNCHANGED <<fs, run, version, tgt>>, pc \in Idle, pc' \in Idle
    PROVE  SInv'
<1>1. ~IsOpen /\ ~IsOpen' /\ pc' \notin WriteSteps
  BY DEF IsOpen, Idle, WriteSteps
<1>2. Extracted'
  BY DEF Extracted, Idle, AfterImage, AfterSigs, SignedOnly, WriteSteps, IsOpen
<1>. QED  BY <1>1, <1>2, QuietSInv DEF SInv

LEMMA FailSInv ==
    ASSUME SInv, IInv', NEW e, Fail(e)
    PROVE  SInv'
BY FrameSInv DEF Fail

LEMMA StartupSInv ==
    ASSUME SInv, IInv', Startup
    PROVE  SInv'
BY FrameSInv, IdleSInv DEF Startup, Goto, Idle

LEMMA MkDirSInv ==
    ASSUME SInv, IInv', MkDir
    PROVE  SInv'
BY FailSInv, IdleSInv DEF MkDir, Goto, Idle

LEMMA WhenceSInv ==
    ASSUME SInv, IInv', OpenWhence \/ WriteWhence \/ SyncWhence
    PROVE  SInv'
BY FailSInv, IdleSInv DEF OpenWhence, WriteWhence, SyncWhence, Goto, Idle

LEMMA EndSInv ==
    ASSUME SInv, IInv', Finish \/ Kill \/ Stopped \/ UNCHANGED vars
    PROVE  SInv'
BY FrameSInv DEF Finish, Kill, Stopped, vars

(* A rerun starts a new generation: every file on disk is older, and no    *)
(* image of the new run is finished.                                       *)
LEMMA RerunSInv ==
    ASSUME SInv, IInv', Rerun
    PROVE  SInv'
<1>1. run' = run + 1 /\ fs' = fs /\ tgt' = 1 /\ pc' = "start" /\ run \in Nat
  BY DEF Rerun, SInv, IInv, TypeOK
<1>2. Generations'
  <2>1. \A p \in Paths : fs[p] # NoFile => fs[p].gen <= run /\ \A x \in fs[p].segs : x.g <= fs[p].gen
    BY DEF SInv, Generations
  <2>2. \A p \in Paths : fs[p] # NoFile => fs[p].gen \in Nat
    BY DEF SInv, IInv, TypeOK, File
  <2>. QED  BY <1>1, <2>1, <2>2 DEF Generations
<1>3. ImagesSound'
  BY <1>1 DEF ImagesSound, Done, Idx
<1>4. ~IsOpen' /\ Bounded' /\ Written' /\ Extracted'
  BY <1>1 DEF IsOpen, Bounded, Written, Extracted, AfterImage, AfterSigs, SignedOnly,
              WriteSteps
<1>. QED  BY <1>2, <1>3, <1>4 DEF SInv

(* get_bytes of the image array: the length read is kept for the header.  *)
LEMMA ExtractImageSInv ==
    ASSUME SInv, IInv', ExtractImage
    PROVE  SInv'
<1>1. CASE Fail("source")
  BY <1>1, FailSInv
<1>2. CASE \E n \in ImageLens :
             /\ ext' = [NoExt EXCEPT !.image = n]
             /\ Goto(IF Signed(tgt) THEN "sigs" ELSE "desc")
             /\ UNCHANGED <<fs, whence, run, version, wantWhence, tgt, exit, err>>
  <2>1. PICK n \in ImageLens :
             /\ ext' = [NoExt EXCEPT !.image = n]
             /\ Goto(IF Signed(tgt) THEN "sigs" ELSE "desc")
             /\ UNCHANGED <<fs, whence, run, version, wantWhence, tgt, exit, err>>
    BY <1>2
  <2>2. ~IsOpen /\ ~IsOpen' /\ pc' \notin WriteSteps
    BY <2>1 DEF ExtractImage, IsOpen, Goto, WriteSteps, Signed
  <2>3. Extracted'
    BY <2>1 DEF Goto, Extracted, AfterImage, AfterSigs, SignedOnly, WriteSteps, IsOpen,
                NoExt, Signed
  <2>. QED  BY <2>1, <2>2, <2>3, QuietSInv DEF SInv
<1>. QED  BY <1>1, <1>2 DEF ExtractImage

(* get_bytes of the signature array: a size that is a positive multiple   *)
(* of sigsize.                                                             *)
LEMMA ExtractSigsSInv ==
    ASSUME SInv, IInv', ExtractSigs
    PROVE  SInv'
<1>1. CASE Fail("source")
  BY <1>1, FailSInv
<1>2. CASE \E n \in SigLens :
             LET size == AsU32(n) IN
             \/ size % Sig # 0 /\ Fail("sigcount")
             \/ size % Sig = 0 /\ size \div Sig < 1 /\ Fail("sigcount")
             \/ /\ size % Sig = 0 /\ size \div Sig >= 1
                /\ ext' = [ext EXCEPT !.sigs = n, !.numSigs = size \div Sig]
                /\ Goto("patchloc")
                /\ UNCHANGED <<fs, whence, run, version, wantWhence, tgt, exit, err>>
  <2>1. PICK n \in SigLens :
             LET size == AsU32(n) IN
             \/ size % Sig # 0 /\ Fail("sigcount")
             \/ size % Sig = 0 /\ size \div Sig < 1 /\ Fail("sigcount")
             \/ /\ size % Sig = 0 /\ size \div Sig >= 1
                /\ ext' = [ext EXCEPT !.sigs = n, !.numSigs = size \div Sig]
                /\ Goto("patchloc")
                /\ UNCHANGED <<fs, whence, run, version, wantWhence, tgt, exit, err>>
    BY <1>2
  <2>2. CASE Fail("sigcount")
    BY <2>2, FailSInv
  <2>3. CASE /\ AsU32(n) % Sig = 0 /\ AsU32(n) \div Sig >= 1
             /\ ext' = [ext EXCEPT !.sigs = n, !.numSigs = AsU32(n) \div Sig]
             /\ Goto("patchloc")
             /\ UNCHANGED <<fs, whence, run, version, wantWhence, tgt, exit, err>>
    <3>1. ~IsOpen /\ ~IsOpen' /\ pc' \notin WriteSteps
      BY <2>3 DEF ExtractSigs, IsOpen, Goto, WriteSteps
    <3>2. ext \in Ext /\ Signed(tgt) /\ ext.image \in ImageLens
      BY DEF ExtractSigs, SInv, IInv, TypeOK, Extracted, SignedOnly, AfterImage, WriteSteps
    <3>3. Extracted'
      BY <2>3, <3>2 DEF Goto, Extracted, AfterImage, AfterSigs, SignedOnly, WriteSteps,
                        IsOpen, Sig, Signed, Ext
    <3>. QED  BY <2>3, <3>1, <3>3, QuietSInv DEF SInv
  <2>. QED  BY <2>1, <2>2, <2>3
<1>. QED  BY <1>1, <1>2 DEF ExtractSigs

(* get_bytes of patch_loc and of patch_meta, read as u32 words.          *)
LEMMA ExtractPatchSInv ==
    ASSUME SInv, IInv', ExtractPatchLoc \/ ExtractPatchMeta
    PROVE  SInv'
<1>1. CASE Fail("source")
  BY <1>1, FailSInv
<1>a. ext \in Ext /\ Signed(tgt) /\ pc \in {"patchloc", "patchmeta"}
  BY DEF ExtractPatchLoc, ExtractPatchMeta, SInv, IInv, TypeOK, Extracted, SignedOnly
<1>2. CASE \E v \in PatchLocs :
             /\ ext' = [ext EXCEPT !.patchLoc = v]
             /\ Goto("patchmeta")
             /\ UNCHANGED <<fs, whence, run, version, wantWhence, tgt, exit, err>>
  <2>1. PICK v \in PatchLocs :
             /\ ext' = [ext EXCEPT !.patchLoc = v]
             /\ Goto("patchmeta")
             /\ UNCHANGED <<fs, whence, run, version, wantWhence, tgt, exit, err>>
    BY <1>2
  <2>2. ~IsOpen /\ ~IsOpen' /\ pc' \notin WriteSteps
    BY <1>a, <2>1 DEF IsOpen, Goto, WriteSteps
  <2>3. Extracted'
    BY <1>a, <2>1 DEF SInv, Goto, Extracted, AfterImage, AfterSigs, SignedOnly, WriteSteps,
                      IsOpen, Sig, Signed, Ext
  <2>. QED  BY <2>1, <2>2, <2>3, QuietSInv DEF SInv
<1>3. CASE \E m \in [1 .. 3 -> MetaVals] :
             /\ ext' = [ext EXCEPT !.meta = m]
             /\ Goto("open")
             /\ UNCHANGED <<fs, whence, run, version, wantWhence, tgt, exit, err>>
  <2>1. PICK m \in [1 .. 3 -> MetaVals] :
             /\ ext' = [ext EXCEPT !.meta = m]
             /\ Goto("open")
             /\ UNCHANGED <<fs, whence, run, version, wantWhence, tgt, exit, err>>
    BY <1>3
  <2>2. ~IsOpen /\ ~IsOpen' /\ pc' \notin WriteSteps
    BY <1>a, <2>1 DEF IsOpen, Goto, WriteSteps
  <2>3. Extracted'
    BY <1>a, <2>1 DEF SInv, Goto, Extracted, AfterImage, AfterSigs, SignedOnly, WriteSteps,
                      IsOpen, Sig, Signed, Ext
  <2>. QED  BY <2>1, <2>2, <2>3, QuietSInv DEF SInv
<1>. QED  BY <1>1, <1>2, <1>3 DEF ExtractPatchLoc, ExtractPatchMeta

(* get_bytes of the descriptor: a bootloader reads it before its open, a  *)
(* booter or scrubber after writing its headers, which stay as they are.  *)
LEMMA ExtractDescSInv ==
    ASSUME SInv, IInv', ExtractDesc
    PROVE  SInv'
<1>1. CASE Fail("source")
  BY <1>1, FailSInv
<1>2. CASE \E n \in IF Signed(tgt) THEN {36} ELSE DescLens :
             /\ ext' = [ext EXCEPT !.desc = n]
             /\ Goto(IF Signed(tgt) THEN "descwrite" ELSE "open")
             /\ UNCHANGED <<fs, whence, run, version, wantWhence, tgt, exit, err>>
  <2>1. PICK n \in IF Signed(tgt) THEN {36} ELSE DescLens :
             /\ ext' = [ext EXCEPT !.desc = n]
             /\ Goto(IF Signed(tgt) THEN "descwrite" ELSE "open")
             /\ UNCHANGED <<fs, whence, run, version, wantWhence, tgt, exit, err>>
    BY <1>2
  <2>a. ext \in Ext /\ pc = "desc" /\ ext.image \in ImageLens
    BY DEF ExtractDesc, SInv, IInv, TypeOK, Extracted, AfterImage
  <2>2. CASE ~Signed(tgt)
    <3>1. ~IsOpen /\ ~IsOpen' /\ pc' \notin WriteSteps
      BY <2>1, <2>a, <2>2 DEF IsOpen, Goto, WriteSteps, Signed
    <3>2. Extracted'
      BY <2>1, <2>a, <2>2 DEF Goto, Extracted, AfterImage, AfterSigs, SignedOnly,
                              WriteSteps, IsOpen, Signed, Ext
    <3>. QED  BY <2>1, <3>1, <3>2, QuietSInv DEF SInv
  <2>3. CASE Signed(tgt)
    <3>0. fs' = fs /\ run' = run /\ version' = version /\ tgt' = tgt /\ pc' = "descwrite"
          /\ ext' = [ext EXCEPT !.desc = 36]
      BY <2>1, <2>3 DEF Goto
    <3>1. IsOpen /\ IsOpen' /\ H' = H /\ Path' = Path
      BY <2>a, <2>3, <3>0 DEF IsOpen, WriteSteps, H, SignedSums, Signed, Path
    <3>2. BinSegs' = BinSegs /\ HsSegs' = HsSegs /\ SigsSeg' = SigsSeg
          /\ PatchSegs' = PatchSegs
      BY <2>a, <3>0, <3>1 DEF BinSegs, HsSegs, SigsSeg, PatchSegs, PatchWords
    <3>3. HeadSegs' = HeadSegs /\ DescAt' = DescAt
      BY <2>a, <3>0, <3>2 DEF HeadSegs, DescAt, Signed
    <3>4. Generations' /\ ImagesSound'
      BY <3>0, <3>1, GensKept, ImagesKept DEF SInv
    <3>5. Bounded'
      BY <3>0, <3>1 DEF SInv, Bounded, Cur
    <3>6. Written'
      <4>1. Holds(HeadSegs, DescAt)
        BY <2>a, <3>1 DEF SInv, Written
      <4>. QED  BY <3>0, <3>1, <3>3, <4>1 DEF Written, Holds, Cur
    <3>7. Extracted'
      BY <2>a, <2>3, <3>0, <3>1 DEF SInv, Extracted, AfterImage, AfterSigs, SignedOnly,
                                    WriteSteps, Sig, Signed, Ext
    <3>. QED  BY <3>4, <3>5, <3>6, <3>7 DEF SInv
  <2>. QED  BY <2>2, <2>3
<1>. QED  BY <1>1, <1>2 DEF ExtractDesc

-----------------------------------------------------------------------------
(* Steps that open or write the current output file.                       *)

(* Only the current file changes: the finished ones are other files.       *)
LEMMA ImagesOther ==
    ASSUME ImagesSound, IInv, pc \in TargetSteps, UNCHANGED <<run, version, tgt>>,
           NEW F, fs' = [fs EXCEPT ![Path] = F]
    PROVE  ImagesSound'
<1>1. Path \in Paths /\ fs \in [Paths -> File \cup {NoFile}]
  BY PathType DEF IInv, TypeOK
<1>2. \A i \in Idx : Done(i) => <<i, version>> # Path /\ <<i, version>> \in Paths
  BY DEF Done, Path, Paths, Idx, IInv, TypeOK
<1>3. \A i \in Idx : Done(i) => FileOf(i)' = FileOf(i)
  BY <1>1, <1>2 DEF FileOf
<1>. QED  BY <1>3 DEF ImagesSound, Done

(* A write keeps the generation of the current file and of its segments.  *)
LEMMA GensWrite ==
    ASSUME Generations, IInv, pc \in TargetSteps, IsOpen, IsOpen',
           UNCHANGED <<run, version, tgt>>,
           NEW F, fs' = [fs EXCEPT ![Path] = F], F # NoFile,
           F.gen = run, \A x \in F.segs : x.g <= F.gen
    PROVE  Generations'
<1>1. Path \in Paths /\ fs \in [Paths -> File \cup {NoFile}] /\ run \in Nat
  BY PathType DEF IInv, TypeOK
<1>2. fs'[Path] = F
  BY <1>1
<1>3. \A p \in Paths \ {Path} : fs'[p] = fs[p]
  BY <1>1
<1>. QED  BY <1>1, <1>2, <1>3 DEF Generations, Path

(* Open: a file last written by an earlier run, or by nobody, starts this  *)
(* run's generation with no segments and the cursor at 0.                  *)
LEMMA OpenSInv ==
    ASSUME SInv, IInv', Open
    PROVE  SInv'
<1>1. CASE IoFaults /\ Fail("io")
  BY <1>1, FailSInv
<1>2. CASE /\ fs' = [fs EXCEPT ![Path] = Reopen(@, run)]
           /\ Goto("binhdr")
           /\ UNCHANGED <<whence, run, version, wantWhence, tgt, ext, exit, err>>
  <2>a. /\ pc = "open" /\ pc \in TargetSteps /\ ~IsOpen /\ pc' = "binhdr" /\ IsOpen'
        /\ Path \in Paths /\ fs \in [Paths -> File \cup {NoFile}] /\ run \in Nat
        /\ tgt \in Idx /\ Path' = Path
    BY <1>2, PathType DEF Open, Goto, SInv, IInv, TypeOK, TargetSteps, Steps, IsOpen,
                          WriteSteps, Path
  <2>1. fs[Path] # NoFile => fs[Path].gen < run /\ \A x \in fs[Path].segs : x.g <= fs[Path].gen
    <3>1. fs[Path] # NoFile => /\ fs[Path].gen <= run /\ fs[Path].gen \in Nat
                               /\ \A x \in fs[Path].segs : x.g <= fs[Path].gen
                               /\ fs[Path].gen = run => tgt < tgt \/ IsOpen
      BY <2>a DEF SInv, Generations, Path, File
    <3>. QED  BY <2>a, <3>1 DEF Idx
  <2>2. /\ Cur(fs'[Path]) = {} /\ fs'[Path].pos = 0 /\ fs'[Path].gen = run
        /\ \A x \in fs'[Path].segs : x.g <= run /\ fs'[Path] # NoFile
    <3>1. /\ Cur(Reopen(fs[Path], run)) = {}
          /\ Reopen(fs[Path], run).pos = 0 /\ Reopen(fs[Path], run).gen = run
          /\ \A x \in Reopen(fs[Path], run).segs : x.g <= run
      BY <2>a, <2>1, ReopenCur
    <3>2. Reopen(fs[Path], run) # NoFile
      <4>1. Reopen(fs[Path], run) \in File
        BY <2>a, ReopenType
      <4>2. NoFile \notin File
        BY DEF NoFile, File
      <4>. QED  BY <4>1, <4>2
    <3>. QED  BY <1>2, <2>a, <3>1, <3>2
  <2>3. ImagesSound'
    BY <1>2, <2>a, ImagesOther DEF SInv
  <2>4. Generations'
    <3>1. \A p \in Paths \ {Path} : fs'[p] = fs[p]
      BY <1>2, <2>a
    <3>2. \A p \in Paths \ {Path} : fs[p] # NoFile /\ fs[p].gen = run => p[1] < tgt
      BY <2>a DEF SInv, Generations
    <3>. QED  BY <1>2, <2>a, <2>2, <3>1, <3>2 DEF SInv, Generations, Path
  <2>5. Bounded' /\ Written'
    BY <1>2, <2>a, <2>2 DEF Bounded, Written, Holds, Cur, IsOpen
  <2>6. Extracted'
    BY <1>2, <2>a DEF SInv, Goto, Extracted, AfterImage, AfterSigs, SignedOnly, WriteSteps,
                      IsOpen, Sig, Signed
  <2>. QED  BY <2>3, <2>4, <2>5, <2>6 DEF SInv
<1>. QED  BY <1>1, <1>2 DEF Open

(* The segments the assembler writes are fixed by the run, the target and  *)
(* what it has read.                                                       *)
LEMMA ShapesKept ==
    ASSUME UNCHANGED <<run, version, tgt, ext>>
    PROVE  /\ H' = H /\ Sig' = Sig /\ Path' = Path
           /\ BinSegs' = BinSegs /\ HsSegs' = HsSegs /\ SigsSeg' = SigsSeg
           /\ PatchSegs' = PatchSegs /\ HeadSegs' = HeadSegs /\ DescAt' = DescAt
           /\ ImageAt' = ImageAt /\ DescSeg' = DescSeg /\ ImageSeg' = ImageSeg
<1>a. Sig' = Sig /\ Path' = Path
  BY DEF Sig, Path
<1>b. SignedSums' = SignedSums /\ PlainSums' = PlainSums /\ Signed(tgt)' = Signed(tgt)
  BY DEF SignedSums, PlainSums, Signed
<1>1. H' = H /\ Sig' = Sig /\ Path' = Path
  BY <1>a, <1>b DEF H
<1>2. BinSegs' = BinSegs /\ HsSegs' = HsSegs /\ SigsSeg' = SigsSeg /\ PatchSegs' = PatchSegs
  BY <1>1 DEF BinSegs, HsSegs, SigsSeg, PatchSegs, PatchWords
<1>. QED  BY <1>1, <1>2 DEF HeadSegs, DescAt, ImageAt, DescSeg, ImageSeg, Signed

(* One write_all at the cursor of the open file: the segments it adds      *)
(* join the current ones, the cursor moves past them, and nothing else on  *)
(* disk changes.                                                           *)
LEMMA WriteStep ==
    ASSUME SInv, pc \in WriteSteps, IsOpen', UNCHANGED <<run, version, tgt, ext>>,
           NEW new \in SUBSET Seg, NEW len \in Nat,
           fs' = [fs EXCEPT ![Path] = Put(fs[Path], new, len)],
           \A x \in new : /\ x.g = run /\ fs[Path].pos <= x.at
                          /\ x.at + x.n <= fs[Path].pos + len
    PROVE  /\ Cur(fs'[Path]) = Cur(fs[Path]) \cup new
           /\ fs'[Path].pos = fs[Path].pos + len
           /\ Bounded' /\ Generations' /\ ImagesSound'
<1>0. pc \in TargetSteps /\ IsOpen /\ Path' = Path
  BY ShapesKept DEF TargetSteps, Steps, WriteSteps, IsOpen
<1>a. /\ pc \in TargetSteps /\ IsOpen /\ Path \in Paths /\ Path' = Path
      /\ fs \in [Paths -> File \cup {NoFile}] /\ fs[Path] \in File
      /\ fs[Path].gen = run
      /\ \A x \in Cur(fs[Path]) : x.at + x.n <= fs[Path].pos
  BY <1>0, PathType, OpenFile DEF SInv, IInv, TypeOK, Bounded
<1>1. \A x \in fs[Path].segs : x.g <= fs[Path].gen
  BY <1>a, NoFileNotFile DEF SInv, Generations
<1>2. LET F2 == Put(fs[Path], new, len) IN
      /\ Cur(F2) = Cur(fs[Path]) \cup new
      /\ F2.pos = fs[Path].pos + len /\ F2.gen = fs[Path].gen
      /\ \A x \in Cur(F2) : x.at + x.n <= F2.pos
      /\ \A x \in F2.segs : x.g <= F2.gen
  BY <1>a, <1>1, PutCur
<1>3. fs'[Path] = Put(fs[Path], new, len) /\ Put(fs[Path], new, len) \in File
  BY <1>a, PutType
<1>4. Bounded'
  BY <1>a, <1>2, <1>3 DEF Bounded
<1>5. Generations'
  <2>1. Put(fs[Path], new, len) # NoFile
    BY <1>3, NoFileNotFile
  <2>. QED  BY <1>a, <1>2, <2>1, GensWrite DEF SInv
<1>6. ImagesSound'
  BY <1>a, ImagesOther DEF SInv
<1>. QED  BY <1>2, <1>3, <1>4, <1>5, <1>6

(* The facts about the open file at a write step.                          *)
LEMMA AtWrite ==
    ASSUME SInv, pc \in WriteSteps
    PROVE  /\ pc \in TargetSteps /\ IsOpen /\ Path \in Paths /\ run \in Nat
           /\ fs[Path] \in File /\ fs[Path].gen = run /\ ext \in Ext
           /\ Sig \in Nat \ {0}
BY PathType, OpenFile DEF SInv, IInv, TypeOK, TargetSteps, Steps, WriteSteps, IsOpen, Bounded

(* The nvfw_bin_hdr, written first at offset 0 of the opened file, after   *)
(* the sums have been checked for overflow.                                *)
LEMMA WriteBinHdrSInv ==
    ASSUME Checked, SInv, IInv', WriteBinHdr
    PROVE  SInv'
<1> DEFINE h == IF Signed(tgt) THEN SignedSums ELSE PlainSums
           next == IF Signed(tgt) THEN "hshdr" ELSE "descwrite"
<1>a. pc = "binhdr" /\ h = H /\ BW = BinHdr(h.total, h.offset, h.size)
  BY DEF WriteBinHdr, H, BW
<1>1. CASE /\ OverflowChecks /\ h.overflow
           /\ exit' = 101 /\ err' = "overflow"
           /\ UNCHANGED <<fs, whence, run, version, wantWhence, tgt, pc, ext>>
  BY <1>1, FrameSInv
<1>2. CASE /\ ~(OverflowChecks /\ h.overflow)
           /\ WriteThen("bin", BinHdr(h.total, h.offset, h.size), next)
  <2>1. CASE IoFaults /\ Fail("io")
    BY <2>1, FailSInv
  <2>2. CASE /\ fs' = [fs EXCEPT ![Path] = PutWords(@, "bin", BW)]
             /\ Goto(next)
             /\ UNCHANGED <<whence, run, version, wantWhence, tgt, ext, exit, err>>
    <3>a. /\ pc \in TargetSteps /\ Path \in Paths /\ run \in Nat
          /\ fs[Path] \in File /\ fs[Path].gen = run /\ ext \in Ext
          /\ Cur(fs[Path]) = {} /\ fs[Path].pos = 0
      BY <1>a, AtWrite DEF SInv, Written, Holds, WriteSteps
    <3>1. BW \in Seq(U32) /\ Len(BW) = 6
      BY <1>a, <3>a, BinWordsType DEF BinHdr
    <3>2. {Word32("bin", BW[k], fs[Path].gen, fs[Path].pos + 4 * (k - 1)) : k \in 1 .. Len(BW)}
            = BinSegs
      BY <3>a, <3>1 DEF BinSegs, BW
    <3>3. fs' = [fs EXCEPT ![Path] = Put(fs[Path], BinSegs, 24)]
      <4>1. PutWords(fs[Path], "bin", BW)
              = Put(fs[Path], {Word32("bin", BW[k], fs[Path].gen, fs[Path].pos + 4 * (k - 1)) :
                               k \in 1 .. Len(BW)}, 4 * Len(BW))
        BY DEF PutWords
      <4>2. 4 * Len(BW) = 24
        BY <3>1
      <4>3. PutWords(fs[Path], "bin", BW) = Put(fs[Path], BinSegs, 24)
        BY <3>2, <4>1, <4>2, Zenon
      <4>. QED  BY <2>2, <4>3
    <3>4. BinSegs \in SUBSET Seg
          /\ \A x \in BinSegs : /\ x.g = run /\ fs[Path].pos <= x.at
                                /\ x.at + x.n <= fs[Path].pos + 24
      <4>1. \A k \in 1 .. 6 : BW[k] \in U32
        BY <3>1, ElementOfSeq
      <4>2. BinSegs \in SUBSET Seg
        <5>1. \A k \in 1 .. 6 : Word32("bin", BW[k], run, 4 * (k - 1)) \in Seg
          BY <3>a, <4>1 DEF Word32, Seg, WordFields
        <5>. QED  BY <5>1 DEF BinSegs, BW
      <4>3. \A x \in BinSegs : /\ x.g = run /\ fs[Path].pos <= x.at
                               /\ x.at + x.n <= fs[Path].pos + 24
        BY <3>a DEF BinSegs, Word32
      <4>. QED  BY <4>2, <4>3
    <3>5. pc' = next /\ IsOpen' /\ pc' \in WriteSteps
      BY <2>2 DEF Goto, IsOpen, WriteSteps
    <3>6. /\ Cur(fs'[Path]) = BinSegs /\ fs'[Path].pos = 24
          /\ Bounded' /\ Generations' /\ ImagesSound'
      <4>1. UNCHANGED <<run, version, tgt, ext>> /\ pc \in WriteSteps
        BY <1>a, <2>2 DEF WriteSteps
      <4>2. /\ Cur(fs'[Path]) = Cur(fs[Path]) \cup BinSegs
            /\ fs'[Path].pos = fs[Path].pos + 24
            /\ Bounded' /\ Generations' /\ ImagesSound'
        BY <3>3, <3>4, <3>5, <4>1, WriteStep
      <4>. QED  BY <3>a, <4>2
    <3>7. Written'
      BY <1>a, <2>2, <3>5, <3>6, ShapesKept
      DEF Written, Holds, HeadSegs, DescAt, Signed
    <3>8. Extracted'
      <4>1. ~H.overflow
        BY <1>a, <1>2 DEF Checked
      <4>. QED  BY <1>a, <2>2, <3>5, <4>1, ShapesKept
                DEF SInv, Extracted, AfterImage, AfterSigs, SignedOnly, WriteSteps, Signed
    <3>. QED  BY <3>6, <3>7, <3>8 DEF SInv
  <2>. QED  BY <1>2, <2>1, <2>2, <1>a DEF WriteThen, BW
<1>. QED  BY <1>1, <1>2 DEF WriteBinHdr

(* The write steps after the bin header, each followed by the next.        *)
Advances == {<<"hshdr", "sigwrite">>, <<"sigwrite", "patchwrite">>, <<"patchwrite", "desc">>,
             <<"descwrite", "imagewrite">>, <<"imagewrite", "sync">>}

(* A write reads nothing: what was extracted stays as it was.              *)
LEMMA ExtractedKept ==
    ASSUME SInv, UNCHANGED <<run, version, tgt, ext>>, <<pc, pc'>> \in Advances
    PROVE  Extracted'
<1>1. H' = H /\ Sig' = Sig
  BY ShapesKept
<1>2. IsOpen /\ IsOpen'
  BY DEF SInv, Extracted, SignedOnly, Advances, IsOpen, WriteSteps, Signed
<1>. QED  BY <1>1, <1>2 DEF SInv, Extracted, AfterImage, AfterSigs, SignedOnly, WriteSteps,
                           Advances, Signed

(* One write_all of a blob of n bytes at the cursor.                       *)
LEMMA BlobStep ==
    ASSUME SInv, pc \in WriteSteps, NEW f \in BlobFields, NEW n \in Nat,
           NEW next \in WriteSteps, pc' = next, UNCHANGED <<run, version, tgt, ext>>,
           fs' = [fs EXCEPT ![Path] = PutBlob(fs[Path], f, n)]
    PROVE  /\ Cur(fs'[Path]) = Cur(fs[Path]) \cup {Blob(f, n, run, fs[Path].pos)}
           /\ fs'[Path].pos = fs[Path].pos + n
           /\ Bounded' /\ Generations' /\ ImagesSound'
<1>a. fs[Path] \in File /\ fs[Path].gen = run /\ run \in Nat
  BY AtWrite
<1>1. {Blob(f, n, run, fs[Path].pos)} \in SUBSET Seg
  BY <1>a, WordFacts DEF Blob, Seg, File, U32, BlobFields
<1>2. fs' = [fs EXCEPT ![Path] = Put(fs[Path], {Blob(f, n, run, fs[Path].pos)}, n)]
  BY <1>a DEF PutBlob
<1>3. \A x \in {Blob(f, n, run, fs[Path].pos)} :
          /\ x.g = run /\ fs[Path].pos <= x.at /\ x.at + x.n <= fs[Path].pos + n
  BY <1>a DEF Blob, File
<1>4. IsOpen'
  BY DEF IsOpen
<1>. QED  BY <1>1, <1>2, <1>3, <1>4, WriteStep

(* The signature block, written after the hs header at offset 60.          *)
LEMMA WriteSigsSInv ==
    ASSUME SInv, IInv', WriteSigs
    PROVE  SInv'
<1>1. CASE IoFaults /\ Fail("io")
  BY <1>1, FailSInv
<1>2. CASE /\ fs' = [fs EXCEPT ![Path] = PutBlob(@, "sigs", ext.sigs)]
           /\ Goto("patchwrite")
           /\ UNCHANGED <<whence, run, version, wantWhence, tgt, ext, exit, err>>
  <2>a. pc = "sigwrite" /\ ext \in Ext /\ Holds(BinSegs \cup HsSegs, 60)
    BY AtWrite DEF WriteSigs, SInv, Written, WriteSteps
  <2>1. /\ Cur(fs'[Path]) = Cur(fs[Path]) \cup {Blob("sigs", ext.sigs, run, fs[Path].pos)}
        /\ fs'[Path].pos = fs[Path].pos + ext.sigs
        /\ Bounded' /\ Generations' /\ ImagesSound'
    BY <1>2, <2>a, BlobStep DEF Goto, WriteSteps, BlobFields, Ext
  <2>2. Written'
    BY <1>2, <2>a, <2>1, ShapesKept DEF Goto, Written, Holds, SigsSeg
  <2>3. Extracted'
    BY <1>2, <2>a, ExtractedKept DEF Goto, Advances
  <2>. QED  BY <2>1, <2>2, <2>3 DEF SInv
<1>. QED  BY <1>1, <1>2 DEF WriteSigs, WriteBlobThen

(* The descriptor, written after the headers (at 84 + sigs for a signed   *)
(* image, at 24 for a bootloader).                                         *)
LEMMA WriteDescSInv ==
    ASSUME SInv, IInv', WriteDesc
    PROVE  SInv'
<1>1. CASE IoFaults /\ Fail("io")
  BY <1>1, FailSInv
<1>2. CASE /\ fs' = [fs EXCEPT ![Path] = PutBlob(@, "desc", ext.desc)]
           /\ Goto("imagewrite")
           /\ UNCHANGED <<whence, run, version, wantWhence, tgt, ext, exit, err>>
  <2>a. pc = "descwrite" /\ ext \in Ext /\ Holds(HeadSegs, DescAt)
    BY AtWrite DEF WriteDesc, SInv, Written, WriteSteps, IsOpen
  <2>1. /\ Cur(fs'[Path]) = Cur(fs[Path]) \cup {Blob("desc", ext.desc, run, fs[Path].pos)}
        /\ fs'[Path].pos = fs[Path].pos + ext.desc
        /\ Bounded' /\ Generations' /\ ImagesSound'
    BY <1>2, <2>a, BlobStep DEF Goto, WriteSteps, BlobFields, Ext
  <2>2. Written'
    BY <1>2, <2>a, <2>1, ShapesKept DEF Goto, Written, Holds, DescSeg, ImageAt
  <2>3. Extracted'
    BY <1>2, <2>a, ExtractedKept DEF Goto, Advances
  <2>. QED  BY <2>1, <2>2, <2>3 DEF SInv
<1>. QED  BY <1>1, <1>2 DEF WriteDesc, WriteBlobThen

(* The firmware image, written last.                                       *)
LEMMA WriteImageSInv ==
    ASSUME SInv, IInv', WriteImage
    PROVE  SInv'
<1>1. CASE IoFaults /\ Fail("io")
  BY <1>1, FailSInv
<1>2. CASE /\ fs' = [fs EXCEPT ![Path] = PutBlob(@, "image", ext.image)]
           /\ Goto("sync")
           /\ UNCHANGED <<whence, run, version, wantWhence, tgt, ext, exit, err>>
  <2>a. pc = "imagewrite" /\ ext \in Ext /\ Holds(HeadSegs \cup {DescSeg}, ImageAt)
    BY AtWrite DEF WriteImage, SInv, Written, WriteSteps
  <2>1. /\ Cur(fs'[Path]) = Cur(fs[Path]) \cup {Blob("image", ext.image, run, fs[Path].pos)}
        /\ fs'[Path].pos = fs[Path].pos + ext.image
        /\ Bounded' /\ Generations' /\ ImagesSound'
    BY <1>2, <2>a, BlobStep DEF Goto, WriteSteps, BlobFields, Ext
  <2>2. Written'
    BY <1>2, <2>a, <2>1, ShapesKept DEF Goto, Written, Holds, ImageSeg
  <2>3. Extracted'
    BY <1>2, <2>a, ExtractedKept DEF Goto, Advances
  <2>. QED  BY <2>1, <2>2, <2>3 DEF SInv
<1>. QED  BY <1>1, <1>2 DEF WriteImage, WriteBlobThen

(* The nvfw_hs_header_v2, written after the bin header at offset 24.      *)
LEMMA WriteHsHdrSInv ==
    ASSUME SInv, IInv', WriteHsHdr
    PROVE  SInv'
<1> DEFINE hw == HsHdrV2(AsU32(ext.sigs))
<1>1. CASE IoFaults /\ Fail("io")
  BY <1>1, FailSInv DEF WriteHsHdr, WriteThen
<1>2. CASE /\ fs' = [fs EXCEPT ![Path] = PutWords(@, "hs", hw)]
           /\ Goto("sigwrite")
           /\ UNCHANGED <<whence, run, version, wantWhence, tgt, ext, exit, err>>
  <2>a. /\ pc = "hshdr" /\ ext \in Ext /\ run \in Nat
        /\ fs[Path] \in File /\ fs[Path].gen = run
        /\ Cur(fs[Path]) = BinSegs /\ fs[Path].pos = 24
    BY AtWrite DEF WriteHsHdr, SInv, Written, Holds, WriteSteps
  <2>1. hw \in Seq(U32) /\ Len(hw) = 9
    <3>1. AsU32(ext.sigs) \in U32
      BY <2>a, AddType DEF Ext
    <3>. QED  BY <3>1, HsHdrType DEF HsHdrV2
  <2>2. fs' = [fs EXCEPT ![Path] = Put(fs[Path], HsSegs, 36)]
    <3>1. PutWords(fs[Path], "hs", hw)
            = Put(fs[Path], {Word32("hs", hw[k], fs[Path].gen, fs[Path].pos + 4 * (k - 1)) :
                             k \in 1 .. Len(hw)}, 4 * Len(hw))
      BY DEF PutWords
    <3>2. {Word32("hs", hw[k], fs[Path].gen, fs[Path].pos + 4 * (k - 1)) : k \in 1 .. Len(hw)}
            = HsSegs
      BY <2>a, <2>1 DEF HsSegs
    <3>3. 4 * Len(hw) = 36
      BY <2>1
    <3>4. PutWords(fs[Path], "hs", hw) = Put(fs[Path], HsSegs, 36)
      BY <3>1, <3>2, <3>3, Zenon
    <3>. QED  BY <1>2, <3>4
  <2>3. /\ HsSegs \in SUBSET Seg
        /\ \A x \in HsSegs : /\ x.g = run /\ fs[Path].pos <= x.at
                             /\ x.at + x.n <= fs[Path].pos + 36
    <3>1. \A k \in 1 .. 9 : hw[k] \in U32
      BY <2>1, ElementOfSeq
    <3>2. ASSUME NEW k \in 1 .. 9
          PROVE  Word32("hs", hw[k], run, 24 + 4 * (k - 1)) \in Seg
      <4>1. "hs" \in WordFields /\ hw[k] \in U32
        BY <3>1 DEF WordFields
      <4>2. run \in Nat /\ 24 + 4 * (k - 1) \in Nat
        BY <2>a
      <4>. QED  BY <4>1, <4>2, Zenon DEF Word32, Seg
    <3>3. HsSegs \in SUBSET Seg
      BY <3>2 DEF HsSegs
    <3>4. \A x \in HsSegs : /\ x.g = run /\ fs[Path].pos <= x.at
                            /\ x.at + x.n <= fs[Path].pos + 36
      BY <2>a DEF HsSegs, Word32
    <3>. QED  BY <3>3, <3>4
  <2>4. /\ Cur(fs'[Path]) = BinSegs \cup HsSegs /\ fs'[Path].pos = 60
        /\ Bounded' /\ Generations' /\ ImagesSound'
    <3>1. UNCHANGED <<run, version, tgt, ext>> /\ pc \in WriteSteps /\ IsOpen'
      BY <1>2, <2>a DEF Goto, IsOpen, WriteSteps
    <3>2. /\ Cur(fs'[Path]) = Cur(fs[Path]) \cup HsSegs
          /\ fs'[Path].pos = fs[Path].pos + 36
          /\ Bounded' /\ Generations' /\ ImagesSound'
      BY <2>2, <2>3, <3>1, WriteStep
    <3>. QED  BY <2>a, <3>2
  <2>5. Written'
    BY <1>2, <2>4, ShapesKept DEF Goto, Written, Holds
  <2>6. Extracted'
    BY <1>2, <2>a, ExtractedKept DEF Goto, Advances
  <2>. QED  BY <2>4, <2>5, <2>6 DEF SInv
<1>. QED  BY <1>1, <1>2 DEF WriteHsHdr, WriteThen

(* patch_loc, patch_sig, the three meta words and num_sigs, written after *)
(* the signatures.                                                         *)
LEMMA WritePatchMetaSInv ==
    ASSUME SInv, IInv', WritePatchMeta
    PROVE  SInv'
<1>1. CASE IoFaults /\ Fail("io")
  BY <1>1, FailSInv
<1>2. CASE /\ fs' = [fs EXCEPT ![Path] =
                     Put(@, {Word32(PatchTags[k], PatchWords[k], @.gen, @.pos + 4 * (k - 1)) :
                             k \in 1 .. 6}, 24)]
           /\ Goto("desc")
           /\ UNCHANGED <<whence, run, version, wantWhence, tgt, ext, exit, err>>
  <2>a. /\ pc = "patchwrite" /\ ext \in Ext /\ run \in Nat /\ Signed(tgt)
        /\ fs[Path] \in File /\ fs[Path].gen = run
        /\ Cur(fs[Path]) = BinSegs \cup HsSegs \cup {SigsSeg}
        /\ fs[Path].pos = 60 + ext.sigs
    BY AtWrite DEF WritePatchMeta, SInv, Written, Holds, WriteSteps, Extracted, SignedOnly
  <2>1. fs' = [fs EXCEPT ![Path] = Put(fs[Path], PatchSegs, 24)]
    BY <1>2, <2>a DEF PatchSegs
  <2>2. /\ PatchSegs \in SUBSET Seg
        /\ \A x \in PatchSegs : /\ x.g = run /\ fs[Path].pos <= x.at
                                /\ x.at + x.n <= fs[Path].pos + 24
    <3>1. PatchSegs \in SUBSET Seg
      BY <2>a, PatchSegsType DEF PatchSegs
    <3>2. ASSUME NEW x \in PatchSegs
          PROVE  /\ x.g = run /\ fs[Path].pos <= x.at
                 /\ x.at + x.n <= fs[Path].pos + 24
      <4>1. PICK k \in 1 .. 6 :
                   x = Word32(PatchTags[k], PatchWords[k], run, 60 + ext.sigs + 4 * (k - 1))
        BY DEF PatchSegs
      <4>2. ext.sigs \in Nat
        BY <2>a DEF Ext
      <4>3. x.g = run /\ x.at = 60 + ext.sigs + 4 * (k - 1) /\ x.n = 4
        BY <4>1 DEF Word32
      <4>. QED  BY <2>a, <4>2, <4>3
    <3>. QED  BY <3>1, <3>2
  <2>3. /\ Cur(fs'[Path]) = BinSegs \cup HsSegs \cup {SigsSeg} \cup PatchSegs
        /\ fs'[Path].pos = 84 + ext.sigs
        /\ Bounded' /\ Generations' /\ ImagesSound'
    <3>1. UNCHANGED <<run, version, tgt, ext>> /\ pc \in WriteSteps /\ IsOpen'
      <4>1. UNCHANGED <<run, version, tgt, ext>> /\ pc' = "desc"
        BY <1>2 DEF Goto
      <4>2. pc \in WriteSteps
        BY <2>a DEF WriteSteps
      <4>3. Signed(tgt)'
        BY <2>a, <4>1 DEF Signed
      <4>. QED  BY <4>1, <4>2, <4>3 DEF IsOpen
    <3>2. /\ Cur(fs'[Path]) = Cur(fs[Path]) \cup PatchSegs
          /\ fs'[Path].pos = fs[Path].pos + 24
          /\ Bounded' /\ Generations' /\ ImagesSound'
      BY <2>1, <2>2, <3>1, WriteStep
    <3>3. fs'[Path].pos = 84 + ext.sigs
      BY <2>a, <3>2 DEF Ext
    <3>4. Cur(fs'[Path]) = BinSegs \cup HsSegs \cup {SigsSeg} \cup PatchSegs
      BY <2>a, <3>2, Zenon
    <3>. QED  BY <3>2, <3>3, <3>4
  <2>4. Written'
    <3>1. IsOpen' /\ pc' = "desc" /\ Signed(tgt)'
      BY <1>2, <2>a DEF Goto, IsOpen, Signed
    <3>2. /\ HeadSegs' = BinSegs \cup HsSegs \cup {SigsSeg} \cup PatchSegs
          /\ DescAt' = 84 + ext.sigs /\ Path' = Path
      <4>1. UNCHANGED <<run, version, tgt, ext>>
        BY <1>2
      <4>. QED  BY <2>a, <4>1, ShapesKept DEF HeadSegs, DescAt
    <3>3. Holds(HeadSegs, DescAt)'
      BY <2>3, <3>2 DEF Holds
    <3>. QED  BY <3>1, <3>3 DEF Written
  <2>5. Extracted'
    BY <1>2, <2>a, ExtractedKept DEF Goto, Advances
  <2>. QED  BY <2>3, <2>4, <2>5 DEF SInv
<1>. QED  BY <1>1, <1>2 DEF WritePatchMeta

(* What ImagesSound says of one finished target.                          *)
ImageOK(i) ==
    /\ FileOf(i) # NoFile
    /\ FileOf(i).gen = run
    /\ BinOK(FileOf(i)) /\ TotalOK(FileOf(i))
    /\ IF Signed(i) THEN SignedOK(FileOf(i), Targets[i].sigsize)
                    ELSE PlainOK(FileOf(i))

(* sync_all, and the assembler returns Ok: the image of the target is     *)
(* finished, and it reads back through its headers.                        *)
LEMMA SyncSInv ==
    ASSUME Checked, SInv, IInv', Sync
    PROVE  SInv'
<1>1. CASE IoFaults /\ Fail("io")
  BY <1>1, FailSInv
<1>2. CASE /\ tgt' = tgt + 1
           /\ Goto(IF tgt < Len(Targets) THEN "mkdir"
                   ELSE IF wantWhence THEN "whence" ELSE "done")
           /\ ext' = NoExt
           /\ UNCHANGED <<fs, whence, run, version, wantWhence, exit, err>>
  <2>a. /\ pc = "sync" /\ tgt \in Idx /\ Path \in Paths /\ run \in Nat
        /\ fs \in [Paths -> File \cup {NoFile}]
    BY AtWrite DEF Sync, SInv, IInv, TypeOK, WriteSteps
  <2>b. pc' \in {"mkdir", "whence", "done"} /\ ~IsOpen'
    BY <1>2 DEF Goto, IsOpen, WriteSteps
  <2>1. Bounded' /\ Written' /\ Extracted'
    <3>1. Bounded'
      BY <2>b DEF Bounded
    <3>2. Written'
      BY <2>b DEF Written, WriteSteps
    <3>3. Extracted'
      BY <2>b DEF Extracted, AfterImage, AfterSigs, SignedOnly, WriteSteps
    <3>. QED  BY <3>1, <3>2, <3>3
  <2>2. Generations'
    <3>1. \A p \in Paths : p[1] \in Idx
      BY DEF Paths
    <3>2. \A p \in Paths : fs[p] # NoFile /\ fs[p].gen = run => p[1] <= tgt
      BY <2>a, <3>1 DEF SInv, Generations, Idx
    <3>3. ASSUME NEW p \in Paths, fs[p] # NoFile
          PROVE  /\ fs[p].gen <= run
                 /\ \A x \in fs[p].segs : x.g <= fs[p].gen
                 /\ fs[p].gen = run => p[2] = version /\ p[1] < tgt + 1
      <4>1. /\ fs[p].gen <= run
            /\ \A x \in fs[p].segs : x.g <= fs[p].gen
            /\ fs[p].gen = run => p[2] = version
        BY <3>3, Zenon DEF SInv, Generations
      <4>2. fs[p].gen = run => p[1] < tgt + 1
        BY <2>a, <3>1, <3>2, <3>3 DEF Idx
      <4>. QED  BY <4>1, <4>2
    <3>4. UNCHANGED <<fs, run, version>> /\ tgt' = tgt + 1
      BY <1>2
    <3>. QED  BY <3>3, <3>4, Zenon DEF Generations
  <2>3. ImagesSound'
    <3>1. ImagesSound = \A i \in Idx : Done(i) => ImageOK(i)
      BY DEF ImagesSound, ImageOK
    <3>2. \A i \in Idx : ImageOK(i)' = ImageOK(i)
      BY <1>2 DEF ImageOK, FileOf
    <3>3. ImageOK(tgt)
      <4>1. AtSync
        BY <2>a DEF AtSync, SInv
      <4>2. FileOf(tgt) = fs[Path]
        BY DEF FileOf, Path
      <4>3. fs[Path] # NoFile /\ fs[Path].gen = run
        BY <4>1, SyncBasics, NoFileNotFile
      <4>4. CASE Signed(tgt)
        BY <4>1, <4>2, <4>3, <4>4, SignedSound DEF ImageOK
      <4>5. CASE ~Signed(tgt)
        BY <4>1, <4>2, <4>3, <4>5, PlainSound DEF ImageOK
      <4>. QED  BY <4>4, <4>5
    <3>4. \A i \in Idx : i < tgt + 1 => i < tgt \/ i = tgt
      BY <2>a DEF Idx
    <3>5. \A i \in Idx : Done(i)' => ImageOK(i)'
      <4>1. \A i \in Idx : Done(i) => ImageOK(i)
        BY <3>1 DEF SInv
      <4>2. \A i \in Idx : Done(i)' => i < tgt \/ i = tgt
        BY <1>2, <3>4 DEF Done
      <4>. QED  BY <3>2, <3>3, <4>1, <4>2 DEF Done
    <3>6. ImagesSound' = \A i \in Idx : Done(i)' => ImageOK(i)'
      BY DEF ImagesSound, ImageOK
    <3>. QED  BY <3>5, <3>6
  <2>. QED  BY <2>1, <2>2, <2>3 DEF SInv
<1>. QED  BY <1>1, <1>2 DEF Sync

-----------------------------------------------------------------------------
(* The first run starts with an empty output directory.                    *)
LEMMA InitSInv == Init => SInv
<1> SUFFICES ASSUME Init PROVE SInv
  OBVIOUS
<1>1. IInv
  BY InitIInv
<1>2. Generations /\ ImagesSound
  <2>1. Generations
    BY DEF Init, Generations
  <2>2. \A i \in Idx : ~Done(i)
    BY DEF Init, Done, Idx
  <2>. QED  BY <2>1, <2>2 DEF ImagesSound
<1>a. pc = "start"
  BY DEF Init
<1>b. ~IsOpen
  BY <1>a DEF IsOpen, WriteSteps
<1>c. Bounded
  BY <1>b DEF Bounded
<1>d. Written
  BY <1>a, <1>b DEF Written
<1>e. Extracted
  BY <1>a, <1>b DEF Extracted, AfterImage, AfterSigs, SignedOnly, WriteSteps
<1>3. Bounded /\ Written /\ Extracted
  BY <1>c, <1>d, <1>e
<1>. QED  BY <1>1, <1>2, <1>3 DEF SInv

(* SInv is an inductive invariant of a build with overflow checks.        *)
LEMMA NextSInv == Checked /\ SInv /\ [Next]_vars => SInv'
<1> SUFFICES ASSUME Checked, SInv, [Next]_vars PROVE SInv'
  OBVIOUS
<1>0. IInv'
  BY NextIInv DEF SInv
<1>1. CASE Startup
  BY <1>0, <1>1, StartupSInv
<1>2. CASE MkDir
  BY <1>0, <1>2, MkDirSInv
<1>3. CASE ExtractImage
  BY <1>0, <1>3, ExtractImageSInv
<1>4. CASE ExtractSigs
  BY <1>0, <1>4, ExtractSigsSInv
<1>5. CASE ExtractPatchLoc \/ ExtractPatchMeta
  BY <1>0, <1>5, ExtractPatchSInv
<1>6. CASE ExtractDesc
  BY <1>0, <1>6, ExtractDescSInv
<1>7. CASE Open
  BY <1>0, <1>7, OpenSInv
<1>8. CASE WriteBinHdr
  BY <1>0, <1>8, WriteBinHdrSInv
<1>9. CASE WriteHsHdr
  BY <1>0, <1>9, WriteHsHdrSInv
<1>10. CASE WriteSigs
  BY <1>0, <1>10, WriteSigsSInv
<1>11. CASE WritePatchMeta
  BY <1>0, <1>11, WritePatchMetaSInv
<1>12. CASE WriteDesc
  BY <1>0, <1>12, WriteDescSInv
<1>13. CASE WriteImage
  BY <1>0, <1>13, WriteImageSInv
<1>14. CASE Sync
  BY <1>0, <1>14, SyncSInv
<1>15. CASE OpenWhence \/ WriteWhence \/ SyncWhence
  BY <1>0, <1>15, WhenceSInv
<1>16. CASE Finish \/ Kill \/ Stopped \/ UNCHANGED vars
  BY <1>0, <1>16, EndSInv
<1>17. CASE Rerun
  BY <1>0, <1>17, RerunSInv
<1>. QED  BY <1>1, <1>2, <1>3, <1>4, <1>5, <1>6, <1>7, <1>8, <1>9, <1>10, <1>11,
             <1>12, <1>13, <1>14, <1>15, <1>16, <1>17 DEF Next

(* In a build that panics on u32 overflow, with signature and descriptor  *)
(* arrays shorter than 2^32 bytes, every image that booter(), scrubber()  *)
(* or bootloader() has returned Ok for in the current run reads back       *)
(* through its own headers, whatever earlier runs, kills and failed       *)
(* writes left in the files it opened without truncation.                  *)
THEOREM ImagesSoundChecked ==
    ASSUME Checked
    PROVE  Spec => []ImagesSound
<1>1. SInv => ImagesSound
  BY DEF SInv
<1>2. SInv /\ [Next]_vars => SInv'
  BY NextSInv
<1>. QED  BY <1>1, <1>2, InitSInv, PTL DEF Spec
=============================================================================
