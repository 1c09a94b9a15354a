--------------------------- MODULE FirmwareProofs ---------------------------
(***************************************************************************)
(* Proofs about Firmware: the u32 arithmetic stays within the width, the  *)
(* file operations keep a file a file, and TypeOK is an invariant of the  *)
(* specification for every instance of the constants.                     *)
(***************************************************************************)
EXTENDS Firmware, SequenceTheorems, TLAPS

LEMMA WordFacts == Word \in Nat /\ Word >= 8192
BY WordBitsAssumption

(* Every u32 operation of the header code yields a u32.                    *)
LEMMA AddType ==
    ASSUME NEW x \in Nat, NEW y \in Nat
    PROVE  Add(x, y) \in U32 /\ AsU32(x) \in U32
BY WordFacts DEF Add, AsU32, U32

LEMMA RoundUpType ==
    ASSUME NEW x \in Nat
    PROVE  RoundUpToBase(x, 256) \in U32
<1>1. Add(x, 255) \in U32
  BY AddType
<1>2. (Add(x, 255) \div 256) * 256 <= Add(x, 255)
  BY <1>1, WordFacts DEF U32
<1>. QED  BY <1>1, <1>2, WordFacts DEF RoundUpToBase, U32

LEMMA BinHdrType ==
    ASSUME NEW t \in U32, NEW o \in U32, NEW s \in U32
    PROVE  BinHdr(t, o, s) \in Seq(U32)
BY WordFacts DEF BinHdr, BinMagic, U32

LEMMA HsHdrType ==
    ASSUME NEW x \in U32
    PROVE  HsHdrV2(x) \in Seq(U32)
<1>1. /\ PatchLocOffset(x) \in U32 /\ PatchSigOffset(x) \in U32
      /\ MetaDataOffset(x) \in U32 /\ NumSigOffset(x) \in U32
      /\ HeaderOffset(x) \in U32
  BY WordFacts DEF PatchLocOffset, PatchSigOffset, MetaDataOffset,
                   NumSigOffset, HeaderOffset, Add, U32
<1>. QED  BY <1>1, WordFacts DEF HsHdrV2, U32

(* A write at the cursor, a write of words, a write of a blob, and an     *)
(* open all leave a file.                                                  *)
LEMMA PutType ==
    ASSUME NEW file \in File, NEW new \in SUBSET Seg, NEW len \in Nat
    PROVE  Put(file, new, len) \in File
<1>1. {x \in file.segs : ~Overlaps(x, file.pos, len)} \cup new \in SUBSET Seg
  BY DEF File
<1>2. /\ file.pos + len \in Nat
      /\ MaxOf(file.size, file.pos + len) \in Nat
  BY DEF File, MaxOf
<1>. QED  BY <1>1, <1>2 DEF Put, File

LEMMA PutWordsType ==
    ASSUME NEW file \in File, NEW f \in WordFields, NEW ws \in Seq(U32)
    PROVE  PutWords(file, f, ws) \in File
<1>1. {Word32(f, ws[k], file.gen, file.pos + 4 * (k - 1)) : k \in 1 .. Len(ws)}
        \in SUBSET Seg
  BY DEF Word32, Seg, File
<1>. QED  BY <1>1, PutType DEF PutWords

LEMMA PutBlobType ==
    ASSUME NEW file \in File, NEW f \in BlobFields, NEW n \in Nat
    PROVE  PutBlob(file, f, n) \in File
<1>1. {Blob(f, n, file.gen, file.pos)} \in SUBSET Seg
  BY WordFacts DEF Blob, Seg, File, U32
<1>. QED  BY <1>1, PutType DEF PutBlob

LEMMA ReopenType ==
    ASSUME NEW file \in File \cup {NoFile}, NEW g \in Nat
    PROVE  Reopen(file, g) \in File
BY DEF Reopen, File
(* The sums of the bin header are u32 words.                               *)
LEMMA SumsType ==
    ASSUME NEW e \in Ext
    PROVE  LET sig == AsU32(e.sigs) fw == AsU32(e.image) desc == AsU32(e.desc)
           IN  /\ RoundUpToBase(Add(Add(120, sig), fw), 256) \in U32
               /\ Add(120, sig) \in U32 /\ fw \in U32
               /\ RoundUpToBase(Add(Add(24, fw), desc), 256) \in U32
               /\ Add(24, desc) \in U32
<1>1. AsU32(e.sigs) \in U32 /\ AsU32(e.image) \in U32 /\ AsU32(e.desc) \in U32
  BY AddType DEF Ext
<1>2. /\ Add(120, AsU32(e.sigs)) \in U32
      /\ Add(24, AsU32(e.image)) \in U32
      /\ Add(24, AsU32(e.desc)) \in U32
  BY <1>1, WordFacts DEF Add, U32
<1>3. /\ Add(Add(120, AsU32(e.sigs)), AsU32(e.image)) \in U32
      /\ Add(Add(24, AsU32(e.image)), AsU32(e.desc)) \in U32
  BY <1>1, <1>2, WordFacts DEF Add, U32
<1>. QED  BY <1>1, <1>2, <1>3, RoundUpType DEF U32

(* round_up_to_base(x, 256), when x + 256 does not overflow, is the       *)
(* least multiple of 256 that is at least x: the total_size of a header    *)
(* written by booter(), scrubber() or bootloader() covers its sum and      *)
(* pads it by less than 256 bytes.                                         *)
THEOREM RoundUpCorrect ==
    ASSUME NEW x \in U32, ~RoundUpOverflows(x, 256)
    PROVE  /\ RoundUpToBase(x, 256) % 256 = 0
           /\ x <= RoundUpToBase(x, 256)
           /\ RoundUpToBase(x, 256) < x + 256
<1>1. Add(x, 255) = x + 255
  BY WordFacts DEF RoundUpOverflows, AddOverflows, Add, U32
<1>2. RoundUpToBase(x, 256) = ((x + 255) \div 256) * 256
  BY <1>1 DEF RoundUpToBase
<1>3. x \in Nat
  BY WordFacts DEF U32
<1>. QED  BY <1>2, <1>3

(* The hs header offsets of booter() and scrubber() (60 + signatures_size *)
(* and the four sums after it) never overflow once 120 + signatures_size, *)
(* computed before them for firmware_offset, did not: they are the exact   *)
(* byte offsets, so wrapping Add models them in a checked build as well.   *)
THEOREM HsOffsetsExact ==
    ASSUME NEW sig \in U32, ~AddOverflows(120, sig)
    PROVE  /\ PatchLocOffset(sig) = 60 + sig
           /\ PatchSigOffset(sig) = 64 + sig
           /\ MetaDataOffset(sig) = 68 + sig
           /\ NumSigOffset(sig) = 80 + sig
           /\ HeaderOffset(sig) = 84 + sig
<1>1. sig \in Nat /\ 84 + sig < Word
  BY WordFacts DEF AddOverflows, U32
<1>2. PatchLocOffset(sig) = 60 + sig /\ PatchSigOffset(sig) = 64 + sig
  BY <1>1, WordFacts DEF PatchLocOffset, PatchSigOffset, Add
<1>3. MetaDataOffset(sig) = 68 + sig /\ NumSigOffset(sig) = 80 + sig
  BY <1>1, <1>2, WordFacts DEF MetaDataOffset, NumSigOffset, Add
<1>4. HeaderOffset(sig) = 84 + sig
  BY <1>1, <1>3, WordFacts DEF HeaderOffset, Add
<1>. QED  BY <1>2, <1>3, <1>4

-----------------------------------------------------------------------------
(* Every step keeps the type.                                              *)

LEMMA NoExtType == NoExt \in Ext
BY WordFacts DEF NoExt, Ext, U32

(* Every target of main()'s table has a kind and a positive sigsize.     *)
LEMMA TargetElem ==
    ASSUME NEW i \in 1 .. Len(Targets)
    PROVE  Targets[i] \in [kind : Kinds, sigsize : Nat \ {0}]
<1>1. Targets \in Seq([kind : Kinds, sigsize : Nat \ {0}])
  BY TargetsAssumption
<1>. QED  BY <1>1, ElementOfSeq

(* The current output file is one of the paths.                            *)
LEMMA PathType ==
    ASSUME TypeOK, pc \in TargetSteps
    PROVE  Path \in Paths /\ Sig \in Nat \ {0}
<1>1. tgt \in 1 .. Len(Targets) /\ version \in Versions
  BY DEF TypeOK, Idx
<1>2. Targets[tgt].sigsize \in Nat \ {0}
  BY <1>1, TargetElem
<1>. QED  BY <1>1, <1>2 DEF Path, Paths, Sig, Idx

(* The inductive invariant: types, and the file being written is open.   *)
IInv == TypeOK /\ Opened

(* A `?` that ends the run changes only the exit code and the error.      *)
LEMMA FailType ==
    ASSUME IInv, NEW e \in ErrKinds, Fail(e)
    PROVE  IInv'
BY DEF IInv, TypeOK, Opened, Fail, Path, Signed

(* A step that only moves pc (and reads into ext) inside the target loop. *)
LEMMA GotoType ==
    ASSUME IInv, NEW s \in TargetSteps, Goto(s), ext' \in Ext,
           s \in WriteSteps \/ (s = "desc" /\ Signed(tgt)) => fs[Path] \in File,
           pc \in TargetSteps,
           UNCHANGED <<fs, whence, run, version, wantWhence, tgt, exit, err>>
    PROVE  IInv'
<1>1. tgt \in Idx
  BY DEF IInv, TypeOK
<1>. QED  BY <1>1 DEF IInv, TypeOK, Opened, Goto, Path, Signed, TargetSteps, Steps

(* Writing the open output file keeps fs typed.                            *)
LEMMA WriteFileType ==
    ASSUME IInv, pc \in WriteSteps, NEW nf \in File
    PROVE  [fs EXCEPT ![Path] = nf] \in [Paths -> File \cup {NoFile}]
<1>1. Path \in Paths
  BY PathType DEF IInv, WriteSteps, TargetSteps, Steps
<1>. QED  BY <1>1 DEF IInv, TypeOK

LEMMA OpenFile ==
    ASSUME IInv, pc \in WriteSteps
    PROVE  fs[Path] \in File
BY DEF IInv, Opened

(* One write_all of words, then the next write step.                       *)
LEMMA WriteThenType ==
    ASSUME IInv, pc \in WriteSteps, NEW f \in WordFields, NEW ws \in Seq(U32),
           NEW next \in WriteSteps, WriteThen(f, ws, next)
    PROVE  IInv'
<1>1. CASE IoFaults /\ Fail("io")
  BY <1>1, FailType DEF ErrKinds
<1>2. CASE /\ fs' = [fs EXCEPT ![Path] = PutWords(@, f, ws)]
           /\ Goto(next)
           /\ UNCHANGED <<whence, run, version, wantWhence, tgt, ext, exit, err>>
  <2>1. PutWords(fs[Path], f, ws) \in File
    BY OpenFile, PutWordsType
  <2>2. fs' \in [Paths -> File \cup {NoFile}] /\ fs'[Path] \in File
    BY <1>2, <2>1, WriteFileType, PathType DEF IInv, WriteSteps, TargetSteps, Steps, Paths
  <2>. QED  BY <1>2, <2>2 DEF IInv, TypeOK, Opened, Goto, Path, WriteSteps, TargetSteps, Steps
<1>. QED  BY <1>1, <1>2 DEF WriteThen

(* One write_all of a blob, then the next write step.                      *)
LEMMA WriteBlobThenType ==
    ASSUME IInv, pc \in WriteSteps, NEW f \in BlobFields, NEW n \in Nat,
           NEW next \in WriteSteps, WriteBlobThen(f, n, next)
    PROVE  IInv'
<1>1. CASE IoFaults /\ Fail("io")
  BY <1>1, FailType DEF ErrKinds
<1>2. CASE /\ fs' = [fs EXCEPT ![Path] = PutBlob(@, f, n)]
           /\ Goto(next)
           /\ UNCHANGED <<whence, run, version, wantWhence, tgt, ext, exit, err>>
  <2>1. PutBlob(fs[Path], f, n) \in File
    BY OpenFile, PutBlobType
  <2>2. fs' \in [Paths -> File \cup {NoFile}] /\ fs'[Path] \in File
    BY <1>2, <2>1, WriteFileType, PathType DEF IInv, WriteSteps, TargetSteps, Steps, Paths
  <2>. QED  BY <1>2, <2>2 DEF IInv, TypeOK, Opened, Goto, Path, WriteSteps, TargetSteps, Steps
<1>. QED  BY <1>1, <1>2 DEF WriteBlobThen


(* The words of a bin header, by either sum, are u32.                      *)
LEMMA BinWordsType ==
    ASSUME ext \in Ext
    PROVE  /\ BinHdr(SignedSums.total, SignedSums.offset, SignedSums.size) \in Seq(U32)
           /\ BinHdr(PlainSums.total, PlainSums.offset, PlainSums.size) \in Seq(U32)
<1>a. LET sig == AsU32(ext.sigs) fw == AsU32(ext.image) desc == AsU32(ext.desc)
      IN  /\ RoundUpToBase(Add(Add(120, sig), fw), 256) \in U32
          /\ Add(120, sig) \in U32 /\ fw \in U32
          /\ RoundUpToBase(Add(Add(24, fw), desc), 256) \in U32
          /\ Add(24, desc) \in U32
  BY SumsType
<1>1. SignedSums.total \in U32 /\ SignedSums.offset \in U32 /\ SignedSums.size \in U32
  BY <1>a DEF SignedSums
<1>2. PlainSums.total \in U32 /\ PlainSums.offset \in U32 /\ PlainSums.size \in U32
  BY <1>a DEF PlainSums
<1>. QED  BY <1>1, <1>2, BinHdrType

(* The six patch words are u32 words of the patch fields.                  *)
LEMMA PatchSegsType ==
    ASSUME ext \in Ext, NEW file \in File
    PROVE  {Word32(PatchTags[k], PatchWords[k], file.gen, file.pos + 4 * (k - 1)) :
            k \in 1 .. 6} \in SUBSET Seg
<1>1. \A k \in 1 .. 6 : PatchTags[k] \in WordFields /\ PatchWords[k] \in U32
  BY WordFacts DEF Ext, PatchTags, PatchWords, WordFields, U32
<1>. QED  BY <1>1 DEF Word32, Seg, File

LEMMA InitIInv == Init => IInv
BY TargetsAssumption, InputsAssumption, NoExtType
DEF Init, IInv, TypeOK, Opened, TargetSteps, Steps, WriteSteps, Idx, ErrKinds

(* IInv is an inductive invariant of Firmware.                             *)
LEMMA NextIInv == IInv /\ [Next]_vars => IInv'
<1> SUFFICES ASSUME IInv, [Next]_vars PROVE IInv'
  OBVIOUS
<1>a. ext \in Ext /\ run \in Nat /\ tgt \in Nat
  BY DEF IInv, TypeOK
<1>1. CASE Startup
  BY <1>1 DEF Startup, IInv, TypeOK, Opened, Goto, TargetSteps, Steps, WriteSteps,
              ErrKinds
<1>2. CASE MkDir
  <2>1. CASE IoFaults /\ Fail("io")
    BY <2>1, FailType DEF ErrKinds
  <2>2. CASE Goto("image")
             /\ UNCHANGED <<fs, whence, run, version, wantWhence, tgt, ext, exit, err>>
    BY <1>2, <2>2, <1>a, GotoType DEF MkDir, TargetSteps, Steps, WriteSteps
  <2>. QED  BY <1>2, <2>1, <2>2 DEF MkDir
<1>3. CASE ExtractImage
  <2>1. CASE Fail("source")
    BY <2>1, FailType DEF ErrKinds
  <2>2. CASE \E n \in ImageLens :
                /\ ext' = [NoExt EXCEPT !.image = n]
                /\ Goto(IF Signed(tgt) THEN "sigs" ELSE "desc")
                /\ UNCHANGED <<fs, whence, run, version, wantWhence, tgt, exit, err>>
    <3>1. PICK n \in ImageLens :
                /\ ext' = [NoExt EXCEPT !.image = n]
                /\ Goto(IF Signed(tgt) THEN "sigs" ELSE "desc")
                /\ UNCHANGED <<fs, whence, run, version, wantWhence, tgt, exit, err>>
      BY <2>2
    <3>2. ext' \in Ext
      BY <3>1, NoExtType, InputsAssumption DEF Ext
    <3>3. CASE Signed(tgt)
      BY <1>3, <3>1, <3>2, <3>3, GotoType DEF ExtractImage, TargetSteps, Steps, WriteSteps
    <3>4. CASE ~Signed(tgt)
      BY <1>3, <3>1, <3>2, <3>4, GotoType DEF ExtractImage, TargetSteps, Steps, WriteSteps
    <3>. QED  BY <3>3, <3>4
  <2>. QED  BY <1>3, <2>1, <2>2 DEF ExtractImage
<1>4. CASE ExtractSigs
  <2>1. CASE Fail("source")
    BY <2>1, FailType DEF ErrKinds
  <2>2. CASE \E n \in SigLens :
               LET size == AsU32(n) IN
               \/ size % Sig # 0 /\ Fail("sigcount")
               \/ size % Sig = 0 /\ size \div Sig < 1 /\ Fail("sigcount")
               \/ /\ size % Sig = 0 /\ size \div Sig >= 1
                  /\ ext' = [ext EXCEPT !.sigs = n, !.numSigs = size \div Sig]
                  /\ Goto("patchloc")
                  /\ UNCHANGED <<fs, whence, run, version, wantWhence, tgt, exit, err>>
    <3>1. PICK n \in SigLens :
               LET size == AsU32(n) IN
               \/ size % Sig # 0 /\ Fail("sigcount")
               \/ size % Sig = 0 /\ size \div Sig < 1 /\ Fail("sigcount")
               \/ /\ size % Sig = 0 /\ size \div Sig >= 1
                  /\ ext' = [ext EXCEPT !.sigs = n, !.numSigs = size \div Sig]
                  /\ Goto("patchloc")
                  /\ UNCHANGED <<fs, whence, run, version, wantWhence, tgt, exit, err>>
      BY <2>2
    <3>2. n \in Nat /\ Sig \in Nat \ {0} /\ AsU32(n) \in U32
      BY <1>4, PathType, AddType, InputsAssumption
      DEF ExtractSigs, IInv, TargetSteps, Steps
    <3>3. AsU32(n) \div Sig \in U32
      BY <3>2, WordFacts DEF U32
    <3>4. [ext EXCEPT !.sigs = n, !.numSigs = AsU32(n) \div Sig] \in Ext
      BY <1>a, <3>2, <3>3 DEF Ext
    <3>. QED  BY <1>4, <3>1, <3>4, FailType, GotoType
              DEF ExtractSigs, ErrKinds, TargetSteps, Steps, WriteSteps
  <2>. QED  BY <1>4, <2>1, <2>2 DEF ExtractSigs
<1>5. CASE ExtractPatchLoc
  <2>1. CASE Fail("source")
    BY <2>1, FailType DEF ErrKinds
  <2>2. CASE \E v \in PatchLocs :
               /\ ext' = [ext EXCEPT !.patchLoc = v]
               /\ Goto("patchmeta")
               /\ UNCHANGED <<fs, whence, run, version, wantWhence, tgt, exit, err>>
    <3>1. PICK v \in PatchLocs :
               /\ ext' = [ext EXCEPT !.patchLoc = v]
               /\ Goto("patchmeta")
               /\ UNCHANGED <<fs, whence, run, version, wantWhence, tgt, exit, err>>
      BY <2>2
    <3>2. ext' \in Ext
      BY <1>a, <3>1, InputsAssumption DEF Ext
    <3>. QED  BY <1>5, <3>1, <3>2, GotoType
              DEF ExtractPatchLoc, TargetSteps, Steps, WriteSteps
  <2>. QED  BY <1>5, <2>1, <2>2 DEF ExtractPatchLoc
<1>6. CASE ExtractPatchMeta
  <2>1. CASE Fail("source")
    BY <2>1, FailType DEF ErrKinds
  <2>2. CASE \E m \in [1 .. 3 -> MetaVals] :
               /\ ext' = [ext EXCEPT !.meta = m]
               /\ Goto("open")
               /\ UNCHANGED <<fs, whence, run, version, wantWhence, tgt, exit, err>>
    <3>1. PICK m \in [1 .. 3 -> MetaVals] :
               /\ ext' = [ext EXCEPT !.meta = m]
               /\ Goto("open")
               /\ UNCHANGED <<fs, whence, run, version, wantWhence, tgt, exit, err>>
      BY <2>2
    <3>2. ext' \in Ext
      BY <1>a, <3>1, InputsAssumption DEF Ext
    <3>. QED  BY <1>6, <3>1, <3>2, GotoType
              DEF ExtractPatchMeta, TargetSteps, Steps, WriteSteps
  <2>. QED  BY <1>6, <2>1, <2>2 DEF ExtractPatchMeta
<1>7. CASE ExtractDesc
  <2>1. CASE Fail("source")
    BY <2>1, FailType DEF ErrKinds
  <2>2. CASE \E n \in IF Signed(tgt) THEN {36} ELSE DescLens :
               /\ ext' = [ext EXCEPT !.desc = n]
               /\ Goto(IF Signed(tgt) THEN "descwrite" ELSE "open")
               /\ UNCHANGED <<fs, whence, run, version, wantWhence, tgt, exit, err>>
    <3>1. PICK n \in IF Signed(tgt) THEN {36} ELSE DescLens :
               /\ ext' = [ext EXCEPT !.desc = n]
               /\ Goto(IF Signed(tgt) THEN "descwrite" ELSE "open")
               /\ UNCHANGED <<fs, whence, run, version, wantWhence, tgt, exit, err>>
      BY <2>2
    <3>2. ext' \in Ext
      BY <1>a, <3>1, InputsAssumption DEF Ext
    <3>3. CASE Signed(tgt)
      <4>1. fs[Path] \in File
        BY <1>7, <3>3 DEF ExtractDesc, IInv, Opened
      <4>. QED  BY <1>7, <3>1, <3>2, <3>3, <4>1, GotoType
                DEF ExtractDesc, TargetSteps, Steps, WriteSteps
    <3>4. CASE ~Signed(tgt)
      BY <1>7, <3>1, <3>2, <3>4, GotoType
      DEF ExtractDesc, TargetSteps, Steps, WriteSteps
    <3>. QED  BY <3>3, <3>4
  <2>. QED  BY <1>7, <2>1, <2>2 DEF ExtractDesc
<1>8. CASE Open
  <2>1. CASE IoFaults /\ Fail("io")
    BY <2>1, FailType DEF ErrKinds
  <2>2. CASE /\ fs' = [fs EXCEPT ![Path] = Reopen(@, run)]
             /\ Goto("binhdr")
             /\ UNCHANGED <<whence, run, version, wantWhence, tgt, ext, exit, err>>
    <3>1. Path \in Paths /\ fs[Path] \in File \cup {NoFile}
      BY <1>8, PathType DEF Open, IInv, TypeOK, TargetSteps, Steps
    <3>2. Reopen(fs[Path], run) \in File
      BY <1>a, <3>1, ReopenType
    <3>3. fs' \in [Paths -> File \cup {NoFile}] /\ fs'[Path] \in File
      BY <2>2, <3>1, <3>2 DEF IInv, TypeOK
    <3>. QED  BY <1>8, <2>2, <3>3
              DEF Open, IInv, TypeOK, Opened, Goto, Path, WriteSteps, TargetSteps, Steps
  <2>. QED  BY <1>8, <2>1, <2>2 DEF Open
<1>9. CASE WriteBinHdr
  <2>. DEFINE h == IF Signed(tgt) THEN SignedSums ELSE PlainSums
  <2>1. CASE /\ OverflowChecks /\ h.overflow
             /\ exit' = 101
             /\ err' = "overflow"
             /\ UNCHANGED <<fs, whence, run, version, wantWhence, tgt, pc, ext>>
    BY <2>1 DEF IInv, TypeOK, Opened, Path, Signed, ErrKinds
  <2>2. CASE WriteThen("bin", BinHdr(h.total, h.offset, h.size),
                       IF Signed(tgt) THEN "hshdr" ELSE "descwrite")
    <3>1. BinHdr(h.total, h.offset, h.size) \in Seq(U32)
      BY <1>a, BinWordsType
    <3>2. (IF Signed(tgt) THEN "hshdr" ELSE "descwrite") \in WriteSteps
      BY DEF WriteSteps
    <3>. QED  BY <1>9, <2>2, <3>1, <3>2, WriteThenType
              DEF WriteBinHdr, WriteSteps, WordFields
  <2>. QED  BY <1>9, <2>1, <2>2 DEF WriteBinHdr
<1>10. CASE WriteHsHdr
  <2>1. HsHdrV2(AsU32(ext.sigs)) \in Seq(U32)
    BY <1>a, AddType, HsHdrType DEF Ext
  <2>. QED  BY <1>10, <2>1, WriteThenType DEF WriteHsHdr, WriteSteps, WordFields
<1>11. CASE WriteSigs
  BY <1>11, <1>a, WriteBlobThenType DEF WriteSigs, WriteSteps, BlobFields, Ext
<1>12. CASE WritePatchMeta
  <2>1. CASE IoFaults /\ Fail("io")
    BY <2>1, FailType DEF ErrKinds
  <2>2. CASE /\ fs' = [fs EXCEPT ![Path] =
                       Put(@, {Word32(PatchTags[k], PatchWords[k], @.gen, @.pos + 4 * (k - 1)) :
                               k \in 1 .. 6}, 24)]
             /\ Goto("desc")
             /\ UNCHANGED <<whence, run, version, wantWhence, tgt, ext, exit, err>>
    <3>1. fs[Path] \in File
      BY <1>12, OpenFile DEF WritePatchMeta, WriteSteps
    <3>2. Put(fs[Path], {Word32(PatchTags[k], PatchWords[k], fs[Path].gen,
                                fs[Path].pos + 4 * (k - 1)) : k \in 1 .. 6}, 24)
            \in File
      BY <1>a, <3>1, PatchSegsType, PutType
    <3>3. fs' \in [Paths -> File \cup {NoFile}] /\ fs'[Path] \in File
      BY <1>12, <2>2, <3>2, WriteFileType, PathType
      DEF WritePatchMeta, IInv, WriteSteps, TargetSteps, Steps, Paths
    <3>. QED  BY <1>12, <2>2, <3>3
              DEF WritePatchMeta, IInv, TypeOK, Opened, Goto, Path, WriteSteps,
                  TargetSteps, Steps
  <2>. QED  BY <1>12, <2>1, <2>2 DEF WritePatchMeta
<1>13. CASE WriteDesc
  BY <1>13, <1>a, WriteBlobThenType DEF WriteDesc, WriteSteps, BlobFields, Ext
<1>14. CASE WriteImage
  BY <1>14, <1>a, WriteBlobThenType DEF WriteImage, WriteSteps, BlobFields, Ext
<1>15. CASE Sync
  <2>1. CASE IoFaults /\ Fail("io")
    BY <2>1, FailType DEF ErrKinds
  <2>2. CASE /\ tgt' = tgt + 1
             /\ Goto(IF tgt < Len(Targets) THEN "mkdir"
                     ELSE IF wantWhence THEN "whence" ELSE "done")
             /\ ext' = NoExt
             /\ UNCHANGED <<fs, whence, run, version, wantWhence, exit, err>>
    <3>1. tgt \in 1 .. Len(Targets) /\ Len(Targets) \in Nat
      BY <1>15, TargetsAssumption, LenProperties DEF Sync, IInv, TypeOK, Idx, TargetSteps, Steps
    <3>2. pc' \in Steps \ WriteSteps /\ pc' # "desc" /\ pc' # "whencewrite"
      BY <2>2 DEF Goto, Steps, WriteSteps
    <3>3. pc' \in TargetSteps => tgt' \in Idx
      BY <2>2, <3>1 DEF Goto, TargetSteps, Steps, Idx
    <3>. QED  BY <2>2, <3>1, <3>2, <3>3, NoExtType DEF IInv, TypeOK, Opened
  <2>. QED  BY <1>15, <2>1, <2>2 DEF Sync
<1>16. CASE OpenWhence
  <2>1. CASE IoFaults /\ Fail("io")
    BY <2>1, FailType DEF ErrKinds
  <2>2. CASE /\ whence' = Reopen(whence, run)
             /\ Goto("whencewrite")
             /\ UNCHANGED <<fs, run, version, wantWhence, tgt, ext, exit, err>>
    <3>1. whence' \in File
      BY <1>a, <2>2, ReopenType DEF IInv, TypeOK
    <3>. QED  BY <1>16, <2>2, <3>1
              DEF OpenWhence, IInv, TypeOK, Opened, Goto, TargetSteps, Steps, WriteSteps
  <2>. QED  BY <1>16, <2>1, <2>2 DEF OpenWhence
<1>17. CASE WriteWhence
  <2>1. CASE IoFaults /\ Fail("io")
    BY <2>1, FailType DEF ErrKinds
  <2>2. CASE /\ whence' = PutBlob(whence, "whence", WhenceLen(VersionLen[version]))
             /\ Goto("whencesync")
             /\ UNCHANGED <<fs, run, version, wantWhence, tgt, ext, exit, err>>
    <3>1. WhenceLen(VersionLen[version]) \in Nat
      BY InputsAssumption DEF IInv, TypeOK, WhenceLen
    <3>2. whence \in File
      BY <1>17 DEF WriteWhence, IInv, Opened
    <3>3. whence' \in File
      BY <2>2, <3>1, <3>2, PutBlobType DEF BlobFields
    <3>. QED  BY <1>17, <2>2, <3>3
              DEF WriteWhence, IInv, TypeOK, Opened, Goto, TargetSteps, Steps, WriteSteps
  <2>. QED  BY <1>17, <2>1, <2>2 DEF WriteWhence
<1>18. CASE SyncWhence
  BY <1>18, FailType
  DEF SyncWhence, ErrKinds, IInv, TypeOK, Opened, Goto, TargetSteps, Steps, WriteSteps
<1>19. CASE Finish
  BY <1>19 DEF Finish, IInv, TypeOK, Opened, Path, Signed
<1>20. CASE Kill
  BY <1>20 DEF Kill, IInv, TypeOK, Opened, Path, Signed
<1>21. CASE Rerun
  <2>1. run' \in 1 .. MaxRuns
    BY <1>21, InputsAssumption DEF Rerun, IInv, TypeOK
  <2>2. tgt' \in Idx /\ tgt' \in 1 .. Len(Targets) + 1
    BY <1>21, TargetsAssumption, LenProperties DEF Rerun, Idx
  <2>. QED  BY <1>21, <2>1, <2>2, NoExtType
            DEF Rerun, IInv, TypeOK, Opened, TargetSteps, Steps, WriteSteps, ErrKinds
<1>22. CASE Stopped \/ UNCHANGED vars
  BY <1>22 DEF Stopped, vars, IInv, TypeOK, Opened, Path, Signed
<1>. QED  BY <1>1, <1>2, <1>3, <1>4, <1>5, <1>6, <1>7, <1>8, <1>9, <1>10,
             <1>11, <1>12, <1>13, <1>14, <1>15, <1>16, <1>17, <1>18, <1>19,
             <1>20, <1>21, <1>22 DEF Next

(* Every state of the tool's runs, kills and reruns is well typed.       *)
THEOREM TypeCorrect == Spec => []TypeOK
<1>1. IInv => TypeOK
  BY DEF IInv
<1>. QED  BY <1>1, InitIInv, NextIInv, PTL DEF Spec
=============================================================================
