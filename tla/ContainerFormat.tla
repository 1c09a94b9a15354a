--------------------------- MODULE ContainerFormat ---------------------------
(***************************************************************************)
(* The fixed-layout headers that extract-firmware-nouveau writes in front  *)
(* of every firmware image (main.rs): the 24-byte nvfw_bin_hdr, the 36-byte*)
(* nvfw_hs_header_v2 of the signed (booter, scrubber) images, and the u32  *)
(* arithmetic that computes their fields.                                  *)
(*                                                                         *)
(* Every field is a Rust u32.  Addition is modelled with its width: in a   *)
(* release build it wraps modulo Word, in a build with overflow checks it  *)
(* panics, which the callers model with AddOverflows.  WordBits is 32 in   *)
(* the program; TLC's integers stop at 2^31, so the model-checking runs    *)
(* use a smaller width, and the theorems hold for every width.             *)
(***************************************************************************)
EXTENDS Integers, Sequences

CONSTANT WordBits

Word == 2^WordBits

(* The width holds the header constants (0x10de = 4318) and the sums of   *)
(* small offsets.                                                          *)
ASSUME WordBitsAssumption ==
    /\ WordBits \in Nat /\ WordBits >= 13
    /\ Word \in Nat /\ Word >= 8192

U32 == 0 .. (Word - 1)

(* `x as u32` of a usize length: truncation to the low WordBits bits. *)
AsU32(x) == x % Word

(* u32 `x + y` in a release build (wrapping). *)
Add(x, y) == (x + y) % Word

(* u32 `x + y` panics in a build with overflow checks. *)
AddOverflows(x, y) == x + y >= Word

(* round_up_to_base(x, base) == ((x + base - 1) / base) * base *)
RoundUpToBase(x, base) == (Add(x, base - 1) \div base) * base

(* Rust evaluates x + base - 1 as (x + base) - 1: a checked build panics  *)
(* on the first addition, already at x = 2^32 - base.                     *)
RoundUpOverflows(x, base) == AddOverflows(x, base)

(* The magic number 0x10de of nvfw_bin_hdr. *)
BinMagic == 4318

(* The six u32 words of nvfw_bin_hdr: magic, version 1, total size,       *)
(* header offset 24, payload offset, payload size.                         *)
BinHdr(total, offset, size) == <<BinMagic, 1, total, 24, offset, size>>

(* The byte offset of each field inside the bin header.                    *)
BinTotalOff   == 8
BinPayloadOff == 16
BinSizeOff    == 20

(* The nine u32 words of nvfw_hs_header_v2 for a signature block of       *)
(* sigsize bytes: sig offset 60, sig size, patch_loc offset, patch_sig     *)
(* offset, meta-data offset, meta-data size 12, num_sig offset, header     *)
(* offset, header size 36.                                                 *)
PatchLocOffset(sigsize) == Add(60, sigsize)
PatchSigOffset(sigsize) == Add(PatchLocOffset(sigsize), 4)
MetaDataOffset(sigsize) == Add(PatchSigOffset(sigsize), 4)
NumSigOffset(sigsize)   == Add(MetaDataOffset(sigsize), 12)
HeaderOffset(sigsize)   == Add(NumSigOffset(sigsize), 4)

HsHdrV2(sigsize) ==
    <<60, sigsize, PatchLocOffset(sigsize), PatchSigOffset(sigsize),
      MetaDataOffset(sigsize), 12, NumSigOffset(sigsize),
      HeaderOffset(sigsize), 36>>

(* The byte offset of each hs header field, counted from the file start   *)
(* (the hs header follows the 24-byte bin header).                        *)
HsSigOff       == 24
HsSigSizeOff   == 28
HsPatchLocOff  == 32
HsPatchSigOff  == 36
HsMetaOff      == 40
HsMetaSizeOff  == 44
HsNumSigOff    == 48
HsHeaderOff    == 52
HsHeaderSizeOff == 56
=============================================================================
