----------------------------- MODULE MCFirmware -----------------------------
(* Small instances of Firmware for TLC.                                    *)
EXTENDS Firmware, TLC

(* One target of each kind, in main()'s order: booters, bootloaders,      *)
(* scrubber, with the signature sizes of tu102 (16) and ad102 (384).      *)
MCTargets ==
    <<[kind |-> "booter", sigsize |-> 16],
      [kind |-> "bootloader", sigsize |-> 1],
      [kind |-> "scrubber", sigsize |-> 384]>>

(* Two version strings of different lengths, e.g. 570.86.16 and 575.64.  *)
MCVersionLen == "v570_86_16" :> 9 @@ "v575_64" :> 6
MCVersions == DOMAIN MCVersionLen

(* Signature blocks: empty, one tu102 signature, two, one ad102           *)
(* signature (24 tu102 signatures), and one that fits neither.            *)
MCSigLens == {0, 16, 32, 384, 24}

(* Word width 16: a small image, and one of 2^16 - 200 bytes whose u32    *)
(* sums wrap within TLC's integers, as lengths near 2^32 do in the        *)
(* program.                                                                *)
MCBigImageLens == {8, 65536 - 200}
=============================================================================
