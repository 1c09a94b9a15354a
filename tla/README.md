# TLA+ models of extract-firmware-nouveau

This directory holds the formal models of `src/nouveau/extract-firmware-nouveau/src/main.rs`.
That tool reads the generated `g_bindata_*.c` files of an OpenRM tree and writes the firmware
images that nouveau loads:

- `booter_load-<v>.bin` / `booter_unload-<v>.bin` for five GPUs;
- `bootloader-<v>.bin` for four;
- `scrubber-<v>.bin` for ad102;
- optionally `WHENCE.txt`, the GSP-RM blobs of a `.run` installer, and a symlink farm.

The files hold TLA+ modules, TLC configurations, TLAPS proofs, and `PROJECT.json`. `PROJECT.json`
lists the components, the runs, the mutants, the map from each definition to its source lines,
the findings, the hazards and the theorems.

## The system and how its parts interact

| Part | Code (main.rs) | What it does |
|---|---|---|
| `get_bytes` | 305-399 | Scans one generated C file line by line. It remembers the last `COMPRESSION`, `DATA SIZE` and `COMPRESSED SIZE` markers and collects the `0x..` bytes after the array's declaration until a line with `};`. It rejects an empty or wrongly sized array, inflates a compressed one, and compares with `expected_size`. |
| `round_up_to_base`, header arrays | 401-403, 436, 528, 542 | Compute the u32 fields of `nvfw_bin_hdr` (6 words) and `nvfw_hs_header_v2` (9 words). |
| `booter` / `scrubber` | 475-587 / 591-704 | Read image, signatures (checked against `sigsize`), `patch_loc` (4 bytes) and `patch_meta` (12 bytes). Open the output. Write bin header, hs header, signatures, six patch words. Only then read the 36-byte descriptor. Write descriptor and image, then sync. |
| `bootloader` | 405-455 | Reads image and descriptor, opens, writes bin header, descriptor, image, then syncs. |
| `whence` | 162-221 | Opens `WHENCE.txt`, writes the text, syncs. |
| `main` | 706-816 | Startup checks (exit 2 or 1). Then 10 booters, 4 bootloaders and the scrubber in that order, returning exit 1 at the first `Err`. Then `-d`, `-w` and `-s`, then exit 0. |
| `symlink` / `symlinks` | 224-303 | With `-s`: chdir into `nvidia/`, then for each entry of two tables create a directory and a link (`src/gsp -> ../dest/gsp`, `src/gsp/kind-v.bin -> ../../dest/gsp/kind-v.bin`). `symlink` keeps a correct link, fails on a wrong link or on a non-link, and creates a missing one. |
| `gsp_firmware`, `command`, `find_version`, parsers | 17-160 | I/O glue (not modelled, see below). |

Every output file is opened with `write(true).create(true)` and no `truncate(true)`. `main`
accepts an existing `nvidia/` directory ("Overwriting files in ..."), so a rerun writes over
the files of an earlier, possibly killed, run.

## Modules

- **ContainerFormat** covers the header layout and the u32 arithmetic.
  - `Word == 2^WordBits`.
  - `AsU32` is the `as u32` truncation.
  - `Add` is the wrapping u32 `+` of a release build, and `AddOverflows` is the panic condition of a checked build.
  - It also defines `RoundUpToBase`, `BinHdr`, the five hs offsets and `HsHdrV2`.
  - `RoundUpOverflows(x, base)` is `x + base >= Word`: Rust evaluates `x + base - 1` as `(x + base) - 1`, so a checked build panics on the first addition, already at `x = 2^32 - base`.
- **Firmware** models `main` with the three assemblers and `whence`, over several runs.
  - **State:**
    - `fs` maps each output path (target index × version) to a file;
    - `whence` is `WHENCE.txt`;
    - `run`, `version` and `wantWhence` describe the current invocation;
    - `tgt` and `pc` are the target and step of `main`'s loop;
    - `ext` holds what the assembler has read;
    - `exit` is `Running`, `Killed` (137) or the exit code;
    - `err` is the kind of error that ended the run.
  - **Files:** a file is the set of its intact *segments*, plus a cursor, a size and the run that last opened it. A segment is a u32 word or a byte blob, with its field, value or length, run and offset. A `write_all` at the cursor destroys the segments it overlaps. `Reopen` keeps the old segments and size, which is what no truncation does.
  - **Actions:** there is one action per step of the code, in the code's order.
    - Extract: `Startup`, `MkDir`, `ExtractImage`, `ExtractSigs`, `ExtractPatchLoc`, `ExtractPatchMeta`, `ExtractDesc`.
    - Write: `Open`, `WriteBinHdr`, `WriteHsHdr`, `WriteSigs`, `WritePatchMeta`, `WriteDesc`, `WriteImage`, `Sync`.
    - Whence: `OpenWhence`, `WriteWhence`, `SyncWhence`.
    - End: `Finish`.
    - Environment: `Kill` (the process dies between any two steps), `Rerun` (the tool runs again over the same directory, up to `MaxRuns`) and `Stopped`.
  - **Errors:** every `?` becomes `Fail(e)`, which sets exit 1. Each `get_bytes` call becomes its outcomes: an error, or bytes of a length from `ImageLens`, `SigLens`, `DescLens`, `{36}`, `PatchLocs` or `MetaVals`. `IoFaults` lets every `create_dir_all`, `open`, `write_all` and `sync_all` fail. `OverflowChecks` chooses between the panic (exit 101) and the wrap of the u32 sums.
  - **Signed and unsigned targets:** `booter` and `scrubber` are the same code, so both are the signed-target path. `bootloader` takes the other branches of `ExtractDesc` and `WriteBinHdr`. The target table `Targets` gives each target's kind and `sigsize`.
- **GetBytes** models the scan of `get_bytes`.
  - **Lines:** a line is abstracted to what the code's tests see:
    - its markers;
    - the number of its size marker;
    - the array name it declares (a sequence, so the substring `contains` becomes a prefix test);
    - whether it contains `};`;
    - its `0x..` tokens, where `ok` means the regex captures the token.
  - **Actions:** `ScanLine` is one loop iteration. It holds the `in_bytes` branch, with the `};` test before the extraction, and `ScanOutside`, the if-chain in the code's order. Then come `EndOfFile`, `Decode` (the checks after the loop), `CheckExpected` and `Returned`.
  - **Deflate:** it is replaced by a decoder with the behaviours the code meets. Byte 0 is corrupt. Byte `b` decodes to `b` copies of `b`, so the output length differs from the input length. The output stops at the `Vec`'s capacity (`data_size`), as `decompress_vec` does.
  - **Folds:** the loops over tokens, input bytes and body lines are recursive functions over `0 .. n` whose step is a top-level operator (`PickStep`, `DecStep`, `BodyStep`). `Captured`, `Inflate` and `Body` take the last value. This keeps the module free of RECURSIVE operators, so the provers can reason about it.
  - **Reference:** `RefResult` states the result declaratively, over the whole file.
  - **Properties:** `TypeOK`; `ScanMatchesReference` (at `done` the result is `RefResult`).
- **Symlinks** models `symlinks` and `symlink`, over several runs of `-s` on one directory.
  - **State:**
    - `fs` maps each path the walk touches (a sequence of components) to `Absent`, `Dir`, `RegFile` or `LinkTo(target)`;
    - `run` and `version` describe the current run;
    - `k` is the index of the current `symlink()` call;
    - `pc` is one of `chdir`, `mkdir`, `link`, `done`;
    - `exit` and `err` record how the run ended;
    - `made` is a history variable: the links the tool itself created.
  - **Tables:** `DirLinks` and `FileLinks` are constants. `MCSymlinks` gives them the values of main.rs. `Job(v, j)` is the directory, link and original of the j-th call, with loop 1 followed by loop 2.
  - **Actions:**
    - `ChDir`;
    - `MkDir` (`create_dir_all`: an existing directory passes, a missing one is created or fails with I/O, a file fails);
    - `SymLink` (the four arms of `match fs::read_link`, then the next call or `Ok`);
    - `Finish`;
    - `Kill`, `Rerun` (with any version) and `Stopped`.
  - **WhenceLinks:** the `Link:` lines of the text `whence()` writes.
- **MCFirmware**, **MCGetBytes** and **MCSymlinks** fix the constants for TLC.
- **FirmwareProofs**, **FirmwareImagesProofs**, **SymlinksProofs** and **GetBytesProofs** hold the TLAPS proofs.

## Runs

| Run | cfg | Expect | What it shows |
|---|---|---|---|
| firmware_runs | MCFirmware.cfg | pass (119,676 states) | Two runs over one directory, with I/O failures, source errors, kills and reruns. `ImagesSound` holds: every image the current run finished reads back through its own headers. That means the bin header's magic, version and header offset are right, and the payload offset and size locate the image written by this run. `total_size` is a multiple of 256 covering the payload. For signed images, every hs offset locates its field, `num_sigs * sigsize` equals the signature size, and the descriptor is at `header_offset`. For bootloaders, the descriptor fills the gap before the payload. |
| firmware_overflow_checked | MCFirmware_overflow_checked.cfg | pass (133,101 states) | With an image of 2^16 - 200 bytes at width 16, a checked build panics before writing a header. Small images still finish, and `ImagesSound` holds. |
| firmware_overflow_release | MCFirmware_overflow_release.cfg | violation of `TotalSizeSound` | In a release build the same sums wrap: a finished image declares a `total_size` below its payload's end. |
| firmware_stale_tail | MCFirmware_NoStaleTail.cfg | violation of `NoStaleTail` | A rerun with a shorter version string or image leaves the old tail in `WHENCE.txt` or the image. |
| firmware_header_before_source_error | MCFirmware_NoHeaderAfterSourceError.cfg | violation of `NoHeaderAfterSourceError` | A missing descriptor array aborts `booter` after its headers are in the file. |
| get_bytes_scan | MCGetBytes.cfg | pass (49,396 states) | For every file of up to 3 lines over 13 line shapes, every file of three markers followed by an array, and `expected_size` `None` or `Some(2)`, the scan returns `RefResult` (`ScanMatchesReference`). |
| get_bytes_declared_size | MCGetBytes_declared_size.cfg | violation of `DeclaredSizeHonoured` | A compressed array that inflates to fewer bytes than `DATA SIZE` is returned as `Ok`. |
| get_bytes_exact_name | MCGetBytes_exact_name.cfg | violation of `ExactArrayName` | A file that declares `<<1, 2>>` opens collection for the wanted array `<<1>>`. |
| symlinks_farm | MCSymlinks.cfg | pass (14,992 states) | The real tables, two versions and three runs, with I/O failures, kills and a foreign entry in the way (a link elsewhere, a directory or a file at a link path, a file at a source directory). `LinksInPlace`: a run that exits 0 leaves every link of its version in place. `NoSelfConflict`: no run fails on a link an earlier run made. |
| symlinks_whence | MCSymlinks_whence.cfg | violation of `FarmMatchesWhence` | The links a successful run makes are not the `Link:` lines of WHENCE.txt. |

Each property of a passing run has a mutant in `PROJECT.json`: a plausible bug of the mapped
code that TLC then catches.

| Mutant | The bug | Property it breaks |
|---|---|---|
| `SyncOffByOne` | The target loop runs one past the end. | `TypeOK` |
| `SignedSumsBadOffset` | The payload offset is 116 + sig. | `ImagesSound` |
| `WriteBinHdrUnchecked` | Overflow is not checked. | `ImagesSound` in the checked run |
| `InitZeroBased` | The line index starts at 0. | `TypeOK` of GetBytes |
| `ScanLineExtendFirst` | The bytes of the `};` line are kept. | `ScanMatchesReference` |
| `SymLinkSwapped` | `unix::fs::symlink(&link, &original)`. | `TypeOK` of Symlinks |
| `SymLinkAcceptsAnyLink` | The `o == original` guard is dropped. | `LinksInPlace` |
| `JobLinkWithoutVersion` | The link name of loop 2 leaves out the version but its target keeps it. | `NoSelfConflict` |

### Findings

1. **`get_bytes` does not check the inflated length (main.rs:375).** `decompress_vec` writes into a `Vec` with capacity `DATA SIZE` and returns `Ok` when the stream ends early. Extra output is silently cut. The spec (§3, §4.2, §8) calls a length mismatch a `DecodeError`. Only a short result slips through: the capacity keeps the output from growing past `DATA SIZE`.
2. **No truncation on open (main.rs:521, 429, 638, 208).** A rerun that writes less than the previous run leaves stale bytes at the end of the file. The spec (§3) says files are created fresh.
3. **The descriptor is read after the headers are written (main.rs:573, 690).** An `Err` from it leaves a file with a valid-looking header of this run. The spec (§4.4) says no such file is left.
4. **Unchecked u32 sums (main.rs:525, 433, 642).** In a release build they wrap, and the header's `total_size` is wrong. The spec (§8, §9) asks for total ≥ offset + size, and names overflow as a risk to guard against.
5. **Substring match for the array name (main.rs:352).** `line.contains("static BINDATA_CONST NvU8 {array}")` also matches a longer name that starts with the wanted one. The spec (§4.1) asks for the declaration line with the exact symbol name.
6. **tu117 link (main.rs:258 against 173).** `symlinks()` links `tu117/gsp -> ../tu102/gsp`; its comment at line 254 says tu117 uses tu102's binaries. The WHENCE text of `whence()` says `tu117/gsp -> ../tu116/gsp`, and `symlinks()` says it mirrors that file. TU116 has its own booter images (comment at line 282), so the two disagree on which booters tu117 gets. All other 14 links agree.

## Bounds and why they are enough

- **Targets:** one booter (sigsize 16), one bootloader, and one scrubber (sigsize 384). This covers both header layouts and both signature sizes. More targets of the same kind only repeat the loop.
- **Versions:** two versions of different lengths, so the WHENCE text and the output paths differ between runs.
- **Signature lengths:** `{0, 16, 32, 384, 24}`. These give zero signatures, one, two, the uneven case, and sizes whose offsets differ between targets.
- **Runs:** `MaxRuns = 2`, so a second run meets every state a first run (killed or failed anywhere) can leave.
- **Image lengths:** images of 8 bytes (shorter than the descriptor plus signatures of another file) make the stale-tail and crash cases happen.
- **Word width:** `WordBits = 16` in TLC, because TLC's integers stop at 2^31. An image of 2^16 - 200 bytes reaches every overflow of the sums. The proofs hold for every width of at least 13 bits, including 32.
- **GetBytes files:** up to three arbitrary lines from 13 shapes. The shapes cover:
  - both compression markers;
  - both size markers;
  - a two-marker line;
  - the wanted array, a longer name that starts with it, and another array;
  - data lines with a non-captured token;
  - a corrupt byte;
  - `};` with and without bytes before it.

  The marker-and-array files add every compressed or plain array with all three markers.
- **Symlinks:** the tables are those of main.rs (11 + 4 links), so every link path the code uses is present. Two versions make loop 2's paths differ between runs, which is what `NoSelfConflict` needs. Three runs let a run follow a failed or killed one and then a successful one. Each starting directory holds at most one foreign entry, one of each kind `symlink` and `create_dir_all` treat differently.

## Fairness and liveness

Every module is checked for safety only, and no run assumes fairness. `get_bytes` is a `for`
loop over the finite list of lines, and Firmware and Symlinks are straight-line code with bounded
loops (`tgt` and `k` only grow), so termination would hold by the shape of the model and says
nothing about the code. The environment actions (kills and reruns) are not fair in any sense the
code could rely on.

## What is proved (FirmwareProofs, FirmwareImagesProofs, SymlinksProofs, GetBytesProofs, TLAPS)

- **`TypeCorrect`:** `Spec => []TypeOK`, for every target table, version set, set of input lengths, word width (at least 13 bits) and `MaxRuns`. The assumptions are `WordBitsAssumption`, `TargetsAssumption` and `InputsAssumption` of the modules.
  - `TypeOK` alone is not inductive. A write step applies `Put` to `fs[Path]`, which must be a file, not `NoFile`.
  - The inductive invariant is `IInv == TypeOK /\ Opened`. `Opened` says that at every write step, and at the signed targets' descriptor read, `fs[Path]` is a file, and that at `whencewrite` `WHENCE.txt` is open. `Opened` was checked by TLC on the `firmware_runs` configuration before it was proved.
  - The proof has one step per action and rests on lemmas about the file operations (`PutType`, `PutWordsType`, `PutBlobType`, `ReopenType`), the u32 operations (`AddType`, `RoundUpType`, `BinHdrType`, `HsHdrType`, `SumsType`) and the generic steps (`FailType`, `GotoType`, `WriteThenType`, `WriteBlobThenType`).
- **`RoundUpCorrect`:** when `x + 256` does not overflow, `round_up_to_base(x, 256)` is the least multiple of 256 that is at least `x`.
- **`HsOffsetsExact`:** once `120 + signatures_size` has not overflowed, the hs offsets are exact. So the wrapping `Add` in `HsHdrV2` is faithful for checked builds too: those sums can never panic.

- **`ImagesSoundChecked`** (FirmwareImagesProofs): `ASSUME Checked PROVE Spec => []ImagesSound`. This is the property the `firmware_runs` and `firmware_overflow_checked` runs check, proved for every target table, version set, input length set, word width and `MaxRuns`.
  - `Checked` says three things. First, the build panics on u32 overflow (`OverflowChecks`). Without that, the statement is false: `firmware_overflow_release` is a counterexample. Second and third, the signature and descriptor lengths fit in a u32. Otherwise `len() as u32` would truncate them, and the offsets in the header would not be the offsets in the file. Both passing runs satisfy `Checked`.
  - `ImagesSound` is not inductive. `Sync` finishes an image, and it must know what has been written to the file. The strengthening `SInv` was checked by TLC on both runs before it was proved. It adds five facts:
    - `Written`: at each write step, the current generation of the open file holds exactly the segments of the writes done so far (`BinSegs`, `HsSegs`, `SigsSeg`, `PatchSegs`, `DescSeg`, `ImageSeg`), and the cursor is after the last of them.
    - `Bounded`: the open file carries this run's generation, and none of its current segments reaches past the cursor. So the next `write_all` destroys none of them.
    - `Generations`: older segments carry an older generation. Only files opened in this run carry its generation, so `Open` without truncation starts a generation with no segments.
    - `Extracted`: what the extract steps read, and that the sums did not overflow.
    - `IInv`.
  - The proof has one lemma per action. It rests on these lemmas:
    - `PutCur`: a write at the cursor adds its segments and keeps the others;
    - `ReopenCur`;
    - `ReadWord`/`ReadBlob`: `read_u32` finds the unique word written at an offset;
    - `SignedSound`/`PlainSound`: at `sync_all` the file reads back through its headers, with the offset arithmetic from `RoundUpCorrect` and `HsOffsetsExact`.
- **SymlinksProofs:** `SymlinksTypeCorrect` (`Spec => []TypeOK`), `FarmInPlace` (`Spec => []LinksInPlace`) and `FarmIdempotent` (`Spec => []NoSelfConflict`). They hold for every pair of tables, set of versions, set of starting directories and `MaxRuns`, under `SymlinksAssumption` (non-empty first table, the shapes of the constants) and `TablesAssumption` (each table names a source, with a kind in the second table, once).
  - Neither property is inductive alone: a successful exit says nothing about which calls were made.
  - The inductive invariant `IInv == TypeOK /\ MadeCorrect /\ Walk` adds two facts. `MadeCorrect`: every link in `made` points at the original of a call that asks for that path. `Walk`: the calls before `k` have their link in place while the run has not failed, `pc = "done"` means `k = NJobs + 1`, and an error on an existing entry is at a path not in `made`.
  - It rests on the lemmas `LinkDeterminesOriginal` (from `TablesAssumption`: one link path, one original, whatever the version) and `KeepLinks` (creating an entry where there was none leaves every link as it was). There is one lemma per action.

- **GetBytesProofs:** `GetBytesTypeCorrect` (`Spec => []TypeOK`) and `ScanCorrect` (`Spec => []ScanMatchesReference`). They hold for every set of files, line shapes, token values and expected sizes: no assumption on the constants is needed.
  - **Induction over data without an operator parameter.** The library's induction theorems take a predicate as a parameter, which the provers cannot instantiate. Instead, each lemma about a fold (`PicksType`, `DecodedType`) picks the least `k` in `{k \in 0 .. n : ~P(k)}` with `NatLeast` (proved from `WFMin` and `NatLessThanWellFounded`) and derives a contradiction from `k = 0` or from `k - 1`. The unfolding equations `PicksDef`, `DecodedDef` and `BodyDef` come from `FiniteNatInductiveDef`, whose definition parameter is instantiated by a `DEFINE` and is only ever applied, never quantified over.
  - **The inductive invariant `ScanInv`.** `ScanMatchesReference` only speaks of `done`, so it is not inductive: the step to `done` must know that the scan agrees with `RefResult` so far. `ScanInv` adds that. Let `D` be the first line declaring the wanted array and `E` the first `};` line after it (or past the end of the file).
    - Before `D` (`BeforeDecl`), the markers are those of the lines `1 .. i-1` (`IsComp`, `DataSz`, `CompSz` take the last marker seen) and no byte is collected.
    - Inside the array (`InDecl`), the markers are those before `D` and `bytes` is the body of the lines `D+1 .. i-1`.
    - After the loop, `i = E`; at `check` the decoded result is the one `RefResult` compares against the expected size; at `done` the result is `RefResult`.
    - It was checked by TLC on the `get_bytes_scan` configuration (49,396 states) before it was proved. The marker lemmas (`CompKept`/`CompSet` and the like) show how one more line moves the last marker, and `EndLineProps` characterises `E`.

Only TLC checks the violation runs: what they show is a counterexample, not a theorem.

## Not modelled

- Whether a link's target exists. Without `-d`, the `gsp-<v>.bin` links of `-s` dangle. That needs Firmware, `gsp_firmware` and Symlinks composed in one module.
- The composition of Firmware and Symlinks: Symlinks starts from the directory the firmware steps leave (`tu116/gsp`, `ga100/gsp`, `ad102/gsp` exist).
- `gsp_firmware` and `command`: an external installer and two `fs::copy` calls.
- `find_version`, the clap parsers and `StrExt`: strings that only produce the version and paths.
- `get_bytes`' `File::open` failure and non-UTF-8 lines (`line.unwrap()`).
- Allocation failure of `reserve_exact` / `with_capacity`.
- The `parse().unwrap()` panic on huge markers.

All of these are listed as hazards or components in `PROJECT.json`.

## Plan for later work

1. **Compose Firmware, gsp_firmware and Symlinks** with the `-d` and `-s` flags, and state that a successful run leaves no dangling link.
2. **Join GetBytes to Firmware:** the lengths `Firmware` draws from `ImageLens`/`SigLens` would become GetBytes results, which makes the `DeclaredSizeHonoured` finding visible in the assembled image.
3. **WHENCE and stale tails:** state, and prove, what `NoStaleTail` should become once truncation is added.
