------------------------------ MODULE GetBytes ------------------------------
(***************************************************************************)
(* get_bytes(filename, array, expected_size) of main.rs: one forward scan *)
(* of a generated g_bindata_*.c file, line by line, that remembers the    *)
(* last COMPRESSION / DATA SIZE / COMPRESSED SIZE markers, starts         *)
(* collecting bytes after the line declaring the array, stops at the     *)
(* first line containing "};", then checks the sizes and inflates.       *)
(*                                                                         *)
(* A line is abstracted to what the scan tests of it: the markers it      *)
(* contains, the number its size marker carries, the array name it        *)
(* declares (names are sequences, and `contains` of the declaration text  *)
(* makes any declared name that starts with the wanted one match),        *)
(* whether it contains "};", and its 0x.. tokens.  A token is captured by *)
(* the regex 0x([0-9a-f][0-9a-f])[^0-9a-f] only when it is two lower-case *)
(* hex digits followed by a non-hex character (ok).                       *)
(*                                                                         *)
(* Raw deflate is abstracted to a decoder with the two behaviours the     *)
(* code meets: it may reject the data, and its output length is not the   *)
(* input length.  Byte 0 is corrupt data; byte b > 0 decodes to b copies  *)
(* of b.  Decompress::decompress_vec writes into the Vec's spare capacity *)
(* (data_size) and stops there.                                           *)
(***************************************************************************)
EXTENDS Naturals, Sequences

CONSTANTS
    Files,      \* the files the scan may be given: sequences of lines
    Array,      \* the wanted array name
    ExpectedSizes, \* the expected_size arguments: sizes, and NoSize for None
    NoSize

Marks == {"compNo", "compYes", "dataSize", "compSize"}
Tok == [v : Nat, ok : BOOLEAN]
Line == [marks : SUBSET Marks, size : Nat, decl : Seq(Nat), end : BOOLEAN,
         toks : Seq(Tok)]

ASSUME FilesAssumption ==
    /\ Files \subseteq Seq(Line)
    /\ Array \in Seq(Nat) /\ Array # <<>>
    /\ NoSize \notin Nat
    /\ ExpectedSizes \subseteq Nat \cup {NoSize}

(* Results: Ok(bytes) or one of the errors.                                *)
Errors == {"notFound", "sizeMismatch", "decodeError", "expectedMismatch"}
Ok(s) == [st |-> "ok", out |-> s]
Err(e) == [st |-> e, out |-> <<>>]
Pending == [st |-> "pending", out |-> <<>>]

VARIABLES
    lines,          \* the file being scanned
    expected,       \* the expected_size argument
    i,              \* the next line
    compressed, data_size, compressed_size, bytes, in_bytes,
    pc,             \* "scan", "post", "check", "done"
    result          \* Pending, Err(e) or Ok(bytes)

vars == <<lines, expected, i, compressed, data_size, compressed_size, bytes, in_bytes, pc, result>>

-----------------------------------------------------------------------------
(* `line.contains("static BINDATA_CONST NvU8 {array}")`: the declared name *)
(* starts with the wanted one.                                             *)
Declares(line) ==
    /\ Len(Array) <= Len(line.decl)
    /\ SubSeq(line.decl, 1, Len(Array)) = Array

(* re_bytes.captures_iter(line), each hex pair as a u8, in order:        *)
(* Picks(line)[k] is what the first k tokens of the line contribute.     *)
PickStep(line, v, k) ==
    IF line.toks[k].ok THEN Append(v, line.toks[k].v) ELSE v

Picks(line) ==
    LET pick[k \in 0 .. Len(line.toks)] ==
            IF k = 0 THEN <<>> ELSE PickStep(line, pick[k - 1], k)
    IN  pick

Captured(line) == Picks(line)[Len(line.toks)]

(* decompress_vec into a Vec with capacity cap: decode until the input    *)
(* ends or the output is full; an error if corrupt data is reached first. *)
(* Decoded(in, cap)[k] is the state after the first k input bytes.       *)
DecStep(in, cap, prev, k) ==
    LET Run(b) == [j \in 1 .. b |-> b]
        Cap(s) == IF Len(s) > cap THEN SubSeq(s, 1, cap) ELSE s
    IN  IF ~prev.ok \/ Len(prev.out) >= cap THEN prev
        ELSE IF in[k] = 0 THEN [ok |-> FALSE, out |-> prev.out]
        ELSE [ok |-> TRUE, out |-> Cap(prev.out \o Run(in[k]))]

Decoded(in, cap) ==
    LET dec[k \in 0 .. Len(in)] ==
            IF k = 0 THEN [ok |-> TRUE, out |-> <<>>]
            ELSE DecStep(in, cap, dec[k - 1], k)
    IN  dec

Inflate(in, cap) == Decoded(in, cap)[Len(in)]

-----------------------------------------------------------------------------
(* Mutant of Init: the line index starts before the first line.           *)
InitZeroBased ==
    /\ lines \in Files
    /\ expected \in ExpectedSizes
    /\ i = 0
    /\ compressed = FALSE
    /\ data_size = 0
    /\ compressed_size = 0
    /\ bytes = <<>>
    /\ in_bytes = FALSE
    /\ pc = "scan"
    /\ result = Pending

Init ==
    /\ lines \in Files
    /\ expected \in ExpectedSizes
    /\ i = 1
    /\ compressed = FALSE
    /\ data_size = 0
    /\ compressed_size = 0
    /\ bytes = <<>>
    /\ in_bytes = FALSE
    /\ pc = "scan"
    /\ result = Pending

(* Outside the array: the marker tests in the order of the if-chain, each *)
(* ending in `continue`, then the declaration test.                        *)
ScanOutside(l) ==
    \/ /\ "compNo" \in l.marks
       /\ compressed' = FALSE
       /\ i' = i + 1
       /\ UNCHANGED <<lines, expected, data_size, compressed_size, bytes, in_bytes, pc, result>>
    \/ /\ "compNo" \notin l.marks /\ "compYes" \in l.marks
       /\ compressed' = TRUE
       /\ i' = i + 1
       /\ UNCHANGED <<lines, expected, data_size, compressed_size, bytes, in_bytes, pc, result>>
    \/ /\ l.marks \cap {"compNo", "compYes"} = {}
       /\ "dataSize" \in l.marks
       /\ data_size' = l.size
       /\ i' = i + 1
       /\ UNCHANGED <<lines, expected, compressed, compressed_size, bytes, in_bytes, pc, result>>
    \/ /\ l.marks \cap {"compNo", "compYes", "dataSize"} = {}
       /\ "compSize" \in l.marks
       /\ compressed_size' = l.size
       /\ i' = i + 1
       /\ UNCHANGED <<lines, expected, compressed, data_size, bytes, in_bytes, pc, result>>
    \/ /\ l.marks = {} /\ Declares(l)
       /\ in_bytes' = TRUE
       /\ i' = i + 1
       /\ UNCHANGED <<lines, expected, compressed, data_size, compressed_size, bytes, pc, result>>
    \/ /\ l.marks = {} /\ ~Declares(l)
       /\ i' = i + 1
       /\ UNCHANGED <<lines, expected, compressed, data_size, compressed_size, bytes, in_bytes, pc, result>>

(* Mutant of ScanLine: inside the array the bytes of a line are collected *)
(* before the "};" test, so the closing line's bytes are kept.            *)
ScanLineExtendFirst ==
    /\ pc = "scan" /\ i <= Len(lines)
    /\ LET l == lines[i] IN
       \/ /\ in_bytes /\ l.end
          /\ bytes' = bytes \o Captured(l)
          /\ pc' = "post"
          /\ UNCHANGED <<lines, expected, i, compressed, data_size, compressed_size, in_bytes, result>>
       \/ /\ in_bytes /\ ~l.end
          /\ bytes' = bytes \o Captured(l)
          /\ i' = i + 1
          /\ UNCHANGED <<lines, expected, compressed, data_size, compressed_size, in_bytes, pc, result>>
       \/ /\ ~in_bytes
          /\ ScanOutside(l)

(* One iteration of `for line in reader.lines()`: the if-chain in order.   *)
ScanLine ==
    /\ pc = "scan" /\ i <= Len(lines)
    /\ LET l == lines[i] IN
       \/ /\ in_bytes /\ l.end
          /\ pc' = "post"
          /\ UNCHANGED <<lines, expected, i, compressed, data_size, compressed_size, bytes, in_bytes, result>>
       \/ /\ in_bytes /\ ~l.end
          /\ bytes' = bytes \o Captured(l)
          /\ i' = i + 1
          /\ UNCHANGED <<lines, expected, compressed, data_size, compressed_size, in_bytes, pc, result>>
       \/ /\ ~in_bytes
          /\ ScanOutside(l)

(* The file ends before a "};" line.                                       *)
EndOfFile ==
    /\ pc = "scan" /\ i > Len(lines)
    /\ pc' = "post"
    /\ UNCHANGED <<lines, expected, i, compressed, data_size, compressed_size, bytes, in_bytes, result>>

(* After the loop: no bytes, then the size checks and the inflate.         *)
Decode ==
    /\ pc = "post"
    /\ \/ /\ bytes = <<>>
          /\ result' = Err("notFound") /\ pc' = "done"
       \/ /\ bytes # <<>> /\ compressed /\ Len(bytes) # compressed_size
          /\ result' = Err("sizeMismatch") /\ pc' = "done"
       \/ /\ bytes # <<>> /\ compressed /\ Len(bytes) = compressed_size
          /\ Inflate(bytes, data_size).ok
          /\ result' = Ok(Inflate(bytes, data_size).out) /\ pc' = "check"
       \/ /\ bytes # <<>> /\ compressed /\ Len(bytes) = compressed_size
          /\ ~Inflate(bytes, data_size).ok
          /\ result' = Err("decodeError") /\ pc' = "done"
       \/ /\ bytes # <<>> /\ ~compressed /\ Len(bytes) # data_size
          /\ result' = Err("sizeMismatch") /\ pc' = "done"
       \/ /\ bytes # <<>> /\ ~compressed /\ Len(bytes) = data_size
          /\ result' = Ok(bytes) /\ pc' = "check"
    /\ UNCHANGED <<lines, expected, i, compressed, data_size, compressed_size, bytes, in_bytes>>

(* `if let Some(size) = expected_size`.                                    *)
CheckExpected ==
    /\ pc = "check"
    /\ pc' = "done"
    /\ result' = IF expected # NoSize /\ expected # Len(result.out)
                 THEN Err("expectedMismatch") ELSE result
    /\ UNCHANGED <<lines, expected, i, compressed, data_size, compressed_size, bytes, in_bytes>>

Returned ==
    /\ pc = "done"
    /\ UNCHANGED vars

Next == ScanLine \/ EndOfFile \/ Decode \/ CheckExpected \/ Returned

Spec == Init /\ [][Next]_vars
-----------------------------------------------------------------------------
(* What get_bytes returns, stated over the whole file rather than as a    *)
(* scan: the bytes are the captured tokens of the lines strictly between  *)
(* the first line declaring the array (and carrying no marker) and the    *)
(* next line containing "};"; the compression flag and the sizes are the *)
(* last ones set by a marker line before the declaration.                 *)
Last(S) == CHOOSE k \in S : \A j \in S : j <= k
First(S) == CHOOSE k \in S : \A j \in S : k <= j

DeclLines(f) == {k \in 1 .. Len(f) : f[k].marks = {} /\ Declares(f[k])}

(* The lines before line n that set, in the if-chain, the compression    *)
(* flag, the data size and the compressed size.                           *)
CompLines(f, n) == {k \in 1 .. n - 1 : f[k].marks \cap {"compNo", "compYes"} # {}}
DszLines(f, n)  == {k \in 1 .. n - 1 : f[k].marks \cap {"compNo", "compYes"} = {}
                                       /\ "dataSize" \in f[k].marks}
CszLines(f, n)  == {k \in 1 .. n - 1 : f[k].marks \cap {"compNo", "compYes", "dataSize"} = {}
                                       /\ "compSize" \in f[k].marks}
IsComp(f, n) == CompLines(f, n) # {} /\ "compNo" \notin f[Last(CompLines(f, n))].marks
DataSz(f, n) == IF DszLines(f, n) = {} THEN 0 ELSE f[Last(DszLines(f, n))].size
CompSz(f, n) == IF CszLines(f, n) = {} THEN 0 ELSE f[Last(CszLines(f, n))].size

(* The line that closes an array declared at line d (Len(f) + 1: none).  *)
EndLine(f, d) ==
    LET ends == {k \in d + 1 .. Len(f) : f[k].end}
    IN  IF ends = {} THEN Len(f) + 1 ELSE First(ends)

(* Body(f, d, e)[k]: the bytes of the lines d+1 .. k.                     *)
BodyStep(f, v, k) == v \o Captured(f[k])

Body(f, d, e) ==
    LET body[k \in d .. e - 1] == IF k = d THEN <<>> ELSE BodyStep(f, body[k - 1], k)
    IN  body

RefResult(f, want) ==
    LET d      == First(DeclLines(f))
        e      == EndLine(f, d)
        raw    == Body(f, d, e)[e - 1]
        dataSz == DataSz(f, d)
        Expect(out) == IF want # NoSize /\ want # Len(out)
                       THEN Err("expectedMismatch") ELSE Ok(out)
    IN  IF DeclLines(f) = {} \/ raw = <<>> THEN Err("notFound")
        ELSE IF IsComp(f, d)
             THEN IF Len(raw) # CompSz(f, d) THEN Err("sizeMismatch")
                  ELSE IF ~Inflate(raw, dataSz).ok THEN Err("decodeError")
                  ELSE Expect(Inflate(raw, dataSz).out)
             ELSE IF Len(raw) # dataSz THEN Err("sizeMismatch")
                  ELSE Expect(raw)

-----------------------------------------------------------------------------
TypeOK ==
    /\ lines \in Files
    /\ expected \in ExpectedSizes
    /\ i \in 1 .. Len(lines) + 1
    /\ compressed \in BOOLEAN
    /\ data_size \in Nat /\ compressed_size \in Nat
    /\ bytes \in Seq(Nat)
    /\ in_bytes \in BOOLEAN
    /\ pc \in {"scan", "post", "check", "done"}
    /\ result \in [st : {"pending", "ok"} \cup Errors, out : Seq(Nat)]

(* The scan returns what the file says: for every input file, the result  *)
(* of get_bytes is RefResult, the bytes between the array's declaration   *)
(* and its "};" decoded under the markers that precede it.  It is about   *)
(* the order of the if-chain, the `continue`s and the `break` of the loop *)
(* in get_bytes.                                                           *)
ScanMatchesReference ==
    pc = "done" => result = RefResult(lines, expected)

(* Spec section 3: after decode, a returned array is exactly as long as   *)
(* its DATA SIZE marker says.  It is about decompress_vec's result length, *)
(* which get_bytes does not check.                                         *)
DeclaredSizeHonoured ==
    pc = "done" /\ result.st = "ok" => Len(result.out) = data_size

(* Spec section 4.1: collection starts at "the declaration line           *)
(* containing the exact symbol name".  get_bytes tests                     *)
(* line.contains("static BINDATA_CONST NvU8 {array}"), so a declaration   *)
(* of a longer name that starts with the wanted one also opens it.  The   *)
(* property: bytes are collected only after a line that declares exactly *)
(* the wanted array.                                                       *)
ExactArrayName ==
    in_bytes => \E k \in 1 .. i - 1 : lines[k].marks = {} /\ lines[k].decl = Array
=============================================================================
