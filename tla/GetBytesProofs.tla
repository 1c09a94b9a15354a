--------------------------- MODULE GetBytesProofs ---------------------------
(***************************************************************************)
(* Proofs about the scan of get_bytes (GetBytes): its type invariant and  *)
(* that what it returns is RefResult of its arguments.                    *)
(*                                                                         *)
(* The recursive functions of GetBytes (Picks, Decoded, Body) are opened  *)
(* with FiniteNatInductiveDef, which gives the equation each satisfies,   *)
(* and facts about all their values are proved by a least counterexample *)
(* (NatLeast, from the well-foundedness of < on Nat).                     *)
(***************************************************************************)
EXTENDS GetBytes, SequenceTheorems, WellFoundedInduction, TLAPS

-----------------------------------------------------------------------------
(* Every non-empty set of naturals has a least element.                    *)
LEMMA NatLeast ==
    ASSUME NEW T \in SUBSET Nat, T # {}
    PROVE  \E x \in T : \A y \in T : x <= y
<1>1. PICK x \in T : \A y \in T : ~(<<y, x>> \in OpToRel(<, Nat))
  BY NatLessThanWellFounded, WFMin
<1>2. ASSUME NEW y \in T PROVE x <= y
  <2>1. ~(<<y, x>> \in OpToRel(<, Nat))
    BY <1>1
  <2>2. <<y, x>> \in Nat \X Nat
    OBVIOUS
  <2>3. ~(y < x)
    BY <2>1, <2>2 DEF OpToRel
  <2>. QED  BY <2>3
<1>. QED  BY <1>2

(* First of a non-empty set of naturals is its least element.             *)
LEMMA FirstLeast ==
    ASSUME NEW T \in SUBSET Nat, T # {}
    PROVE  First(T) \in T /\ \A j \in T : First(T) <= j
BY NatLeast DEF First

(* First and Last of a set with a least, resp. greatest, element k are k. *)
LEMMA FirstIs ==
    ASSUME NEW T \in SUBSET Nat, NEW k \in T, \A j \in T : k <= j
    PROVE  First(T) = k
<1>1. First(T) \in T /\ \A j \in T : First(T) <= j
  BY FirstLeast
<1>2. First(T) \in Nat /\ First(T) <= k /\ k <= First(T)
  BY <1>1
<1>. QED  BY <1>2

LEMMA LastIs ==
    ASSUME NEW T \in SUBSET Nat, NEW k \in T, \A j \in T : j <= k
    PROVE  Last(T) = k
<1>1. Last(T) \in T /\ \A j \in T : j <= Last(T)
  BY DEF Last
<1>2. Last(T) \in Nat /\ Last(T) <= k /\ k <= Last(T)
  BY <1>1
<1>. QED  BY <1>2

-----------------------------------------------------------------------------
(* The equations the recursive functions of GetBytes satisfy.             *)
LEMMA PicksDef ==
    ASSUME NEW line, Len(line.toks) \in Nat
    PROVE  Picks(line) = [k \in 0 .. Len(line.toks) |->
                             IF k = 0 THEN <<>> ELSE PickStep(line, Picks(line)[k - 1], k)]
<1>. DEFINE Def(v, k) == PickStep(line, v, k)
<1>1. FiniteNatInductiveDefHypothesis(Picks(line), <<>>, Def, 0, Len(line.toks))
  BY DEF FiniteNatInductiveDefHypothesis, Picks
<1>2. FiniteNatInductiveDefConclusion(Picks(line), <<>>, Def, 0, Len(line.toks))
  BY <1>1, FiniteNatInductiveDef
<1>. QED  BY <1>2 DEF FiniteNatInductiveDefConclusion

LEMMA DecodedDef ==
    ASSUME NEW in, NEW cap, Len(in) \in Nat
    PROVE  Decoded(in, cap) = [k \in 0 .. Len(in) |->
                                  IF k = 0 THEN [ok |-> TRUE, out |-> <<>>]
                                  ELSE DecStep(in, cap, Decoded(in, cap)[k - 1], k)]
<1>. DEFINE Def(v, k) == DecStep(in, cap, v, k)
<1>1. FiniteNatInductiveDefHypothesis(Decoded(in, cap), [ok |-> TRUE, out |-> <<>>], Def, 0, Len(in))
  BY DEF FiniteNatInductiveDefHypothesis, Decoded
<1>2. FiniteNatInductiveDefConclusion(Decoded(in, cap), [ok |-> TRUE, out |-> <<>>], Def, 0, Len(in))
  BY <1>1, FiniteNatInductiveDef
<1>. QED  BY <1>2 DEF FiniteNatInductiveDefConclusion

LEMMA BodyDef ==
    ASSUME NEW f, NEW d \in Nat, NEW e \in Nat, d < e
    PROVE  Body(f, d, e) = [k \in d .. e - 1 |->
                               IF k = d THEN <<>> ELSE BodyStep(f, Body(f, d, e)[k - 1], k)]
<1>. DEFINE Def(v, k) == BodyStep(f, v, k)
<1>0. e - 1 \in Nat
  OBVIOUS
<1>1. FiniteNatInductiveDefHypothesis(Body(f, d, e), <<>>, Def, d, e - 1)
  BY DEF FiniteNatInductiveDefHypothesis, Body
<1>2. FiniteNatInductiveDefConclusion(Body(f, d, e), <<>>, Def, d, e - 1)
  BY <1>0, <1>1, FiniteNatInductiveDef
<1>. QED  BY <1>2 DEF FiniteNatInductiveDefConclusion

-----------------------------------------------------------------------------
(* Captured tokens are bytes: every prefix of Picks is a sequence of      *)
(* naturals (by a least counterexample k).                                 *)
LEMMA PicksType ==
    ASSUME NEW line \in Line
    PROVE  \A k \in 0 .. Len(line.toks) : Picks(line)[k] \in Seq(Nat)
<1>. DEFINE Bad == {k \in 0 .. Len(line.toks) : ~(Picks(line)[k] \in Seq(Nat))}
<1>. SUFFICES ASSUME Bad # {} PROVE FALSE
  OBVIOUS
<1>0. line.toks \in Seq(Tok) /\ Len(line.toks) \in Nat
  BY DEF Line
<1>a. Bad \in SUBSET Nat
  BY <1>0
<1>1. PICK m \in Bad : \A y \in Bad : m <= y
  BY <1>a, NatLeast
<1>2. Picks(line) = [k \in 0 .. Len(line.toks) |->
                        IF k = 0 THEN <<>> ELSE PickStep(line, Picks(line)[k - 1], k)]
  BY <1>0, PicksDef
<1>3. CASE m = 0
  <2>1. Picks(line)[m] = <<>>
    BY <1>1, <1>2, <1>3
  <2>2. <<>> \in Seq(Nat)
    OBVIOUS
  <2>3. ~(Picks(line)[m] \in Seq(Nat))
    BY <1>1
  <2>. QED  BY <2>1, <2>2, <2>3
<1>4. CASE m # 0
  <2>1. m - 1 \in 0 .. Len(line.toks) /\ ~(m - 1 \in Bad)
    BY <1>0, <1>1, <1>4
  <2>2. Picks(line)[m - 1] \in Seq(Nat)
    BY <2>1
  <2>3. Picks(line)[m] = PickStep(line, Picks(line)[m - 1], m)
    BY <1>1, <1>2, <1>4
  <2>4. line.toks[m] \in Tok
    BY <1>0, <1>1, <1>4, ElementOfSeq
  <2>5. PickStep(line, Picks(line)[m - 1], m) \in Seq(Nat)
    BY <2>2, <2>4 DEF PickStep, Tok
  <2>. QED  BY <1>1, <2>3, <2>5
<1>. QED  BY <1>3, <1>4

LEMMA CapturedType ==
    ASSUME NEW line \in Line
    PROVE  Captured(line) \in Seq(Nat)
<1>1. Len(line.toks) \in 0 .. Len(line.toks)
  BY DEF Line
<1>. QED  BY <1>1, PicksType DEF Captured

(* A decoder state: whether the data is good so far, and the output.      *)
DecState == [ok : BOOLEAN, out : Seq(Nat)]

LEMMA DecStepType ==
    ASSUME NEW in \in Seq(Nat), NEW cap \in Nat, NEW prev \in DecState,
           NEW k \in 1 .. Len(in)
    PROVE  DecStep(in, cap, prev, k) \in DecState
<1>1. in[k] \in Nat
  BY ElementOfSeq
<1>2. [j \in 1 .. in[k] |-> in[k]] \in Seq(Nat)
  BY <1>1
<1>3. prev.out \o [j \in 1 .. in[k] |-> in[k]] \in Seq(Nat)
  BY <1>2 DEF DecState
<1>4. ASSUME Len(prev.out \o [j \in 1 .. in[k] |-> in[k]]) > cap
      PROVE  SubSeq(prev.out \o [j \in 1 .. in[k] |-> in[k]], 1, cap) \in Seq(Nat)
  <2>. DEFINE s == prev.out \o [j \in 1 .. in[k] |-> in[k]]
  <2>1. ASSUME NEW j \in 1 .. cap PROVE s[j] \in Nat
    <3>1. j \in 1 .. Len(s)
      BY <1>3, <1>4
    <3>. QED  BY <1>2, <1>3, <3>1, ElementOfSeq
  <2>2. 1 \in Int /\ cap \in Int
    OBVIOUS
  <2>. QED  BY <2>1, <2>2, SubSeqProperties, Zenon
<1>. QED  BY <1>3, <1>4 DEF DecStep, DecState

LEMMA DecodedType ==
    ASSUME NEW in \in Seq(Nat), NEW cap \in Nat
    PROVE  \A k \in 0 .. Len(in) : Decoded(in, cap)[k] \in DecState
<1>. DEFINE Bad == {k \in 0 .. Len(in) : ~(Decoded(in, cap)[k] \in DecState)}
<1>. SUFFICES ASSUME Bad # {} PROVE FALSE
  OBVIOUS
<1>a. Bad \in SUBSET Nat
  OBVIOUS
<1>1. PICK m \in Bad : \A y \in Bad : m <= y
  BY <1>a, NatLeast
<1>2. Decoded(in, cap) = [k \in 0 .. Len(in) |->
                             IF k = 0 THEN [ok |-> TRUE, out |-> <<>>]
                             ELSE DecStep(in, cap, Decoded(in, cap)[k - 1], k)]
  BY DecodedDef
<1>3. CASE m = 0
  <2>1. Decoded(in, cap)[m] = [ok |-> TRUE, out |-> <<>>]
    BY <1>1, <1>2, <1>3
  <2>2. [ok |-> TRUE, out |-> <<>>] \in DecState
    BY DEF DecState
  <2>3. ~(Decoded(in, cap)[m] \in DecState)
    BY <1>1
  <2>. QED  BY <2>1, <2>2, <2>3
<1>4. CASE m # 0
  <2>1. m - 1 \in 0 .. Len(in) /\ ~(m - 1 \in Bad)
    BY <1>1, <1>4
  <2>2. Decoded(in, cap)[m - 1] \in DecState
    BY <2>1
  <2>3. Decoded(in, cap)[m] = DecStep(in, cap, Decoded(in, cap)[m - 1], m)
    BY <1>1, <1>2, <1>4
  <2>4. DecStep(in, cap, Decoded(in, cap)[m - 1], m) \in DecState
    BY <1>1, <1>4, <2>2, DecStepType
  <2>. QED  BY <1>1, <2>3, <2>4
<1>. QED  BY <1>3, <1>4

LEMMA InflateType ==
    ASSUME NEW in \in Seq(Nat), NEW cap \in Nat
    PROVE  Inflate(in, cap) \in DecState
BY DecodedType DEF Inflate

-----------------------------------------------------------------------------
(* The markers of the lines before n + 1: line n is added to the set of   *)
(* the if-chain branch it takes, and the other sets stay as they were.   *)
LEMMA LastAdd ==
    ASSUME NEW S \in SUBSET Nat, NEW n \in Nat, \A k \in S : k < n
    PROVE  Last(S \cup {n}) = n
<1>1. \A j \in S \cup {n} : j <= n
  OBVIOUS
<1>. QED  BY <1>1, LastIs

LEMMA CompKept ==
    ASSUME NEW f, NEW n \in Nat, f[n].marks \cap {"compNo", "compYes"} = {}
    PROVE  IsComp(f, n + 1) = IsComp(f, n)
<1>1. CompLines(f, n + 1) = CompLines(f, n)
  BY DEF CompLines
<1>. QED  BY <1>1 DEF IsComp

LEMMA CompSet ==
    ASSUME NEW f, NEW n \in Nat \ {0}, f[n].marks \cap {"compNo", "compYes"} # {}
    PROVE  IsComp(f, n + 1) = ("compNo" \notin f[n].marks)
<1>1. CompLines(f, n + 1) = CompLines(f, n) \cup {n}
  BY DEF CompLines
<1>2. Last(CompLines(f, n) \cup {n}) = n
  <2>1. CompLines(f, n) \in SUBSET Nat /\ \A k \in CompLines(f, n) : k < n
    BY DEF CompLines
  <2>. QED  BY <2>1, LastAdd
<1>3. CompLines(f, n + 1) # {} /\ Last(CompLines(f, n + 1)) = n
  BY <1>1, <1>2
<1>. QED  BY <1>3 DEF IsComp

LEMMA DszKept ==
    ASSUME NEW f, NEW n \in Nat,
           ~(f[n].marks \cap {"compNo", "compYes"} = {} /\ "dataSize" \in f[n].marks)
    PROVE  DataSz(f, n + 1) = DataSz(f, n)
<1>1. DszLines(f, n + 1) = DszLines(f, n)
  BY DEF DszLines
<1>. QED  BY <1>1 DEF DataSz

LEMMA DszSet ==
    ASSUME NEW f, NEW n \in Nat \ {0},
           f[n].marks \cap {"compNo", "compYes"} = {}, "dataSize" \in f[n].marks
    PROVE  DataSz(f, n + 1) = f[n].size
<1>1. DszLines(f, n + 1) = DszLines(f, n) \cup {n}
  BY DEF DszLines
<1>2. Last(DszLines(f, n) \cup {n}) = n
  <2>1. DszLines(f, n) \in SUBSET Nat /\ \A k \in DszLines(f, n) : k < n
    BY DEF DszLines
  <2>. QED  BY <2>1, LastAdd
<1>3. DszLines(f, n + 1) # {} /\ Last(DszLines(f, n + 1)) = n
  BY <1>1, <1>2
<1>. QED  BY <1>3 DEF DataSz

LEMMA CszKept ==
    ASSUME NEW f, NEW n \in Nat,
           ~(f[n].marks \cap {"compNo", "compYes", "dataSize"} = {} /\ "compSize" \in f[n].marks)
    PROVE  CompSz(f, n + 1) = CompSz(f, n)
<1>1. CszLines(f, n + 1) = CszLines(f, n)
  BY DEF CszLines
<1>. QED  BY <1>1 DEF CompSz

LEMMA CszSet ==
    ASSUME NEW f, NEW n \in Nat \ {0},
           f[n].marks \cap {"compNo", "compYes", "dataSize"} = {}, "compSize" \in f[n].marks
    PROVE  CompSz(f, n + 1) = f[n].size
<1>1. CszLines(f, n + 1) = CszLines(f, n) \cup {n}
  BY DEF CszLines
<1>2. Last(CszLines(f, n) \cup {n}) = n
  <2>1. CszLines(f, n) \in SUBSET Nat /\ \A k \in CszLines(f, n) : k < n
    BY DEF CszLines
  <2>. QED  BY <2>1, LastAdd
<1>3. CszLines(f, n + 1) # {} /\ Last(CszLines(f, n + 1)) = n
  BY <1>1, <1>2
<1>. QED  BY <1>3 DEF CompSz

(* The closing line of an array declared at d: after d, no earlier line  *)
(* of the file closes it, and it is a "};" line unless it is past the end. *)
LEMMA EndLineProps ==
    ASSUME NEW f, Len(f) \in Nat, NEW d \in Nat, d <= Len(f)
    PROVE  /\ EndLine(f, d) \in d + 1 .. Len(f) + 1
           /\ \A k \in d + 1 .. EndLine(f, d) - 1 : ~f[k].end
           /\ EndLine(f, d) <= Len(f) => f[EndLine(f, d)].end
<1>. DEFINE ends == {k \in d + 1 .. Len(f) : f[k].end}
<1>1. CASE ends = {}
  <2>1. EndLine(f, d) = Len(f) + 1
    BY <1>1 DEF EndLine
  <2>2. \A k \in d + 1 .. Len(f) : ~f[k].end
    BY <1>1
  <2>. QED  BY <2>1, <2>2
<1>2. CASE ends # {}
  <2>1. EndLine(f, d) = First(ends)
    BY <1>2 DEF EndLine
  <2>a. ends \in SUBSET Nat
    OBVIOUS
  <2>2. First(ends) \in ends /\ \A j \in ends : First(ends) <= j
    BY <1>2, <2>a, FirstLeast
  <2>3. First(ends) \in d + 1 .. Len(f) /\ f[First(ends)].end
    BY <2>2
  <2>4. \A k \in d + 1 .. First(ends) - 1 : ~f[k].end
    BY <2>2
  <2>. QED  BY <2>1, <2>3, <2>4
<1>. QED  BY <1>1, <1>2

-----------------------------------------------------------------------------
(* The inductive invariant.  D and E are the reference's declaration line *)
(* and closing line of the file being scanned.                             *)
D == First(DeclLines(lines))
E == EndLine(lines, D)

(* Outside the array: no declaration yet, and the three markers are the   *)
(* last ones the lines before i set.                                       *)
BeforeDecl ==
    /\ \A k \in DeclLines(lines) : i <= k
    /\ compressed = IsComp(lines, i)
    /\ data_size = DataSz(lines, i)
    /\ compressed_size = CompSz(lines, i)
    /\ bytes = <<>>

(* Inside the array: D was the declaration, the markers are those before *)
(* it, no line of D+1 .. i-1 closed it, and bytes are those of its lines. *)
InDecl ==
    /\ DeclLines(lines) # {}
    /\ D \in DeclLines(lines)
    /\ D < i /\ i <= E
    /\ compressed = IsComp(lines, D)
    /\ data_size = DataSz(lines, D)
    /\ compressed_size = CompSz(lines, D)
    /\ bytes = Body(lines, D, E)[i - 1]

(* Expect of RefResult: the expected_size test after the decode.          *)
Expect(want, out) ==
    IF want # NoSize /\ want # Len(out) THEN Err("expectedMismatch") ELSE Ok(out)

ScanInv ==
    /\ TypeOK
    /\ pc = "scan" /\ ~in_bytes => BeforeDecl
    /\ pc # "scan" /\ ~in_bytes => DeclLines(lines) = {} /\ bytes = <<>>
    /\ in_bytes => InDecl
    /\ in_bytes /\ pc # "scan" => i = E
    /\ pc \in {"scan", "post"} => result = Pending
    /\ pc = "check" => /\ result.st = "ok"
                       /\ RefResult(lines, expected) = Expect(expected, result.out)
    /\ pc = "done" => result = RefResult(lines, expected)

-----------------------------------------------------------------------------
LEMMA LinesType ==
    ASSUME TypeOK
    PROVE  /\ lines \in Seq(Line) /\ Len(lines) \in Nat
           /\ \A k \in 1 .. Len(lines) : lines[k] \in Line
BY FilesAssumption, ElementOfSeq DEF TypeOK

(* No marker has been read before the first line.                         *)
LEMMA MarkersAtStart ==
    ASSUME NEW f
    PROVE  IsComp(f, 1) = FALSE /\ DataSz(f, 1) = 0 /\ CompSz(f, 1) = 0
<1>1. CompLines(f, 1) = {} /\ DszLines(f, 1) = {} /\ CszLines(f, 1) = {}
  BY DEF CompLines, DszLines, CszLines
<1>. QED  BY <1>1 DEF IsComp, DataSz, CompSz

LEMMA InitScanInv ==
    Init => ScanInv
<1>. SUFFICES ASSUME Init PROVE ScanInv
  OBVIOUS
<1>1. TypeOK
  <2>1. lines \in Seq(Line)
    BY FilesAssumption DEF Init
  <2>2. Pending \in [st : {"pending", "ok"} \cup Errors, out : Seq(Nat)]
    BY DEF Pending
  <2>3. i \in 1 .. Len(lines) + 1
    BY <2>1 DEF Init
  <2>4. bytes \in Seq(Nat) /\ expected \in ExpectedSizes /\ lines \in Files
    BY DEF Init
  <2>. QED  BY <2>2, <2>3, <2>4 DEF Init, TypeOK
<1>2. BeforeDecl
  <2>1. \A k \in DeclLines(lines) : 1 <= k
    BY DEF DeclLines
  <2>. QED  BY <2>1, MarkersAtStart DEF Init, BeforeDecl
<1>. QED  BY <1>1, <1>2 DEF Init, ScanInv

(* What the scan invariant reads of a state, kept by a step that leaves it. *)
LEMMA InDeclKept ==
    ASSUME lines' = lines, i' = i, compressed' = compressed, data_size' = data_size,
           compressed_size' = compressed_size, bytes' = bytes
    PROVE  InDecl' = InDecl
BY DEF InDecl, D, E

LEMMA BeforeDeclKept ==
    ASSUME lines' = lines, i' = i, compressed' = compressed, data_size' = data_size,
           compressed_size' = compressed_size, bytes' = bytes
    PROVE  BeforeDecl' = BeforeDecl
BY DEF BeforeDecl

(* Facts about D and E inside the array.                                   *)
LEMMA DeclFacts ==
    ASSUME TypeOK, InDecl
    PROVE  /\ D \in 1 .. Len(lines)
           /\ E \in D + 1 .. Len(lines) + 1
           /\ \A k \in D + 1 .. E - 1 : ~lines[k].end
           /\ E <= Len(lines) => lines[E].end
<1>1. D \in 1 .. Len(lines)
  BY DEF InDecl, DeclLines
<1>2. Len(lines) \in Nat
  BY LinesType
<1>. QED  BY <1>1, <1>2, EndLineProps DEF E

(* ScanLine inside the array at a "};" line: the loop breaks, and i is    *)
(* the reference's closing line.                                           *)
LEMMA CloseInv ==
    ASSUME ScanInv, pc = "scan", i <= Len(lines), in_bytes, lines[i].end,
           pc' = "post",
           UNCHANGED <<lines, expected, i, compressed, data_size, compressed_size,
                       bytes, in_bytes, result>>
    PROVE  ScanInv'
<1>1. TypeOK /\ InDecl /\ result = Pending
  BY DEF ScanInv
<1>2. /\ D \in 1 .. Len(lines) /\ E \in D + 1 .. Len(lines) + 1
      /\ \A k \in D + 1 .. E - 1 : ~lines[k].end
  BY <1>1, DeclFacts
<1>3. i = E
  <2>1. i \in D + 1 .. E
    BY <1>1, <1>2 DEF InDecl, TypeOK
  <2>. QED  BY <1>2, <2>1
<1>4. E' = E
  BY DEF E, D
<1>5. InDecl'
  BY <1>1, InDeclKept
<1>6. TypeOK'
  BY <1>1 DEF TypeOK
<1>. QED  BY <1>1, <1>3, <1>4, <1>5, <1>6 DEF ScanInv

(* ScanLine inside the array at another line: its bytes are appended,     *)
(* which is the reference's Body one line further.                        *)
LEMMA ExtendInv ==
    ASSUME ScanInv, pc = "scan", i <= Len(lines), in_bytes, ~lines[i].end,
           bytes' = bytes \o Captured(lines[i]), i' = i + 1,
           UNCHANGED <<lines, expected, compressed, data_size, compressed_size,
                       in_bytes, pc, result>>
    PROVE  ScanInv'
<1>1. TypeOK /\ InDecl /\ result = Pending
  BY DEF ScanInv
<1>2. /\ D \in 1 .. Len(lines) /\ E \in D + 1 .. Len(lines) + 1
      /\ \A k \in D + 1 .. E - 1 : ~lines[k].end
      /\ E <= Len(lines) => lines[E].end
  BY <1>1, DeclFacts
<1>3. i \in D + 1 .. E - 1
  <2>1. i \in D + 1 .. E
    BY <1>1, <1>2 DEF InDecl, TypeOK
  <2>2. i # E
    <3>1. i <= Len(lines) /\ ~lines[i].end
      OBVIOUS
    <3>2. E <= Len(lines) => lines[E].end
      BY <1>2
    <3>. QED  BY <3>1, <3>2
  <2>. QED  BY <1>2, <2>1, <2>2
<1>4. D' = D /\ E' = E /\ DeclLines(lines') = DeclLines(lines)
  BY DEF E, D
<1>5. bytes' = Body(lines, D, E)[i]
  <2>1. Body(lines, D, E)[i] = BodyStep(lines, Body(lines, D, E)[i - 1], i)
    <3>1. Body(lines, D, E) = [k \in D .. E - 1 |->
              IF k = D THEN <<>> ELSE BodyStep(lines, Body(lines, D, E)[k - 1], k)]
      BY <1>2, BodyDef
    <3>. QED  BY <1>2, <1>3, <3>1
  <2>2. bytes = Body(lines, D, E)[i - 1]
    BY <1>1 DEF InDecl
  <2>. QED  BY <2>1, <2>2 DEF BodyStep
<1>6. InDecl'
  <2>1. D < i' /\ i' <= E
    BY <1>2, <1>3
  <2>2. Body(lines', D', E')[i' - 1] = Body(lines, D, E)[i]
    <3>1. i' - 1 = i
      BY <1>1 DEF TypeOK
    <3>. QED  BY <1>4, <3>1
  <2>3. /\ IsComp(lines', D') = IsComp(lines, D)
        /\ DataSz(lines', D') = DataSz(lines, D)
        /\ CompSz(lines', D') = CompSz(lines, D)
    BY <1>4
  <2>. QED  BY <1>1, <1>4, <1>5, <2>1, <2>2, <2>3 DEF InDecl
<1>7. TypeOK'
  <2>1. lines[i] \in Line
    <3>1. i \in 1 .. Len(lines)
      BY <1>2, <1>3
    <3>. QED  BY <1>1, <3>1, LinesType
  <2>2. Captured(lines[i]) \in Seq(Nat) /\ bytes \in Seq(Nat)
    BY <1>1, <2>1, CapturedType DEF TypeOK
  <2>3. i + 1 \in 1 .. Len(lines) + 1
    BY <1>1 DEF TypeOK
  <2>. QED  BY <1>1, <2>2, <2>3 DEF TypeOK
<1>. QED  BY <1>1, <1>6, <1>7 DEF ScanInv

(* ScanLine outside the array at a line that does not declare it: the    *)
(* markers become those of the lines before i + 1.                       *)
LEMMA SkipInv ==
    ASSUME ScanInv, pc = "scan", i <= Len(lines), ~in_bytes, i \notin DeclLines(lines),
           i' = i + 1,
           compressed' = IsComp(lines, i + 1), data_size' = DataSz(lines, i + 1),
           compressed_size' = CompSz(lines, i + 1),
           data_size' \in Nat, compressed_size' \in Nat,
           UNCHANGED <<lines, expected, bytes, in_bytes, pc, result>>
    PROVE  ScanInv'
<1>1. TypeOK /\ BeforeDecl /\ result = Pending
  BY DEF ScanInv
<1>2. \A k \in DeclLines(lines) : i + 1 <= k
  <2>1. \A k \in DeclLines(lines) : i <= k /\ k \in Nat
    BY <1>1 DEF BeforeDecl, DeclLines
  <2>. QED  BY <1>1, <2>1 DEF TypeOK
<1>3. BeforeDecl'
  BY <1>1, <1>2 DEF BeforeDecl
<1>4. TypeOK'
  <2>1. i + 1 \in 1 .. Len(lines) + 1
    BY <1>1 DEF TypeOK
  <2>2. IsComp(lines, i + 1) \in BOOLEAN
    BY DEF IsComp
  <2>. QED  BY <1>1, <2>1, <2>2 DEF TypeOK
<1>. QED  BY <1>1, <1>3, <1>4 DEF ScanInv

(* ScanLine at the declaration of the array: i is the reference's D.      *)
LEMMA DeclInv ==
    ASSUME ScanInv, pc = "scan", i <= Len(lines), ~in_bytes,
           lines[i].marks = {}, Declares(lines[i]),
           in_bytes' = TRUE, i' = i + 1,
           UNCHANGED <<lines, expected, compressed, data_size, compressed_size,
                       bytes, pc, result>>
    PROVE  ScanInv'
<1>1. TypeOK /\ BeforeDecl /\ result = Pending
  BY DEF ScanInv
<1>2. i \in DeclLines(lines) /\ i \in Nat
  BY <1>1 DEF DeclLines, TypeOK
<1>3. D = i
  <2>1. DeclLines(lines) \in SUBSET Nat /\ \A k \in DeclLines(lines) : i <= k
    BY <1>1 DEF BeforeDecl, DeclLines
  <2>. QED  BY <1>2, <2>1, FirstIs DEF D
<1>4. E \in i + 1 .. Len(lines) + 1
  BY <1>1, <1>2, <1>3, LinesType, EndLineProps DEF E
<1>5. Body(lines, D, E)[i] = <<>>
  <2>1. Body(lines, i, E) = [k \in i .. E - 1 |->
            IF k = i THEN <<>> ELSE BodyStep(lines, Body(lines, i, E)[k - 1], k)]
    BY <1>2, <1>4, BodyDef
  <2>. QED  BY <1>2, <1>3, <1>4, <2>1
<1>6. D' = D /\ E' = E
  BY DEF D, E
<1>7. InDecl'
  <2>1. /\ DeclLines(lines') # {} /\ D' \in DeclLines(lines')
        /\ D' < i' /\ i' <= E'
    BY <1>2, <1>3, <1>4, <1>6
  <2>2. /\ compressed' = IsComp(lines', D')
        /\ data_size' = DataSz(lines', D')
        /\ compressed_size' = CompSz(lines', D')
    BY <1>1, <1>3, <1>6 DEF BeforeDecl
  <2>3. bytes' = Body(lines', D', E')[i' - 1]
    BY <1>1, <1>2, <1>5, <1>6 DEF BeforeDecl
  <2>. QED  BY <2>1, <2>2, <2>3 DEF InDecl
<1>8. TypeOK'
  <2>1. i + 1 \in 1 .. Len(lines) + 1
    BY <1>1 DEF TypeOK
  <2>. QED  BY <1>1, <2>1 DEF TypeOK
<1>. QED  BY <1>1, <1>7, <1>8 DEF ScanInv

(* ScanLine outside the array: the branches of the if-chain.              *)
LEMMA OutsideInv ==
    ASSUME ScanInv, pc = "scan", i <= Len(lines), ~in_bytes, ScanOutside(lines[i])
    PROVE  ScanInv'
<1>. DEFINE l == lines[i]
<1>0. /\ TypeOK
      /\ i \in Nat \ {0}
      /\ l \in Line
      /\ data_size \in Nat /\ compressed_size \in Nat
      /\ compressed = IsComp(lines, i) /\ data_size = DataSz(lines, i)
      /\ compressed_size = CompSz(lines, i)
  <2>1. TypeOK /\ BeforeDecl
    BY DEF ScanInv
  <2>2. i \in 1 .. Len(lines)
    BY <2>1 DEF TypeOK
  <2>. QED  BY <2>1, <2>2, LinesType DEF TypeOK, BeforeDecl
<1>a. l.marks # {} => i \notin DeclLines(lines)
  BY DEF DeclLines
<1>1. CASE /\ "compNo" \in l.marks
           /\ compressed' = FALSE
           /\ i' = i + 1
           /\ UNCHANGED <<lines, expected, data_size, compressed_size, bytes, in_bytes, pc, result>>
  <2>1. IsComp(lines, i + 1) = FALSE
    BY <1>0, <1>1, CompSet
  <2>2. DataSz(lines, i + 1) = data_size /\ CompSz(lines, i + 1) = compressed_size
    BY <1>0, <1>1, DszKept, CszKept
  <2>. QED  BY <1>0, <1>1, <1>a, <2>1, <2>2, SkipInv
<1>2. CASE /\ "compNo" \notin l.marks /\ "compYes" \in l.marks
           /\ compressed' = TRUE
           /\ i' = i + 1
           /\ UNCHANGED <<lines, expected, data_size, compressed_size, bytes, in_bytes, pc, result>>
  <2>1. IsComp(lines, i + 1) = TRUE
    BY <1>0, <1>2, CompSet
  <2>2. DataSz(lines, i + 1) = data_size /\ CompSz(lines, i + 1) = compressed_size
    BY <1>0, <1>2, DszKept, CszKept
  <2>. QED  BY <1>0, <1>2, <1>a, <2>1, <2>2, SkipInv
<1>3. CASE /\ l.marks \cap {"compNo", "compYes"} = {}
           /\ "dataSize" \in l.marks
           /\ data_size' = l.size
           /\ i' = i + 1
           /\ UNCHANGED <<lines, expected, compressed, compressed_size, bytes, in_bytes, pc, result>>
  <2>1. IsComp(lines, i + 1) = compressed
    BY <1>0, <1>3, CompKept
  <2>2. DataSz(lines, i + 1) = l.size /\ CompSz(lines, i + 1) = compressed_size
    BY <1>0, <1>3, DszSet, CszKept
  <2>3. l.size \in Nat
    BY <1>0 DEF Line
  <2>. QED  BY <1>0, <1>3, <1>a, <2>1, <2>2, <2>3, SkipInv
<1>4. CASE /\ l.marks \cap {"compNo", "compYes", "dataSize"} = {}
           /\ "compSize" \in l.marks
           /\ compressed_size' = l.size
           /\ i' = i + 1
           /\ UNCHANGED <<lines, expected, compressed, data_size, bytes, in_bytes, pc, result>>
  <2>0. l.marks \cap {"compNo", "compYes"} = {} /\ "dataSize" \notin l.marks
    BY <1>4
  <2>1. IsComp(lines, i + 1) = compressed
    BY <1>0, <2>0, CompKept
  <2>2. DataSz(lines, i + 1) = data_size /\ CompSz(lines, i + 1) = l.size
    BY <1>0, <1>4, <2>0, DszKept, CszSet
  <2>3. l.size \in Nat
    BY <1>0 DEF Line
  <2>. QED  BY <1>0, <1>4, <1>a, <2>1, <2>2, <2>3, SkipInv
<1>5. CASE /\ l.marks = {} /\ Declares(l)
           /\ in_bytes' = TRUE
           /\ i' = i + 1
           /\ UNCHANGED <<lines, expected, compressed, data_size, compressed_size, bytes, pc, result>>
  BY <1>5, DeclInv
<1>6. CASE /\ l.marks = {} /\ ~Declares(l)
           /\ i' = i + 1
           /\ UNCHANGED <<lines, expected, compressed, data_size, compressed_size, bytes, in_bytes, pc, result>>
  <2>1. i \notin DeclLines(lines)
    BY <1>6 DEF DeclLines
  <2>2. /\ IsComp(lines, i + 1) = compressed
        /\ DataSz(lines, i + 1) = data_size /\ CompSz(lines, i + 1) = compressed_size
    BY <1>0, <1>6, CompKept, DszKept, CszKept
  <2>. QED  BY <1>0, <1>6, <2>1, <2>2, SkipInv
<1>. QED  BY <1>1, <1>2, <1>3, <1>4, <1>5, <1>6 DEF ScanOutside

(* ScanLine as a whole.                                                    *)
LEMMA ScanLineInv ==
    ASSUME ScanInv, ScanLine
    PROVE  ScanInv'
<1>1. CASE in_bytes /\ lines[i].end
  BY <1>1, CloseInv DEF ScanLine
<1>2. CASE in_bytes /\ ~lines[i].end
  BY <1>2, ExtendInv DEF ScanLine
<1>3. CASE ~in_bytes
  BY <1>3, OutsideInv DEF ScanLine
<1>. QED  BY <1>1, <1>2, <1>3

(* The file ends: outside the array no line declared it; inside, the     *)
(* reference's closing line is past the end.                              *)
LEMMA EndOfFileInv ==
    ASSUME ScanInv, EndOfFile
    PROVE  ScanInv'
<1>1. TypeOK /\ result = Pending /\ i = Len(lines) + 1
  BY LinesType DEF ScanInv, EndOfFile, TypeOK
<1>2. UNCHANGED <<lines, expected, i, compressed, data_size, compressed_size, bytes, in_bytes, result>>
      /\ pc' = "post"
  BY DEF EndOfFile
<1>3. CASE ~in_bytes
  <2>1. BeforeDecl
    BY <1>3 DEF ScanInv, EndOfFile
  <2>2. DeclLines(lines) = {}
    <3>1. \A k \in DeclLines(lines) : k \in Nat /\ k <= Len(lines) /\ i <= k
      BY <2>1 DEF DeclLines, BeforeDecl
    <3>. QED  BY <1>1, <3>1, LinesType
  <2>3. bytes = <<>>
    BY <2>1 DEF BeforeDecl
  <2>. QED  BY <1>1, <1>2, <1>3, <2>2, <2>3 DEF ScanInv, TypeOK
<1>4. CASE in_bytes
  <2>1. InDecl
    BY <1>4 DEF ScanInv
  <2>2. i = E
    <3>1. E \in D + 1 .. Len(lines) + 1 /\ i <= E
      BY <1>1, <2>1, DeclFacts DEF InDecl
    <3>. QED  BY <1>1, <3>1
  <2>3. InDecl' /\ E' = E
    BY <1>2, <2>1, InDeclKept DEF E, D
  <2>. QED  BY <1>1, <1>2, <1>4, <2>2, <2>3 DEF ScanInv, TypeOK
<1>. QED  BY <1>3, <1>4

(* After the loop, RefResult is what the checks and the inflate make of  *)
(* the scan's own flag, sizes and bytes.                                  *)
PostRef ==
    IF bytes = <<>> THEN Err("notFound")
    ELSE IF compressed
         THEN IF Len(bytes) # compressed_size THEN Err("sizeMismatch")
              ELSE IF ~Inflate(bytes, data_size).ok THEN Err("decodeError")
              ELSE Expect(expected, Inflate(bytes, data_size).out)
         ELSE IF Len(bytes) # data_size THEN Err("sizeMismatch")
              ELSE Expect(expected, bytes)

LEMMA RefUnfold ==
    ASSUME NEW f, NEW want
    PROVE  RefResult(f, want) =
             LET d   == First(DeclLines(f))
                 raw == Body(f, d, EndLine(f, d))[EndLine(f, d) - 1]
             IN  IF DeclLines(f) = {} \/ raw = <<>> THEN Err("notFound")
                 ELSE IF IsComp(f, d)
                      THEN IF Len(raw) # CompSz(f, d) THEN Err("sizeMismatch")
                           ELSE IF ~Inflate(raw, DataSz(f, d)).ok THEN Err("decodeError")
                           ELSE Expect(want, Inflate(raw, DataSz(f, d)).out)
                      ELSE IF Len(raw) # DataSz(f, d) THEN Err("sizeMismatch")
                           ELSE Expect(want, raw)
BY DEF RefResult, Expect

LEMMA PostRefIsRef ==
    ASSUME ScanInv, pc = "post"
    PROVE  RefResult(lines, expected) = PostRef
<1>1. CASE ~in_bytes
  <2>1. DeclLines(lines) = {} /\ bytes = <<>>
    BY <1>1 DEF ScanInv
  <2>2. RefResult(lines, expected) = Err("notFound")
    BY <2>1, RefUnfold
  <2>. QED  BY <2>1, <2>2 DEF PostRef
<1>2. CASE in_bytes
  <2>1. InDecl /\ i = E
    BY <1>2 DEF ScanInv
  <2>2. /\ DeclLines(lines) # {}
        /\ bytes = Body(lines, D, E)[E - 1]
        /\ compressed = IsComp(lines, D)
        /\ data_size = DataSz(lines, D)
        /\ compressed_size = CompSz(lines, D)
    BY <2>1 DEF InDecl
  <2>. QED  BY <2>2, RefUnfold DEF PostRef, D, E
<1>. QED  BY <1>1, <1>2

(* Decode: each branch of the checks after the loop returns, or goes on  *)
(* to the expected_size test with, what RefResult says.                  *)
LEMMA DecodeInv ==
    ASSUME ScanInv, Decode
    PROVE  ScanInv'
<1>0. /\ pc = "post" /\ TypeOK
      /\ UNCHANGED <<lines, expected, i, compressed, data_size, compressed_size, bytes, in_bytes>>
  BY DEF ScanInv, Decode
<1>1. RefResult(lines', expected') = PostRef
  BY <1>0, PostRefIsRef
<1>2. /\ pc' \in {"check", "done"}
      /\ pc' = "check" => result'.st = "ok" /\ PostRef = Expect(expected, result'.out)
      /\ pc' = "done" => result' = PostRef
      /\ result' \in [st : {"pending", "ok"} \cup Errors, out : Seq(Nat)]
  <2>1. bytes \in Seq(Nat) /\ data_size \in Nat
    BY <1>0 DEF TypeOK
  <2>2. Inflate(bytes, data_size) \in DecState
    BY <2>1, InflateType
  <2>3. CASE bytes = <<>> /\ result' = Err("notFound") /\ pc' = "done"
    BY <2>3 DEF PostRef, Err, Errors
  <2>4. CASE /\ bytes # <<>> /\ compressed /\ Len(bytes) # compressed_size
             /\ result' = Err("sizeMismatch") /\ pc' = "done"
    BY <2>4 DEF PostRef, Err, Errors
  <2>5. CASE /\ bytes # <<>> /\ compressed /\ Len(bytes) = compressed_size
             /\ Inflate(bytes, data_size).ok
             /\ result' = Ok(Inflate(bytes, data_size).out) /\ pc' = "check"
    BY <2>2, <2>5 DEF PostRef, Ok, DecState
  <2>6. CASE /\ bytes # <<>> /\ compressed /\ Len(bytes) = compressed_size
             /\ ~Inflate(bytes, data_size).ok
             /\ result' = Err("decodeError") /\ pc' = "done"
    BY <2>6 DEF PostRef, Err, Errors
  <2>7. CASE /\ bytes # <<>> /\ ~compressed /\ Len(bytes) # data_size
             /\ result' = Err("sizeMismatch") /\ pc' = "done"
    BY <2>7 DEF PostRef, Err, Errors
  <2>8. CASE /\ bytes # <<>> /\ ~compressed /\ Len(bytes) = data_size
             /\ result' = Ok(bytes) /\ pc' = "check"
    BY <2>1, <2>8 DEF PostRef, Ok
  <2>. QED  BY <2>3, <2>4, <2>5, <2>6, <2>7, <2>8 DEF Decode
<1>3. (in_bytes => InDecl)' /\ (in_bytes => i = E)'
  <2>1. in_bytes => InDecl /\ i = E
    BY <1>0 DEF ScanInv
  <2>. QED  BY <1>0, <2>1, InDeclKept DEF E, D
<1>4. (~in_bytes => DeclLines(lines) = {} /\ bytes = <<>>)'
  BY <1>0 DEF ScanInv
<1>5. TypeOK'
  BY <1>0, <1>2 DEF TypeOK
<1>6. /\ pc' = "check" => /\ result'.st = "ok"
                          /\ RefResult(lines', expected') = Expect(expected', result'.out)
      /\ pc' = "done" => result' = RefResult(lines', expected')
  BY <1>0, <1>1, <1>2
<1>. QED  BY <1>2, <1>3, <1>4, <1>5, <1>6 DEF ScanInv

(* The expected_size test returns RefResult.                              *)
LEMMA CheckExpectedInv ==
    ASSUME ScanInv, CheckExpected
    PROVE  ScanInv'
<1>0. /\ pc = "check" /\ TypeOK /\ result.st = "ok"
      /\ RefResult(lines, expected) = Expect(expected, result.out)
      /\ (in_bytes => InDecl /\ i = E)
      /\ (~in_bytes => DeclLines(lines) = {} /\ bytes = <<>>)
      /\ UNCHANGED <<lines, expected, i, compressed, data_size, compressed_size, bytes, in_bytes>>
  BY DEF ScanInv, CheckExpected
<1>1. result = Ok(result.out)
  BY <1>0 DEF TypeOK, Ok
<1>2. result' = RefResult(lines', expected')
  BY <1>0, <1>1 DEF CheckExpected, Expect
<1>3. result' \in [st : {"pending", "ok"} \cup Errors, out : Seq(Nat)]
  BY <1>0, <1>1 DEF CheckExpected, TypeOK, Err, Errors
<1>4. (in_bytes => InDecl /\ i = E)'
  BY <1>0, InDeclKept DEF E, D
<1>. QED  BY <1>0, <1>2, <1>3, <1>4 DEF ScanInv, CheckExpected, TypeOK

LEMMA StutterInv ==
    ASSUME ScanInv, UNCHANGED vars
    PROVE  ScanInv'
<1>1. InDecl' = InDecl /\ BeforeDecl' = BeforeDecl /\ E' = E
  BY InDeclKept, BeforeDeclKept DEF vars, E, D
<1>. QED  BY <1>1 DEF ScanInv, vars, TypeOK

LEMMA NextInv ==
    ASSUME ScanInv, [Next]_vars
    PROVE  ScanInv'
<1>1. CASE ScanLine
  BY <1>1, ScanLineInv
<1>2. CASE EndOfFile
  BY <1>2, EndOfFileInv
<1>3. CASE Decode
  BY <1>3, DecodeInv
<1>4. CASE CheckExpected
  BY <1>4, CheckExpectedInv
<1>5. CASE Returned \/ UNCHANGED vars
  BY <1>5, StutterInv DEF Returned
<1>. QED  BY <1>1, <1>2, <1>3, <1>4, <1>5 DEF Next

-----------------------------------------------------------------------------
(* The scan invariant holds in every reachable state of get_bytes.        *)
THEOREM ScanInvariant == Spec => []ScanInv
<1>1. Init => ScanInv
  BY InitScanInv
<1>2. ScanInv /\ [Next]_vars => ScanInv'
  BY NextInv
<1>. QED  BY <1>1, <1>2, PTL DEF Spec

(* get_bytes keeps its locals well typed for every file: the bytes it     *)
(* collects and the output of decompress_vec are sequences of bytes, and  *)
(* the line index never passes the line after the last.                   *)
THEOREM GetBytesTypeCorrect == Spec => []TypeOK
<1>1. ScanInv => TypeOK
  BY DEF ScanInv
<1>. QED  BY <1>1, ScanInvariant, PTL

(* For every file and expected size, what get_bytes returns is RefResult: *)
(* the if-chain with its `continue`s, the `break` at "};", the checks     *)
(* after the loop and the expected_size test give the declarative         *)
(* reading of the file.                                                    *)
THEOREM ScanCorrect == Spec => []ScanMatchesReference
<1>1. ScanInv => ScanMatchesReference
  BY DEF ScanInv, ScanMatchesReference
<1>. QED  BY <1>1, ScanInvariant, PTL
=============================================================================
