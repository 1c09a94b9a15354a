----------------------------- MODULE MCGetBytes -----------------------------
(* Every file of up to MaxLines lines over a small alphabet of lines.      *)
EXTENDS GetBytes, TLC

MaxLines == 3

L(marks, size, decl, end, toks) ==
    [marks |-> marks, size |-> size, decl |-> decl, end |-> end, toks |-> toks]
T(v) == [v |-> v, ok |-> TRUE]
Upper(v) == [v |-> v, ok |-> FALSE]   \* 0xAB, or 0x12 at the end of a line

(* The wanted array is <<1>>; <<1, 2>> is a longer name that starts with  *)
(* it; <<2>> is another array.                                             *)
MCArray == <<1>>

(* get_bytes is called with None and with Some(n) (Some(4), Some(12),     *)
(* Some(36) in main.rs); 2 is the length of the arrays of MCLines.        *)
MCExpectedSizes == {NoSize, 2}

MCLines ==
    { L({"compNo"}, 0, <<>>, FALSE, <<>>),          \* COMPRESSION: NO
      L({"compYes"}, 0, <<>>, FALSE, <<>>),         \* COMPRESSION: YES
      L({"dataSize"}, 2, <<>>, FALSE, <<>>),        \* DATA SIZE (bytes): 2
      L({"compSize"}, 1, <<>>, FALSE, <<>>),        \* COMPRESSED SIZE (bytes): 1
      L({}, 0, <<1>>, FALSE, <<>>),                 \* static BINDATA_CONST NvU8 A[] =
      L({}, 0, <<1, 2>>, FALSE, <<>>),              \* ... NvU8 AB[] =
      L({}, 0, <<2>>, FALSE, <<>>),                 \* ... NvU8 B[] =
      L({}, 0, <<>>, FALSE, <<T(2)>>),              \* 0x02,
      L({}, 0, <<>>, FALSE, <<T(1), Upper(3)>>),    \* 0x01, 0x03
      L({}, 0, <<>>, FALSE, <<T(0)>>),              \* 0x00,  (corrupt deflate)
      L({}, 0, <<>>, TRUE, <<>>),                   \* };
      L({}, 0, <<>>, TRUE, <<T(1)>>),               \* 0x01 };
      L({"compYes", "dataSize"}, 2, <<>>, FALSE, <<>>) \* two markers on one line
    }

MarkerLines == {l \in MCLines : l.marks # {}} \cup {L({"dataSize"}, 1, <<>>, FALSE, <<>>)}
DataLines == {l \in MCLines : l.toks # <<>> /\ ~l.end}

(* Three markers then one array: the files in which a compressed array    *)
(* carries all three of its markers.                                       *)
Blocks == {<<L({}, 0, <<1>>, FALSE, <<>>), d>> : d \in DataLines}
          \cup {<<L({}, 0, <<1>>, FALSE, <<>>), d, L({}, 0, <<>>, TRUE, <<>>)>> : d \in DataLines}

MCFiles == UNION {[1 .. n -> MCLines] : n \in 0 .. MaxLines}
           \cup {m \o b : m \in [1 .. 3 -> MarkerLines], b \in Blocks}
=============================================================================
