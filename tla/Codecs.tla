------------------------------- MODULE Codecs -------------------------------
(***************************************************************************)
(* The codecs of storage/compression, and the analyzer that chooses one.   *)
(* Memory is a sequence of units of four bytes.  A codec sees words of two *)
(* units whatever the size of the values it is given, which is one unit    *)
(* for INT32, two for INT64, DOUBLE and node ids, and more for a STRING.   *)
(* A page holds one block of at most Block values; its header, its lengths *)
(* and the order of its bits are left out, the width of a packed number is *)
(* kept.                                                                   *)
(***************************************************************************)
EXTENDS Integers, Sequences, SequencesExt, FiniteSetsExt

CONSTANTS
  Block,    \* values a compressed page stands for (32 in the code)
  Radix,    \* numbers a unit can hold (2^32 in the code)
  MaxExp,   \* largest exponent index of ALP (10 in the code)
  MaxFac    \* largest factor index of ALP (18 in the code)

Word(n) == <<n % Radix, n \div Radix>>
Number(w) == w[1] + Radix * w[2]
Zero == Word(0)

NumWords(src) == Len(src) \div 2
WordAt(src, i) == <<src[2 * i + 1], src[2 * i + 2]>>            \* i from 0
Words(src, n) == [i \in 1 .. n |-> WordAt(src, i - 1)]

\* What compress_next_page answers: the page and the values processed, or an error.
Page(codec, body, processed) ==
  [ok |-> TRUE, page |-> [codec |-> codec, body |-> body], processed |-> processed]
Failed == [ok |-> FALSE]

-----------------------------------------------------------------------------
(* RLE: runs until the values or the source end *)

RleCompress(src, n) ==
  LET taken == Min({n, NumWords(src)})
      Extend(runs, w) ==
        IF runs # <<>> /\ Last(runs).val = w
        THEN [runs EXCEPT ![Len(runs)].count = @ + 1]
        ELSE Append(runs, [val |-> w, count |-> 1])
  IN  Page("rle", FoldLeft(Extend, <<>>, Words(src, taken)), taken)

\* The words a walk over the runs reaches; beyond the last run nothing is written.
RleWords(runs) == FlattenSeq([i \in DOMAIN runs |-> [j \in 1 .. runs[i].count |-> runs[i].val]])
-----------------------------------------------------------------------------
(* Dictionary: the distinct words in order of appearance, and an index into them for every
   word.  A source of less than n words is an index out of range. *)

DictCompress(src, n) ==
  LET ws == Words(src, n)
      dict == FoldLeft(LAMBDA d, w : IF Contains(d, w) THEN d ELSE Append(d, w), <<>>, ws)
      index == [i \in 1 .. n |-> CHOOSE k \in DOMAIN dict : dict[k] = ws[i]]
  IN  IF NumWords(src) < n THEN Failed
      ELSE Page("dict", [dict |-> dict, index |-> index], n)

DictWords(body) == [i \in DOMAIN body.index |-> body.dict[body.index[i]]]
-----------------------------------------------------------------------------
(* Bit packing: a number keeps its lowest bits.  Both codecs read a whole block of the
   source, and both take the width, and the second one the minimum, from the metadata. *)

Packed(n, width) == n % 2^width

BitWidth(range) == CHOOSE w \in 0 .. range : 2^w > range /\ (w = 0 \/ 2^(w - 1) <= range)

BitpackCompress(src, n, meta) ==
  IF NumWords(src) < Block THEN Failed
  ELSE Page("bitpack", [i \in 1 .. Block |-> Packed(Number(WordAt(src, i - 1)), meta.width)], n)

BitpackWords(body) == [i \in DOMAIN body |-> Word(body[i])]

\* A value below the minimum gives a negative difference, packed like any other.
ForCompress(src, n, meta) ==
  IF NumWords(src) < Block THEN Failed
  ELSE Page("for", [i \in 1 .. Block |->
                      Packed(Number(WordAt(src, i - 1)) - meta.min, meta.width)], n)

ForWords(body, meta) == [i \in DOMAIN body |-> Word(meta.min + body[i])]
-----------------------------------------------------------------------------
(* ALP: a floating-point number is tenths here, with one digit after the point, and is
   stored as the integer nearest to its product with a power of ten over another.  The
   powers chosen for a page are the first whose integers have the smallest sum. *)

AlpEncode(v, fac, exp) ==
  LET scaled == v * 10^exp
      unit == 10 * 10^fac
  IN  (2 * scaled + unit) \div (2 * unit)

AlpDecode(n, fac, exp) == (10 * n * 10^fac) \div 10^exp

AlpCost(vs, fac, exp) == FoldLeft(LAMBDA a, v : a + AlpEncode(v, fac, exp), 0, vs)

AlpChoice(vs) ==
  LET all == (0 .. MaxExp) \X (0 .. MaxFac)
      cost == [c \in all |-> AlpCost(vs, c[2], c[1])]
  IN  CHOOSE c \in all : \A d \in all :
        \/ cost[c] < cost[d]
        \/ cost[c] = cost[d] /\ (c[1] < d[1] \/ (c[1] = d[1] /\ c[2] <= d[2]))

AlpCompress(src, n) ==
  LET vs == [i \in 1 .. n |-> Number(WordAt(src, i - 1))]
      c == AlpChoice(vs)
  IN  IF NumWords(src) < n THEN Failed
      ELSE Page("alp", [exp |-> c[1], fac |-> c[2],
                        nums |-> [i \in 1 .. n |-> AlpEncode(vs[i], c[2], c[1])]], n)

AlpWords(body) == [i \in DOMAIN body.nums |-> Word(AlpDecode(body.nums[i], body.fac, body.exp))]
-----------------------------------------------------------------------------
(* compress_next_page and decompress_from_page of the codec get_alg chooses *)

Compress(codec, src, n, meta) ==
  CASE codec = "constant" -> Page("constant", <<>>, n)
    [] codec = "rle" -> RleCompress(src, n)
    [] codec = "dict" -> DictCompress(src, n)
    [] codec = "bitpack" -> BitpackCompress(src, n, meta)
    [] codec = "for" -> ForCompress(src, n, meta)
    [] codec = "alp" -> AlpCompress(src, n)

PageWords(page, meta) ==
  CASE page.codec = "rle" -> RleWords(page.body)
    [] page.codec = "dict" -> DictWords(page.body)
    [] page.codec = "bitpack" -> BitpackWords(page.body)
    [] page.codec = "for" -> ForWords(page.body, meta)
    [] page.codec = "alp" -> AlpWords(page.body)

\* n words from the word off; what the page does not hold stays as the buffer was.
Decompress(page, off, n, meta) ==
  LET ws == PageWords(page, meta)
  IN  [i \in 1 .. n |-> IF off + i <= Len(ws) THEN ws[off + i] ELSE Zero]
-----------------------------------------------------------------------------
(* CompressionAnalyzer: the metadata for a sample of numbers.  The thresholds on repeated
   and on distinct values, which are above any instance, are a choice. *)

Metas(codec, lo, hi, width) == [codec |-> codec, min |-> lo, max |-> hi, width |-> width]

AnalyzeInteger(kind, vs) ==
  LET lo == Min(ToSet(vs))
      hi == Max(ToSet(vs))
      packing == IF kind = "node" /\ lo = 0 THEN "bitpack" ELSE "for"
  IN  IF lo = hi THEN {Metas("constant", lo, hi, 0)}
      ELSE {Metas("rle", lo, hi, 0), Metas("dict", lo, hi, 0),
            Metas(packing, lo, hi, BitWidth(hi - lo))}

AnalyzeFloat(vs) == {Metas("alp", Min(ToSet(vs)), Max(ToSet(vs)), 0)}

AnalyzeString(vs) ==
  IF Cardinality(ToSet(vs)) = 1 THEN {Metas("constant", vs[1], vs[1], 0)}
  ELSE {Metas("dict", 0, 0, 0), Metas("uncompressed", 0, 0, 0)}

Analyze(kind, vs) ==
  CASE kind \in {"int64", "int32", "node"} -> AnalyzeInteger(kind, vs)
    [] kind = "double" -> AnalyzeFloat(vs)
    [] kind = "string" -> AnalyzeString(vs)
=============================================================================
