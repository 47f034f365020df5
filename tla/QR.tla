---------------------------------- MODULE QR ----------------------------------
(***************************************************************************)
(* symbivpn/vpn/qr.py: the QR encoder that shows a WireGuard profile to a  *)
(* phone.  A byte, a field of bits and an element of GF(256) are the sets  *)
(* of the positions of their one bits, so that exclusive or is symmetric   *)
(* difference; a symbol is the set of its dark modules <<row, column>>,    *)
(* counted from 0 as in the code, beside the set of reserved ones.         *)
(*                                                                         *)
(* encode() tries every mask and keeps the one with the least penalty.     *)
(* Any mask makes a valid symbol, so the score is left out and the choice  *)
(* is free.                                                                *)
(***************************************************************************)
EXTENDS Integers, FiniteSets, Sequences, SequencesExt

CONSTANTS
    QRJobs  \* [payload, level, version] asked for; version 0 stands for None

VARIABLE
    qr  \* the job, its stage, and once drawn its version and mask

Levels == <<"L", "M", "Q", "H">>

EC_INDICATOR == [L |-> {0}, M |-> {}, Q |-> {0, 1}, H |-> {1}]

MAX_VERSION == 20

\* For each version and level: error-correction codewords per block, then
\* blocks and data codewords of the first and of the second group.
BLOCK_TABLE == <<
    <<<<7,1,19,0,0>>, <<10,1,16,0,0>>, <<13,1,13,0,0>>, <<17,1,9,0,0>>>>,
    <<<<10,1,34,0,0>>, <<16,1,28,0,0>>, <<22,1,22,0,0>>, <<28,1,16,0,0>>>>,
    <<<<15,1,55,0,0>>, <<26,1,44,0,0>>, <<18,2,17,0,0>>, <<22,2,13,0,0>>>>,
    <<<<20,1,80,0,0>>, <<18,2,32,0,0>>, <<26,2,24,0,0>>, <<16,4,9,0,0>>>>,
    <<<<26,1,108,0,0>>, <<24,2,43,0,0>>, <<18,2,15,2,16>>, <<22,2,11,2,12>>>>,
    <<<<18,2,68,0,0>>, <<16,4,27,0,0>>, <<24,4,19,0,0>>, <<28,4,15,0,0>>>>,
    <<<<20,2,78,0,0>>, <<18,4,31,0,0>>, <<18,2,14,4,15>>, <<26,4,13,1,14>>>>,
    <<<<24,2,97,0,0>>, <<22,2,38,2,39>>, <<22,4,18,2,19>>, <<26,4,14,2,15>>>>,
    <<<<30,2,116,0,0>>, <<22,3,36,2,37>>, <<20,4,16,4,17>>, <<24,4,12,4,13>>>>,
    <<<<18,2,68,2,69>>, <<26,4,43,1,44>>, <<24,6,19,2,20>>, <<28,6,15,2,16>>>>,
    <<<<20,4,81,0,0>>, <<30,1,50,4,51>>, <<28,4,22,4,23>>, <<24,3,12,8,13>>>>,
    <<<<24,2,92,2,93>>, <<22,6,36,2,37>>, <<26,4,20,6,21>>, <<28,7,14,4,15>>>>,
    <<<<26,4,107,0,0>>, <<22,8,37,1,38>>, <<24,8,20,4,21>>, <<22,12,11,4,12>>>>,
    <<<<30,3,115,1,116>>, <<24,4,40,5,41>>, <<20,11,16,5,17>>, <<24,11,12,5,13>>>>,
    <<<<22,5,87,1,88>>, <<24,5,41,5,42>>, <<30,5,24,7,25>>, <<24,11,12,7,13>>>>,
    <<<<24,5,98,1,99>>, <<28,7,45,3,46>>, <<24,15,19,2,20>>, <<30,3,15,13,16>>>>,
    <<<<28,1,107,5,108>>, <<28,10,46,1,47>>, <<28,1,22,15,23>>, <<28,2,14,17,15>>>>,
    <<<<30,5,120,1,121>>, <<26,9,43,4,44>>, <<28,17,22,1,23>>, <<28,2,14,19,15>>>>,
    <<<<28,3,113,4,114>>, <<26,3,44,11,45>>, <<26,17,21,4,22>>, <<26,9,13,16,14>>>>,
    <<<<28,3,107,5,108>>, <<26,3,41,13,42>>, <<30,15,24,5,25>>, <<28,15,15,10,16>>>> >>

\* A row of the table by name.
Blocks(version, level) ==
    LET row == BLOCK_TABLE[version][CHOOSE i \in 1..4 : Levels[i] = level]
    IN  [ec |-> row[1], n1 |-> row[2], d1 |-> row[3], n2 |-> row[4], d2 |-> row[5]]

ALIGNMENT_POSITIONS == <<
    <<>>, <<6, 18>>, <<6, 22>>, <<6, 26>>, <<6, 30>>, <<6, 34>>,
    <<6, 22, 38>>, <<6, 24, 42>>, <<6, 26, 46>>, <<6, 28, 50>>, <<6, 30, 54>>,
    <<6, 32, 58>>, <<6, 34, 62>>, <<6, 26, 46, 66>>, <<6, 26, 48, 70>>,
    <<6, 26, 50, 74>>, <<6, 30, 54, 78>>, <<6, 30, 56, 82>>, <<6, 30, 58, 86>>,
    <<6, 34, 62, 90>> >>

-------------------------------------------------------------------------------
(* GF(256) and Reed-Solomon.                                               *)

Xor(a, b) == (a \ b) \cup (b \ a)

Shift(a, n) == {i + n : i \in a}

\* _init_tables(): the powers of x modulo x^8 + x^4 + x^3 + x^2 + 1.
EXP ==
    LET TimesX(a) == IF 7 \in a THEN Xor(Shift(a, 1), {8, 4, 3, 2, 0}) ELSE Shift(a, 1)
    IN  FoldLeft(LAMBDA acc, i : Append(acc, TimesX(Last(acc))),
                 <<{0}>>, [i \in 1..254 |-> i])

LOG(a) == (CHOOSE i \in 1..255 : EXP[i] = a) - 1

GfMultiply(a, b) ==
    IF {} \in {a, b} THEN {} ELSE EXP[((LOG(a) + LOG(b)) % 255) + 1]

\* The product as the loop computes it.  Each round appends a zero and then
\* adds to every coefficient, first to last, a multiple of its successor,
\* which the round has not yet changed.
RECURSIVE GeneratorPolynomial(_)
GeneratorPolynomial(degree) ==
    IF degree = 0 THEN <<{0}>>
    ELSE LET p == GeneratorPolynomial(degree - 1) \o <<{}>>
         IN  [i \in 1..degree |-> Xor(p[i], GfMultiply(p[i + 1], EXP[degree]))] \o <<{}>>

\* Long division of the data, shifted by the length of the remainder (which
\* is never empty; asking makes TLC work it out before the next step).
RECURSIVE Divide(_, _, _)
Divide(remainder, data, generator) ==
    IF Len(remainder) = 0 \/ data = <<>> THEN remainder
    ELSE LET count  == Len(remainder)
             factor == Xor(Head(data), Head(remainder))
             rest   == Tail(remainder) \o <<{}>>
         IN  Divide([i \in 1..count |->
                        Xor(rest[i], GfMultiply(generator[count - i + 2], factor))],
                    Tail(data), generator)

ReedSolomon(data, count) ==
    Divide([i \in 1..count |-> {}], data, GeneratorPolynomial(count))

-------------------------------------------------------------------------------
(* Format and version information.                                         *)

MaxOf(S) == CHOOSE m \in S : \A i \in S : i <= m

RECURSIVE Remainder(_, _)
Remainder(a, generator) ==
    IF a = {} \/ MaxOf(a) < MaxOf(generator) THEN a
    ELSE Remainder(Xor(a, Shift(generator, MaxOf(a) - MaxOf(generator))), generator)

Bch(value, generator, check) ==
    Shift(value, check) \cup Remainder(Shift(value, check), generator)

Bits(n, width) == {i \in 0..(width - 1) : (n \div 2^i) % 2 = 1}

FormatInformation(level, mask) ==
    Xor(Bch(Shift(EC_INDICATOR[level], 3) \cup Bits(mask, 3), {10, 8, 5, 4, 2, 1, 0}, 10),
        {14, 12, 10, 4, 1})

VersionInformation(version) ==
    Bch(Bits(version, 6), {12, 11, 10, 9, 8, 5, 2, 0}, 12)

-------------------------------------------------------------------------------
(* From the payload to the codewords.                                      *)

Capacity(version, level) ==
    LET b == Blocks(version, level) IN b.n1 * b.d1 + b.n2 * b.d2

\* Mutant: the longer length field begins one version late.
CountBitsLate(version) == IF version <= 10 THEN 8 ELSE 16

CountBits(version) == IF version <= 9 THEN 8 ELSE 16

Fits(payload, version, level) ==
    4 + CountBits(version) + 8 * Len(payload) <= 8 * Capacity(version, level)

\* 0 stands for the QRError it raises.
ChooseVersion(payload, level) ==
    LET fitting == {v \in 1..MAX_VERSION : Fits(payload, v, level)}
    IN  IF fitting = {} THEN 0 ELSE CHOOSE v \in fitting : \A w \in fitting : v <= w

\* Bits, most significant first, as a sequence of BOOLEANs.
Unrolled(bits, width) == [i \in 1..width |-> (width - i) \in bits]

\* Mode, length, payload, terminator and padding.  What fits leaves at least
\* four bits, so the terminator is never cut short and ends on a byte.
EncodePayload(payload, version, level) ==
    LET count == CountBits(version)
        bits  == Unrolled({2}, 4) \o Unrolled(Bits(Len(payload), count), count)
                 \o FlattenSeq([i \in 1..Len(payload) |-> Unrolled(payload[i], 8)])
                 \o Unrolled({}, 4)
        words == [w \in 1..(Len(bits) \div 8) |->
                    {b \in 0..7 : bits[8 * w - b]}]
    IN  words \o [i \in 1..(Capacity(version, level) - Len(words)) |->
                    IF i % 2 = 1 THEN {7, 6, 5, 3, 2} ELSE {4, 0}]

\* Blocks are cut from the front, the long ones last, and written out one
\* codeword of each at a time: data first, then error correction.
InterleaveBlocks(words, version, level) ==
    LET b == Blocks(version, level)
        n == b.n1 + b.n2
        data == [i \in 1..n |->
            IF i <= b.n1 THEN SubSeq(words, (i - 1) * b.d1 + 1, i * b.d1)
            ELSE LET start == b.n1 * b.d1 + (i - b.n1 - 1) * b.d2
                 IN  SubSeq(words, start + 1, start + b.d2)]
        check == [i \in 1..n |-> ReedSolomon(data[i], b.ec)]
        Turn(blocks, k) == blocks[((k - 1) % n) + 1][((k - 1) \div n) + 1]
    IN  [k \in 1..(n * b.d1) |-> Turn(data, k)]
        \o [i \in 1..b.n2 |-> data[b.n1 + i][b.d2]]
        \o [k \in 1..(n * b.ec) |-> Turn(check, k)]

-------------------------------------------------------------------------------
(* The matrix.                                                             *)

Grid(size) == (0..(size - 1)) \X (0..(size - 1))

\* _Matrix.set() over many cells: those in dark become dark, the others light.
Paint(m, cells, dark) ==
    [reserved |-> m.reserved \cup cells, dark |-> (m.dark \ cells) \cup dark]

Distance(i, j) == MaxOf({IF i < 0 THEN -i ELSE i, IF j < 0 THEN -j ELSE j})

\* The pattern with its separator, clipped at the edge.
PlaceFinder(m, size, row, column) ==
    LET At(distances) == Grid(size) \cap
            {<<row + 3 + d[1], column + 3 + d[2]>> :
                d \in {e \in (-4..4) \X (-4..4) : Distance(e[1], e[2]) \in distances}}
    IN  Paint(m, At(0..4), At({0, 1, 3}))

PlaceAlignment(m, size, version) ==
    LET at    == ALIGNMENT_POSITIONS[version]
        last  == Len(at)
        where == {p \in (1..last) \X (1..last) : p \notin {<<1, 1>>, <<1, last>>, <<last, 1>>}}
        At(distances) == {<<at[p[1]] + d[1], at[p[2]] + d[2]>> :
            p \in where, d \in {e \in (-2..2) \X (-2..2) : Distance(e[1], e[2]) \in distances}}
    IN  Paint(m, At({0, 1, 2}), At({0, 2}))

PlaceTiming(m, size) ==
    LET span == 8..(size - 9)
        Both(ps) == {<<6, p>> : p \in ps} \cup {<<p, 6>> : p \in ps}
    IN  Paint(m, Both(span), Both({p \in span : p % 2 = 0}))

\* The two places of bit p of the version information.
VersionCells(size, p) ==
    {<<size - 11 + (p % 3), p \div 3>>, <<p \div 3, size - 11 + (p % 3)>>}

ReserveFormatAreas(m, size, version) ==
    LET near == {<<8, p>> : p \in (0..8) \ {6}} \cup {<<p, 8>> : p \in (0..8) \ {6}}
        far  == {<<8, size - 1 - p>> : p \in 0..7} \cup {<<size - 1 - p, 8>> : p \in 0..7}
        bits == IF version >= 7 THEN UNION {VersionCells(size, p) : p \in 0..17} ELSE {}
    IN  Paint(m, near \cup far \cup bits, {<<size - 8, 8>>})

FunctionPatterns(version) ==
    LET size == 4 * version + 17
        bare == [reserved |-> {}, dark |-> {}]
        three == PlaceFinder(PlaceFinder(PlaceFinder(bare, size, 0, 0), size, 0, size - 7),
                             size, size - 7, 0)
    IN  ReserveFormatAreas(PlaceTiming(PlaceAlignment(three, size, version), size), size, version)

\* The two places of bit p of the format information.
FormatCells(size, p) ==
    {CASE p < 6 -> <<8, p>> [] p = 6 -> <<8, 7>> [] p = 7 -> <<8, 8>>
       [] p = 8 -> <<7, 8>> [] OTHER -> <<14 - p, 8>>,
     IF p < 8 THEN <<8, size - 1 - p>> ELSE <<size - 15 + p, 8>>}

WriteFormatInformation(m, size, level, mask) ==
    LET At(ps) == UNION {FormatCells(size, p) : p \in ps}
    IN  Paint(m, At(0..14), At(FormatInformation(level, mask)))

WriteVersionInformation(m, size, version) ==
    LET At(ps) == UNION {VersionCells(size, p) : p \in ps}
    IN  IF version < 7 THEN m ELSE Paint(m, At(0..17), At(VersionInformation(version)))

\* The free cells in the order in which _place_data() meets them: pairs of
\* columns from the right, up and down in turn, past the timing column.
Zigzag(m, size) ==
    LET Cell(n) ==
            LET pair   == n \div (2 * size)
                right  == size - 1 - 2 * pair
                column == IF right <= 6 THEN right - 1 ELSE right
                step   == (n \div 2) % size
            IN  <<IF pair % 2 = 0 THEN size - 1 - step ELSE step, column - (n % 2)>>
    IN  SelectSeq([n \in 1..(size * (size - 1)) |-> Cell(n - 1)],
                  LAMBDA cell : cell \notin m.reserved)

\* The cells past the last codeword are the remainder bits and stay light.
PlaceData(m, size, words) ==
    LET order == Zigzag(m, size)
    IN  [m EXCEPT !.dark = @ \cup
            {order[i] : i \in {k \in DOMAIN order :
                k <= 8 * Len(words) /\ (8 - k) % 8 \in words[((k - 1) \div 8) + 1]}}]

MaskCondition(mask, r, c) ==
    CASE mask = 0 -> (r + c) % 2 = 0
      [] mask = 1 -> r % 2 = 0
      [] mask = 2 -> c % 3 = 0
      [] mask = 3 -> (r + c) % 3 = 0
      [] mask = 4 -> ((r \div 2) + (c \div 3)) % 2 = 0
      [] mask = 5 -> ((r * c) % 2) + ((r * c) % 3) = 0
      [] mask = 6 -> (((r * c) % 2) + ((r * c) % 3)) % 2 = 0
      [] mask = 7 -> (((r + c) % 2) + ((r * c) % 3)) % 2 = 0

ApplyMask(m, size, mask) ==
    [m EXCEPT !.dark = Xor(@, {cell \in Grid(size) \ m.reserved :
                                MaskCondition(mask, cell[1], cell[2])})]

-------------------------------------------------------------------------------
(* encode().                                                               *)

QRInit == \E job \in QRJobs : qr = [job |-> job, stage |-> "asked"]

\* The version asked for or the least that fits; 0 if there is none.
VersionFor(job) ==
    CASE job.version = 0 -> ChooseVersion(job.payload, job.level)
      [] job.version > MAX_VERSION -> 0
      [] OTHER -> IF Fits(job.payload, job.version, job.level) THEN job.version ELSE 0

QRRefuse ==
    /\ qr.stage = "asked"
    /\ VersionFor(qr.job) = 0
    /\ qr' = [qr EXCEPT !.stage = "refused"]

\* The symbol, for the mask that scores best.
QRDraw(mask) ==
    /\ qr.stage = "asked"
    /\ VersionFor(qr.job) # 0
    /\ qr' = [job |-> qr.job, stage |-> "drawn", version |-> VersionFor(qr.job), mask |-> mask]

QRNext == QRRefuse \/ \E mask \in 0..7 : QRDraw(mask)

\* The dark modules of the symbol that encode() returns.  Every mask works
\* on a copy of the one base matrix.
Symbol(payload, level, version, mask) ==
    LET size == 4 * version + 17
        words == InterleaveBlocks(EncodePayload(payload, version, level), version, level)
        base == PlaceData(FunctionPatterns(version), size, words)
    IN  WriteVersionInformation(
            WriteFormatInformation(ApplyMask(base, size, mask), size, level, mask),
            size, version).dark
===============================================================================
