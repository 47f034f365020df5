------------------------------- MODULE QRReader -------------------------------
(***************************************************************************)
(* What a phone does with the symbols of module QR: the reading side of    *)
(* ISO/IEC 18004, written from the standard's rules for where a symbol's   *)
(* codewords are, and not from the encoder.  Only the tables of masks, of  *)
(* block counts and of powers in GF(256) are shared with it.  There is no  *)
(* noise, so nothing needs correcting.                                     *)
(***************************************************************************)
EXTENDS QR

\* The polynomial product over GF(2), and the multiples of a generator.
Product(a, b) ==
    {k \in 0..24 : Cardinality({p \in a \X b : p[1] + p[2] = k}) % 2 = 1}

Multiples(generator, degree) == {Product(a, generator) : a \in SUBSET (0..degree)}

\* The centres of the alignment patterns: evenly spaced from the far end,
\* the odd gap next to the first.
Centres(version, size) ==
    LET n    == (version \div 7) + 2
        step == ((version * 4 + n * 2 + 1) \div (n * 2 - 2)) * 2
    IN  IF version = 1 THEN {} ELSE {6} \cup {size - 7 - k * step : k \in 0..(n - 2)}

\* The modules that carry codewords: what is no function pattern.
DataArea(version, size) ==
    LET far == size - 8
        corner == {c \in Grid(size) : \/ c[1] <= 8 /\ c[2] <= 8
                                      \/ c[1] <= 8 /\ c[2] >= far
                                      \/ c[1] >= far /\ c[2] <= 8}
        timing == {c \in Grid(size) : 6 \in {c[1], c[2]}}
        patterns == {p \in Centres(version, size) \X Centres(version, size) : p \notin corner}
        aligned == {<<p[1] + i, p[2] + j>> : p \in patterns, i \in -2..2, j \in -2..2}
        info == IF version < 7 THEN {}
                ELSE {c \in Grid(size) : \/ c[1] < 6 /\ c[2] >= size - 11
                                         \/ c[2] < 6 /\ c[1] >= size - 11}
    IN  Grid(size) \ (corner \cup timing \cup aligned \cup info)

\* The data modules in reading order: two columns at a time from the right,
\* the first pair upwards, with the timing column left out of the pairing.
Walk(version, size) ==
    LET area   == DataArea(version, size)
        rights == {c \in 1..(size - 1) : IF c > 6 THEN c % 2 = 0 ELSE c % 2 = 1}
        Right(k) == CHOOSE c \in rights : Cardinality({d \in rights : d >= c}) = k
        Strip(k) ==
            LET right == Right(k)
                Row(n) == IF k % 2 = 1 THEN size - 1 - ((n - 1) \div 2) ELSE (n - 1) \div 2
            IN  SelectSeq([n \in 1..(2 * size) |-> <<Row(n), right - ((n - 1) % 2)>>],
                          LAMBDA cell : cell \in area)
    IN  FlattenSeq([k \in 1..Cardinality(rights) |-> Strip(k)])

\* The codewords of a symbol with the mask taken off, in reading order.
Codewords(dark, version, size, mask) ==
    LET walk == Walk(version, size)
        Bit(cell) == (cell \in dark) # MaskCondition(mask, cell[1], cell[2])
    IN  [w \in 1..(Len(walk) \div 8) |-> {b \in 0..7 : Bit(walk[8 * w - b])}]

\* The blocks, each with its error correction last, put together again.  The
\* lengths follow from the number of codewords: as equal as can be.
ReadBlocks(words, version, level) ==
    LET n     == Blocks(version, level).n1 + Blocks(version, level).n2
        ec    == Blocks(version, level).ec
        short == (Len(words) \div n) - ec
        long  == Len(words) % n
        data  == n * short + long
    IN  [i \in 1..n |->
            [data  |-> [j \in 1..short |-> words[(j - 1) * n + i]]
                       \o (IF i > n - long THEN <<words[n * short + i - (n - long)]>> ELSE <<>>),
             check |-> [j \in 1..ec |-> words[data + (j - 1) * n + i]]]]

Number(bits) == FoldLeft(LAMBDA n, b : 2 * n + (IF b THEN 1 ELSE 0), 0, bits)

\* The bytes of a stream in byte mode.
ReadPayload(words, version) ==
    LET Bit(i) == (7 - ((i - 1) % 8)) \in words[((i - 1) \div 8) + 1]
        count == IF version < 10 THEN 8 ELSE 16
        room  == (8 * Len(words) - 4 - count) \div 8
        length == Number([i \in 1..count |-> Bit(4 + i)])
    IN  [mode |-> {i \in 0..3 : Bit(4 - i)},
         bytes |-> [k \in 1..(IF length < room THEN length ELSE room) |-> {b \in 0..7 : Bit(4 + count + 8 * k - b)}]]

\* The second copy of the format information, beside the outer finders.
FormatFar(dark, size) ==
    {p \in 0..14 : (IF p < 8 THEN <<8, size - 1 - p>> ELSE <<size - 15 + p, 8>>) \in dark}

FormatWord(level, mask) ==
    CHOOSE w \in Multiples({10, 8, 5, 4, 2, 1, 0}, 4) :
        /\ {i \in 0..2 : i + 10 \in w} = Bits(mask, 3)
        /\ {i \in 0..1 : i + 13 \in w} = EC_INDICATOR[level]

\* The value of a block, highest power first, at the n-th power of x.
ValueAt(block, n) ==
    LET term == [i \in DOMAIN block |-> GfMultiply(block[i], EXP[((n * (Len(block) - i)) % 255) + 1])]
    IN  {b \in 0..7 : Cardinality({i \in DOMAIN block : b \in term[i]}) % 2 = 1}

Drawn == Symbol(qr.job.payload, qr.job.level, qr.version, qr.mask)

\* A reader that takes the format from beside the outer finders and skips the
\* error correction gets back the payload, whatever its length, the version,
\* the level and the mask (qr.py:643).
ReadsBack ==
    qr.stage = "drawn" =>
        LET size   == 4 * qr.version + 17
            dark   == Drawn
            words  == Codewords(dark, qr.version, size, qr.mask)
            blocks == ReadBlocks(words, qr.version, qr.job.level)
            read   == ReadPayload(FlattenSeq([i \in DOMAIN blocks |-> blocks[i].data]), qr.version)
        IN  /\ Xor(FormatFar(dark, size), {14, 12, 10, 4, 1}) = FormatWord(qr.job.level, qr.mask)
            /\ read = [mode |-> {2}, bytes |-> qr.job.payload]

\* Every block is a codeword of the Reed-Solomon code, without which no reader
\* accepts it: it vanishes at as many powers of x as it has error-correction
\* codewords (qr.py:170).
BlocksCheck ==
    qr.stage = "drawn" =>
        LET size   == 4 * qr.version + 17
            blocks == ReadBlocks(Codewords(Drawn, qr.version, size, qr.mask),
                                 qr.version, qr.job.level)
        IN  \A i \in DOMAIN blocks : \A n \in 0..(Len(blocks[i].check) - 1) :
                ValueAt(blocks[i].data \o blocks[i].check, n) = {}
===============================================================================
