------------------------------ MODULE CoreUtil ------------------------------
(***************************************************************************)
(* The helpers of CoreMark (core_util.c): its CRC, 16 bits wide, the       *)
(* numbers on its command line, the check of the port's data types, and    *)
(* the conversions of C that their callers rely on.                        *)
(***************************************************************************)
EXTENDS Integers, SequencesExt

U16(x) == x % 65536
S16(x) == ((x + 32768) % 65536) - 32768

Flip(c, w) == IF (c \div w) % 2 = 0 THEN c + w ELSE c - w

\* Eight bits from the right: where data and crc differ, crc ^= 0x4002 and a
\* one is shifted in.
crcu8(data, crc) ==
    LET bits[n \in 0 .. 8, d \in 0 .. 255, c \in 0 .. 65535] ==
            IF n = 0 THEN c
            ELSE bits[n - 1, d \div 2, IF (c + d) % 2 = 0 THEN c \div 2
                                       ELSE 32768 + Flip(Flip(c, 2), 16384) \div 2]
    IN bits[8, data, crc]

crcu16(newval, crc) == crcu8((newval \div 256) % 256, crcu8(newval % 256, crc))
crc16(newval, crc)  == crcu16(U16(newval), crc)
crcu32(newval, crc) == crc16(newval \div 65536, crc16(newval, crc))

----------------------------------------------------------------------------
\* A text is the sequence of its characters' codes and ends with a zero.
CharAt(text, k) == IF k \in DOMAIN text THEN text[k] ELSE 0

Digits(hexmode) == (48 .. 57) \cup (IF hexmode THEN 97 .. 102 ELSE {})
Digit(c) == IF c > 57 THEN c - 97 + 10 ELSE c - 48

\* [-][0x]digits[K|M]: what follows is ignored, and no digits are a zero.
parseval(valstring) ==
    LET sign    == IF CharAt(valstring, 1) = 45 THEN 1 ELSE 0
        hexmode == CharAt(valstring, sign + 1) = 48 /\ CharAt(valstring, sign + 2) = 120
        from    == sign + (IF hexmode THEN 3 ELSE 1)
        end     == CHOOSE k \in from .. Len(valstring) + 1 :
                      /\ CharAt(valstring, k) \notin Digits(hexmode)
                      /\ \A j \in from .. k - 1 : CharAt(valstring, j) \in Digits(hexmode)
        value   == FoldLeft(LAMBDA v, c : v * (IF hexmode THEN 16 ELSE 10) + Digit(c), 0,
                            SubSeq(valstring, from, end - 1))
        unit    == CASE CharAt(valstring, end) = 75 -> 1024
                     [] CharAt(valstring, end) = 77 -> 1024 * 1024
                     [] OTHER -> 1
    IN value * unit * (IF sign = 1 THEN -1 ELSE 1)

\* Arguments that are not given are zero; get_seed keeps 16 bits of one.
get_seed_args(i, argv) == IF i \in DOMAIN argv THEN parseval(argv[i]) ELSE 0
get_seed(i, argv) == S16(get_seed_args(i, argv))

----------------------------------------------------------------------------
\* The types of the port that have not the size they stand for.
check_data_types(sizeof) ==
    Cardinality({t \in DOMAIN sizeof :
        sizeof[t] # CASE t = "ee_u8" -> 1 [] t \in {"ee_u16", "ee_s16"} -> 2
                      [] t \in {"ee_u32", "ee_s32"} -> 4 [] t = "ee_ptr_int" -> sizeof["int *"]
                      [] OTHER -> sizeof[t]})

=============================================================================
