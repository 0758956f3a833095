------------------------------ MODULE AffineRecovery ------------------------------
(****************************************************************************)
(* Undoing the affine obfuscation of older pages.  Byte i of a sector is the  *)
(* plain byte plus a base plus i times a step, modulo 2^8; the base follows  *)
(* from the page number, the sector and one byte of the file (bv), the step  *)
(* is the sector's own.                                                      *)
(*                                                                          *)
(* A page is a function from places to bytes.                                *)
(****************************************************************************)
EXTENDS Integers, FiniteSets, Sequences

CONSTANTS Null, Byte, Length, Sectors, Trailer

PageEnd == Sectors * Length
TrailerStart == PageEnd - Trailer
SectorStart(s) == s * Length
SectorEnd(s) == IF s = Sectors - 1 THEN TrailerStart ELSE SectorStart(s) + Length
SectorPlaces(s) == SectorStart(s)..(SectorEnd(s) - 1)

Bias(pn) == ((pn % 16) \div 2) * 4
Base(bv, pn, s) == (bv + pn + s - Bias(pn)) % Byte

--------------------------------------------------------------------------------
\* affine_known_plaintext_witnesses: where a sector can hold the plain bytes,
\* with the step and the base that this takes.
WitnessAt(pn, raw, plain, s, o) ==
    LET step == (raw[o + 1] - raw[o] - (plain[2] - plain[1])) % Byte
        base == (raw[o] - plain[1] - (o - SectorStart(s)) * step) % Byte
    IN [offset |-> o, sector |-> s, base |-> base, step |-> step,
        bv |-> (base - pn - s + Bias(pn)) % Byte]

Steady(raw, plain, o, step) ==
    \A i \in 3..Len(plain) :
        (raw[o + i - 1] - raw[o + i - 2]) % Byte = (plain[i] - plain[i - 1] + step) % Byte

Witnesses(pn, raw, plain) ==
    IF Len(plain) \notin 2..Length THEN {}
    ELSE UNION {{w \in {WitnessAt(pn, raw, plain, s, o) : o \in SectorStart(s)..(SectorEnd(s) - Len(plain))} :
                    Steady(raw, plain, w.offset, w.step)} : s \in 0..(Sectors - 1)}

--------------------------------------------------------------------------------
(* The step of a sector is the one that makes some byte the most frequent,   *)
(* the smallest of those that do.                                            *)

Shifted(raw, s, step) ==
    [o \in SectorPlaces(s) |-> (raw[o] - ((o - SectorStart(s)) % Byte) * step) % Byte]
Frequency(sector, b) == Cardinality({o \in DOMAIN sector : sector[o] = b})
Peak(sector) ==
    LET counts == {Frequency(sector, sector[o]) : o \in DOMAIN sector}
    IN CHOOSE n \in counts : \A m \in counts : m <= n
\* Of pairs of a number and how often it was seen, the first of the most frequent.
MostFrequent(pairs) ==
    (CHOOSE p \in pairs : \A q \in pairs : q[2] < p[2] \/ (q[2] = p[2] /\ q[1] >= p[1]))[1]
StepOf(raw, s) == MostFrequent({<<t, Peak(Shifted(raw, s, t))>> : t \in 0..(Byte - 1)})

SectorOf(o) == o \div Length
\* A tuple, which TLC evaluates once.
StepsOf(raw) == SubSeq([n \in 1..Sectors |-> StepOf(raw, n - 1)], 1, Sectors)
\* deobfuscate_with_bv
Deobfuscated(raw, steps, pn, bv) ==
    LET clear(o) == LET s == SectorOf(o)
                    IN (raw[o] - Base(bv, pn, s) - ((o - SectorStart(s)) % Byte) * steps[s + 1]) % Byte
    IN [o \in 0..(PageEnd - 1) |-> IF o < TrailerStart THEN clear(o) ELSE raw[o]]

--------------------------------------------------------------------------------
(* Finding bv.                                                               *)

\* oracle_bv_e_page: the first byte of a plain page is zero.
Oracle(raw, pn) == (raw[0] - pn + Bias(pn)) % Byte
Zeros(plain) == Cardinality({o \in 0..(TrailerStart - 1) : plain[o] = 0})

Holds(plain, bytes) ==
    \E o \in 0..(TrailerStart - Len(bytes)) : \A i \in DOMAIN bytes : plain[o + i - 1] = bytes[i]
\* recover_bv_qb_data, recover_bv_apage: a parameter whose reading holds the
\* bytes, the first one tried.
Preferred(S, first) ==
    IF S = {} THEN Null ELSE IF first \in S THEN first ELSE CHOOSE b \in S : \A c \in S : b <= c
Readings(raw, pn) ==
    LET steps == StepsOf(raw) IN [bv \in 0..(Byte - 1) |-> Deobfuscated(raw, steps, pn, bv)]
Holding(readings, bytes) == {bv \in DOMAIN readings : Holds(readings[bv], bytes)}
D5 == 5
ZB == 3
Anchor(raw) == <<raw[TrailerStart], 0, D5, ZB>>
RecoverByAnchor(raw, pn) == Preferred(Holding(Readings(raw, pn), Anchor(raw)), Oracle(raw, pn))
RecoverByMagic(raw, pn, magic) == Preferred(Holding(Readings(raw, pn), magic), 0)

\* recover_bv_brute: most zeros, if one byte in twenty is zero.
RecoverByZeros(raw, pn) ==
    LET readings == Readings(raw, pn)
        best == MostFrequent({<<bv, Zeros(readings[bv])>> : bv \in DOMAIN readings})
    IN IF Zeros(readings[best]) >= (TrailerStart * 5) \div 100 THEN best ELSE Null

\* recover_bv_any
RecoverAny(raw, pn) ==
    LET anchored == RecoverByAnchor(raw, pn)
        oracle == Oracle(raw, pn)
    IN IF anchored # Null THEN anchored
       ELSE IF (Zeros(Readings(raw, pn)[oracle]) * 100) \div TrailerStart >= 5 THEN oracle
       ELSE RecoverByZeros(raw, pn)

\* What obfuscates a page.
Obfuscated(plain, pn, bv, steps) ==
    [o \in 0..(PageEnd - 1) |->
        LET s == SectorOf(o) IN
        IF o < TrailerStart THEN (plain[o] + Base(bv, pn, s) + (o - SectorStart(s)) * steps[s]) % Byte
        ELSE plain[o]]
================================================================================
