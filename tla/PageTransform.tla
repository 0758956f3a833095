------------------------------ MODULE PageTransform ------------------------------
(****************************************************************************)
(* Undoing the page transform of Enterprise 24 files.  Every sector of a page *)
(* is permuted along a cycle and shifted by bytes that a signed key gives.    *)
(* The page number, which begins the first sector, tells which cycles are    *)
(* possible, and each cycle which keys; what is kept of a key between pages  *)
(* is its high word and its sign.                                            *)
(*                                                                          *)
(* A sector is a function from places to bytes, a page a sequence of sectors. *)
(****************************************************************************)
EXTENDS Integers, FiniteSets, Sequences

\* Byte is a power of two that divides Sector, another one.
\* IsTable is what the segments and the row directory of a table page satisfy.
\* Of the last sector the places of FinalTail stay as they are.  HeaderTrailer are
\* the pieces of the header that are kept in the trailer of a stored page, as
\* <<place, length, place in the trailer>>.
CONSTANTS Null, Byte, Sector, FinalTail, HeaderBytes, HeaderTrailer, MinDecisiveKeyWitnesses, IsTable(_)

Place == 0..(Sector - 1)
Even(n) == n - (n % 2)
Odd(n) == Even(n) + 1
Digit(n, i) == (n \div Byte^i) % Byte

--------------------------------------------------------------------------------
(* The permutation of one sector, for a key of either sign: the negative key  *)
(* undoes what the positive one does.                                        *)

Magnitude(key) == IF key < 0 THEN -key ELSE key
High(key) == Magnitude(key) \div Byte^2
Cycle(key) ==
    LET low == Magnitude(key) % Byte
    IN [step |-> Odd((High(key) + low) % Sector), increment |-> Odd((Magnitude(key) \div Byte) % Byte),
        seed |-> low]

\* Where the cycle of odd step, through `size` places, reaches a place.
Rank(step, place, size) == CHOOSE r \in 0..(size - 1) : (r * step) % size = place

\* permute_sector_in_place: a cycle through the places before the tail.  What the
\* library makes of a step that has a factor in common with their number is not
\* seen here, where both are powers of two.
Permuted(sector, key, tail) ==
    LET c == Cycle(key)
        size == Sector - tail
        shift(p) == c.seed + Rank(c.step, p, size) * c.increment
    IN [p \in Place |->
          IF p >= size THEN sector[p]
          ELSE IF key > 0 THEN (sector[(p + c.step) % size] + shift(p)) % Byte
          ELSE LET q == (p - c.step) % size IN (sector[q] - shift(q)) % Byte]

\* transform_page: the key counts down from sector to sector.
Transform(page, key) ==
    [i \in DOMAIN page |-> Permuted(page[i], key - (i - 1), IF i = Len(page) THEN FinalTail ELSE 0)]

\* relocate_header_trailer exchanges places of the header and of the trailer.
Relocated(place, pieces) ==
    LET out == {m \in pieces : place \in m[1]..(m[1] + m[2] - 1)}
        back == {m \in pieces : place \in m[3]..(m[3] + m[2] - 1)}
    IN CASE out # {} -> (LET m == CHOOSE m \in out : TRUE IN place - m[1] + m[3])
         [] back # {} -> (LET m == CHOOSE m \in back : TRUE IN place - m[3] + m[1])
         [] OTHER -> place
RelocateHeaderTrailer(page) ==
    [i \in DOMAIN page |-> [p \in Place |->
        LET from == Relocated((i - 1) * Sector + p, HeaderTrailer)
        IN page[(from \div Sector) + 1][from % Sector]]]

--------------------------------------------------------------------------------
(* Which cycles can have a header whose first bytes are the page number.     *)

\* inverse_odd_mod_256
Rounds == 3
InverseOdd(value, byte) ==
    LET f[n \in 0..Rounds] ==
            IF n = 0 THEN 1 ELSE (f[n-1] * ((2 - value * f[n-1]) % byte)) % byte
    IN f[Rounds]
PowerOfTwo(n) == CHOOSE d \in 1..n : n % d = 0 /\ (n \div d) % 2 = 1 /\ \E k \in 0..8 : d = 2^k

\* The odd x with multiplier * x = target, modulo a power of two.
OddSolutions(multiplier, target, byte) ==
    LET divisor == PowerOfTwo(multiplier)
        modulus == byte \div divisor
        base == ((target \div divisor) * InverseOdd(multiplier \div divisor, byte)) % modulus
    IN IF target % divisor # 0 THEN {}
       ELSE {x \in {base + o * modulus : o \in 0..(divisor - 1)} : x % 2 = 1}

\* constrained_odd_increments: of the places behind the first, the one that
\* leaves the fewest solutions.
Increments(raw, pageKey, step, seed) ==
    LET multiplier(i) == Rank(step, i, Sector) % Byte
        usable == {i \in 1..(HeaderBytes - 1) : multiplier(i) # 0}
        best == CHOOSE i \in usable :
                    \A j \in usable : \/ PowerOfTwo(multiplier(i)) < PowerOfTwo(multiplier(j))
                                      \/ PowerOfTwo(multiplier(i)) = PowerOfTwo(multiplier(j)) /\ i <= j
        target == (Digit(pageKey, best) - raw[(best + step) % Sector] - seed) % Byte
    IN IF usable = {} THEN {x \in 0..(Byte - 1) : x % 2 = 1}
       ELSE OddSolutions(multiplier(best), target, Byte)

HeaderCandidates(raw, pageKey) ==
    LET seed(step) == (Digit(pageKey, 0) - raw[step % Sector]) % Byte
        spells(step, x) ==
            \A i \in 0..(HeaderBytes - 1) :
                (raw[(i + step) % Sector] + seed(step) + Rank(step, i, Sector) * x) % Byte = Digit(pageKey, i)
    IN UNION {{[step |-> s, increment |-> x, seed |-> seed(s)] :
                  x \in {y \in Increments(raw, pageKey, s, seed(s)) : spells(s, y)}} :
              s \in {p \in Place : p % 2 = 1}}

--------------------------------------------------------------------------------
(* Which keys can have given a cycle: the lowest bits of two of their parts  *)
(* are lost in it.                                                           *)

\* Mutant: the bit that makes the step odd is never undone.
KeysWithOddStep(low, increment, stride) ==
    {((stride - low) % Sector) * Byte^2 + one * Byte + low : one \in {Even(increment), increment}}
KeysWith(low, increment, stride) ==
    {((before - low) % Sector) * Byte^2 + one * Byte + low :
        before \in {stride, (stride - 1) % Sector}, one \in {Even(increment), increment}}
PositiveKeys(h) == KeysWith(h.seed, h.increment, h.step)
NegativeKeys(h) ==
    {-m : m \in KeysWith((h.increment - h.seed) % Byte, h.increment, Sector - h.step) \ {0}}
SignedKeys(h) == PositiveKeys(h) \cup NegativeKeys(h)

\* EnterprisePageTransformKey; an adjacent pair stands for an even high word and
\* the odd one after it.
ContextOf(key) == [high |-> High(key), negative |-> key < 0]
Context(high, negative, adjacent) == [high |-> high, negative |-> negative, adjacent |-> adjacent]
AdjacentHigh(high) == IF high % 2 = 0 THEN high + 1 ELSE high - 1
WithAdjacent(c) == [c EXCEPT !.high = Even(@), !.adjacent = TRUE]
InContext(key, c) ==
    /\ (key < 0) = c.negative
    /\ High(key) = c.high \/ (c.adjacent /\ High(key) = AdjacentHigh(c.high))

--------------------------------------------------------------------------------
(* Pages.  A materialized page names itself and parses as a table page.      *)

TablePage(page, pageKey) ==
    /\ \A i \in 0..(HeaderBytes - 1) : page[1][i] = Digit(pageKey, i)
    /\ IsTable(page)

Materialized(raw, pageKey, keys) ==
    {p \in {RelocateHeaderTrailer(Transform(raw, k)) : k \in keys \ {0}} : TablePage(p, pageKey)}

OneOf(pages) ==
    IF Cardinality(pages) = 1 THEN [refused |-> Null, page |-> CHOOSE p \in pages : TRUE]
    ELSE [refused |-> IF pages = {} THEN "NotMaterializedTablePage" ELSE "AmbiguousMaterializedPages"]

\* materialize_enterprise_table_page, and the same with a key context
OnePage(raw, pageKey, contexts) ==
    LET headers == HeaderCandidates(raw[1], pageKey) IN
    IF headers = {} THEN [refused |-> "NoHeaderCandidate"]
    ELSE IF Cardinality(headers) > 1 THEN [refused |-> "AmbiguousHeaderCandidates"]
    ELSE OneOf(Materialized(raw, pageKey, {k \in SignedKeys(CHOOSE h \in headers : TRUE) :
                                                     \A c \in contexts : InContext(k, c)}))
PageAlone(raw, pageKey) == OnePage(raw, pageKey, {})
PageWithKey(raw, pageKey, context) == OnePage(raw, pageKey, {context})

\* materialize_enterprise_table_page_candidates_with_key
PageCandidates(raw, pageKey, context) ==
    LET headers == HeaderCandidates(raw[1], pageKey)
        keys == {k \in UNION {SignedKeys(h) : h \in headers} : InContext(k, context)}
        pages == Materialized(raw, pageKey, keys)
    IN IF headers = {} THEN [refused |-> "NoHeaderCandidate"]
       ELSE IF pages = {} THEN [refused |-> "NotMaterializedTablePage"]
       ELSE [refused |-> Null, pages |-> pages]

\* resolve_enterprise_table_page_candidates
Resolved(decoded) ==
    LET values == decoded \ {Null} IN
    CASE values = {} -> [refused |-> "NoCandidateDecoded"]
      [] Cardinality(values) = 1 -> [refused |-> Null, value |-> CHOOSE v \in values : TRUE]
      [] OTHER -> [refused |-> "DivergentDecodedCandidates"]

--------------------------------------------------------------------------------
(* Finding the context: a page speaks for one when its number allows a single *)
(* cycle and only one context makes a table page of it.                      *)

Contexts(raw, pageKey, h) ==
    {ContextOf(k) : k \in {x \in SignedKeys(h) : Materialized(raw, pageKey, {x}) # {}}}
Witnessed(raw, pageKey) ==
    LET headers == HeaderCandidates(raw[1], pageKey)
        found == UNION {Contexts(raw, pageKey, h) : h \in headers}
    IN IF Cardinality(headers) = 1 /\ Cardinality(found) = 1 THEN found ELSE {}

\* A sequence of <<page number, raw page>>; a page number counts once.
Votes(pages, c) == {pages[i][1] : i \in {j \in DOMAIN pages : c \in Witnessed(pages[j][2], pages[j][1])}}
AllWitnessed(pages) == UNION {Witnessed(pages[i][2], pages[i][1]) : i \in DOMAIN pages}

DiscoverKey(pages) ==
    LET contexts == AllWitnessed(pages)
        voters == UNION {Votes(pages, c) : c \in contexts}
    IN CASE Cardinality(contexts) > 1 -> [refused |-> "ConflictingTransformKeyWitnesses"]
         [] Cardinality(contexts) <= 1 /\ Cardinality(voters) < MinDecisiveKeyWitnesses ->
                [refused |-> "InsufficientTransformKeyWitnesses"]
         [] OTHER -> [refused |-> Null, context |-> CHOOSE c \in contexts : TRUE,
                      witnesses |-> Cardinality(voters)]
DiscoverCandidates(pages) ==
    LET contexts == AllWitnessed(pages) IN
    IF contexts = {} THEN [refused |-> "InsufficientTransformKeyWitnesses"]
    ELSE [refused |-> Null, votes |-> [c \in contexts |-> Cardinality(Votes(pages, c))]]
================================================================================
