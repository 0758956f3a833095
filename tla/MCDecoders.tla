------------------------------- MODULE MCDecoders -------------------------------
(****************************************************************************)
(* Small inputs for every decoder: rows written with an amount and with     *)
(* stray tokens beside it, rows of every boundary length, journals with up  *)
(* to five rows beside a balanced entry.                                     *)
(****************************************************************************)
EXTENDS Decoders, FiniteSets, TLC

Cents(n) == Row!Amount(n, FALSE)

--------------------------------------------------------------------------------
(* Bytes: 63 is a negative cents marker and also a digit.                    *)
Tokens ==
    {<<0, 129>>} \cup {<<Len(d), m>> \o d : m \in {63, 191}, d \in UNION {[1..n -> {1, 63}] : n \in 1..3}}
Fillers(S) == UNION {[1..n -> S] : n \in 0..3}

MCDepositTails ==
    {[bytes |-> f \o t, written |-> Row!ParseToken(t)] : f \in Fillers({1, 2, 3, 63}), t \in Tokens}
MCBillTails ==
    {[bytes |-> f \o t \o <<0, 0>> \o g \o t, written |-> Row!ParseToken(t)] :
        f \in {<<>>, <<1, 63, 1>>}, g \in [1..3 -> {1, 2, 63}], t \in Tokens}

--------------------------------------------------------------------------------
(* Tokens at places: the row as one envelope writes it, over strays that     *)
(* another one would.                                                        *)
Token(n, size) ==
    [amount |-> IF size = 2 THEN Row!CanonicalZero ELSE Cents(n), size |-> size, exponent |-> 63]
FirstPlaces(e) ==
    CASE e = "109" -> {109} [] e = "79" -> {79} [] e = "125" -> {125} [] e \in {"83", "direct"} -> {83}
      [] e = "two" -> {107, 126} [] e = "six" -> {115} [] e = "zero215" -> {106, 125, 199, 206}
      [] e = "144" -> {109, 128}
Last2(len, size) == {Row!LastCopy([len |-> len], size), Row!SecondLastCopy([len |-> len], size)}
Tails(e, len, size) ==
    IF e \in {"direct", "144", "zero215"} THEN {}
    ELSE Last2(len, size)
           \cup IF e \in {"79", "83"} THEN {Row!ThirdLastCopy([len |-> len], size)} ELSE {}
Places(e, len, token) == [o \in FirstPlaces(e) \cup Tails(e, len, token.size) |-> token]

Allowed(e, len, size) ==
    CASE e = "109" -> len >= 196 [] e = "125" -> len = 218
      [] e = "two" -> size = 2 /\ len \in {209, 216, 217} [] e = "six" -> size = 6
      [] e = "zero215" -> size = 2 /\ len = 215 [] e = "direct" -> len = 83 + size
      [] e = "144" -> len = 144 [] OTHER -> TRUE
Clear(at) ==
    \A o, p \in DOMAIN at : o < p => o + at[o].size <= p
Grown == Row!Envelopes \cup {"direct", "144"}

\* The copies of a stray token are all but one of those of an envelope.
Strays(s, len, token) ==
    LET all == Places(s, len, token)
    IN {[o \in DOMAIN all \ {p} |-> token] : p \in DOMAIN all}

Carriers ==
    {c \in [e : Grown, len : {86, 144, 196, 209, 215, 218, 230}, size : {2, 3, 6}] :
        Allowed(c.e, c.len, c.size)}
Inside(row) == \A o \in DOMAIN row.at : o >= 79 /\ o + row.at[o].size <= row.len

MCCheckAmounts ==
    UNION {{[row |-> row, written |-> Token(5, c.size).amount] :
              row \in {r \in {[len |-> c.len, at |-> Places(c.e, c.len, Token(5, c.size)) @@ at] :
                               at \in UNION {Strays(s, c.len, Token(n, stray)) :
                                                s \in Grown, n \in {5, 9}, stray \in {2, 3, 6}}} :
                        Inside(r) /\ Clear(r.at)}} : c \in Carriers}

MCPaymentAmounts ==
    {[shape |-> s, written |-> t.amount,
      row |-> [len |-> 110, ending |-> end, at |-> (Row!PaymentPlace(s) :> t) @@ (o :> Token(9, 3))
                                                       @@ (110 - t.size - 6 :> c)]] :
        s \in {"Linked", "Terminal", "CompactTerminal"}, t \in {Token(5, 2), Token(5, 3), Token(5, 4)},
        c \in {Token(5, 2), Token(5, 3), Token(5, 4), Token(9, 3)},
        o \in {86, 90, 94, 101}, end \in {"zeros", "one", "other"}}

\* A journal row is written with an amount at one place and later a copy; the
\* tokens that other places spell have none, except one that the fixed
\* discriminator passes over.
Spells(n, size, copied) ==
    [amount |-> Cents(n), size |-> size, exponent |-> 63, copied |-> copied]
Journaled(family, linked, at) ==
    [family |-> family, linked |-> linked, class |-> 19, third |-> "ff", len |-> 160, at |-> at]
MCJournalAmounts ==
    {[written |-> Cents(5), row |-> Journaled(f, l, (o :> Spells(5, 3, TRUE)) @@ [s \in S |-> Spells(9, z, FALSE)])] :
        f \in Row!Families, l \in BOOLEAN, o \in {-8, -4, -3, -1, 0, 1},
        S \in SUBSET {-8, -3, -2, -1, 0, 1, 2}, z \in {2, 3}}
    \cup {[written |-> Cents(5),
           row |-> Journaled("e0", TRUE, (-3 :> Spells(5, 2, TRUE)) @@ (-1 :> Spells(9, z, c)))] :
            z \in {3, 4}, c \in BOOLEAN}
    \cup {[written |-> Cents(5), row |-> Journaled("e0", l, (0 :> Spells(5, 2, TRUE)) @@ (2 :> Spells(5, 2, TRUE)))] :
            l \in BOOLEAN}

--------------------------------------------------------------------------------
Sound(parser, least, flags, kind, class, ending) ==
    [parser |-> parser,
     row |-> [len |-> least, declared |-> TRUE, flags |-> flags, kind |-> kind, class |-> class,
              zeros |-> {}, ending |-> ending, amount |-> TRUE, compact |-> FALSE,
              prefix |-> [o \in {22, 55, 131} |-> 3], name |-> 5, number |-> 4, description |-> 6,
              nameAscii |-> TRUE, numberAscii |-> TRUE, descriptionAscii |-> TRUE, void |-> TRUE, utf8 |-> TRUE]]
Rows ==
    {Sound("check", 120, 0, 228, 0, "any"), Sound("companion", 185, 0, 100, 0, "any"),
     Sound("deposit", 60, 0, 224, 0, "any"), Sound("deposit", 60, 0, 225, 0, "any"),
     Sound("counterpart", 60, 0, 240, 0, "any"), Sound("counterpart", 60, 0, 241, 0, "any"),
     Sound("payment", 120, 64, 1, 0, "zeros"), Sound("payment", 120, 64, 1, 0, "one"),
     Sound("bill", 60, 64, 2, 228, "canonicalZero"), Sound("bill header", 30, 64, 2, 255, "any"),
     Sound("master", 140, 64, 2, 0, "any"), Sound("source link", 33, 64, 1, 0, "sourcePrefix"),
     Sound("account", 120, 64, 0, 0, "any"), Sound("target", 110, 64, 1, 131, "any"), Sound("target", 110, 64, 1, 3, "any")}

MCFixedRows ==
    {[x EXCEPT !.row.len = n, !.row.zeros = z] :
        x \in Rows, n \in 0..112 \cup {130, 131, 132, 134, 135, 140} \cup Row!CompanionLengths,
        z \in {{}, {26, 29, 33, 34, 37}}}
    \cup {[x EXCEPT !.row.zeros = z] : x \in Rows, z \in {{p, q} : p, q \in {9, 12, 16, 25, 26, 30, 34, 37, 41}}}
    \cup {[x EXCEPT !.row.declared = FALSE] : x \in Rows} \cup {[x EXCEPT !.row.flags = f] : x \in Rows, f \in {0, 64}}
    \cup {[x EXCEPT !.row.kind = k] : x \in Rows, k \in {0, 1, 2, 100, 224, 225, 228, 240, 241}}
    \cup {[x EXCEPT !.row.class = k] : x \in Rows, k \in {0, 3, 131, 228, 247, 255}}
    \cup {[x EXCEPT !.row.ending = e] : x \in Rows, e \in {"any", "zeros", "one", "canonicalZero"}}
    \cup {[x EXCEPT !.row.amount = FALSE] : x \in Rows}
    \cup {[x EXCEPT !.row.compact = TRUE, !.row.len = n] : x \in Rows, n \in {45, 57, 58, 120}}
    \cup {[x EXCEPT !.row.prefix[o] = p, !.row.len = n, !.row.utf8 = u] :
            x \in {y \in Rows : y.parser = "master"}, o \in {22, 55, 131}, p \in {0, 3, 40, 255},
            n \in {26, 58, 60, 140}, u \in BOOLEAN}
    \cup {[x EXCEPT !.row.name = n, !.row.number = d, !.row.description = e, !.row.len = l, !.row.numberAscii = a] :
            x \in {y \in Rows : y.parser = "account"}, n \in {0, 5, 255}, d \in {0, 4, 255}, e \in {0, 6, 255},
            l \in {69, 70, 74, 75, 76, 80, 81, 86, 120, 325, 340}, a \in BOOLEAN}

--------------------------------------------------------------------------------
MCJournalInputs ==
    {[len |-> n, declared |-> TRUE, flags |-> 64, kind |-> 1, family |-> f, class |-> c,
      linked |-> l, third |-> t, rest |-> r, zeros |-> {}, date |-> TRUE, lifecycle |-> <<0, 0>>,
      special |-> s, at |-> a] :
        n \in {10, 32, 129, 142, 147, 151, 201}, f \in {"e0", "e4", "e8", "60", "64", "a7"}, c \in {3, 19, 23},
        l \in BOOLEAN, t \in {"ff", "9f"}, r \in {"8060", "8040", "c040"},
        s \in {Null, Spells(5, 3, TRUE)},
        a \in {<<>>, (-8 :> Spells(5, 3, TRUE)), (-3 :> [Spells(0, 2, TRUE) EXCEPT !.amount = Row!CanonicalZero]),
               (-27 :> Spells(5, 3, TRUE)) @@ (17 :> Spells(5, 3, TRUE))}}

--------------------------------------------------------------------------------
Line(kind, target, next) ==
    [kind |-> kind, target |-> target, master |-> 7, date |-> 1, view |-> 1, account |-> 30, next |-> next,
     cents |-> 0, lifecycle |-> <<0, 0>>, linked |-> FALSE, amount |-> FALSE, token |-> FALSE,
     collision |-> "none", header |-> FALSE]
Post(target, account, cents) ==
    [Line("posting", target, 0) EXCEPT !.account = account, !.cents = cents]
Entry == <<Post(1, 31, 5), Post(2, 32, -5)>>
Source(target, next) == Line("source", target, next)
Aux(target, next, linked) == [Line("auxiliary", target, next) EXCEPT !.linked = linked]

SourceRows(t) ==
    {Source(t, n) : n \in {0, 1, 11, 12, 13, 9, 3}} \cup {[Source(t, n) EXCEPT !.date = 2] : n \in {1, 11, 12}}
Witness(id, date, group) == [id |-> id, date |-> date, group |-> group]
Table(rows) == [rows |-> rows, witnesses |-> <<>>]

MCJournalTables ==
    {Table(Entry \o <<s, t, u>>) : s \in SourceRows(11), t \in SourceRows(12),
                                       u \in {Source(13, n) : n \in {0, 1, 11, 12}}}
    \cup {Table(Entry \o <<e, Source(11, n)>>) :
            n \in {0, 3, 11}, e \in {Post(3, 30, 0), Line("zero", 3, 0), Line("zero", 1, 0), Line("zero", 11, 0),
                Post(1, 31, 1), [Post(3, 30, 0) EXCEPT !.date = 2], [Post(3, 30, 0) EXCEPT !.lifecycle = <<1, 0>>],
                [Post(3, 30, 0) EXCEPT !.master = 8], Line("unrecognized", 0, 0)}}
    \cup {Table(Entry \o <<[Aux(21, n, l) EXCEPT !.token = t, !.account = a]>>) :
            n \in {0, 1, 21, 31, 9}, l \in BOOLEAN, t \in BOOLEAN, a \in {0, 30}}
    \cup {Table(Append(Entry, Post(3, 33, c)) \o <<[Aux(21, n, FALSE) EXCEPT !.date = d], Source(11, 21)>>) :
            n \in {31, 33}, c \in {0, 1}, d \in {1, 2, Null}}
    \cup {Table(Append(Entry, Source(11, 21)) \o <<[Aux(21, m, l) EXCEPT !.collision = x], Aux(22, n, k)>>) :
            m \in {21, 22, 1}, n \in {21, 22, 1, 7, 11, 30, 31, 9}, l \in BOOLEAN, k \in BOOLEAN,
            x \in {"none", "opaque", "other"}}
    \cup {Table(Entry \o <<Aux(21, a, TRUE), Aux(22, b, TRUE), Aux(23, c, TRUE), Aux(24, d, FALSE)>>) :
            a \in 21..24, b \in 21..24, c \in 21..24, d \in {1, 9, 21}}
    \cup {[rows |-> Entry \o <<[Source(11, n) EXCEPT !.header = h]>>, witnesses |-> w] :
            n \in {0, 1, 40}, h \in BOOLEAN,
            w \in {<<>>, <<Witness(8, 1, 40)>>, <<Witness(9, 1, 40)>>, <<Witness(8, 2, 40)>>,
                   <<Witness(8, 1, 40), Witness(8, 1, 41)>>, <<Witness(8, 1, 40), Witness(9, 1, 40)>>}}

--------------------------------------------------------------------------------
(* The columns of a line, with what they may hold, and how much of them the  *)
(* bounded decoder has seen.                                                  *)
Column(name, type, id) == [name |-> name, type |-> type, id |-> id]
LineColumns ==
    <<Column("target_id", "Integer", 1), Column("transaction_id", "UInt32", 2), Column("account_id", "Integer", 3),
      Column("transaction_date", "Date", 4), Column("is_no_post_bool", "Boolean", 5),
      Column("is_memorized_transaction_bool", "Boolean", 6), Column("amount_amt", "Numeric", 7),
      Column("is_source_bool", "Boolean", 8)>>
Val(kind, holds) == [kind |-> kind, holds |-> holds]
Booleans == {5, 6, 8}

Input(t, columns, v, seen, shift) ==
    [table |-> t, schema |-> [columns |-> columns, numeric |-> "raw"],
     row |-> [values |-> SubSeq(v, 1, Len(columns)), exact |-> TRUE],
     bounded |->
        LET kept(S) == [i \in S \cap seen |-> [index |-> i + shift, value |-> v[i]]]
        IN [prefix |-> kept(1..7 \ Booleans), booleans |-> kept(Booleans \cap 1..Len(columns))],
     parsed |-> [target |-> v[1].holds, master |-> 7, account |-> 31, date |-> v[4].holds, view |-> 9,
                 noPost |-> v[5].holds, memorized |-> v[6].holds,
                 amount |-> IF v[7].holds = Null THEN Row!CanonicalZero ELSE v[7].holds]]

Values(target, date, noPost, memorized, source, amount) ==
    <<Val("integer", target), Val("unsigned", 7), Val("integer", 31), Val("date", date),
      Val("boolean", noPost), Val("boolean", memorized), amount, Val("boolean", source)>>
Monies == {Val("null", Null), Val("token", Null), Val("token", Row!CanonicalZero), Val("token", Cents(5)), Val("token", Cents(0))}

MCPostingInputs ==
    {Input(t, LineColumns, Values(1, d, p, m, s, a), 1..8 \ S, 0) :
        t \in {"CheckLine", "BillLine", "GeneralJournalLine"}, d \in {20, Null}, p \in BOOLEAN, m \in BOOLEAN,
        s \in BOOLEAN, a \in Monies, S \in {T \in SUBSET (4..8) : Cardinality(T) < 3}}
    \cup {Input("CheckLine", c, Values(n, 20, FALSE, FALSE, FALSE, Val("token", Cents(5))), 1..8, s) :
            c \in {SubSeq(LineColumns, 1, 7), [LineColumns EXCEPT ![8] = LineColumns[7]],
                   [LineColumns EXCEPT ![8].name = "memo"]}, n \in {-1, 0, 1}, s \in {0, 1}}
    \cup {[Input(t, LineColumns, Values(1, 20, FALSE, FALSE, FALSE, Val("token", Cents(5))), 1..8, 0)
              EXCEPT !.schema.numeric = n, !.row.exact = e] :
            t \in {"CheckLine", "DepositLine", "BillPaymentCheckLine", "InvoiceLine"}, n \in {"raw", "legacy"}, e \in BOOLEAN}

--------------------------------------------------------------------------------
(* The Account table: a record of 36 values, most of them never looked at.   *)
AccountValues ==
    [o \in 1..36 |->
        CASE o = 1 -> Val("integer", 3) [] o = 6 -> Val("text", "cash") [] o \in 7..9 -> Val("boolean", FALSE)
          [] o = 18 -> Val("integer", 10) [] o = 22 -> Val("text", "1000") [] OTHER -> Val("null", Null)]
AccountChanges ==
    {<<1, Val("integer", n)>> : n \in {-1, 3, 5, 2 * HighBit}} \cup {<<1, Val("null", Null)>>}
    \cup {<<6, Val("text", x)>> : x \in {"cash", "bank", "blank", Null}}
    \cup {<<o, v>> : o \in 7..9, v \in {Val("boolean", TRUE), Val("null", Null)}}
    \cup {<<12, Val("integer", n)>> : n \in {-1, 0, 4, 9}}
    \cup {<<18, v>> : v \in {Val("integer", 12), Val("integer", 15), Val("null", Null), Val("text", "10")}}
    \cup {<<22, Val("text", x)>> : x \in {"blank", Null}} \cup {<<22, Val("null", Null)>>}
    \cup {<<35, v>> : v \in {Val("text", "x"), Val("integer", 1)}}
MCAccountInputs ==
    {LET v == [AccountValues EXCEPT ![c[1]] = c[2], ![d[1]] = d[2]] IN
     [schema |-> [columns |-> 36, odd |-> {2}], values |-> v, through |-> t,
      prefix |-> [o \in 1..t \ 7..9 |-> v[o]], booleans |-> [o \in 7..9 |-> v[o]], internal |-> i,
      identity |-> [record |-> 3, created |-> 50, name |-> "cash", type |-> y, suffix |-> x],
      identities |-> (4 :> <<12, 50>>)] :
        c \in AccountChanges, d \in AccountChanges, t \in {23, 24}, i \in BOOLEAN, y \in {10, 12}, x \in {Null, <<"1000", Null>>}}

MCSelections ==
    [rows : UNION {[1..n -> {Null} \cup [id : 1..2, active : BOOLEAN]] : n \in 0..2},
     expected : {1, 2}, reference : SUBSET (1..2)]
--------------------------------------------------------------------------------
(* Catalog pages: the records of a directory, in one reading or in two.       *)
Rec(is, key, body) == [is |-> is, key |-> key, body |-> body]
TableRecords ==
    {Rec("parsed", 5, 0), Rec("parsed", 5, 1), Rec("parsed", 6, 0), Rec("prefix", 5, Null), Rec("prefix", 7, Null),
     Rec("none", Null, Null), Rec("short", Null, Null), Rec("missing", Null, Null)}
ColumnRecords ==
    {Rec("parsed", <<5, 1, "a">>, 0), Rec("parsed", <<5, 1, "a">>, 1), Rec("parsed", <<5, 1, "b">>, 0),
     Rec("parsed", <<5, 2, "b">>, 0), Rec("prefix", <<5, 1>>, Null)}
UpTo2(S) == UNION {[1..n -> S] : n \in 0..2}
Candidate(t, records) == [table |-> t, records |-> records]
CatalogPage(candidates) == [skipped |-> Null, candidates |-> candidates]
TablePages ==
    {CatalogPage(<<Candidate(1, r)>>) : r \in UpTo2(TableRecords)}
    \cup {CatalogPage(<<Candidate(1, <<p>>), Candidate(t, <<q>>)>>) : p \in TableRecords, q \in TableRecords, t \in {1, Null}}
    \cup {[skipped |-> "not_type4", candidates |-> <<>>], CatalogPage(<<Candidate(3047, <<>>)>>)}
ColumnPages ==
    {CatalogPage(<<Candidate(2, r)>>) : r \in UpTo2(ColumnRecords)}
    \cup {CatalogPage(<<Candidate(2, <<p>>), Candidate(2, <<q>>)>>) :
            p \in {Rec("parsed", <<5, 1, "a">>, 0)}, q \in ColumnRecords}
MCCatalogPages ==
    {[pages |-> <<p, q>>, ids |-> i, expected |-> e,
      declared |-> [pages |-> 1, extensions |-> 1, rows |-> 2]] :
        p \in TablePages, q \in {x \in TablePages : Len(x.candidates) = 1}, i \in {{5}}, e \in {2}}
    \cup {[pages |-> <<p, q, CatalogPage(<<Candidate(1, <<Rec("parsed", 5, 0)>>)>>)>>, ids |-> {5, 6}, expected |-> e,
            declared |-> [pages |-> 1, extensions |-> 1, rows |-> 2]] :
              p \in ColumnPages, q \in ColumnPages, e \in {2}}

Named(key, name, object) == [key |-> key, tag |-> 50, body |-> [name |-> name, object |-> object, root |-> 3, last |-> 4]]
TableReadings ==
    {<<>>} \cup {<<Named(k, n, o)>> : k \in {5, 6}, n \in {"a", "b"}, o \in {1}} \cup {<<Named(5, "a", 2)>>, <<Named(5, "a", 1), Named(6, "b", 1)>>}
Recovered(type, tables, columns) ==
    [type |-> type, tables |-> tables, columns |-> columns, witnesses |-> {<<1, 50>>, <<2, 50>>},
     indexes |-> <<[key |-> <<1, 3, "i">>, body |-> Len(tables)]>>]
ColumnReadings == UpTo2({[key |-> <<5, 1, "a">>, tag |-> t, body |-> b] : t \in {50, 60}, b \in {0, 1}})
FirstPage == Recovered("other", <<>>, <<>>)
MCRecoveredPages ==
    {<<FirstPage, Recovered("extent", <<r, s>>, <<>>), Recovered(t, <<u>>, <<>>), Recovered("extent", <<v>>, <<>>)>> :
        r \in TableReadings, s \in {<<>>, <<Named(5, "a", 1)>>}, t \in {"extent", "unreadable", "other"},
        u \in TableReadings, v \in TableReadings}
    \cup {<<FirstPage, Recovered(t, <<>>, <<r, s>>)>> : t \in {"alloc", "extent"}, r \in ColumnReadings, s \in ColumnReadings}

Owned(key, name, object, root, last) ==
    [key |-> key, body |-> [name |-> name, object |-> object, root |-> root, last |-> last]]
MCRelations ==
    {[tables |-> ts, indexes |-> xs, extents |-> {3, 5}, votes |-> v,
      columns |-> {[key |-> <<5, 1, "b_id">>, body |-> 0], [key |-> <<9, 1, "b_id">>, body |-> 0]},
      stems |-> ("b_id" :> "b"), score |-> (<<"b", "a">> :> 0) @@ (<<"b", "b">> :> 1000)] :
        ts \in SUBSET {Owned(5, "a", 1, 3, 4), Owned(6, "b", 1, 3, Null), Owned(7, "b", 2, 5, 2), Owned(8, "a", 3, Null, Null)},
        xs \in SUBSET {[key |-> k] : k \in {<<1, 3, "i">>, <<1, 3, "j">>, <<2, 5, "k">>, <<2, 4, "k">>, <<4, 3, "l">>}},
        v \in {(<<5, "a">> :> 2) @@ (<<5, "b">> :> 1), (<<5, "a">> :> 1) @@ (<<5, "b">> :> 1)}}

Tag(pos, name, length) ==
    [pos |-> pos, name |-> name, printable |-> TRUE, length |-> length, candidate |-> 3, owner |-> 1]
MCCatalogBodies ==
    {[tags |-> <<Tag(p, n, l), Tag(q, 4, 63)>>, end |-> e,
      columns |-> <<[length |-> l, name |-> n, identifier |-> TRUE, tagged |-> TRUE, marker |-> 1, nulls |-> "Y"]>>,
      list |-> [offset |-> 4, room |-> l - n, marker |-> 128, payload |-> 1, target |-> n]] :
        p \in {5, 20, 34}, n \in {1, 3, 5, 64, 65}, l \in {26, 27, 31, 62, 64, 123}, q \in {35, 40, 98, 157}, e \in {31, 62, 64, 123, 250}}
================================================================================
