------------------------------ MODULE MCConversions ------------------------------
(****************************************************************************)
(* Every call, on the small inputs of MCDecoders and, for what recovers and  *)
(* compares and for the reports, those below: texts, pages, keys and books;  *)
(* charts with two accounts of the same leaf name, reports of up to three    *)
(* rows, right and wrong ones, and three writes to a new database, two to an *)
(* old one.                                                                  *)
(****************************************************************************)
EXTENDS Conversions, MCDecoders, TLC

(* Recovery *)

Strings(S, n) == UNION {[1..k -> S] : k \in 0..n}

MCCsvTexts == Strings({"comma", "quote", "lf", "cr", "x"}, 5)
MCCsvRows ==
    LET fields == Strings({"comma", "quote", "lf", "cr", "x"}, 2) IN
    {<<<<f, g>>, <<g>>>> : f \in fields, g \in fields}

MCHashedPieces ==
    {<<[i \in 1..k |-> i], [i \in 1..m |-> k + i], [i \in 1..n |-> k + m + i]>> : k \in 0..9, m \in 0..9, n \in {0, 1, 8}}

Descriptor(c, n, default) == [class |-> c, length |-> n, default |-> default]
End == Descriptor("E", 0, Null)
DrecSchemas == {<<Descriptor("H", 2, Null), Descriptor("String", 2, <<1>>)>>,
                <<Descriptor("String", 2, Null), Descriptor("Bytes", 1, Null)>>}
MCDrecBytes ==
    {[bytes |-> <<1>> \o a \o b \o c, schema |-> s, order |-> o] :
        a \in {<<>>, <<0, 0>>, <<0, 1>>}, b \in Strings({0, 1, 3}, 3), c \in {<<>>, <<3, 3>>, <<0, 0, 3, 3>>},
        s \in DrecSchemas, o \in {"big", "little"}}
    \cup {[bytes |-> <<1, 0, 1>> \o b \o <<3, 3>>, schema |-> s, order |-> "big"] :
            b \in [1..4 -> {0, 1, 3}], s \in DrecSchemas}
    \cup {[bytes |-> <<1, 0, 0, 1, f, 1, 1, 1, 1, 3, 3>>, schema |-> <<Descriptor("M", 6, Null)>>, order |-> "big"] : f \in {0, 40}}
MCDrecRecords ==
    {[descriptors |-> d, flag |-> 2, given |-> g, order |-> o] :
        d \in {<<Descriptor("Bytes", 1, <<3>>), Descriptor(c, n, v), End>> : c \in {"String", "U", "D", "E", "X"},
                  n \in {0, 2}, v \in {Null, <<1>>, <<1, 2>>}} \cup {<<>>, <<Descriptor("Bytes", 1, Null)>>, <<Descriptor("E", 1, Null)>>},
        g \in {<<>>, <<<<1, <<1>>>>>>, <<<<1, <<1, 2>>>>, <<0, <<3>>>>>>, <<<<1, <<1>>>>, <<1, <<2>>>>>>, <<<<0, <<0>>>>, <<4, <<>>>>>>},
        o \in {"big", "little"}}

MCDays ==
    {[year |-> y, month |-> m, day |-> d, minutes |-> k] :
        y \in {1599, 1600, 1700, 1900, 1999, 2000, 2024, 2100, 5999, 9999}, m \in 0..13, d \in {0, 1, 28, 29, 30, 31, 32},
        k \in {-1440, -1, 0, 1439, 1440, 1440 * 400}}
MCDiskValues ==
    {[is |-> "date", bytes |-> <<h, l, m, d>>] : h \in {0, 7, 255}, l \in {0, 208, 209}, m \in 0..13, d \in {0, 1, 28, 29, 31, 32}}
    \cup {[is |-> "balance", bytes |-> <<f, r, d>>] : f \in {0, 99, 100, 255}, r \in 0..33, d \in {0, 1}}

--------------------------------------------------------------------------------
(* Table pages of two sectors of eight bytes of two bits, under keys whose    *)
(* parts all take several values.                                              *)
PlainPage(number, a, b) ==
    <<[p \in 0..7 |-> CASE p < 4 -> (number \div 4^p) % 4 [] p = 4 -> a [] p = 5 -> 1 [] OTHER -> 0],
      [p \in 0..7 |-> CASE p = 1 -> 2 [] p = 3 -> b [] OTHER -> 0],
      [p \in 0..7 |-> CASE p = 2 -> 1 [] p = 4 -> 3 [] p = 7 -> a [] OTHER -> 0]>>
Keys == {s * k : s \in {1, -1}, k \in {18, 21, 27, 30, 36, 41, 55, 64, 78, 83, 99, 112, 127}}
MCTransformedPages ==
    {[plain |-> PlainPage(n, a, 2), number |-> n, key |-> k] : n \in {0, 1, 30, 107, 255}, a \in {0, 3}, k \in Keys}
MCPageSets ==
    {[key |-> k, pages |-> [i \in 1..4 |-> [number |-> ns[i], plain |-> PlainPage(ns[i], a, i % 4)]]] :
        k \in Keys, ns \in {<<1, 30, 107, 250>>, <<30, 30, 30, 30>>, <<67, 201, 14, 67>>}, a \in {0, 1}}

\* Zero but for a tag and a stray byte.
AffinePlain(at, tag, stray) ==
    [o \in 0..31 |-> IF o \in at..(at + Len(tag) - 1) THEN tag[o - at + 1] ELSE IF o = stray THEN 5 ELSE 0]
MCAffinePages ==
    {[plain |-> AffinePlain(at, t, r), number |-> n, bv |-> b, steps |-> (0 :> p) @@ (1 :> q), tag |-> t, at |-> at] :
        at \in {0, 6, 13, 16, 22}, t \in {<<3, 6>>, <<1, 7, 2>>}, r \in {15, 31}, n \in {1, 6}, b \in {0, 5},
        p \in {0, 3}, q \in {1, 4}}

--------------------------------------------------------------------------------
(* Keys: three contexts of which two are adjacent, and what each shows.       *)
Key(high) == Page!Context(high, FALSE, FALSE)
Source24(rows, repaired) == [expected |-> TRUE, schema |-> TRUE, rows |-> rows, repaired |-> repaired]
Shown ==
    [tables |-> "collected", required |-> TRUE, ambiguous |-> FALSE, columns |-> "collected",
     columnsUnbounded |-> FALSE, columnsRepeated |-> FALSE, columnClaims |-> FALSE, columnPages |-> 2, columnsExpected |-> 2,
     manifest |-> Null, scanned |-> TRUE, idConflict |-> FALSE,
     pages |-> <<[observed |-> 3, expected |-> 3], [observed |-> 1, expected |-> 1]>>, ledger |-> "l", balances |-> TRUE,
     journalBlocks |-> FALSE, witnessed |-> Null,
     build |-> ("BillLine" :> Source24("rows", Null)) @@ ("GeneralJournalLine" :> [Source24("rows", Null) EXCEPT !.schema = FALSE])]
Relaxed == [Shown EXCEPT !.columnPages = 1]
Short == [Relaxed EXCEPT !.pages[1].observed = 2]
Shows == {Shown, Relaxed, [Relaxed EXCEPT !.balances = FALSE], [Shown EXCEPT !.build["BillLine"] = Source24("partial", Null)],
          [Relaxed EXCEPT !.journalBlocks = TRUE, !.witnessed = "l", !.build["BillLine"] = Source24("partial", "rows")], Short}
Refused ==
    {[Shown EXCEPT !.tables = "error"], [Shown EXCEPT !.required = FALSE], [Shown EXCEPT !.ambiguous = TRUE],
     [Shown EXCEPT !.columns = "error"], [Shown EXCEPT !.columnsUnbounded = TRUE],
     [Shown EXCEPT !.columnsRepeated = TRUE], [Shown EXCEPT !.columnClaims = TRUE],
     [Shown EXCEPT !.manifest = "OrdinalMismatch"], [Shown EXCEPT !.scanned = FALSE], [Shown EXCEPT !.idConflict = TRUE],
     [Shown EXCEPT !.columnsExpected = Null], [Shown EXCEPT !.pages[2].expected = Null],
     [Short EXCEPT !.pages[2].expected = Null], [Relaxed EXCEPT !.pages[1].expected = Null, !.pages[2].observed = 0],
     [Shown EXCEPT !.build["BillLine"].schema = FALSE], [Shown EXCEPT !.build["BillLine"].expected = FALSE],
     [Relaxed EXCEPT !.journalBlocks = TRUE]}
PairedKeys == {Select!Pair(Key(h)) : h \in {2, 5}}
MCKeyEvidence ==
    LET orders == <<Key(2), Key(3), Key(5), Select!Pair(Key(2)), Select!Pair(Key(5))>>
        evidence(a, b, d, p) ==
            [c \in {Key(2), Key(3), Key(5)} \cup PairedKeys |->
                CASE c = Key(2) -> a [] c = Key(3) -> b [] c = Key(5) -> d [] OTHER -> p]
    IN {[witnessed |-> w, order |-> orders, evidence |-> evidence(a, b, d, p)] :
           w \in SUBSET {Key(2), Key(3), Key(5)}, a \in Shows, b \in Shows, d \in {Shown, Relaxed}, p \in {Shown, Relaxed, Short}}
       \cup {[witnessed |-> w, order |-> orders, evidence |-> evidence(Relaxed, Short, d, Relaxed)] :
           w \in SUBSET {Key(2), Key(3), Key(5)}, d \in Refused}
       \cup {[witnessed |-> {Key(2), Key(3)}, order |-> orders, evidence |-> evidence(d, Short, Relaxed, Relaxed)] : d \in Refused}

MCManifest(t) == {<<t, 1, "id">>, <<t, 2, "name">>}
MCSchemaColumns == SUBSET (MCManifest(1) \cup MCManifest(2) \cup {<<1, 3, "x">>, <<1, 2, "x">>})

--------------------------------------------------------------------------------
(* Books of three accounts, one with what looks like a number, and rows that  *)
(* say nothing or what cannot be.                                             *)
Lettered == <<"A1", "dot", "c">>
Books == UNION {[A -> {-5, 5, 7}] : A \in SUBSET {<<"a">>, <<"a", ":", "b">>, Lettered}}
BareRow(account, debit, credit) ==
    [account |-> account, debit |-> debit, credit |-> credit,
     net |-> IF Null \in {debit, credit} THEN Null ELSE 0]
MCBalancePairs ==
    {[reference |-> r, numbered |-> n, actual |-> a, noise |-> <<>>] :
        r \in Books, a \in Books, n \in {{}, {<<"a">>, Lettered}}}
    \cup {[reference |-> b, numbered |-> {}, actual |-> b, noise |-> <<n>>] :
            b \in {(<<"a">> :> 5) @@ (Lettered :> -5)},
            n \in {BareRow(<<>>, Null, Null), BareRow(<<"a">>, 1, 1), BareRow(<<"3", "dot", "a">>, 5, Null), BareRow(<<"d">>, Bad, Null), BareRow(<<"d">>, 5, Null)}}

Move(day, cents, type) == [day |-> day, cents |-> cents, type |-> type]
Moves == {Move(1, 5, "journal"), Move(1, -5, "check"), Move(2, 5, Null), Move(2, 0, "check")}
InSection(numbered, headings, postings) == [numbered |-> numbered, headings |-> headings, postings |-> postings]
MCLedgerPairs ==
    {[sections |-> <<InSection(h[1], <<<<"a">>>>, p), InSection(h[1], h[2], <<m>>)>>,
      program |-> [i \in DOMAIN q |-> [day |-> q[i].day, cents |-> q[i].cents, account |-> <<"a">>,
                                       type |-> IF q[i].type = "journal" THEN "general journal" ELSE q[i].type]]
                  \o <<[day |-> n.day, cents |-> n.cents, account |-> <<"a", ":", "b">>, type |-> n.type]>>] :
        h \in {<<TRUE, <<<<"a">>, <<"b">>>>>>, <<TRUE, <<Lettered>>>>, <<FALSE, <<Lettered>>>>},
        p \in Strings(Moves, 2), m \in {Move(1, 5, "journal"), Move(1, -5, "check")}, q \in Strings(Moves, 2),
        n \in {Move(1, 5, "general journal"), Move(1, -5, "check")}}

Account(id, name, display, payable) == [id |-> id, name |-> name, display |-> display, payable |-> payable]
Fund == <<"7", "dot", "fund">>
FullNames == ("i1" :> <<"cash">>) @@ ("i2" :> <<"x", ":", "owed">>) @@ ("i3" :> <<"x", ":", "more">>)
             @@ ("i4" :> <<"y", ":", "cash">>) @@ ("i5" :> Fund)
ChartOf == {Account("i1", <<"cash">>, <<"1", "dot", "cash">>, FALSE),
            Account("i2", <<"owed">>, <<"2", "dot">> \o FullNames["i2"], TRUE),
            Account("i3", <<"more">>, <<"B3", "dot">> \o FullNames["i3"], TRUE),
            Account("i4", <<"cash">>, FullNames["i4"], FALSE), Account("i5", Fund, Fund, FALSE)}
Owed(account, type, cents) == [date |-> 1, account |-> account, cents |-> cents, type |-> type]
Known(id, type, cents) == [id |-> id, date |-> 1, cents |-> cents, type |-> type]
MCSections ==
    {[native |-> <<Owed(n, "bill", -5), Owed(n, t, 5), Owed(<<"cash">>, "check", 1)>>, full |-> FullNames, chart |-> c,
      entries |-> <<Known("i2", "BillLine", -5), Known("i3", "BillLine", e), Known("i2", "BillPaymentLine", 5), Known("i3", "BillPaymentLine", 5)>>] :
        n \in {<<"payables">>, <<"owed">>, <<"owed", "-", "Other">>, <<"cash", "-", "Other">>, <<"x", ":", "owed">>,
               <<"B3", "dot", "x", ":", "more">>, <<"z", ":", "more">>, <<"cash">>, <<"z", ":", "cash">>, <<"fund">>,
               <<"8", "dot", "fund">>, <<"8", "dot", "payables">>},
        t \in {"bill pmt-check", "check", "estimate"}, e \in {-5, -6},
        c \in {Report!SetToSeq({a \in ChartOf : a.id \notin without}) : without \in {{}, {"i4"}, {"i3", "i4"}}}}

MCDesktopDates ==
    {[digits |-> g, year |-> y, month |-> m, day |-> d] :
        g \in {2, 4}, y \in {0, 22, 23, 24, 1924, 2023, 2024}, m \in {1, 2, 12, 13}, d \in {1, 28, 29, 31}}

--------------------------------------------------------------------------------
(* Reporting *)

Acct(id, name, number, parent) ==
    [id |-> id, name |-> name, number |-> number, parent |-> parent, class |-> "c", activity |-> "unknown"]
Cash == Acct(1, <<"cash">>, <<"1000">>, Null)
Petty == Acct(2, <<"petty">>, Null, 1)
OtherPetty == Acct(3, <<"petty">>, Null, Null)
Lost == Acct(4, <<"lost">>, Null, 9)
Looped == Acct(5, <<"looped">>, <<"1000">>, 5)
Equity == Acct(6, <<"equity">>, Null, Null)
Twin == Acct(7, <<"petty">>, <<"A7">>, 1)
Dozen == Acct(8, <<"12", "dot", "petty">>, Null, Null)

ReportLine(a, n) == [account |-> a, signed |-> n, debit |-> IF n > 0 THEN n ELSE Null, credit |-> IF n < 0 THEN -n ELSE Null]
Balance(day, rows) == [day |-> day, rows |-> rows]
Booking(id, a, n, day) ==
    [account |-> a, posting |-> [id |-> id, source |-> 10 + id, transaction |-> 1, account |-> a.id,
                                 current |-> TRUE, cents |-> n, day |-> day]]
Booked(day, entries) == [day |-> day, entries |-> entries]

Policy(source, account, name) == [source |-> source, account |-> account, name |-> name, start |-> 0, day |-> 1]
Meta(entity, file, policy) == [entity |-> entity, file |-> file, policy |-> policy]
Policies == {Null, Policy("explicit", 1, <<"equity">>), Policy("explicit", 6, <<"petty">>), Policy("explicit", 3, Null),
             Policy("explicit", 6, <<"9", "dot", "net">>), Policy("guessed", 3, Null), Policy("explicit", 3, <<>>)}

Charts == {<<>>, <<Cash>>, <<Petty, Cash>>, <<Cash, Twin, Lost>>, <<[Cash EXCEPT !.name = <<"till">>]>>}
ReportLines == {ReportLine(a, n) : a \in {Cash, Petty, OtherPetty, Equity, Dozen}, n \in {-2, 1, 2}}
             \cup {ReportLine(Twin, 0), ReportLine(Lost, 2), ReportLine(Looped, 2), [ReportLine(Cash, 2) EXCEPT !.debit = Null]}
SoundLedger == Booked(2, <<Booking(1, Cash, 2, 2), Booking(2, Petty, -1, 1), Booking(3, OtherPetty, -1, 1)>>)
AliasedLedger == Booked(2, <<Booking(1, Twin, 2, 2), Booking(2, Dozen, -1, 1), Booking(3, OtherPetty, -1, 1)>>)
Ledgers ==
    {SoundLedger, AliasedLedger} \cup {[SoundLedger EXCEPT !.entries[2].posting = p] :
        p \in {[Booking(2, Petty, -1, 1).posting EXCEPT !.id = 1], [Booking(2, Petty, -1, 1).posting EXCEPT !.source = 11],
               [Booking(2, Petty, -1, 1).posting EXCEPT !.account = 1], [Booking(2, Petty, -1, 1).posting EXCEPT !.current = FALSE],
               [Booking(2, Petty, -1, 1).posting EXCEPT !.cents = 0], [Booking(2, Petty, -1, 1).posting EXCEPT !.cents = -MaxCents - 1],
               [Booking(2, Petty, -1, 1).posting EXCEPT !.day = 3], [Booking(2, Petty, -1, 1).posting EXCEPT !.transaction = 2]}}
MCReportTexts ==
    {[balance |-> Balance(2, rows), ledger |-> l, metadata |-> Meta("e", "x", p), chart |-> c] :
        rows \in {<<>>} \cup {<<a, b>> : a \in ReportLines, b \in ReportLines}
            \cup {<<ReportLine(a, 2), ReportLine(b, -1), ReportLine(c, -1)>> :
                    a \in {Cash, Petty, Twin}, b \in {OtherPetty, Equity, Dozen}, c \in {Petty, Equity, Twin}},
        l \in {SoundLedger}, p \in Policies, c \in Charts}
    \cup {[balance |-> Balance(2, <<>>), ledger |-> l, metadata |-> Meta(e, "x", Null), chart |-> c] :
            l \in Ledgers, e \in {"e", ""}, c \in Charts}

--------------------------------------------------------------------------------
A(day) == Balance(day, <<ReportLine(Cash, 2), ReportLine(OtherPetty, -2)>>)
B(day) == Balance(day, <<ReportLine(Equity, -1), ReportLine(Cash, 1)>>)
L(day) == Booked(day, <<Booking(1, Cash, 2, 1), Booking(2, OtherPetty, -2, 1)>>)
Reports(entity, file, policy, balance, ledger, fails) ==
    [is |-> "reports", metadata |-> Meta(entity, file, policy), bundle |-> [balance |-> balance, ledger |-> ledger],
     chart |-> <<Cash>>, fails |-> fails]
Statement(entity, file, policy, key, account) ==
    [is |-> "statement", metadata |-> Meta(entity, file, policy), fails |-> FALSE,
     statement |-> [kind |-> "balance_sheet", start |-> 1, day |-> 1, accounts |-> <<Petty, Cash>>,
                    policy |-> [account |-> 1, start |-> 0],
                    rows |-> <<[key |-> key, cents |-> 2, account |-> account]>>]]
Renaming == Policy("explicit", 1, <<"equity">>)
Writes ==
    {Reports(e, "x", Renaming, A(d), Null, FALSE) : e \in {"e", "f"}, d \in {1, 2}}
    \cup {Reports("e", "y", Null, B(d), Null, FALSE) : d \in {1, 2}}
    \cup {Reports("e", "y", Null, A(1), l, FALSE) : l \in {L(1), L(2)}}
    \cup {Reports("e", "z", Null, B(1), L(1), FALSE), Reports("e", "z", Null, Null, Null, FALSE)}
    \cup {Reports("e", "z", Null, Null, L(d), FALSE) : d \in {1, 2}}
    \cup {Reports("e", "w", Null, Null, Booked(1, <<>>), FALSE), Reports("e", "w", Null, B(1), Null, TRUE)}
    \cup {Statement("e", "s", p, "total", Null) : p \in {Null, Renaming}}
    \cup {Statement("e", "t", Renaming, "cash", 1), Statement("f", "s", Renaming, "cash", 1)}
Old(full, display, class, activity, active) ==
    [name |-> <<"cash">>, number |-> Null, full |-> full, display |-> display, parent |-> Null, class |-> class,
     activity |-> activity, active |-> active]
Databases ==
    {Writer!NewDatabase,
     [Writer!NewDatabase EXCEPT !.columns = {}, !.accounts = (<<"old", 1>> :> Old(Null, Null, Null, Null, TRUE)) @@
                                                             (<<"old", 2>> :> Old(Null, Null, Null, Null, FALSE))],
     [Writer!NewDatabase EXCEPT !.columns = {"activity", "full", "class", "nullable"},
                                !.accounts = (<<"old", 1>> :> Old(<<"cash">>, Null, "c", "unknown", Null)) @@
                                             (<<"e", 1>> :> Old(<<"cash">>, Null, "c", "active", TRUE))]}
MCReportWrites ==
    {[db |-> d, writes |-> w] : d \in Databases, w \in UNION {[1..n -> Writes] : n \in 1..2}}
    \cup {[db |-> Writer!NewDatabase, writes |-> w] : w \in [1..3 -> Writes]}
MCBatchItems ==
    UNION {[1..n -> {[metadata |-> Meta(e, "x", Null), report |-> r, chart |-> <<Cash>>] :
                        e \in {"e", "f", "g"}, r \in {A(1), B(1), B(2)}}] : n \in 1..3}
================================================================================
