--------------------------- MODULE MCTableCollection ---------------------------
(****************************************************************************)
(* Two pages of one or two candidates with up to two slots, and a third of  *)
(* one candidate, over images of every sort: postings that agree in part or *)
(* not at all, companions, locators, text and images nothing parses.  For   *)
(* the carriers, one Bill of two rows and up to three carriers, linked in   *)
(* every way.                                                               *)
(****************************************************************************)
EXTENDS TableCollection

Junk == [prefix |-> Bad, posting |-> Bad, companion |-> Bad, header |-> Bad,
         forward |-> Nowhere, text |-> FALSE, kind64 |-> FALSE, tail |-> 0]

Prefix(target, master, context) ==
    [target |-> target, master |-> master, next |-> Null, sibling |-> Null,
     context |-> context, nonposting |-> FALSE]

Row(target, account, cents) ==
    [Junk EXCEPT !.prefix = Prefix(target, 7, 1),
                 !.posting = [target |-> target, account |-> account, cents |-> cents]]

A == Row(1, 1, 5)
OtherTail == [A EXCEPT !.tail = 1]
OtherPrefix == [A EXCEPT !.prefix.context = 2, !.tail = 2]
OtherPosting == [A EXCEPT !.posting.account = 2, !.tail = 3]
B == Row(2, 2, -5)
Text == [Junk EXCEPT !.text = TRUE]
Companion == [Junk EXCEPT !.companion = 1]
OtherCompanion == [Junk EXCEPT !.companion = 2]
To(page, record) == [Junk EXCEPT !.forward = <<page, record>>]

Groups ==
    {<<<<x>>>> : x \in {A, Text, Companion, Junk, To(1, 1), To(2, 1), To(2, 2)}}
    \cup {<<<<>>>>, <<<<A, Absent>>>>, <<<<B, To(1, 1)>>>>, <<<<Absent, B>>>>, <<<<A, Text>>>>}
    \cup {<<<<A>>, <<x>>>> : x \in {A, OtherTail, OtherPrefix, OtherPosting, Junk, Absent, Companion}}
    \cup {<<<<A>>, <<>>>>, <<<<>>, <<Absent>>>>, <<<<A>>, <<A, B>>>>, <<<<Text>>, <<Text>>>>,
          <<<<To(1, 1)>>, <<To(2, 1)>>>>, <<<<To(1, 1)>>, <<To(1, 1)>>>>,
          <<<<Companion>>, <<OtherCompanion>>>>, <<<<Companion>>, <<Companion>>>>}

Thirds == {<<<<B>>>>, <<<<>>>>, <<<<Text>>>>, <<<<To(1, 1)>>>>}

PlainScans ==
    {<<g>> : g \in Groups} \cup {<<g, h>> : g, h \in Groups}
    \cup {<<g, h, t>> : g, h \in Groups, t \in Thirds}

--------------------------------------------------------------------------------
CarrierRow(target, next, sibling) ==
    [Junk EXCEPT !.prefix = [target |-> target, master |-> 7, next |-> next,
                             sibling |-> sibling, context |-> 1, nonposting |-> TRUE],
                 !.kind64 = TRUE]

Families ==
    {<<A, B>>, <<A, Row(2, 1, -5)>>, <<A, Row(2, 2, -4)>>, <<A, Row(1, 2, -5)>>,
     <<A>>, <<A, Row(2, 2, -5), [B EXCEPT !.prefix.master = 8]>>}

Thread(next) == [k \in DOMAIN next |-> CarrierRow(k + 2, next[k], 1)]

Chains ==
    {Thread(next) : next \in [1..3 -> 1..6]}
    \cup {<<CarrierRow(3, 4, s), CarrierRow(t, 2, 1)>> : s \in {1, 2, 3}, t \in {1, 3, 4}}
    \cup {<<CarrierRow(3, Null, 1)>>, <<>>}

CarrierScans ==
    {<<<<f>>, <<c>>>> : f \in Families, c \in Chains}
    \cup {<<<<<<A, B>>>>, <<c, c>>>> : c \in Chains}

MCScans ==
    [k \in Kinds |->
        CASE k = "closed" -> {<<g>> : g \in Groups}
          [] k = "context" -> CarrierScans \cup {<<g, h>> : g, h \in Groups}
          [] OTHER -> PlainScans]

Header(master) == [Junk EXCEPT !.header = master]
BillHeaders ==
    {<<<<<<Header(7)>>>>>>, <<<<<<Header(8)>>>>>>, <<<<<<Header(7), Header(7)>>>>>>,
     <<<<<<Header(7)>>, <<>>>>>>, <<<<<<Header(7)>>, <<Header(8)>>>>>>, <<<<<<A>>>>>>}
MCHeaderScans == [k \in Kinds |-> IF k = "context" THEN BillHeaders ELSE {<<>>}]

E(logical, pages, external) == [logical |-> logical, pages |-> pages, external |-> external]
MCExpectations ==
    {E(n, p, 0) : n \in {1, 2}, p \in {1, 2}} \cup {E(1, 1, 1), E(2, 2, 1), E(3, 2, 0), E(5, 2, 0)}
================================================================================
