-------------------------------- MODULE Catalogs --------------------------------
(****************************************************************************)
(* The system catalogs: SYSTABLE and SYSCOLUMN collected from the pages that *)
(* a transform key materializes, with the gates that decide whether what    *)
(* was collected may be relied on, and the same catalogs with SYSINDEX      *)
(* recovered from obfuscated pages one by one.                               *)
(*                                                                          *)
(* An entry is its key (the table id, or table id, ordinal and name) and its *)
(* body, what all other logical fields hold; where it lies is no part of it. *)
(* A record of a page is missing, parsed with an entry, or unparsed: short,  *)
(* claiming the id of its fixed prefix, or without a prefix of its length.   *)
(****************************************************************************)
EXTENDS Integers, FiniteSets, SequencesExt

CONSTANT Null

TableCarrier == 1
ColumnCarrier == 2

--------------------------------------------------------------------------------
(* Rows in a page body: a row of the catalog is found by its tag, the rest   *)
(* of it lies before (the prefix) and after.                                 *)

\* What scan_page asks of a tag at place pos before it takes the row around it.
TableTag(tag, end) ==
    LET row == tag.pos - 34 IN
    /\ tag.name \in 4..64 /\ tag.printable /\ tag.pos + 21 + tag.name <= end
    /\ row >= 0
    /\ tag.length >= 34 + 21 + tag.name + 4
    /\ row + tag.length <= end
IndexTag(tag, end) ==
    LET row == tag.pos - 5 IN
    /\ tag.candidate # 0 /\ tag.owner # 0
    /\ tag.name \in 1..128 /\ tag.printable /\ tag.pos + 21 + tag.name <= end
    /\ row >= 0
    /\ tag.length >= 5 + 22
    /\ row + tag.length <= end
    /\ tag.pos + 21 + tag.name = row + tag.length

\* The search goes on behind the row that was taken.
Scanned(tags, taken, prefix) ==
    LET behind(t) == t.pos - prefix + t.length
        f[i \in 0..Len(tags)] ==
            IF i = 0 THEN [rows |-> <<>>, from |-> 0]
            ELSE IF tags[i].pos >= f[i-1].from /\ i \in taken
                 THEN [rows |-> Append(f[i-1].rows, tags[i]), from |-> behind(tags[i])]
            ELSE f[i-1]
    IN f[Len(tags)].rows
TablesIn(tags, end) == Scanned(tags, {i \in DOMAIN tags : TableTag(tags[i], end)}, 34)
IndexesIn(tags, end) == Scanned(tags, {i \in DOMAIN tags : IndexTag(tags[i], end)}, 5)

\* A record of a directory is one row that fills it, and no other row.
TableRecord(tags, len) ==
    LET whole == SelectSeq(TablesIn(tags, len), LAMBDA t : t.pos = 34 /\ t.length = len)
    IN IF Len(whole) = 1 THEN whole[1] ELSE Null

\* parse_row_at: the tag ends the row, the fixed fields begin it.
ColumnRow(row, available) ==
    /\ row.length \in 47..4080 /\ row.length <= available
    /\ row.name \in 1..128 /\ 39 + row.name <= row.length - 8
    /\ row.identifier /\ row.tagged /\ row.marker = 1 /\ row.nulls \in {"N", "Y"}

\* parse_long_value_ref, for a page list that lies within its row.
PageList(ref, pages) ==
    IF /\ ref.offset + 14 <= ref.room /\ ref.marker = 128 /\ ref.payload # 0
       /\ ref.target # 0 /\ ref.target < pages
    THEN ref.target ELSE Null
\* validated_extent_page: a list of a page that is no extent is dropped.
Validated(ref, pages, extents) ==
    IF PageList(ref, pages) \in extents THEN PageList(ref, pages) ELSE Null

--------------------------------------------------------------------------------
(* One materialization of a page.                                            *)

Body(r) == [key |-> r.key, body |-> r.body]
Unparsed == {"short", "prefix", "none"}
Kinds == {"parsed", "missing"} \cup Unparsed

\* The places of its records of some kinds.
OfKinds(c, kinds) == {k \in DOMAIN c.records : c.records[k].is \in kinds}
CountOf(c, kinds) == Cardinality(OfKinds(c, kinds))
Semantic(c) == {Body(c.records[k]) : k \in OfKinds(c, {"parsed"})}
ClaimedIds(c) == {c.records[k].key : k \in OfKinds(c, {"prefix"})}
Claims(c, id) == Cardinality({k \in OfKinds(c, {"prefix"}) : c.records[k].key = id})

\* What the materializations of one page must agree on.
Tally(c) ==
    [slots |-> CountOf(c, Kinds), missing |-> CountOf(c, {"missing"}), unparsed |-> CountOf(c, Unparsed),
     claims |-> [id \in ClaimedIds(c) |-> Claims(c, id)],
     none |-> CountOf(c, {"none"}), short |-> CountOf(c, {"short"})]

Conflict(entries) == \E e, f \in entries : e.key = f.key /\ e.body # f.body

IsCarrier(page, carrier) ==
    page.skipped = Null /\ \E c \in ToSet(page.candidates) : c.table = carrier
Agree(page, carrier) == \A c \in ToSet(page.candidates) : c.table = carrier
Divergent(page) ==
    \E c, d \in ToSet(page.candidates) : Semantic(c) # Semantic(d) \/ Tally(c) # Tally(d)

\* A table looks for conflicts in each candidate before it compares them, a
\* column only in the first one.
PageError(page, carrier, before) ==
    LET conflicting ==
            IF carrier = TableCarrier
            THEN \E c \in ToSet(page.candidates) : Conflict(Semantic(c)) ELSE FALSE
    IN CASE ~Agree(page, carrier) -> "AmbiguousCarrierIdentity"
         [] Agree(page, carrier) /\ conflicting -> "Conflicting"
         [] Agree(page, carrier) /\ ~conflicting /\ Divergent(page) -> "DivergentCandidates"
         [] Agree(page, carrier) /\ ~conflicting /\ ~Divergent(page)
              /\ Conflict(before \cup Semantic(page.candidates[1])) -> "Conflicting"
         [] OTHER -> Null

--------------------------------------------------------------------------------
(* collect_materialized_systables, collect_materialized_syscolumns           *)

Carriers(pages, carrier) == {i \in DOMAIN pages : IsCarrier(pages[i], carrier)}
First(page) == page.candidates[1]
Kept(pages, read) == UNION {Semantic(First(pages[i])) : i \in read}

\* Where a record of some kinds lies: its page and its place in it.
Places(pages, read, kinds) ==
    UNION {{<<i, k>> : k \in OfKinds(First(pages[i]), kinds)} : i \in read}
At(pages, place) == First(pages[place[1]]).records[place[2]]

\* What is kept of a collection without errors.
Collection(pages, read) ==
    LET total(kinds) == Cardinality(Places(pages, read, kinds))
        claims == Places(pages, read, {"prefix"})
    IN [refused |-> Null, entries |-> Kept(pages, read), pages |-> Cardinality(read),
        slots |-> total(Kinds), missing |-> total({"missing"}), parsed |-> total({"parsed"}),
        unparsed |-> total(Unparsed), none |-> total({"none"}), short |-> total({"short"}),
        claims |-> [id \in {At(pages, p).key : p \in claims} |->
                       Cardinality({p \in claims : At(pages, p).key = id})],
        skipped |-> [why \in {"no_header", "ambiguous_header", "not_type4", "other"} |->
                       Cardinality({i \in DOMAIN pages : pages[i].skipped = why})]]

\* The pages are read in their order, up to the first that is in error.
Collected(pages, carrier) ==
    LET carriers == Carriers(pages, carrier)
        error(i) == PageError(pages[i], carrier, Kept(pages, {j \in carriers : j < i}))
        failing == {i \in carriers : error(i) # Null}
        first == CHOOSE i \in failing : \A j \in failing : i <= j
    IN IF failing # {} THEN [refused |-> error(first)] ELSE Collection(pages, carriers)

--------------------------------------------------------------------------------
(* Gates of a collection.                                                    *)

NoUnparsed(collection) == collection.unparsed = 0
Entry(collection, id) == {e \in collection.entries : e.key = id}

\* require_unambiguous_tables
\* Mutant: a record whose prefix cannot be told is taken for one of another table.
UnambiguousTablesByClaim(collection, ids) ==
    CASE \E id \in ids : Entry(collection, id) = {} -> "UnknownTableId"
      [] /\ \A id \in ids : Entry(collection, id) # {}
         /\ ids \cap DOMAIN collection.claims # {} -> "RequiredTableMayConflict"
      [] OTHER -> Null
UnambiguousTables(collection, ids) ==
    CASE \E id \in ids : Entry(collection, id) = {} -> "UnknownTableId"
      [] /\ \A id \in ids : Entry(collection, id) # {}
         /\ collection.none # 0 -> "UnidentifiedUnparsedCarrierRecords"
      [] /\ \A id \in ids : Entry(collection, id) # {}
         /\ collection.none = 0
         /\ ids \cap DOMAIN collection.claims # {} -> "RequiredTableMayConflict"
      [] OTHER -> Null

\* complete_materialized_schema_columns: a key is <<table, ordinal, name>>.
CompleteColumns(collection, table, expected) ==
    LET found == {e \in collection.entries : e.key[1] = table} IN
    CASE expected = 0 -> "ZeroExpectedTargetColumnCount"
      [] expected # 0 /\ Cardinality(found) # expected -> "TargetCountMismatch"
      [] /\ expected # 0 /\ Cardinality(found) = expected
         /\ {e.key[2] : e \in found} # 1..expected -> "TargetOrdinalMismatch"
      [] OTHER -> Null

\* attest_against_materialized_systable
ColumnsAttested(collection, table, id, maxPages) ==
    CASE id # ColumnCarrier -> "WrongCarrierTableId"
      [] id = ColumnCarrier /\ table.pages + table.extensions > maxPages -> "CarrierPageCountOverflow"
      [] /\ id = ColumnCarrier /\ table.pages + table.extensions <= maxPages
         /\ collection.pages # table.pages + table.extensions -> "CarrierPageCountMismatch"
      [] /\ id = ColumnCarrier /\ collection.pages = table.pages + table.extensions
         /\ collection.parsed # table.rows -> "CarrierRowCountMismatch"
      [] /\ id = ColumnCarrier /\ collection.pages = table.pages + table.extensions
         /\ collection.parsed = table.rows
         /\ Cardinality(collection.entries) # collection.parsed -> "CarrierDuplicateRows"
      [] OTHER -> Null

--------------------------------------------------------------------------------
(* Obfuscated pages.  A page has the readings that its witnesses allow, in   *)
(* the order of their parameter, as table rows and as column rows.           *)

\* scan_raw_page_with_affine_witness: a reading without rows has no say, all
\* others must have a row, at its place, for it to count.
Agreed(readings) ==
    LET productive == {ToSet(r) : r \in ToSet(readings) \ {<<>>}}
    IN {e \in UNION productive : \A r \in productive : e \in r}

\* recover_bv_from_syscolumn_tag: a reading counts when one of its rows ends in
\* a tag that gave rise to it; which page is read by it only if it is alone.
Verified(readings, witnesses) ==
    {b \in DOMAIN readings : \E e \in ToSet(readings[b]) : <<b, e.tag>> \in witnesses}
Parameter(readings, witnesses) ==
    IF Cardinality(Verified(readings, witnesses)) = 1
    THEN CHOOSE b \in Verified(readings, witnesses) : TRUE ELSE Null

\* scan_page_from_syscolumn_tag: the rows of the one verified reading, or those
\* that all of them have, wherever it is, in the order of their fields.
ColumnsAgreed(readings, witnesses) ==
    LET verified == Verified(readings, witnesses)
        bodies(b) == {Body(e) : e \in ToSet(readings[b])}
        common == {e \in UNION {bodies(b) : b \in verified} : \A b \in verified : e \in bodies(b)}
    IN IF Cardinality(verified) = 1 THEN readings[Parameter(readings, witnesses)]
       ELSE SetToSortSeq(common, LAMBDA e, f : e.body < f.body)

\* The iterators go over the pages from the second one; an unreadable page
\* ends them as the end of the store does.
Visited(pages, types) ==
    {i \in 2..Len(pages) : pages[i].type \in types /\ \A j \in 2..i : pages[j].type # "unreadable"}
TableRows(pages) == UNION {Agreed(pages[i].tables) : i \in Visited(pages, {"extent"})}

Iterated(pages, types, found) ==
    FlattenSeq([i \in DOMAIN pages |-> IF i \in Visited(pages, types) THEN found[i] ELSE <<>>])
ColumnRows(pages) ==
    Iterated(pages, {"extent", "alloc"},
             [i \in DOMAIN pages |-> ColumnsAgreed(pages[i].columns, pages[i].witnesses)])
IndexRows(pages) == Iterated(pages, {"extent"}, [i \in DOMAIN pages |-> pages[i].indexes])

\* collect_conflict_free: whoever shares an id or a name with another identity
\* goes, and all that share it with them.
ConflictFree(rows) ==
    LET all == {Body(r) : r \in rows}
    IN {e \in all : \A f \in all : e.key = f.key \/ e.body.name = f.body.name => e = f}

\* collect_unique of SYSCOLUMN and SYSINDEX: the first of each key stays.
FirstOfKey(rows) ==
    {Body(rows[i]) : i \in {j \in DOMAIN rows : \A k \in 1..(j-1) : rows[k].key # rows[j].key}}

\* schema_for: the columns of the one table of that name.
SchemaFor(tables, columns, name) ==
    LET named == {t \in tables : t.body.name = name} IN
    IF Cardinality(named) = 1
    THEN {c \in columns : \E t \in named : c.key[1] = t.key} ELSE {}

--------------------------------------------------------------------------------
(* Relating the catalogs: an index is <<owner, page, name>>.                 *)

Owners(tables, owner) == {t \in tables : t.body.object = owner}

\* IndexRootMap::from_catalogs
Orphans(tables, indexes) == {x \in indexes : Cardinality(Owners(tables, x.key[1])) # 1}
InvalidRoots(tables, indexes, extents) ==
    {x \in indexes \ Orphans(tables, indexes) : x.key[2] \notin extents}
Roots(tables, indexes, extents) ==
    LET placed == indexes \ (Orphans(tables, indexes) \cup InvalidRoots(tables, indexes, extents))
    IN {[table |-> (CHOOSE t \in Owners(tables, x.key[1]) : TRUE).key, page |-> x.key[2],
         names |-> {y.key[3] : y \in {z \in placed : z.key[1] = x.key[1] /\ z.key[2] = x.key[2]}}] : x \in placed}

\* PageAttribution::attribute: the last root at or before the page, of the last
\* table that has it, unless its last page is before the page and behind the root.
Rooted(tables) == {t \in tables : t.body.root \notin {Null, 0}}
Gap(tables) ==
    IF Rooted(tables) # {} THEN Null ELSE IF tables = {} THEN "NoCatalogRows" ELSE "AllRootsZeroed"
Attributed(tables, page) ==
    LET below == {t \in Rooted(tables) : t.body.root <= page}
        behind(t, u) == t.body.root > u.body.root \/ (t.body.root = u.body.root /\ t.key >= u.key)
        nearest == {t \in below : \A u \in below : behind(t, u)}
    IN {t \in nearest : t.body.last # Null /\ t.body.last >= t.body.root => page <= t.body.last}

\* CrossValidation::run: one verdict for each table and page that an index
\* with one owner names, and one for each index without.
Validation(tables, indexes) ==
    LET owned == {x \in indexes : Cardinality(Owners(tables, x.key[1])) = 1}
        owner(x) == CHOOSE t \in Owners(tables, x.key[1]) : TRUE
        pairs == {<<owner(x), x.key[2]>> : x \in owned}
        verdict(p) == IF Attributed(tables, p[2]) = {} THEN "missing"
                      ELSE IF \E t \in Attributed(tables, p[2]) : t.body.name = p[1].body.name THEN "agree"
                      ELSE "disagree"
        counted(v) == Cardinality({p \in pairs : verdict(p) = v})
    IN [total |-> Cardinality(indexes), agree |-> counted("agree"), disagree |-> counted("disagree"),
        missing |-> counted("missing"),
        orphan |-> Cardinality({x \in indexes : Owners(tables, x.key[1]) = {}}),
        ambiguous |-> Cardinality({x \in indexes : Cardinality(Owners(tables, x.key[1])) > 1})]

\* bridge_owners_to_tables: votes is a bag of <<owner, name>>, from a name that
\* follows an owner's id in some page.
Bridge(votes) ==
    LET names(o) == {v[2] : v \in {w \in DOMAIN votes : w[1] = o}}
        winners(o) == {n \in names(o) : \A m \in names(o) : votes[<<o, m>>] <= votes[<<o, n>>]}
        owners == {v[1] : v \in DOMAIN votes}
        decided == {o \in owners : Cardinality(winners(o)) = 1}
    IN [o \in decided |-> CHOOSE n \in winners(o) : TRUE]

\* fkgraph: a column named after another table points at the one whose name is
\* nearest to its stem, the first in the catalog of those that are equally near.
Target(stem, tables, score) ==
    LET best == {t \in tables : /\ score[<<stem, t.body.name>>] > 0
                                /\ \A u \in tables : score[<<stem, u.body.name>>] <= score[<<stem, t.body.name>>]}
        first == {t \in best : \A u \in best : t.key <= u.key}
    IN IF best = {} THEN Null ELSE CHOOSE n \in {t.body.name : t \in first} : TRUE
Edges(tables, columns, stems, score) ==
    UNION {{[source |-> t.body.name, column |-> c.key[3], ordinal |-> c.key[2],
             target |-> Target(stems[c.key[3]], tables, score)] :
                c \in {d \in columns : d.key[1] = t.key /\ d.key[3] \in DOMAIN stems}} : t \in tables}
EdgeStats(edges) ==
    [edges |-> Cardinality(edges), resolved |-> Cardinality({e \in edges : e.target # Null})]
================================================================================
