------------------------------- MODULE KeySelection -------------------------------
(****************************************************************************)
(* Which transform key a ledger is built with.  The structural candidates are *)
(* what the pages witness; a semantic one also shows the catalogs, schemas    *)
(* and pages of an Enterprise 24 R21 file.  Without any, the keys that show   *)
(* all but their full share of SYSCOLUMN pages are tried, then pairs of       *)
(* adjacent ones, and a ledger of theirs must balance.                        *)
(*                                                                          *)
(* evidence[c] is what collecting and scanning the file under context c shows: *)
(* the tables required are the keys of its `pages`, in the order of the       *)
(* manifest, with the pages observed and expected of each; an expected number  *)
(* is Null when it overflows.                                                 *)
(****************************************************************************)
EXTENDS Integers, FiniteSets

CONSTANT Null

Profiles == {"Strict", "AccountingReadinessPageFloor"}

\* validate_schema_manifest, of the columns <<table, ordinal, name>> of a schema:
\* by ordinal and name they count from one, and their metadata are the known ones
\* (in the code, have their fingerprint).
ManifestRefusal(columns, manifest) ==
    LET wrong(t) ==
            LET found == {c \in columns : c[1] = t}
            IN CASE Cardinality(found) # manifest[t].count -> "ColumnCountMismatch"
                 [] /\ Cardinality(found) = manifest[t].count
                    /\ {c[2] : c \in found} # 1..manifest[t].count -> "OrdinalMismatch"
                 [] /\ Cardinality(found) = manifest[t].count
                    /\ {c[2] : c \in found} = 1..manifest[t].count
                    /\ found # manifest[t].metadata -> "FingerprintMismatch"
                 [] OTHER -> Null
        failing == {t \in DOMAIN manifest : wrong(t) # Null}
    IN IF failing = {} THEN Null ELSE wrong(CHOOSE t \in failing : \A u \in failing : t <= u)

\* attest_syscolumn_page_profile: the relaxed profile is only for those that need it.
PageProfile(profile, e) ==
    IF e.columnsExpected = Null THEN "PageCountOverflow"
    ELSE CASE profile = "Strict" /\ e.columnPages < e.columnsExpected -> "SysColumnCrossAttestation"
           [] profile # "Strict" /\ e.columnPages >= e.columnsExpected -> "SysColumnPageFloorNotRelaxed"
           [] OTHER -> Null

\* attest_supported_syscolumn_conflicts
ColumnConflicts(e) ==
    CASE e.columnsUnbounded -> "SysColumnUnboundedCarrier"
      [] ~e.columnsUnbounded /\ e.columnsRepeated -> "SysColumnDuplicateRows"
      [] ~e.columnsUnbounded /\ ~e.columnsRepeated /\ e.columnClaims -> "SysColumnRequiredConflict"
      [] OTHER -> Null

\* The first table that falls short decides.
PageFloor(e) ==
    LET overflows(t) == e.pages[t].expected = Null
        short == {t \in DOMAIN e.pages : overflows(t) \/ e.pages[t].observed < e.pages[t].expected}
    IN IF short = {} THEN Null
       ELSE IF overflows(CHOOSE t \in short : \A u \in short : t <= u) THEN "PageCountOverflow"
       ELSE "AccountingPageFloor"

\* attest_candidate: the first of its checks that fails.
Checks(profile, e) ==
    <<IF e.tables = "collected" THEN Null ELSE "SysTableCollection",
      IF e.required THEN Null ELSE "RequiredTables",
      IF e.ambiguous THEN "RequiredTableAmbiguity" ELSE Null,
      IF e.columns = "collected" THEN Null ELSE "SysColumnCollection",
      ColumnConflicts(e), PageProfile(profile, e),
      IF e.manifest = Null THEN Null ELSE "SchemaManifest",
      IF e.scanned THEN Null ELSE "TableScan",
      IF e.idConflict THEN "RequiredTableIdConflict" ELSE Null,
      PageFloor(e)>>
Rejection(profile, e) ==
    LET checks == Checks(profile, e)
        failing == {i \in DOMAIN checks : checks[i] # Null}
    IN IF failing = {} THEN Null ELSE checks[CHOOSE i \in failing : \A j \in failing : i <= j]

\* adjacent_context_is_eligible: short of pages only, and the other context seen.
Neighbour(c) == [c EXCEPT !.high = IF @ % 2 = 0 THEN @ + 1 ELSE @ - 1]
Eligible(c, witnessed, rejection) == rejection = "AccountingPageFloor" /\ Neighbour(c) \in witnessed
Pair(c) == [c EXCEPT !.high = @ - (@ % 2), !.adjacent = TRUE]

StrictCandidates(witnessed, evidence) ==
    {c \in witnessed : Rejection("Strict", evidence[c]) = Null}
RelaxedCandidates(witnessed, evidence) ==
    LET relaxed(c) == Rejection("AccountingReadinessPageFloor", evidence[c])
        alone == {c \in witnessed : relaxed(c) = Null}
        pairs == {Pair(c) : c \in {x \in witnessed : Eligible(x, witnessed, relaxed(x))}}
    IN IF alone # {} THEN alone
       ELSE {p \in pairs : \E profile \in Profiles : Rejection(profile, evidence[p]) = Null}

\* select_unique_balanced_accounting_readiness_ledger, of the ledgers by their
\* places; of several that balance none is taken.  Mutant: the first one is.
Balanced(ledgers) == {i \in DOMAIN ledgers : ledgers[i].balances}
None == [refused |-> "NoSemanticCandidate"]
Selected(l) == [refused |-> Null, context |-> l.context]
SelectFirstBalanced(ledgers) ==
    IF Balanced(ledgers) = {} THEN None
    ELSE Selected(ledgers[CHOOSE i \in Balanced(ledgers) : \A j \in Balanced(ledgers) : i <= j])
SelectBalanced(ledgers) ==
    IF Balanced(ledgers) = {} THEN None
    ELSE IF \A i, j \in Balanced(ledgers) : i = j THEN Selected(ledgers[CHOOSE i \in Balanced(ledgers) : TRUE])
    ELSE [refused |-> "multiple"]

\* What is collected of a table: only the General Journal needs no schema, and a
\* Bill table that is not complete is collected again with its headers.
Rows(table, t) ==
    CASE ~t.expected \/ (table # "GeneralJournalLine" /\ ~t.schema) -> Null
      [] t.expected /\ (table = "GeneralJournalLine" \/ t.schema) ->
            IF table = "BillLine" /\ t.rows = "partial" THEN t.repaired ELSE t.rows

\* build_local_enterprise24_ledger_from_attestation: a journal that blocks the
\* ledger as a whole is tried again with the witnesses of its headers.
LedgerOf(e) ==
    LET rows == {Rows(t, e.build[t]) : t \in DOMAIN e.build} IN
    IF e.manifest # Null \/ e.ambiguous \/ ~e.scanned \/ Null \in rows THEN Null
    ELSE IF e.journalBlocks THEN e.witnessed ELSE e.ledger

\* build_local_enterprise24_ledger_from_store: order is that of the candidates.
Chosen(witnessed, evidence, order) ==
    LET strict == StrictCandidates(witnessed, evidence)
        relaxed == RelaxedCandidates(witnessed, evidence)
        only == CHOOSE c \in strict : TRUE
        tried == {i \in DOMAIN order : order[i] \in relaxed /\ LedgerOf(evidence[order[i]]) # Null}
        ledgers == [i \in tried |-> [context |-> order[i], balances |-> evidence[order[i]].balances]]
    IN IF witnessed = {} THEN [refused |-> "StructuralDiscoveryFailed"]
       ELSE IF Cardinality(strict) > 1 THEN [refused |-> "AmbiguousSemanticCandidates"]
       ELSE IF strict = {} THEN SelectBalanced(ledgers)
       ELSE IF LedgerOf(evidence[only]) = Null THEN [refused |-> "incomplete"]
       ELSE [refused |-> Null, context |-> only]
================================================================================
