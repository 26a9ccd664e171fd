------------------------------- MODULE Dedup -------------------------------
(***************************************************************************)
(* Duplicate detection: a scan of one matching rule pages through the      *)
(* values of its attribute while they change, reads the dismissed pairs    *)
(* and reports the candidate pairs; operators dismiss pairs and delete the *)
(* rule.  A text is a sequence of characters; a score is a fraction.       *)
(***************************************************************************)
EXTENDS Naturals, Sequences, FiniteSets
LOCAL INSTANCE SequencesExt
LOCAL INSTANCE FiniteSetsExt

CONSTANTS
    ValueTables,        \* the tables a scan may start from: row id -> [e, text]
    DedupTexts,         \* the texts a writer sets
    MatchRules,         \* the rules an operator may ask for: [strategy, threshold]
    ScanLimit,          \* rows of a page; the repository fetches one more
    MaxScanEntities,
    BudgetStep,         \* values matched between two looks at the clock
    MaxValueWrites,
    MaxDismissals

VARIABLES
    rowsOf,       \* the attribute's live values: row id -> [e, text]
    rule,         \* the rule an operator created
    ruleLives,    \* it is stored
    dismissed,    \* the stored dismissals: pairs <<a, b>>
    scan,         \* the scan: [pc, cursor, entities, values, truncated, known]
    report,       \* its candidates, in the order of their discovery
    touched,      \* entities written since the scan began
    dismissedAt,  \* the pairs that were dismissed when it began
    dedupWrites

dedupVars == <<rowsOf, rule, ruleLives, dismissed, scan, report, touched, dismissedAt, dedupWrites>>

-----------------------------------------------------------------------------
\* Texts.
Letter(c) == c \notin {" ", "."}
LowerCase(t) == [i \in DOMAIN t |-> IF t[i] = "A" THEN "a" ELSE t[i]]
TrimSpace(t) ==
    LET solid == {i \in DOMAIN t : t[i] # " "}
    IN IF solid = {} THEN << >> ELSE SubSeq(t, Min(solid), Max(solid))

\* The words of a text: its longest runs of letters.
WordsOf(t) ==
    {SubSeq(t, i, j) : i \in {k \in DOMAIN t : Letter(t[k]) /\ (k = 1 \/ ~Letter(t[k - 1]))},
                       j \in {k \in DOMAIN t : Letter(t[k]) /\ (k = Len(t) \/ ~Letter(t[k + 1]))}}
    \cap Seq({c \in ToSet(t) : Letter(c)})
\* trigrams: each word is padded, so short words have some too.
Trigrams(t) ==
    UNION {LET padded == <<" ", " ">> \o w \o <<" ">> IN {SubSeq(padded, k, k + 2) : k \in 1 .. Len(padded) - 2} :
             w \in WordsOf(LowerCase(t)) \ {<< >>}}

\* jaccard: shared trigrams over all; a text without any matches nothing.
Jaccard(a, b) == IF a = {} \/ b = {} THEN <<0, 1>> ELSE <<Cardinality(a \cap b), Cardinality(a \cup b)>>
AtLeast(x, y) == x[1] * y[2] >= y[1] * x[2]

\* Bug: a pair is taken as it comes.
PairAsGiven(a, b) == <<a, b>>

\* canonicalPair: one representation of a pair.
CanonicalPair(a, b) == IF a <= b THEN <<a, b>> ELSE <<b, a>>

BucketKey(t) == IF rule.strategy = "case_insensitive" THEN LowerCase(TrimSpace(t)) ELSE t

\* Bug: both directions of a pair are partners.
PartnersBothWays(values, x) == {y \in DOMAIN values : y # x /\ Trigrams(values[x]) \cap Trigrams(values[y]) # {}}

\* Whom the inverted index lets a value be compared with: later values that
\* share a trigram.
Partners(values, x) == {y \in DOMAIN values : y > x /\ Trigrams(values[x]) \cap Trigrams(values[y]) # {}}

\* matchPairs: the pairs of indices that match, for the values before cut.
MatchPairs(values, cut) ==
    IF rule.strategy = "trigram"
    THEN UNION {{<<x, y>> : y \in {z \in Partners(values, x) : AtLeast(Jaccard(Trigrams(values[x]), Trigrams(values[z])), rule.threshold)}} :
                  x \in 1 .. cut - 1}
    ELSE {<<x, y>> \in (DOMAIN values) \X (DOMAIN values) : x < y /\ BucketKey(values[x]) = BucketKey(values[y])}

-----------------------------------------------------------------------------
NoMatchRule == [strategy |-> "", threshold |-> <<0, 1>>]

\* Bug: a trigram rule may have any threshold.
KnownStrategy(r) == r.strategy \in {"exact", "case_insensitive", "trigram"}

\* A known strategy; a threshold in (0, 1] for trigrams.
MatchRuleValid(r) ==
    \/ r.strategy \in {"exact", "case_insensitive"}
    \/ r.strategy = "trigram" /\ r.threshold[1] > 0 /\ r.threshold[1] <= r.threshold[2]

\* CreateMatchRule, for an attribute of the type that the caller may read.
CreateMatchRule(r) ==
    /\ rule = NoMatchRule /\ MatchRuleValid(r)
    /\ rule' = r /\ ruleLives' = TRUE
    /\ UNCHANGED <<rowsOf, dismissed, scan, report, touched, dismissedAt, dedupWrites>>

NoScan == [pc |-> "idle", cursor |-> 0, entities |-> << >>, values |-> << >>, truncated |-> FALSE, known |-> {}]

\* Scan finds its rule, and the caller may read the attribute.
BeginScan ==
    /\ ruleLives /\ scan.pc = "idle"
    /\ scan' = [NoScan EXCEPT !.pc = "paging"]
    /\ touched' = {} /\ dismissedAt' = dismissed
    /\ UNCHANGED <<rowsOf, rule, ruleLives, dismissed, report, dedupWrites>>

\* Bug: the next page starts after the page without its extra row, but the
\* extra row was taken.
SkipOne(batch) == Last(batch) + 1

\* The next page starts after the last row that was fetched.
NextCursor(batch) == Last(batch)

\* The first value of each entity, up to the cap.
Collect(s, batch) ==
    FoldLeft(LAMBDA acc, id :
        CASE acc.truncated \/ Contains(acc.entities, rowsOf[id].e) -> acc
          [] Len(acc.entities) >= MaxScanEntities -> [acc EXCEPT !.truncated = TRUE]
          [] OTHER -> [acc EXCEPT !.entities = Append(@, rowsOf[id].e), !.values = Append(@, rowsOf[id].text)], s, batch)

\* loadEntityValues: one page; a short page is the last one.
LoadPage ==
    /\ scan.pc = "paging"
    /\ LET ids == SetToSortSeq({i \in DOMAIN rowsOf : i > scan.cursor}, <)
           batch == SubSeq(ids, 1, IF Len(ids) > ScanLimit THEN ScanLimit + 1 ELSE Len(ids))
           after == Collect(scan, batch)
       IN scan' = IF after.truncated \/ Len(batch) <= ScanLimit THEN [after EXCEPT !.pc = "loaded"]
                  ELSE [after EXCEPT !.cursor = NextCursor(batch)]
    /\ UNCHANGED <<rowsOf, rule, ruleLives, dismissed, report, touched, dismissedAt, dedupWrites>>

\* dismissedSet.
LoadDismissals ==
    /\ scan.pc = "loaded"
    /\ scan' = [scan EXCEPT !.pc = "matching", !.known = {CanonicalPair(d[1], d[2]) : d \in dismissed}]
    /\ UNCHANGED <<rowsOf, rule, ruleLives, dismissed, report, touched, dismissedAt, dedupWrites>>

\* matchPairs and the sorted report; the clock may run out at a look at it.
Report ==
    /\ scan.pc = "matching"
    /\ \E cut \in {Len(scan.values) + 1} \cup {x \in DOMAIN scan.values : rule.strategy = "trigram" /\ x % BudgetStep = 1 /\ Trigrams(scan.values[x]) # {}} :
         LET pairs == SetToSeq(MatchPairs(scan.values, cut))
             found == [i \in DOMAIN pairs |-> CanonicalPair(scan.entities[pairs[i][1]], scan.entities[pairs[i][2]])]
         IN /\ report' = SelectSeq(found, LAMBDA p : p \notin scan.known)
            /\ scan' = [scan EXCEPT !.pc = "reported", !.truncated = @ \/ cut <= Len(scan.values)]
    /\ UNCHANGED <<rowsOf, rule, ruleLives, dismissed, touched, dismissedAt, dedupWrites>>

\* Dismiss: the rule exists, the pair is stored once.  (Nothing depends on it
\* once the report is out.)
Dismiss(a, b) ==
    /\ ruleLives /\ Cardinality(dismissed) < MaxDismissals /\ scan.pc # "reported"
    /\ dismissed' = dismissed \cup {CanonicalPair(a, b)}
    /\ UNCHANGED <<rowsOf, rule, ruleLives, scan, report, touched, dismissedAt, dedupWrites>>

\* DeleteRule: its dismissals go with it.
DeleteRule ==
    /\ ruleLives /\ scan.pc # "reported"
    /\ ruleLives' = FALSE /\ dismissed' = {}
    /\ UNCHANGED <<rowsOf, rule, scan, report, touched, dismissedAt, dedupWrites>>

\* Other requests set, add and archive values meanwhile.
WriteText(id, t) ==
    /\ scan.pc = "paging" /\ dedupWrites < MaxValueWrites
    /\ rowsOf' = [rowsOf EXCEPT ![id].text = t]
    /\ touched' = touched \cup {rowsOf[id].e} /\ dedupWrites' = dedupWrites + 1
    /\ UNCHANGED <<rule, ruleLives, dismissed, scan, report, dismissedAt>>
AddValue(e, t) ==
    /\ scan.pc = "paging" /\ dedupWrites < MaxValueWrites
    /\ rowsOf' = [i \in DOMAIN rowsOf \cup {Max(DOMAIN rowsOf) + 1} |-> IF i \in DOMAIN rowsOf THEN rowsOf[i] ELSE [e |-> e, text |-> t]]
    /\ touched' = touched \cup {e} /\ dedupWrites' = dedupWrites + 1
    /\ UNCHANGED <<rule, ruleLives, dismissed, scan, report, dismissedAt>>
ArchiveRow(id) ==
    /\ scan.pc = "paging" /\ dedupWrites < MaxValueWrites /\ DOMAIN rowsOf # {id}
    /\ rowsOf' = [i \in DOMAIN rowsOf \ {id} |-> rowsOf[i]]
    /\ touched' = touched \cup {rowsOf[id].e} /\ dedupWrites' = dedupWrites + 1
    /\ UNCHANGED <<rule, ruleLives, dismissed, scan, report, dismissedAt>>

-----------------------------------------------------------------------------
Holders == {rowsOf[i].e : i \in DOMAIN rowsOf}

DedupInit ==
    /\ rowsOf \in ValueTables /\ rule = NoMatchRule /\ ruleLives = FALSE /\ dismissed = {}
    /\ scan = NoScan /\ report = << >> /\ touched = {} /\ dismissedAt = {} /\ dedupWrites = 0

DedupNext ==
    \/ \E r \in MatchRules : CreateMatchRule(r)
    \/ BeginScan \/ LoadPage \/ LoadDismissals \/ Report
    \/ \E a, b \in Holders : a # b /\ Dismiss(a, b)
    \/ DeleteRule
    \/ \E id \in DOMAIN rowsOf : ArchiveRow(id) \/ \E t \in DedupTexts : WriteText(id, t)
    \/ \E e \in Holders, t \in DedupTexts : AddValue(e, t)

DedupSpec == DedupInit /\ [][DedupNext]_dedupVars

-----------------------------------------------------------------------------
\* The texts a pairwise comparison finds alike, whatever index is used.
Alike(t, u) ==
    CASE rule.strategy = "exact" -> t = u
      [] rule.strategy = "case_insensitive" -> LowerCase(TrimSpace(t)) = LowerCase(TrimSpace(u))
      [] OTHER -> Trigrams(t) # {} /\ Trigrams(u) # {} /\
                  AtLeast(<<Cardinality(Trigrams(t) \cap Trigrams(u)), Cardinality(Trigrams(t) \cup Trigrams(u))>>, rule.threshold)
FirstText(e) == rowsOf[Min({i \in DOMAIN rowsOf : rowsOf[i].e = e})].text
ReportOut == scan.pc = "reported"

\* A scan that says nothing of truncation misses no pair: two entities whose
\* values nobody touched since it began, alike and never dismissed, are in the
\* report, whatever is written to other entities between two pages.
NoPairMissed ==
    ReportOut /\ ~scan.truncated =>
        \A a, b \in Holders \ touched :
            a < b /\ Alike(FirstText(a), FirstText(b)) => <<a, b>> \in ToSet(report) \cup dismissed \cup scan.known

\* It reports no pair twice, nor an entity with itself, and of two untouched
\* entities only what a pairwise comparison finds, truncated or not.
NoFalsePair ==
    ReportOut =>
        /\ \A i, j \in DOMAIN report : i # j => report[i] # report[j]
        /\ \A p \in ToSet(report) : p[1] < p[2] /\ (p[1] \notin touched /\ p[2] \notin touched => Alike(FirstText(p[1]), FirstText(p[2])))

\* A pair dismissed before the scan began does not come back, in whichever
\* order it was named, unless the rule was deleted under the scan.
DismissedStaysGone ==
    ReportOut /\ ruleLives => ToSet(report) \cap {<<p[1], p[2]>> : p \in dismissedAt \cup {<<q[2], q[1]>> : q \in dismissedAt}} = {}

DedupInv == NoPairMissed /\ NoFalsePair /\ DismissedStaysGone
=============================================================================
