------------------------------- MODULE Pages -------------------------------
(***************************************************************************)
(* The data files of the static site, export_all of exporter.py, read from *)
(* a database that other processes write to (DerivedRows), and the release *)
(* check of these files against the database (validator.py).               *)
(*                                                                         *)
(* The export reads each query on its own until the INSERT into the table  *)
(* of ordinals opens a transaction, which is never committed: what it      *)
(* reads from then on is one snapshot.                                     *)
(***************************************************************************)
EXTENDS DerivedRows, SequencesExt

CONSTANTS
  PageSize,
  NamesLimit   \* names to export, 0 for all

ASSUME PagesAssumption == PageSize \in Nat \ {0} /\ NamesLimit \in Nat

\* An address is not a name, and None is no tip and no snapshot.
ASSUME DataAssumption ==
  /\ Ips \cap Nat = {}
  /\ None \notin Nat
  /\ None \notin [rows : [Names -> Row \cup {None}], ips : SUBSET (Names \X Ips),
                  evidence : SUBSET EvidenceRow, tlsa : [Names -> BOOLEAN \cup {None}]]

VARIABLES
  pc,
  snap,      \* the snapshot the export reads, None outside of its transaction
  summary,   \* summary.json and the manifest: names, active names, tip, rules
  counted,   \* of names-pages: names counted, and how many to export
  handoff,   \* names with an indirect handoff (temporary table)
  ordinals,  \* name and attributes per ordinal (temporary table; ordinals from 0)
  store,     \* names-pages/all: row_count and pages of rows
  posts,     \* the other collections: row_count and pages of ordinals
  lookups,   \* ip-addresses and nameservers: row_count and pages of names
  files,     \* dns-evidence: names with a file
  calm       \* auxiliary: only the indexer wrote since the export began

fileVars == <<store, posts, lookups, files>>
exportVars == <<pc, snap, summary, counted, handoff, ordinals, fileVars, calm>>
vars == <<derivedVars, exportVars>>

Db == [rows |-> rows, ips |-> ips, evidence |-> evidence, tlsa |-> tlsa]
View == IF snap = None THEN Db ELSE snap

-----------------------------------------------------------------------------
(* Queries *)

NamesIn(view) == {n \in Names : view.rows[n] # None}
ActiveIn(view) == {n \in NamesIn(view) : ~view.rows[n].expired}

\* ORDER BY name: at each place the name that as many others come before.
InOrder(S) ==
  [i \in 1..Cardinality(S) |-> CHOOSE n \in S : Cardinality({m \in S : m < n}) = i - 1]

Limited(view, limit) == LET all == InOrder(NamesIn(view)) IN SubSeq(all, 1, IF limit < Len(all) THEN limit ELSE Len(all))
Lesser(a, b) == IF a < b THEN a ELSE b

\* _effective_names_limit
EffectiveLimit(total) == IF NamesLimit = 0 THEN total ELSE Lesser(total, NamesLimit)

\* prepare_temp_ns_handoff_table: of the names delegated without addresses those
\* with a nameserver under an active name that has some.
HandoffIn(view, from) ==
  {n \in from : LET res == view.rows[n].res
                IN  /\ res.glue = {} /\ res.synth = {}
                    /\ \E root \in res.ns \cap ActiveIn(view) : IpsOf(view.rows[root].res) # {}}

\* compliance_stage_case
Stage(a) ==
  CASE a.expired \/ a.parked           -> "non_actionable"
    [] ~a.expired /\ ~a.parked /\ a.ns /\ ~a.glue ->
         IF a.handoff THEN "indirect_ns_handoff" ELSE "missing_glue"
    [] ~a.expired /\ ~a.parked /\ (~a.ns \/ a.glue) /\ a.ds ->
         IF a.tlsa THEN "tlsa_present" ELSE "tlsa_gap"
    [] OTHER -> IF a.synth \/ (a.ns /\ a.glue) THEN "bootstrap_ready" ELSE "non_actionable"

\* A row of names joined with its resource, provider and TLSA summary.
Attributes(view, n) ==
  LET row == view.rows[n]
      a == [name |-> n, expired |-> row.expired, parked |-> row.parked, ds |-> row.res.ds,
            ns |-> row.res.ns # {}, glue |-> row.res.glue # {}, synth |-> row.res.synth # {},
            handoff |-> n \in handoff, tlsa |-> view.tlsa[n] = TRUE]
  IN  [a |-> a, stage |-> Stage(a), under |-> row.res.ns]

\* POSTING_NAME_FILTERS and the stages
Collections ==
  {"direct_ip_records", "delegated_names", "default_provider_names", "ds_records",
   "dnssec_candidates", "tlsa_present_names", "strict_hns_ready", "likely_websites",
   "needs_dane", "indirect_ns_handoff", "missing_glue", "tlsa_present", "tlsa_gap",
   "bootstrap_ready", "non_actionable"}

Belongs(row, key) ==
  LET a == row.a
  IN  ~a.expired /\
      CASE key = "direct_ip_records"      -> a.synth
        [] key = "delegated_names"        -> a.ns
        [] key = "default_provider_names" -> a.parked
        [] key = "ds_records"             -> a.ds
        [] key = "dnssec_candidates"      -> a.ds /\ a.ns
        [] key = "tlsa_present_names"     -> a.tlsa
        [] key = "strict_hns_ready"       -> ~a.parked /\ (a.synth \/ (a.ns /\ a.glue))
        [] key = "likely_websites"        -> ~a.parked /\ (a.synth \/ a.glue \/ (a.ds /\ a.ns))
        [] key = "needs_dane"             -> ~a.parked /\ a.ds /\ ~a.tlsa
        [] OTHER                          -> row.stage = key

\* Mutant: the last, partial page is not counted.
PageCountFloor(rowCount) == rowCount \div PageSize

\* math.ceil(row_count / page_size)
PageCount(rowCount) == (rowCount + PageSize - 1) \div PageSize

\* The pages of a cursor read by fetchmany, whatever the count says.
Paged(seq) ==
  [p \in 1..((Len(seq) + PageSize - 1) \div PageSize) |->
     SubSeq(seq, (p - 1) * PageSize + 1, Lesser(p * PageSize, Len(seq)))]

-----------------------------------------------------------------------------
(* export_all *)

\* require_resource_ip_index, or the export fails
Begin ==
  /\ pc = "idle"
  /\ pc' = IF IndexCurrent THEN "totals" ELSE "failed"
  /\ calm' = TRUE
  /\ UNCHANGED <<snap, summary, counted, handoff, ordinals, fileVars>>

\* build_summary: the counts, then the metadata
CountSummary ==
  /\ pc = "totals"
  /\ pc' = "meta"
  /\ summary' = [names |-> Cardinality(NamesIn(Db)), active |-> Cardinality(ActiveIn(Db)),
                 tip |-> None, rules |-> None]
  /\ UNCHANGED <<snap, counted, handoff, ordinals, fileVars, calm>>

ReadMeta ==
  /\ pc = "meta"
  /\ pc' = "count"
  /\ summary' = [summary EXCEPT !.tip = tip, !.rules = rules]
  /\ UNCHANGED <<snap, counted, handoff, ordinals, fileVars, calm>>

\* write_names_pages
CountNames ==
  /\ pc = "count"
  /\ pc' = "handoff"
  /\ LET total == Cardinality(NamesIn(Db))
     IN  counted' = [total |-> total, export |-> Lesser(total, EffectiveLimit(summary.names))]
  /\ UNCHANGED <<snap, summary, handoff, ordinals, fileVars, calm>>

FindHandoffs ==
  /\ pc = "handoff"
  /\ pc' = "ordinals"
  /\ handoff' = HandoffIn(Db, ToSet(Limited(Db, counted.export)))
  /\ UNCHANGED <<snap, summary, counted, ordinals, fileVars, calm>>

\* Mutant: WITH ... INSERT, before which no transaction is opened.
NumberUnheld ==
  /\ pc = "ordinals"
  /\ pc' = "names"
  /\ ordinals' = [i \in 1..Len(Limited(Db, counted.export)) |->
                    Attributes(Db, Limited(Db, counted.export)[i])]
  /\ UNCHANGED <<snap, summary, counted, handoff, fileVars, calm>>

\* _prepare_export_name_ordinals
Number ==
  /\ pc = "ordinals"
  /\ pc' = "names"
  /\ snap' = IF counted.export > 0 THEN Db ELSE None
  /\ ordinals' = [i \in 1..Len(Limited(Db, counted.export)) |->
                    Attributes(Db, Limited(Db, counted.export)[i])]
  /\ UNCHANGED <<summary, counted, handoff, fileVars, calm>>

\* _write_name_row_store: the names with an ordinal that are still there; a row
\* links to evidence when there is some.
WriteRows ==
  /\ pc = "names"
  /\ pc' = "postings"
  /\ LET numbered == {ordinals[i].a.name : i \in DOMAIN ordinals} \cap NamesIn(View)
         row(n) == [row |-> Attributes(View, n),
                    link |-> \E e \in View.evidence : e.name = n]
     IN  store' = [count |-> counted.export,
                   pages |-> Paged([i \in 1..Cardinality(numbered) |-> row(InOrder(numbered)[i])])]
  /\ UNCHANGED <<snap, summary, counted, handoff, ordinals, posts, lookups, files, calm>>

\* Mutant: the ordinals, which start at 0, are shifted once more.
WritePostingsShifted ==
  /\ pc = "postings"
  /\ pc' = "lookups"
  /\ posts' = [key \in Collections |->
                 LET chosen == InOrder({i \in DOMAIN ordinals : Belongs(ordinals[i], key)})
                 IN  [count |-> Len(chosen),
                      pages |-> Paged([i \in DOMAIN chosen |-> chosen[i] - 2])]]
  /\ UNCHANGED <<snap, summary, counted, handoff, ordinals, store, lookups, files, calm>>

\* _write_name_postings_collection
WritePostings ==
  /\ pc = "postings"
  /\ pc' = "lookups"
  /\ posts' = [key \in Collections |->
                 LET chosen == InOrder({i \in DOMAIN ordinals : Belongs(ordinals[i], key)})
                 IN  [count |-> Len(chosen),
                      pages |-> Paged([i \in DOMAIN chosen |-> chosen[i] - 1])]]
  /\ UNCHANGED <<snap, summary, counted, handoff, ordinals, store, lookups, files, calm>>

\* The active names, among the first ones of a limited export.
Exported(view) ==
  LET limit == EffectiveLimit(summary.names)
  IN  ActiveIn(view) \cap (IF limit >= Cardinality(NamesIn(view)) THEN NamesIn(view)
                           ELSE ToSet(Limited(view, limit)))

\* Those with the address in resource_ip, or the nameserver in their resource.
WithAddress(view, ip) == {n \in Exported(view) : <<n, ip>> \in view.ips}
WithNameserver(view, root) == {n \in Exported(view) : root \in view.rows[n].res.ns}

\* A list per key of the names found for it; no list for no name.
Lists(found) ==
  LET some == IF EffectiveLimit(summary.names) = 0 THEN {}
              ELSE {key \in DOMAIN found : found[key] # {}}
  IN  [key \in some |-> [count |-> Cardinality(found[key]), pages |-> Paged(InOrder(found[key]))]]

\* write_ip_address_names, write_nameserver_names
AddressLists(view) == Lists([ip \in Ips |-> WithAddress(view, ip)])
NameserverLists(view) == Lists([root \in Roots |-> WithNameserver(view, root)])

LookupsOf(view) ==
  LET byAddress == AddressLists(view)
      byServer == NameserverLists(view)
  IN  [key \in DOMAIN byAddress \cup DOMAIN byServer |->
         IF key \in DOMAIN byAddress THEN byAddress[key] ELSE byServer[key]]

WriteLookups ==
  /\ pc = "lookups"
  /\ pc' = "evidence"
  /\ lookups' = LookupsOf(View)
  /\ UNCHANGED <<snap, summary, counted, handoff, ordinals, store, posts, files, calm>>

\* write_dns_evidence; then the manifest, and the connection is closed
WriteEvidence ==
  /\ pc = "evidence"
  /\ pc' = "exported"
  /\ files' = {e.name : e \in View.evidence}
  /\ snap' = None
  /\ UNCHANGED <<summary, counted, handoff, ordinals, store, posts, lookups, calm>>

-----------------------------------------------------------------------------
(* The files read back *)

\* What a reader gets: as many pages as the count asks for, if they are there.
Flat(pages) == FlattenSeq(pages)
ReadBack(list) == Flat(SubSeq(list.pages, 1, Lesser(PageCount(list.count), Len(list.pages))))

\* The row of an ordinal: its page, and its place on it.
RowAt(o) ==
  LET page == (o \div PageSize) + 1
      place == (o % PageSize) + 1
  IN  IF page \in DOMAIN store.pages /\ place \in DOMAIN store.pages[page]
      THEN store.pages[page][place].row ELSE None

-----------------------------------------------------------------------------
(* validate-release *)

SummaryMatches ==
  /\ summary.names = Cardinality(NamesIn(Db)) /\ summary.names > 0
  /\ summary.active = Cardinality(ActiveIn(Db))

\* Mutant: the tip of the manifest is not compared.
ManifestUntipped == summary.rules = rules

ManifestMatches == summary.tip = tip /\ summary.rules = rules

CountsMatch ==
  /\ store.count = EffectiveLimit(summary.names)
  /\ Len(ReadBack(store)) = EffectiveLimit(summary.names)

LinksResolve == \A row \in ToSet(ReadBack(store)) : row.link => row.row.a.name \in files

Validate ==
  /\ pc = "exported"
  /\ pc' = IF SummaryMatches /\ ManifestMatches /\ CountsMatch /\ LinksResolve
            THEN "accepted" ELSE "rejected"
  /\ UNCHANGED <<snap, summary, counted, handoff, ordinals, fileVars, calm>>

-----------------------------------------------------------------------------

NoFiles == [count |-> 0, pages |-> <<>>]

Init ==
  /\ DerivedInit
  /\ pc = "idle" /\ snap = None /\ summary = None /\ counted = None /\ calm = TRUE
  /\ handoff = {} /\ ordinals = <<>> /\ store = NoFiles /\ posts = <<>>
  /\ lookups = <<>> /\ files = {}

Export ==
  /\ \/ Begin \/ CountSummary \/ ReadMeta \/ CountNames \/ FindHandoffs \/ Number
     \/ WriteRows \/ WritePostings \/ WriteLookups \/ WriteEvidence \/ Validate
  /\ UNCHANGED derivedVars

Others ==
  /\ \/ IndexStep /\ UNCHANGED calm
     \/ (Rollback \/ JobStep \/ ImportStep) /\ calm' = FALSE
  /\ UNCHANGED <<pc, snap, summary, counted, handoff, ordinals, fileVars>>

\* The export is over, and the bound on writes is reached.
Done ==
  /\ pc \in {"failed", "accepted", "rejected"}
  /\ writes = MaxWrites /\ job = "idle"
  /\ UNCHANGED vars

Next == Export \/ Others \/ Done

Spec == Init /\ [][Next]_vars

-----------------------------------------------------------------------------
(* Properties *)

TypeOK ==
  /\ DerivedTypeOK
  /\ pc \in {"idle", "failed", "totals", "meta", "count", "handoff", "ordinals", "names",
             "postings", "lookups", "evidence", "exported", "accepted", "rejected"}
  /\ handoff \subseteq Names /\ files \subseteq Names
  /\ DOMAIN posts \subseteq Collections
  /\ DOMAIN lookups \subseteq Ips \cup Roots
  /\ store.count \in Nat
  /\ \A key \in DOMAIN posts : posts[key].pages \in Seq(Seq(Nat))
  /\ \A key \in DOMAIN lookups : lookups[key].pages \in Seq(Seq(Names))

Written == pc \in {"exported", "accepted", "rejected"}

\* However the database changes while the site is written, a collection read
\* back through its ordinals is exactly the stored rows that belong to it, and
\* every link to evidence leads to a file.
PostingsResolve ==
  Written =>
    LET found(key) == [i \in DOMAIN ReadBack(posts[key]) |-> RowAt(ReadBack(posts[key])[i])]
        stored == ToSet(Flat(store.pages))
    IN  /\ \A key \in Collections :
             ToSet(found(key)) = {r.row : r \in {s \in stored : Belongs(s.row, key)}}
        /\ \A row \in stored : row.link => row.row.a.name \in files

\* Of a release that passes the check, whatever happened during the export, each
\* nameserver's list read back is exactly the active stored rows delegated to it,
\* and no list is longer or shorter than it says.
LookupsMatchRows ==
  pc = "accepted" =>
    /\ \A root \in Roots :
         (IF root \in DOMAIN lookups THEN ToSet(ReadBack(lookups[root])) ELSE {}) =
           {r.row.a.name : r \in {s \in ToSet(Flat(store.pages)) :
                                   ~s.row.a.expired /\ root \in s.row.under}}
    /\ \A key \in DOMAIN lookups : Len(ReadBack(lookups[key])) = lookups[key].count

\* A release that passes the check shows the database as it is then, whatever
\* the indexer did during the export: the rows, and the lists of addresses.
AcceptedIsCurrent ==
  [][(pc = "exported" /\ pc' = "accepted" /\ calm) =>
       /\ [i \in DOMAIN ReadBack(store) |-> ReadBack(store)[i].row] =
            [i \in 1..EffectiveLimit(summary.names) |->
               Attributes(Db, Limited(Db, EffectiveLimit(summary.names))[i])]
       /\ lookups = LookupsOf(Db)]_vars
=============================================================================
