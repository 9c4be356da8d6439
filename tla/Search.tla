------------------------------- MODULE Search -------------------------------
(***************************************************************************)
(* The search in the metadata of the delivery-db (src/metadata.py,         *)
(* ArtefactMetadataQueryBySearchExpression): criteria become a SQL clause, *)
(* with SQL's three truth values, and a client reads the result page by    *)
(* page, by means of a cursor, while rows are written and deleted.         *)
(***************************************************************************)
EXTENDS Faults, FiniteSets, Sequences

CONSTANTS
  Rows,             \* rows that may be in the table; those with one id are versions of a row
  Requests,         \* [criteria, fields, desc]
  References,       \* set of pairs of components, from the component descriptors
  KeysOfComponent,  \* KeysOfComponent[c]: keys of the artefacts of component c
  CategoryValue,    \* CategoryValue[s]: value of the severity s of the finding configuration
  UpperCase,        \* severities whose id is in upper case
  PageSize, Batch, MaxRounds

VARIABLES
  table,   \* the rows there are
  search,  \* the request and what the client has received so far
  stayed   \* rows that have been there, unchanged, since the search started

searchVars == <<table, search, stayed, faults>>

\* items: how many rows the page has so far; result: the rows of each statement.
SearchOf(pc, req) ==
  [pc |-> pc, req |-> req, cursor |-> None, items |-> 0, rounds |-> 0, result |-> <<>>,
   cut |-> FALSE]
NoSearch == SearchOf("idle", None)

Unique(some) == \A r, s \in some : r.id = s.id => r = s

SearchInit ==
  /\ FaultsInit
  /\ table \in {some \in SUBSET Rows : Unique(some)}
  /\ search = NoSearch
  /\ stayed = table

-----------------------------------------------------------------------------
(* Criteria; None stands for SQL's NULL *)

Negated(x) == IF x = None THEN None ELSE ~x
AnyOf(S) == IF TRUE \in S THEN TRUE ELSE IF None \in S THEN None ELSE FALSE
AllOf(S) == Negated(AnyOf({Negated(x) : x \in S}))
Equals(x, y) == IF x = None \/ y = None THEN None ELSE x = y

\* The components that component c refers to, directly or not; c without `recursive`.
Reachable(c, recursive) ==
  LET reach[n \in 0 .. Cardinality(DOMAIN KeysOfComponent)] ==
        IF n = 0 THEN {c}
        ELSE reach[n-1] \union {ref[2] : ref \in {pair \in References : pair[1] \in reach[n-1]}}
  IN IF recursive THEN reach[Cardinality(DOMAIN KeysOfComponent)] ELSE {c}

\* resolve_component_scope: a component without artefacts is not in the scope.
Scope(criterion) ==
  {c \in Reachable(<<criterion.name, criterion.version>>, criterion.recursive) :
     KeysOfComponent[c] # {}}

\* _pred_for_resolved_ocm_scope, _pred_ocm: a row without component version belongs to the
\* components one of whose artefacts it is about.
InComponent(r, criterion) ==
  IF criterion.version = None THEN Equals(r.name, criterion.name)
  ELSE AnyOf({FALSE} \union UNION {
         {AllOf({Equals(r.name, c[1]), Equals(r.version, c[2])}),
          r.name = c[1] /\ r.version = None /\ r.key \in KeysOfComponent[c]} :
         c \in Scope(criterion)})

\* _categorisation_value_case compares the severity, in upper case, with the ids as they are.
SeverityValue(s) == IF s \in UpperCase THEN CategoryValue[s] ELSE 0

\* _pred_for_artefact_metadata
HasAttribute(r, criterion) ==
  CASE criterion.attr = "created" -> criterion.low <= r.created /\ r.created <= criterion.high
    [] criterion.attr = "severity" -> SeverityValue(r.severity) >= CategoryValue[criterion.value]
    [] criterion.attr = "version" -> Equals(r.version, criterion.value)

Criteria(req, type, mode) == {c \in req.criteria : c.type = type /\ c.mode = mode}

\* Those of one attribute (or of type "ocm") are alternatives; excluded ones are NOT(OR(...)).
OcmClause(req, r) ==
  LET include == Criteria(req, "ocm", "include")
      exclude == Criteria(req, "ocm", "exclude")
  IN AllOf({IF include = {} THEN TRUE ELSE AnyOf({InComponent(r, c) : c \in include}),
            Negated(AnyOf({InComponent(r, c) : c \in exclude}))})

\* _translate_criteria
AttributeClause(req, r) ==
  LET of(mode, attr) ==
        AnyOf({HasAttribute(r, c) : c \in {x \in Criteria(req, "metadata", mode) : x.attr = attr}})
      attrs(mode) == {c.attr : c \in Criteria(req, "metadata", mode)}
  IN AllOf({TRUE} \union {of("include", attr) : attr \in attrs("include")}
                  \union {Negated(of("exclude", attr)) : attr \in attrs("exclude")})

Matches(req, r) == AllOf({OcmClause(req, r), AttributeClause(req, r)}) = TRUE

-----------------------------------------------------------------------------
(* Pages *)

\* The values of the sort fields; the id is the last one.
SortKeys(req, r) == [i \in 1 .. Len(req.fields) |-> r[req.fields[i]]] \o <<r.id>>

\* The rows are finitely many, and the fields to sort by have comparable values, or NULL.
ASSUME SearchAssumption ==
  /\ {PageSize, Batch, MaxRounds} \subseteq Nat \ {0}
  /\ IsFiniteSet(Rows) /\ \A r \in Rows : r.id \in Nat
  /\ None \notin Nat
  /\ \A req \in Requests :
       /\ Len(req.fields) \in Nat
       /\ \A r \in Rows :
            /\ \A i \in 1 .. Len(req.fields) : r[req.fields[i]] \in Nat \union {None}
            /\ SortKeys(req, r) # None

\* ORDER BY: NULL is greater than every value.
Smaller(x, y) == x # None /\ (y = None \/ x < y)
Below(k, l) == \E i \in DOMAIN k : Smaller(k[i], l[i]) /\ \A j \in 1 .. i-1 : k[j] = l[j]
Before(req, r, s) ==
  IF req.desc THEN Below(SortKeys(req, s), SortKeys(req, r))
  ELSE Below(SortKeys(req, r), SortKeys(req, s))

\* Comparison of tuples in SQL: it is not true if a NULL decides.
Less(k, l) ==
  \E i \in DOMAIN k : /\ k[i] # None /\ l[i] # None /\ k[i] < l[i]
                      /\ \A j \in 1 .. i-1 : k[j] # None /\ k[j] = l[j]
\* _cursor_clause
After(req, cursor, r) ==
  \/ cursor = None
  \/ IF req.desc THEN Less(SortKeys(req, r), cursor) ELSE Less(cursor, SortKeys(req, r))

\* The first rows that match, and come after the cursor.
Selected(req, cursor) ==
  LET all == {r \in table : Matches(req, r) /\ After(req, cursor, r)}
  IN {r \in all : Cardinality({s \in all : Before(req, s, r)}) < Batch}

FirstOf(req, some) == CHOOSE r \in some : \A s \in some : s = r \/ Before(req, r, s)
LastOf(req, some) == CHOOSE r \in some : \A s \in some : s = r \/ Before(req, s, r)

\* Rows the finding configuration filters out are not shown.
Shown(some) == {r \in some : ~r.hidden}

\* Mutant: the next page starts after what was read, not after what was returned.
LastRead(req, fetched, r) == SortKeys(req, LastOf(req, fetched))
\* _make_next_cursor, for the last row returned
NextCursor(req, fetched, r) == SortKeys(req, r)

StartSearch(req) ==
  /\ search.pc = "idle"
  /\ Spend("search")
  /\ search' = SearchOf("scan", req)
  /\ stayed' = table
  /\ UNCHANGED table

\* The rows of one statement are added, in the order of the statement.
AddRows(some, pc, cursor, items, rounds, cut) ==
  search' = [pc |-> pc, req |-> search.req, cursor |-> cursor, items |-> items,
             rounds |-> rounds, result |-> Append(search.result, Shown(some)), cut |-> cut]

\* The page is returned, and the client asks for the next one until there is no cursor any more.
ReturnPage(some, cursor, cut) ==
  AddRows(some, IF cursor = None THEN "idle" ELSE "scan", cursor, 0, 0, cut)

\* One statement, and the loop over its rows.
Scan ==
  LET req == search.req
      fetched == Selected(req, search.cursor)
      UpTo(r) == {s \in fetched : s = r \/ Before(req, s, r)}
      Items(some) == search.items + Cardinality(Shown(some))
      full == {r \in fetched : Items(UpTo(r)) >= PageSize}
      last == SortKeys(req, LastOf(req, fetched))
  IN /\ search.pc = "scan"
     /\ \/ fetched = {} /\ ReturnPage({}, None, FALSE)
        \/ /\ full # {}
           /\ LET r == FirstOf(req, full)
              IN ReturnPage(UpTo(r), NextCursor(req, fetched, r), FALSE)
        \/ /\ fetched # {} /\ full = {} /\ search.rounds + 1 < MaxRounds
           /\ AddRows(fetched, "scan", last, Items(fetched), search.rounds + 1, FALSE)
        \/ /\ fetched # {} /\ full = {} /\ search.rounds + 1 = MaxRounds
           /\ IF Items(fetched) = 0 THEN ReturnPage({}, None, TRUE)
              ELSE ReturnPage(fetched, last, FALSE)
     /\ UNCHANGED <<table, stayed, faults>>

\* A row is inserted, replaced or deleted.
Write(r) ==
  /\ search.pc = "scan"
  /\ Spend("write")
  /\ table' \in {table \ {r}, {s \in table : s.id # r.id} \union {r}} \ {table}
  /\ stayed' = stayed \intersect table'
  /\ UNCHANGED search

SearchNext ==
  \/ \E req \in Requests : StartSearch(req)
  \/ Scan
  \/ \E r \in Rows : Write(r)

SearchSpec == SearchInit /\ [][SearchNext]_searchVars

-----------------------------------------------------------------------------
(* Properties *)

IsFinished == search.pc = "idle" /\ search.req # None

\* The values a row is sorted by are not NULL (a cursor skips rows without such a value; if those
\* come first, as in descending order, it skips all rows).
Sortable(req, r) == \A i \in DOMAIN req.fields : r[req.fields[i]] # None

\* Whatever is written meanwhile: the pages contain every row that matches and stays, provided
\* that MAX_ROUNDS batches do not consist of hidden rows only (then the search ends early).
PagesAreComplete ==
  IsFinished /\ ~search.cut /\ (search.req.desc => \A r \in Rows : Sortable(search.req, r)) =>
    \A r \in stayed : Matches(search.req, r) /\ ~r.hidden /\ Sortable(search.req, r)
                        => \E i \in DOMAIN search.result : r \in search.result[i]

\* The pages together are sorted: no statement returns a row, or another version of it, where it
\* was passed already by an earlier one.
ResultsAreSorted ==
  \A i, j \in DOMAIN search.result :
    i < j => \A r \in search.result[i], s \in search.result[j] : Before(search.req, r, s)

PagesAreTheResult == PagesAreComplete /\ ResultsAreSorted
=============================================================================
