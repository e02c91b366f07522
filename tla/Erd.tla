-------------------------------- MODULE Erd --------------------------------
(* The relationships erd_builder infers for a list of tables, each a schema   *)
(* object [ns, name, comment, count, fields]; comments are sets of tokens.    *)
EXTENDS Introspection

FkSuffixes == {"id", "cd", "code", "no"}
MinCommentOverlap == 2
NoTable == [w |-> <<>>, s |-> FALSE, up |-> FALSE]

CellsOf(tables) ==
    UNION {{[table |-> tables[i].name, c |-> tables[i].fields[j]] : j \in DOMAIN tables[i].fields}
             : i \in DOMAIN tables}

(* pk_column_index: the last table of the list that has a key column of that name. *)
PkTable(tables, name) ==
    LET owners == {i \in DOMAIN tables : \E j \in DOMAIN tables[i].fields :
                      tables[i].fields[j].pk /\ Lower(tables[i].fields[j].name) = name}
    IN  IF owners = {} THEN NoTable ELSE tables[Max(owners)].name

(* pk_column_by_table, with "id" for a table without a key. *)
PkColumn(tables, name) ==
    LET fields == tables[Max({i \in DOMAIN tables : tables[i].name = name})].fields
        keys == {j \in DOMAIN fields : fields[j].pk}
    IN  IF keys = {} THEN Word("id") ELSE fields[Max(keys)].name

CommentTokens(t) == t.comment \cup UNION {t.fields[i].comment : i \in DOMAIN t.fields}

(* _find_matching_table: table_names is a set, so the order in which its      *)
(* members are tried is arbitrary; it is a parameter.                         *)
FindMatchingTable(candidate, order) ==
    LET Matches(n) == n = [candidate EXCEPT !.s = TRUE] \/
                      (n.s = candidate.s /\ n.up = candidate.up /\ IsStrictSuffix(candidate.w, n.w))
        i == SelectInSeq(order, LAMBDA n : Matches(n))
    IN  IF Contains(order, candidate) THEN candidate ELSE IF i = 0 THEN NoTable ELSE order[i]

MatchBySuffix(name, from, order) ==
    LET found == FindMatchingTable([name EXCEPT !.w = Front(@)], order)
    IN  IF Len(name.w) > 1 /\ ~name.s /\ Last(name.w) \in FkSuffixes /\ found # from
        THEN found ELSE NoTable

(* The first table whose comments share the most tokens, two at least. *)
MatchByComment(comment, from, tables) ==
    LET Overlap(i) == Cardinality(comment \cap CommentTokens(tables[i]))
        others == {i \in DOMAIN tables : tables[i].name # from}
        best == {i \in others : Overlap(i) >= MinCommentOverlap
                                    /\ \A j \in others : Overlap(j) <= Overlap(i)}
    IN  IF best = {} THEN NoTable ELSE tables[Min(best)].name

(* A key of another table of that name, then the name without its suffix,     *)
(* then the comment; a key of the table itself ends the search.               *)
InferTarget(tables, from, c, order) ==
    LET byKey  == PkTable(tables, Lower(c.name))
        byName == IF byKey # NoTable THEN byKey ELSE MatchBySuffix(Lower(c.name), from, order)
    IN  IF byName # NoTable THEN [to |-> byName, by |-> "name"]
        ELSE [to |-> MatchByComment(c.comment, from, tables), by |-> "comment"]

InferRelationships(tables, order) ==
    LET Target(x) == InferTarget(tables, x.table, x.c, order)
    IN  {[from |-> x.table, col |-> x.c.name, to |-> Target(x).to, toCol |-> PkColumn(tables, Target(x).to),
          by |-> Target(x).by]
            : x \in {y \in CellsOf(tables) : ~y.c.pk /\ Target(y).to \notin {NoTable, y.table}}}

MergeEverything(family, tables, declared, order) ==   \* a mutant: no test for declared columns
    declared \cup (IF family \notin {"rdb", "dw", "document"} THEN {} ELSE InferRelationships(tables, order))

(* The declared relationships, and the inferred ones of the columns that have none. *)
MergeRelationships(family, tables, declared, order) ==
    LET taken == {<<r.from, r.col>> : r \in declared}
    IN  declared \cup
        IF family \notin {"rdb", "dw", "document"} THEN {}
        ELSE {r \in InferRelationships(tables, order) : <<r.from, r.col>> \notin taken}
=============================================================================
