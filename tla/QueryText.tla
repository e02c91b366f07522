----------------------------- MODULE QueryText -----------------------------
(* What the server reads out of the text of a statement: the read-only guard, *)
(* the table names, the columns an index may help and the patterns worth      *)
(* rewriting. A text is a sequence of tokens [k, v, n, q], the ones inside of *)
(* literals too, as the regular expressions see it: k is "word" for keywords, *)
(* names and words of literals, "op" for a comparison, "sign" for dots,       *)
(* quotes, parentheses, numbers and the rest; v is the keyword (ORDER BY and  *)
(* GROUP BY are one) or the sign, n the name a word spells, q whether it      *)
(* stands in a literal, which is the server's business alone. Names are       *)
(* written without quotes.                                                    *)
EXTENDS Introspection

Allowed   == {"WITH", "SELECT", "SHOW", "EXPLAIN", "DESC", "DESCRIBE"}
Forbidden == {"INSERT", "UPDATE", "DELETE", "DROP", "ALTER", "TRUNCATE", "CREATE", "GRANT", "REVOKE",
              "MERGE", "CALL", "EXEC", "EXECUTE", "REPLACE", "LOCK", "UNLOCK", "COPY", "VACUUM",
              "REINDEX", "INTO", "OUTFILE", "DUMPFILE", "RENAME"}

(* assert_readonly_sql: the words are looked for everywhere in the text, in   *)
(* literals and in quoted identifiers too.                                    *)
ReadonlySql(sql) ==
    LET body == IF sql # <<>> /\ Last(sql).v = ";" THEN Front(sql) ELSE sql
    IN  /\ sql # <<>>
        /\ \A i \in DOMAIN body : body[i].v # ";"
        /\ Head(sql).v \in Allowed
        /\ \A i \in DOMAIN sql : sql[i].v \notin Forbidden

IsName(tok) == tok.k = "word"

(* extract_table_names: the name after each FROM and JOIN, without its qualifier. *)
TableRefs(sql) == {j \in 1..Len(sql) - 1 : sql[j].v \in {"FROM", "JOIN"} /\ IsName(sql[j + 1])}
IsQualified(sql, j) == j + 3 \in DOMAIN sql /\ sql[j + 2].v = "." /\ IsName(sql[j + 3])
NameAfter(sql, j) == sql[IF IsQualified(sql, j) THEN j + 3 ELSE j + 1].n
ExtractTableNames(sql) == {NameAfter(sql, j) : j \in TableRefs(sql)}

-----------------------------------------------------------------------------
(* The text after token i up to the first of the given words. *)
Clause(sql, i, stops) ==
    LET ends == {j \in i + 1 .. Len(sql) : sql[j].v \in stops}
    IN  SubSeq(sql, i + 1, IF ends = {} THEN Len(sql) ELSE Min(ends) - 1)

First(sql, word) == SelectInSeq(sql, LAMBDA tok : tok.v = word)

(* The word before a comparison, LIKE or IN: a column, but also the NOT of    *)
(* NOT IN and a word of a literal.                                            *)
ConditionColumns(clause) ==
    {Lower(clause[i].n) : i \in {j \in 1..Len(clause) - 1 :
        IsName(clause[j]) /\ (clause[j + 1].k = "op" \/ clause[j + 1].v \in {"LIKE", "IN"})}}

(* The y of each x.y, found from the left without overlap: of s.x.y it is x.  *)
(* So it is each word with an odd number of qualifiers before it.             *)
QualifiedColumns(clause) ==
    LET Chains(j) == {n \in 1..Len(clause) : 2 * n < j /\ \A m \in 1..n :
                         clause[j - 2 * m + 1].v = "." /\ IsName(clause[j - 2 * m])}
    IN  {Lower(clause[j].n) : j \in {i \in DOMAIN clause : IsName(clause[i]) /\ Cardinality(Chains(i)) % 2 = 1}}

(* After ORDER BY it is every word, the qualifiers of columns included. (An ON *)
(* in the clause of another is no match of its own, but adds nothing new.)     *)
ExtractCandidateColumns(sql) ==
    LET where == First(sql, "WHERE")
        order == First(sql, "ORDER BY")
        Stops == {"WHERE", "JOIN", "GROUP BY", "ORDER BY", "LIMIT"}
        ons   == {i \in DOMAIN sql : sql[i].v = "ON"}
        sorted == IF order = 0 THEN <<>> ELSE Clause(sql, order, {"LIMIT"})
    IN  UNION {IF where = 0 THEN {} ELSE ConditionColumns(Clause(sql, where, Stops \ {"WHERE", "JOIN"})),
               UNION {QualifiedColumns(Clause(sql, i, Stops)) \cup ConditionColumns(Clause(sql, i, Stops)) : i \in ons},
               {Lower(sorted[i].n) : i \in {j \in DOMAIN sorted : IsName(sorted[j]) /\ sorted[j].v \notin {"ASC", "DESC"}}}}

(* The patterns of query_rewriter. *)
Issues(sql) ==
    LET Follows(i, v) == i < Len(sql) /\ sql[i + 1].v = v
        where == First(sql, "WHERE")
    IN  {issue \in {"select_star", "function_on_column", "or_condition", "unnecessary_distinct"} :
            CASE issue = "select_star" -> \E i \in DOMAIN sql : sql[i].v = "SELECT" /\ Follows(i, "*")
              [] issue = "function_on_column" -> \E i \in DOMAIN sql :
                    sql[i].v \in {"WHERE", "AND", "OR"} /\ i < Len(sql) /\ IsName(sql[i + 1]) /\ Follows(i + 1, "(")
              [] issue = "or_condition" -> where # 0 /\ \E i \in where..Len(sql) : sql[i].v = "OR"
              [] issue = "unnecessary_distinct" -> \E i \in DOMAIN sql : sql[i].v = "DISTINCT"}

-----------------------------------------------------------------------------
(* What a server makes of a statement: it refuses one about a table it does   *)
(* not have; the rows are those of the first table read (the conditions of    *)
(* the statement are left out).                                               *)
Read(d, sql) ==
    LET reads == {j \in TableRefs(sql) : ~sql[j].q}
        SpaceOf(j) == IF IsQualified(sql, j) THEN Head(sql[j + 1].n.w) ELSE d.default
        Tables(j) == TablesIn(d, SpaceOf(j), [ns |-> "", name |-> NameAfter(sql, j)])
    IN  CASE reads = {} -> Ok(<<>>)
          [] \E j \in reads : Tables(j) = <<>> -> Raised
          [] OTHER -> Ok(Tables(Min(reads))[1].rows)

ExecuteReadonly(e, d, sql) ==
    IF e \notin Sql THEN NoSuchMethod
    ELSE IF ReadonlySql(sql) THEN Read(d, sql) ELSE Raised

(* explain: MSSQL and Tibero run the statement as it is given, the others     *)
(* send it behind the word EXPLAIN, so that the guard sees that word first.   *)
Explain(e, d, sql) ==
    CASE e \notin Sql -> NoSuchMethod
      [] e \in {"mssql", "tibero"} -> IF ReadonlySql(sql) THEN Read(d, sql) ELSE Raised
      [] OTHER -> IF ReadonlySql(<<[k |-> "word", v |-> "EXPLAIN", n |-> Word("explain"), q |-> FALSE]>> \o sql)
                  THEN Read(d, sql) ELSE Raised
=============================================================================
