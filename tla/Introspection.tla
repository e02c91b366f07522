--------------------------- MODULE Introspection ---------------------------
(* What each adapter reads from a server, as operators of the engine e and of *)
(* the server's contents d: the catalog (get_schema, get_relationships), the  *)
(* statistics, samples, slow operations, sessions, locks and errors. A read   *)
(* yields a result: "ok" with rows, or "raised"; an operation the adapter     *)
(* does not implement is "AttributeError".                                    *)
(*                                                                            *)
(* A name is [w |-> its words, s |-> plural, up |-> written in upper case]; a *)
(* reference [ns, name] stands for the text "ns.name" when ns is not "". d    *)
(* holds default (the schema or database of the profile), tables, keys, slow  *)
(* (one log per node), sessions, locks and errors; the order of its sequences *)
(* is the order in which the server returns them where a query has no         *)
(* ORDER BY. Servers accept the adapters' statements and label the result     *)
(* columns as these are written.                                              *)
EXTENDS Integers, FiniteSets, SequencesExt

CONSTANTS
    MaxSample,   (* rows a sample has at most (1000 in every adapter)         *)
    MaxScan,     (* keys a SCAN collects when no bound is given (20 * 200)    *)
    IdSegments   (* the segments of keys that _ID_SEGMENT_RE matches          *)

ASSUME IntrospectionAssumption ==
    MaxSample \in Nat \ {0} /\ MaxScan \in Nat /\ MaxSample <= MaxScan

Rdb    == {"mysql", "postgresql", "mssql", "tibero"}
Sql    == Rdb \cup {"clickhouse"}
Search == {"elasticsearch", "opensearch"}
Engines == Sql \cup Search \cup {"mongodb", "redis"}

Capability == {"sql", "slow_op", "activity", "error_log", "schema", "stats", "relationship", "sample"}

Capabilities(e) ==
    CASE e \in Rdb          -> Capability
      [] e = "clickhouse"   -> Capability \ {"relationship"}
      [] e = "redis"        -> Capability \ {"sql", "schema", "relationship"}
      [] OTHER              -> Capability \ {"sql", "relationship"}

Supports(e, c) == c \in Capabilities(e)

EngineFamily(e) ==
    CASE e \in Rdb        -> "rdb"
      [] e = "clickhouse" -> "dw"
      [] e = "mongodb"    -> "document"
      [] e = "redis"      -> "keyvalue"
      [] OTHER            -> "search"

-----------------------------------------------------------------------------
Ok(rows)     == [status |-> "ok", rows |-> rows]
Raised       == [status |-> "raised", rows |-> <<>>]
NoSuchMethod == [status |-> "AttributeError", rows |-> <<>>]

NoCount == -1
Lower(n) == [n EXCEPT !.up = FALSE]
Word(w)  == [w |-> <<w>>, s |-> FALSE, up |-> FALSE]
All      == [ns |-> "", name |-> Word("*")]
SmallerOf(m, n) == IF m < n THEN m ELSE n
LargerOf(m, n)  == IF m < n THEN n ELSE m
Map(s, Op(_)) == [i \in DOMAIN s |-> Op(s[i])]

(* The first n elements, and s[:n]: all but the last -n when n is negative. *)
Take(s, n)  == SubSeq(s, 1, SmallerOf(n, Len(s)))
Slice(s, n) == Take(s, IF n < 0 THEN LargerOf(Len(s) + n, 0) ELSE n)

(* The n-th of the numbers in I; the elements of s at the positions in I, in order. *)
Nth(I, n)  == CHOOSE i \in I : Cardinality({j \in I : j <= i}) = n
Pick(s, I) == [n \in 1..Cardinality(I) |-> s[Nth(I, n)]]

(* validate_identifier: a name with a dot is refused. *)
Valid(ref) == ref.ns = ""

Space(d, ns) == IF ns = "" THEN d.default ELSE ns

(* The tables of a namespace that have the name, or all of them. *)
TablesIn(d, ns, ref) ==
    Pick(d.tables, {i \in DOMAIN d.tables :
        d.tables[i].ns = ns /\ ref \in {All, [ns |-> "", name |-> d.tables[i].name]}})

(* The table an operation is about, as a sequence of one or none. *)
Found(d, ns, ref) == Take(TablesIn(d, ns, ref), 1)

Columns(t) == {t.cols[i].name : i \in DOMAIN t.cols}

(* What any catalog is like: it names a table once in a namespace, a column   *)
(* once in a table and once in a key; constraints of a table differ in name,  *)
(* and a foreign key pairs its columns with those of a key (a primary key: no *)
(* other is modelled). The name * is no table's.                              *)
IsSequence(s) == s \in Seq(ToSet(s))

IsReference(ref) == ref = [ns |-> ref.ns, name |-> ref.name] /\ ref.name # All.name

IsForeignKey(d, fk) ==
    /\ IsSequence(fk.cols) /\ IsSequence(fk.refCols) /\ Len(fk.refCols) = Len(fk.cols)
    /\ \E i \in DOMAIN d.tables :
        /\ d.tables[i].ns = fk.refNs /\ d.tables[i].name = fk.ref
        /\ d.tables[i].pk.name = fk.key /\ d.tables[i].pk.cols = fk.refCols

IsTable(d, t) ==
    /\ IsSequence(t.cols) /\ IsSequence(t.pk.cols) /\ IsSequence(t.fks)
    /\ IsSequence(t.indexes) /\ IsSequence(t.rows)
    /\ t.name # All.name
    /\ \A i, j \in DOMAIN t.cols : t.cols[i].name = t.cols[j].name => i = j
    /\ \A i \in DOMAIN t.cols : t.cols[i].type # {}
    /\ \A p, q \in DOMAIN t.pk.cols : t.pk.cols[p] = t.pk.cols[q] => p = q
    /\ \A f \in DOMAIN t.fks : IsForeignKey(d, t.fks[f]) /\ t.fks[f].name # t.pk.name
    /\ \A x \in DOMAIN t.indexes :
        IsSequence(t.indexes[x].cols) /\ IsSequence(t.indexes[x].incl) /\ t.indexes[x].cols # <<>>

IsDatabase(d) ==
    /\ IsSequence(d.tables) /\ IsSequence(d.keys)
    /\ \A i \in DOMAIN d.tables : IsTable(d, d.tables[i])
    /\ \A i, j \in DOMAIN d.tables :
        d.tables[i].ns = d.tables[j].ns /\ d.tables[i].name = d.tables[j].name => i = j

-----------------------------------------------------------------------------
(* get_schema of the SQL engines: rows of a query, one for each column and    *)
(* each match of the join that tells the key columns. isPk[t][c] is the is_pk *)
(* of the rows of column c, as a sequence.                                    *)
KeyColumns(d) ==
    UNION {LET t == d.tables[i] IN
           {[ns |-> t.ns, table |-> t.name, con |-> t.pk.name, col |-> t.pk.cols[p], pos |-> p]
                : p \in DOMAIN t.pk.cols} \cup
           UNION {{[ns |-> t.ns, table |-> t.name, con |-> t.fks[f].name, col |-> t.fks[f].cols[p], pos |-> p]
                : p \in DOMAIN t.fks[f].cols} : f \in DOMAIN t.fks} : i \in DOMAIN d.tables}

SchemaRows(d, ns, ref, counted, isPk) ==
    FlattenSeq(Map(TablesIn(d, Space(d, ns), ref), LAMBDA t :
        FlattenSeq(Map(t.cols, LAMBDA c :
            Map(isPk[t][c.name], LAMBDA pk :
                [ns |-> t.ns, name |-> t.name, comment |-> t.comment,
                 count |-> IF counted THEN t.count ELSE NoCount,
                 field |-> [name |-> c.name, type |-> c.type, comment |-> c.comment, pk |-> pk]])))))

(* An object for each table, in the order of their first rows: its fields are *)
(* those of all its rows, the rest comes from the first.                      *)
RowsToSchemaObjects(rows) ==
    LET Same(i) == {j \in DOMAIN rows : rows[j].ns = rows[i].ns /\ rows[j].name = rows[i].name}
        Fields(i) == Map(Pick(rows, Same(i)), LAMBDA r : r.field)
        Object(i) == [ns |-> rows[i].ns, name |-> rows[i].name, comment |-> rows[i].comment,
                      count |-> rows[i].count, fields |-> Fields(i)]
        firsts == {i \in DOMAIN rows : \A j \in Same(i) : i <= j}
    IN  [n \in 1..Cardinality(firsts) |-> Object(Nth(firsts, n))]

(* A left join: a row for each match, and one without any. *)
LeftJoin(matches) == IF matches = 0 THEN <<FALSE>> ELSE [i \in 1..matches |-> TRUE]

MySQLSchemaAnyKey(d, ns, ref) ==   \* a mutant: COLUMN_KEY is not compared with 'PRI'
    LET isPk == [t \in ToSet(d.tables) |-> [c \in Columns(t) |->
                    <<\E i \in DOMAIN t.indexes : Head(t.indexes[i].cols) = c>>]]
    IN  RowsToSchemaObjects(SchemaRows(d, ns, ref, TRUE, isPk))

MySQLSchema(d, ns, ref) ==
    LET isPk == [t \in ToSet(d.tables) |-> [c \in Columns(t) |-> <<Contains(t.pk.cols, c)>>]]
    IN  RowsToSchemaObjects(SchemaRows(d, ns, ref, TRUE, isPk))

(* The join is by the name of the constraint and of the column alone. *)
PostgreSQLSchema(d, ns, ref) ==
    LET Matches(t, c) == IF t.pk.cols = <<>> THEN {}
                         ELSE {k \in KeyColumns(d) : k.con = t.pk.name /\ k.col = c}
        isPk == [t \in ToSet(d.tables) |-> [c \in Columns(t) |-> LeftJoin(Cardinality(Matches(t, c)))]]
    IN  RowsToSchemaObjects(SchemaRows(d, ns, ref, FALSE, isPk))

(* The join is with every index that has the column in its key. *)
MSSQLSchema(d, ns, ref) ==
    LET Matches(t, c) == {i \in DOMAIN t.indexes : Contains(t.indexes[i].cols, c)}
        isPk == [t \in ToSet(d.tables) |-> [c \in Columns(t) |-> LeftJoin(Cardinality(Matches(t, c)))]]
    IN  RowsToSchemaObjects(SchemaRows(d, ns, ref, FALSE, isPk))

ClickHouseSchema(d, ns, ref) ==
    LET isPk == [t \in ToSet(d.tables) |-> [c \in Columns(t) |-> <<Contains(t.pk.cols, c)>>]]
    IN  RowsToSchemaObjects(SchemaRows(d, ns, ref, TRUE, isPk))

(* The join is by the name of the constraint, whoever owns it; JDBC values    *)
(* come as strings, and bool of a string is True.                             *)
TiberoSchema(d, ns, ref) ==
    LET Matches(t, c) == IF ~Contains(t.pk.cols, c) THEN {}
                         ELSE {i \in DOMAIN d.tables : d.tables[i].pk.name = t.pk.name}
        isPk == [t \in ToSet(d.tables) |-> [c \in Columns(t) |->
                    Map(LeftJoin(Cardinality(Matches(t, c))), LAMBDA joined : TRUE)]]
    IN  RowsToSchemaObjects(SchemaRows(d, ns, ref, TRUE, isPk))

(* The fields of a collection are those of the sampled documents, with all    *)
(* the types seen; a comment comes from the validator ($jsonSchema). The      *)
(* sample (200 documents) is taken to hold them all. A collection that does   *)
(* not exist has no documents and is reported all the same.                   *)
InferFields(rows, props) ==
    LET names == UNION {DOMAIN rows[i] : i \in DOMAIN rows}
        Field(n) == [name |-> n, pk |-> n.w = <<"_id">>,
                     type |-> {rows[i][n].t : i \in {j \in DOMAIN rows : n \in DOMAIN rows[j]}},
                     comment |-> UNION {props[i].comment : i \in {j \in DOMAIN props : props[j].name = n}}]
    IN  Map(SetToSeq(names), Field)

Collection(d, ref) ==
    LET found == Found(d, d.default, ref)
    IN  [ns |-> d.default, name |-> ref.name, comment |-> {},
         count |-> IF found = <<>> THEN 0 ELSE found[1].count,
         fields |-> IF found = <<>> THEN <<>> ELSE InferFields(found[1].rows, found[1].cols)]

MongoDBSchema(d, ref) ==
    IF ref # All THEN <<Collection(d, ref)>>
    ELSE Map(TablesIn(d, d.default, All), LAMBDA t : Collection(d, [ns |-> "", name |-> t.name]))

SearchSchema(d, ref) ==
    Map(TablesIn(d, d.default, ref), LAMBDA t :
        [ns |-> "", name |-> t.name, comment |-> t.comment, count |-> NoCount,
         fields |-> Map(t.cols, LAMBDA c : [name |-> c.name, type |-> c.type, comment |-> c.comment, pk |-> FALSE])])

Schema(e, d, ns, ref) ==
    IF e \in Sql /\ ~Valid(ref) THEN Raised ELSE
    CASE e = "mysql"      -> Ok(MySQLSchema(d, ns, ref))
      [] e = "postgresql" -> Ok(PostgreSQLSchema(d, ns, ref))
      [] e = "mssql"      -> Ok(MSSQLSchema(d, ns, ref))
      [] e = "clickhouse" -> Ok(ClickHouseSchema(d, ns, ref))
      [] e = "tibero"     -> Ok(TiberoSchema(d, ns, ref))
      [] e = "mongodb"    -> Ok(MongoDBSchema(d, ref))
      [] e \in Search     -> IF ref # All /\ Found(d, d.default, ref) = <<>> THEN Raised ELSE Ok(SearchSchema(d, ref))
      [] OTHER            -> NoSuchMethod

-----------------------------------------------------------------------------
(* The statistics of a table: found is the table, as a sequence. The rows of  *)
(* a table that is not there are unknown (None) to some and 0 to others.      *)
CountOr(found, absent) == IF found = <<>> THEN absent ELSE found[1].count
MySQLTableStatistics(found)      == Ok(CountOr(found, NoCount))
PostgreSQLTableStatistics(found) == Ok(CountOr(found, NoCount))
MSSQLTableStatistics(found)      == Ok(CountOr(found, NoCount))
ClickHouseTableStatistics(found) == Ok(CountOr(found, 0))
TiberoTableStatistics(found)     == Ok(CountOr(found, NoCount))
MongoDBTableStatistics(found)    == Ok(CountOr(found, 0))
SearchTableStatistics(found)     == IF found = <<>> THEN Raised ELSE Ok(CountOr(found, 0))

(* The keys of Redis: a pattern matches all of them or the key it spells. A   *)
(* scan stops at its bound, when it has taken a key; 0 is no bound of the     *)
(* caller's.                                                                  *)
KeysMatching(d, ref) ==
    Pick(d.keys, {i \in DOMAIN d.keys : ref = All \/ (Valid(ref) /\ d.keys[i].key = ref.name.w)})
ScanPattern(d, ref, limit) == Take(KeysMatching(d, ref), IF limit = 0 THEN MaxScan ELSE LargerOf(limit, 1))
RedisTableStatistics(d, ref) == Ok(Len(ScanPattern(d, ref, 0)))

TableStatistics(e, d, ns, ref) ==
    LET found == Found(d, IF e \in Sql THEN Space(d, ns) ELSE d.default, ref)
    IN  IF e \in Sql /\ ~Valid(ref) THEN Raised ELSE
        CASE e = "mysql"      -> MySQLTableStatistics(found)
          [] e = "postgresql" -> PostgreSQLTableStatistics(found)
          [] e = "mssql"      -> MSSQLTableStatistics(found)
          [] e = "clickhouse" -> ClickHouseTableStatistics(found)
          [] e = "tibero"     -> TiberoTableStatistics(found)
          [] e = "mongodb"    -> MongoDBTableStatistics(found)
          [] e \in Search     -> SearchTableStatistics(found)
          [] e = "redis"      -> RedisTableStatistics(d, ref)

(* The indexes: PostgreSQL and Tibero do not read their columns, included     *)
(* columns have key_ordinal 0 and so come first in MSSQL, ClickHouse gives    *)
(* its sorting key, the others have none.                                     *)
Indexes(found) == IF found = <<>> THEN <<>> ELSE found[1].indexes
AnIndex(i, cols, used) == [name |-> i.name, cols |-> cols, unique |-> i.unique, used |-> used]
MySQLIndexStatistics(found)      == Map(Indexes(found), LAMBDA i : AnIndex(i, i.cols, NoCount))
PostgreSQLIndexStatistics(found) == Map(Indexes(found), LAMBDA i : AnIndex(i, <<>>, i.used))
MSSQLIndexStatistics(found)      == Map(Indexes(found), LAMBDA i : AnIndex(i, i.incl \o i.cols, i.used))
TiberoIndexStatistics(found)     == Map(Indexes(found), LAMBDA i : AnIndex(i, <<>>, NoCount))
MongoDBIndexStatistics(found)    == Map(Indexes(found), LAMBDA i : AnIndex(i, i.cols, i.used))
ClickHouseIndexStatistics(found) ==
    IF found = <<>> \/ found[1].pk.cols = <<>> THEN <<>>
    ELSE <<AnIndex([name |-> "ORDER BY (sorting key)", unique |-> FALSE], found[1].pk.cols, NoCount)>>

IndexStatistics(e, d, ns, ref) ==
    LET found == Found(d, IF e \in Sql THEN Space(d, ns) ELSE d.default, ref)
    IN  IF e \in Sql /\ ~Valid(ref) THEN Raised ELSE
        CASE e = "mysql"      -> Ok(MySQLIndexStatistics(found))
          [] e = "postgresql" -> Ok(PostgreSQLIndexStatistics(found))
          [] e = "mssql"      -> Ok(MSSQLIndexStatistics(found))
          [] e = "clickhouse" -> Ok(ClickHouseIndexStatistics(found))
          [] e = "tibero"     -> Ok(TiberoIndexStatistics(found))
          [] e = "mongodb"    -> Ok(MongoDBIndexStatistics(found))
          [] OTHER            -> Ok(<<>>)

-----------------------------------------------------------------------------
(* get_relationships: the foreign keys of the tables called names; MSSQL      *)
(* finds them in every schema, the others in the default one.                 *)
ForeignKeys(d, names, anywhere) ==
    UNION {{[t |-> d.tables[i], fk |-> d.tables[i].fks[f]] : f \in DOMAIN d.tables[i].fks}
              : i \in {j \in DOMAIN d.tables : d.tables[j].name \in names
                                               /\ (anywhere \/ d.tables[j].ns = d.default)}}

Declared(t, col, to, toCol) == [from |-> t.name, col |-> col, to |-> to, toCol |-> toCol, by |-> "declared"]
ColumnPairs(k) == {Declared(k.t, k.fk.cols[p], k.fk.ref, k.fk.refCols[p]) : p \in DOMAIN k.fk.cols}

MySQLRelationships(d, names) == UNION {ColumnPairs(k) : k \in ForeignKeys(d, names, FALSE)}
MSSQLRelationships(d, names) == UNION {ColumnPairs(k) : k \in ForeignKeys(d, names, TRUE)}

(* The columns a constraint uses, under the schema of the table they are in. *)
UsedColumns(d) ==
    UNION {LET t == d.tables[i] IN
           {[ns |-> t.ns, table |-> t.name, con |-> t.pk.name, col |-> t.pk.cols[p]] : p \in DOMAIN t.pk.cols} \cup
           UNION {{[ns |-> t.fks[f].refNs, table |-> t.fks[f].ref, con |-> t.fks[f].name, col |-> t.fks[f].refCols[p]]
                : p \in DOMAIN t.fks[f].refCols} : f \in DOMAIN t.fks} : i \in DOMAIN d.tables}

(* Every column of the key with every column it refers to. *)
PostgreSQLRelationships(d, names) ==
    UNION {{Declared(k.t, from.col, to.table, to.col) :
              from \in {x \in KeyColumns(d) : x.con = k.fk.name /\ x.ns = k.t.ns},
              to \in {x \in UsedColumns(d) : x.con = k.fk.name /\ x.ns = k.t.ns}}
          : k \in ForeignKeys(d, names, FALSE)}

(* By the names of the constraints, whoever owns them. *)
TiberoRelationships(d, names) ==
    UNION {{Declared(k.t, pair[1].col, pair[2].table, pair[2].col) :
              pair \in {x \in KeyColumns(d) \X KeyColumns(d) :
                  x[1].con = k.fk.name /\ x[2].con = k.fk.key /\ x[1].pos = x[2].pos}}
          : k \in ForeignKeys(d, names, FALSE)}

Relationships(e, d, asked) ==
    LET names == {asked[i].name : i \in DOMAIN asked}
    IN  IF e \in Rdb /\ \E i \in DOMAIN asked : ~Valid(asked[i]) THEN Raised ELSE
        CASE e = "mysql"      -> Ok(MySQLRelationships(d, names))
          [] e = "mssql"      -> Ok(MSSQLRelationships(d, names))
          [] e = "postgresql" -> Ok(PostgreSQLRelationships(d, names))
          [] e = "tibero"     -> Ok(TiberoRelationships(d, names))
          [] OTHER            -> NoSuchMethod

-----------------------------------------------------------------------------
(* sample_rows: at most n rows. The server refuses a SELECT from a table that *)
(* it does not have and a negative number of rows, but ROWNUM <= -1 selects   *)
(* none. MongoDB draws its documents at random, the first ones stand for      *)
(* them; it refuses $sample of size 0 and knows no missing collection.        *)
FirstRows(found, n) == IF found = <<>> \/ n < 0 THEN Raised ELSE Ok(Take(found[1].rows, n))
MySQLSample(found, n)      == FirstRows(found, n)
PostgreSQLSample(found, n) == FirstRows(found, n)
MSSQLSample(found, n)      == FirstRows(found, n)
ClickHouseSample(found, n) == FirstRows(found, n)
TiberoSample(found, n)     == FirstRows(found, LargerOf(n, 0))
SearchSample(found, n)     == FirstRows(found, n)

MongoDBSample(found, n) ==
    LET IdAsText(row) == [c \in DOMAIN row |-> IF c.w = <<"_id">> THEN [row[c] EXCEPT !.t = "str"] ELSE row[c]]
    IN  IF n <= 0 THEN Raised ELSE Ok(IF found = <<>> THEN <<>> ELSE Map(Take(found[1].rows, n), IdAsText))

RedisSample(keys) ==
    Ok(Map(keys, LAMBDA k : Word("key") :> [t |-> "str", v |-> k.key] @@ Word("type") :> [t |-> "str", v |-> k.type]
                                @@ Word("value") :> [t |-> k.type, v |-> k.fields]))

SampleRows(e, d, ns, ref, limit) ==
    LET n == SmallerOf(limit, MaxSample)
        found == Found(d, IF e \in Sql THEN Space(d, ns) ELSE d.default, ref)
    IN  IF e \in Sql /\ ~Valid(ref) THEN Raised ELSE
        CASE e = "mysql"      -> MySQLSample(found, n)
          [] e = "postgresql" -> PostgreSQLSample(found, n)
          [] e = "mssql"      -> MSSQLSample(found, n)
          [] e = "clickhouse" -> ClickHouseSample(found, n)
          [] e = "tibero"     -> TiberoSample(found, n)
          [] e \in Search     -> SearchSample(found, n)
          [] e = "mongodb"    -> MongoDBSample(found, n)
          [] e = "redis"      -> RedisSample(ScanPattern(d, ref, n))

-----------------------------------------------------------------------------
(* get_slow_operations(min seconds, limit). The MySQL template compares       *)
(* milliseconds with the seconds it is given. A server refuses a negative     *)
(* LIMIT, MSSQL also FETCH NEXT 0; to Tibero it is 0, to MongoDB its absolute *)
(* value, and 0 no limit. Redis asks each node for its latest entries (all of *)
(* them when the count is negative) and drops the short ones afterwards; a    *)
(* search engine only tells which indexes have a threshold.                   *)
Slowest(d, from) ==
    SortSeq(SelectSeq(FlattenSeq(d.slow), LAMBDA o : o.ms >= from), LAMBDA a, b : a.ms > b.ms)

TopOf(ops, limit, least) == IF limit < least THEN Raised ELSE Ok(Take(ops, limit))

MySQLSlow(d, min, limit)      == TopOf(Slowest(d, min), limit, 0)
PostgreSQLSlow(d, min, limit) == TopOf(Slowest(d, 1000 * min), limit, 0)
MSSQLSlow(d, min, limit)      == TopOf(Slowest(d, 1000 * min), limit, 1)
ClickHouseSlow(d, min, limit) == TopOf(Slowest(d, 1000 * min), limit, 0)
TiberoSlow(d, min, limit)     == Ok(Take(Slowest(d, 1000 * min), LargerOf(limit, 0)))
MongoDBSlow(d, min, limit) ==
    Ok(IF limit = 0 THEN Slowest(d, 1000 * min) ELSE Take(Slowest(d, 1000 * min), LargerOf(limit, -limit)))
RedisSlow(d, min, limit) ==
    LET entries == Map(d.slow, LAMBDA node : IF limit < 0 THEN node ELSE Take(node, limit))
    IN  Ok(SelectSeq(FlattenSeq(entries), LAMBDA o : o.ms >= 1000 * min))
SearchSlow(d, min, limit) ==
    Ok(Map(SelectSeq(Slice(TablesIn(d, d.default, All), limit), LAMBDA t : t.slowlog), LAMBDA t : [text |-> <<>>, ms |-> 0]))

SlowOperations(e, d, min, limit) ==
    CASE e = "mysql"      -> MySQLSlow(d, min, limit)
      [] e = "postgresql" -> PostgreSQLSlow(d, min, limit)
      [] e = "mssql"      -> MSSQLSlow(d, min, limit)
      [] e = "clickhouse" -> ClickHouseSlow(d, min, limit)
      [] e = "tibero"     -> TiberoSlow(d, min, limit)
      [] e = "mongodb"    -> MongoDBSlow(d, min, limit)
      [] e = "redis"      -> RedisSlow(d, min, limit)
      [] e \in Search     -> SearchSlow(d, min, limit)

(* get_sessions: what a session runs is SQL text on three engines only, and   *)
(* only the relational ones tell idle sessions apart.                         *)
Session(op, idle) == [op |-> op, idle |-> idle]
MySQLSessions(d)      == Map(d.sessions, LAMBDA s : Session(s.sql, s.idle))
PostgreSQLSessions(d) == Map(d.sessions, LAMBDA s : Session(s.sql, s.idle))
MSSQLSessions(d)      == Map(d.sessions, LAMBDA s : Session(<<>>, s.idle))
TiberoSessions(d)     == Map(d.sessions, LAMBDA s : Session(<<>>, s.idle))
ClickHouseSessions(d) == Map(SelectSeq(d.sessions, LAMBDA s : ~s.idle), LAMBDA s : Session(s.sql, FALSE))
MongoDBSessions(d)    == Map(d.sessions, LAMBDA s : Session(<<>>, FALSE))
RedisSessions(d)      == Map(d.sessions, LAMBDA s : Session(<<>>, FALSE))
SearchSessions(d)     == Map(d.sessions, LAMBDA s : Session(<<>>, FALSE))

Sessions(e, d) ==
    CASE e = "mysql"      -> MySQLSessions(d)
      [] e = "postgresql" -> PostgreSQLSessions(d)
      [] e = "mssql"      -> MSSQLSessions(d)
      [] e = "tibero"     -> TiberoSessions(d)
      [] e = "clickhouse" -> ClickHouseSessions(d)
      [] e = "mongodb"    -> MongoDBSessions(d)
      [] e = "redis"      -> RedisSessions(d)
      [] e \in Search     -> SearchSessions(d)

(* get_locks: pairs of a holder and a waiter. MongoDB and Redis name the      *)
(* waiting session as the holder. The template for Tibero reads v$lock, in    *)
(* which the guard finds the word LOCK.                                       *)
WaiterAsHolder(d) == Map(d.locks, LAMBDA l : [holder |-> l.waiter, waiter |-> NoCount])
MySQLLocks(d)      == Ok(d.locks)
PostgreSQLLocks(d) == Ok(d.locks)
MSSQLLocks(d)      == Ok(d.locks)
TiberoLocks(d)     == Raised
MongoDBLocks(d)    == Ok(WaiterAsHolder(d))
RedisLocks(d)      == Ok(WaiterAsHolder(d))

Locks(e, d) ==
    CASE e = "mysql"      -> MySQLLocks(d)
      [] e = "postgresql" -> PostgreSQLLocks(d)
      [] e = "mssql"      -> MSSQLLocks(d)
      [] e = "tibero"     -> TiberoLocks(d)
      [] e = "mongodb"    -> MongoDBLocks(d)
      [] e = "redis"      -> RedisLocks(d)
      [] OTHER            -> Ok(<<>>)

(* get_errors: d.errors is the log, latest first; MSSQL returns the log as it *)
(* was written, oldest first. Four engines derive one entry from counters.    *)
Counter(code) == [code |-> code, words |-> {}]
MySQLErrors(d)      == d.errors
MSSQLErrors(d)      == Reverse(d.errors)
PostgreSQLErrors(d) == <<Counter("deadlocks")>>
ClickHouseErrors(d) == d.errors
TiberoErrors(d)     == <<>>
RedisErrors(d)      == d.errors
MongoDBErrors(d)    == IF d.errors = <<>> THEN <<>> ELSE <<Counter("command_failed")>>
SearchErrors(d)     == IF d.errors = <<>> THEN <<>> ELSE <<Counter("status")>>

Errors(e, d) ==
    CASE e = "mysql"      -> MySQLErrors(d)
      [] e = "mssql"      -> MSSQLErrors(d)
      [] e = "postgresql" -> PostgreSQLErrors(d)
      [] e = "clickhouse" -> ClickHouseErrors(d)
      [] e = "tibero"     -> TiberoErrors(d)
      [] e = "redis"      -> RedisErrors(d)
      [] e = "mongodb"    -> MongoDBErrors(d)
      [] e \in Search     -> SearchErrors(d)

-----------------------------------------------------------------------------
(* Key patterns of a key-value store as containers (ontology_builder). *)
NormalizeKeyPattern(key) == Map(key, LAMBDA seg : IF seg \in IdSegments THEN "*" ELSE seg)

KeyPatternContainers(d, limit) ==
    LET keys == ScanPattern(d, All, limit)
        Of(p) == {i \in DOMAIN keys : NormalizeKeyPattern(keys[i].key) = p}
    IN  {[ns |-> "", name |-> p, count |-> Cardinality(Of(p)),
          fields |-> UNION {keys[i].fields : i \in {j \in Of(p) : keys[j].type = "hash"}}]
            : p \in {NormalizeKeyPattern(keys[i].key) : i \in DOMAIN keys}}
=============================================================================
