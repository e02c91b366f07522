------------------------------- MODULE Tools -------------------------------
(* The tools of the MCP server that answer from a database: each is an action *)
(* that makes every read of the tool and leaves its answer. The database is   *)
(* not the server's own: its catalog may change (ALTER TABLE) between two     *)
(* calls and between two reads of a call, so the first reads see one state d  *)
(* of the database and the last ones a state later. Source and target of a    *)
(* pipeline are the same connection.                                          *)
EXTENDS Erd, QueryText

CONSTANTS
    DbTypes,         (* the engines a connection may have                     *)
    Databases,       (* the states of the database, as a sequence             *)
    SQLs,            (* the statements the tools are given, <<>> for none     *)
    Refs,            (* the table names they are given                        *)
    Scopes,          (* the scopes of get_table_relationships: [ns, limit,    *)
                     (* tables], by namespace when ns is not ""               *)
    Limits,          (* the limits they are given, negative ones among them   *)
    Patterns,        (* patterns.json: a sequence of [freq, objects]          *)
    Scores,          (* the similarities of a question to a pattern           *)
    KeySampleLimit,  (* _KEY_SAMPLE_LIMIT (500)                               *)
    MaxRows,         (* _MAX_LIMIT of the executor, MAX_SAMPLE_LIMIT (1000)   *)
    MaxSlow          (* _MAX_LIMIT of slow_query_list (100)                   *)

ASSUME ToolsAssumption ==
    /\ 1 \in DOMAIN Databases
    /\ DbTypes \subseteq Engines
    /\ Limits \subseteq Int
    /\ {KeySampleLimit, MaxRows, MaxSlow} \subseteq Nat \ {0}

ASSUME CatalogAssumption ==
    /\ \A s \in DOMAIN Databases : IsDatabase(Databases[s])
    /\ \A ref \in Refs : IsReference(ref)
    /\ \A scope \in Scopes :
        /\ scope.limit \in Int /\ IsSequence(scope.tables)
        /\ \A i \in DOMAIN scope.tables : IsReference(scope.tables[i])
    /\ \A sql \in SQLs : IsSequence(sql)

VARIABLES
    engine,   (* db_type of the connection                                   *)
    answer    (* the answer the client holds: tool, arguments, the tables    *)
              (* handed to _refresh_stale_tables, status, data, and the      *)
              (* states of the database it was read from                     *)

vars == <<engine, answer>>

States == DOMAIN Databases
NoPlan == [source |-> All]
NoAnswer == [tool |-> "none", args |-> <<>>, refresh |-> {}, status |-> "none", data |-> <<>>, from |-> 1, to |-> 1]
Empty == [w |-> <<>>, s |-> FALSE, up |-> FALSE]
Plain(n) == [ns |-> "", name |-> n]

Unsupported == [status |-> "CAPABILITY_NOT_SUPPORTED", rows |-> <<>>]
Refused(why) == [status |-> why, rows |-> <<>>]

Respond(tool, args, refresh, result, d, later) ==
    /\ answer' = [tool |-> tool, args |-> args, refresh |-> refresh, status |-> result.status,
                  data |-> result.rows, from |-> d, to |-> later]
    /\ UNCHANGED engine

-----------------------------------------------------------------------------
(* analyzer: sessions, locks, errors, slow operations, statistics *)
GetSessions(e, d, status) ==
    IF ~Supports(e, "activity") THEN Unsupported
    ELSE Ok(SelectSeq(Sessions(e, d), LAMBDA s : status = "all" \/ s.idle = (status = "idle")))

GetLocks(e, d) == IF ~Supports(e, "activity") THEN Unsupported ELSE Locks(e, d)

(* error is a word of the user's message, or "" *)
ErrorAnalyze(e, d, error) ==
    LET errors == Errors(e, d)
        i == IF error = "" THEN (IF errors = <<>> THEN 0 ELSE 1)
             ELSE SelectInSeq(errors, LAMBDA x : error \in x.words)
    IN  IF ~Supports(e, "error_log") \/ ~Supports(e, "activity") THEN Unsupported
        ELSE IF Locks(e, d).status # "ok" THEN Locks(e, d)
        ELSE Ok([code |-> IF i = 0 THEN "" ELSE errors[i].code,
                 running |-> SelectSeq(Map(Sessions(e, d), LAMBDA s : s.op), LAMBDA op : op # <<>>),
                 locks |-> Locks(e, d).rows,
                 slow |-> IF Supports(e, "slow_op") THEN SlowOperations(e, d, 1, 20).rows ELSE <<>>])

SlowQueryList(e, d, min, limit) ==
    IF ~Supports(e, "slow_op") THEN Unsupported
    ELSE SlowOperations(e, d, min, SmallerOf(limit, MaxSlow))

GetTableStatistics(e, d, ns, ref) ==
    IF Supports(e, "stats") THEN TableStatistics(e, d, ns, ref) ELSE Unsupported
GetIndexStatistics(e, d, ns, ref) ==
    IF Supports(e, "stats") THEN IndexStatistics(e, d, ns, ref) ELSE Unsupported

LeadingColumnsAsWritten(indexes) ==   \* a mutant: the case is kept
    {Head(indexes[i].cols) : i \in {j \in DOMAIN indexes : indexes[j].cols # <<>>}}

LeadingColumns(indexes) ==
    {Lower(Head(indexes[i].cols)) : i \in {j \in DOMAIN indexes : indexes[j].cols # <<>>}}

IndexRecommend(e, d, ref, sql) ==
    LET existing   == IndexStatistics(e, d, "", ref)
        candidates == IF sql # <<>> /\ Supports(e, "sql") THEN ExtractCandidateColumns(sql) ELSE {}
    IN  IF ~Supports(e, "stats") THEN Unsupported
        ELSE IF existing.status # "ok" THEN existing
        ELSE Ok([missing |-> candidates \ LeadingColumns(existing.rows),
                 unused  |-> {existing.rows[i].name : i \in {j \in DOMAIN existing.rows : existing.rows[j].used = 0}},
                 plan    |-> IF sql # <<>> /\ Supports(e, "sql") THEN Explain(e, d, sql).status ELSE "none"])

QueryRewriteSuggest(e, d, sql) ==
    IF ~Supports(e, "sql") THEN Unsupported
    ELSE Ok([issues |-> Issues(sql), plan |-> Explain(e, d, sql).status])

QueryExplain(e, d, sql, analyze) ==
    IF ~Supports(e, "sql") THEN Unsupported
    ELSE IF analyze THEN Refused("REQUIRES_EXPLICIT_APPROVAL")
    ELSE Explain(e, d, sql)

-----------------------------------------------------------------------------
(* catalog and pipeline *)
GetSchemaUnchecked(e, d, ns) == Schema(e, d, ns, All)   \* a mutant: no test of the capability
GetSchemaTool(e, d, ns) == IF Supports(e, "schema") THEN Schema(e, d, ns, All) ELSE Unsupported

(* A count the catalog does not give is asked for table by table. *)
ListRawSources(e, d, later, ns) ==
    LET objects == Schema(e, d, ns, All)
        Count(o) == IF o.count # NoCount THEN o.count
                    ELSE LET stats == TableStatistics(e, later, o.ns, Plain(o.name))
                         IN  IF stats.status = "ok" THEN stats.rows ELSE NoCount
    IN  IF ~Supports(e, "schema") THEN Unsupported
        ELSE IF objects.status # "ok" THEN objects
        ELSE Ok(Map(objects.rows, LAMBDA o : [ref |-> [ns |-> o.ns, name |-> o.name], count |-> Count(o)]))

SensitiveAsWritten(n) ==   \* a mutant: the name is not put in lower case
    ~n.up /\ \E i \in DOMAIN n.w : n.w[i] \in {"password", "email", "phone"}

Sensitive(n) ==
    \/ \E i \in DOMAIN n.w : n.w[i] \in {"password", "passwd", "secret", "token", "ssn", "resident", "email", "phone"}
    \/ \E i \in 1..Len(n.w) - 1 : n.w[i] = "card" /\ n.w[i + 1] = "no"

Masked(rows, columns) ==
    Map(rows, LAMBDA row : [c \in DOMAIN row |-> IF c \in columns THEN [t |-> "mask", v |-> "***"] ELSE row[c]])

ProfileData(e, d, ref, limit) ==
    LET sample  == SampleRows(e, d, "", ref, SmallerOf(limit, MaxRows))
        rows    == sample.rows
        columns == UNION {DOMAIN rows[i] : i \in DOMAIN rows}
        Having(c) == {i \in DOMAIN rows : c \in DOMAIN rows[i] /\ rows[i][c].t # "null"}
    IN  IF ~Supports(e, "sample") THEN Unsupported
        ELSE IF sample.status # "ok" THEN sample
        ELSE Ok([nulls    |-> [c \in columns |-> Len(rows) - Cardinality(Having(c))],
                 distinct |-> [c \in columns |-> Cardinality({rows[i][c] : i \in Having(c)})
                                   + (IF Cardinality(Having(c)) < Len(rows) THEN 1 ELSE 0)],
                 rows     |-> Masked(rows, {c \in columns : Sensitive(c)})])

ByName(fields) ==   \* a mutant: names are compared as they are written
    [n \in {fields[i].name : i \in DOMAIN fields} |->
        fields[Max({i \in DOMAIN fields : fields[i].name = n})]]

(* {f.name.lower(): f}: of two fields that differ in case the later stays. *)
ByLowerName(fields) ==
    [n \in {Lower(fields[i].name) : i \in DOMAIN fields} |->
        fields[Max({i \in DOMAIN fields : Lower(fields[i].name) = n})]]

Incremental(n) ==
    \E i \in 1..Len(n.w) - 1 : SubSeq(n.w, i, i + 1) \in
        {<<"updated", "at">>, <<"modified", "at">>, <<"created", "at">>, <<"created", "time">>, <<"update", "time">>}

(* _container_name: what stands before the last dot is dropped. *)
ContainerName(ref) == Plain(ref.name)

(* The plan for two containers that have been read: from and to are their fields. *)
PlanOf(source, target, from, to) ==
    LET S == ByLowerName(from)
        T == ByLowerName(to)
        Cast(n) == S[n].type # {} /\ T[n].type # {} /\ S[n].type # T[n].type
    IN  [source   |-> source, target |-> target,
         mapping  |-> {[col |-> S[n].name, to |-> T[n].name, cast |-> Cast(n)] : n \in DOMAIN S \cap DOMAIN T},
         unmapped |-> {S[n].name : n \in DOMAIN S \ DOMAIN T},
         mode     |-> IF \E n \in DOMAIN S : Incremental(n) THEN "incremental" ELSE "full"]

GeneratePipelinePlan(e, d, later, source, target) ==
    LET from == Schema(e, d, "", ContainerName(source))
        to   == Schema(e, later, "", ContainerName(target))
    IN  IF ~Supports(e, "schema") THEN Unsupported
        ELSE IF from.status # "ok" THEN from
        ELSE IF to.status # "ok" THEN to
        ELSE IF from.rows = <<>> \/ to.rows = <<>> THEN Refused("OBJECT_NOT_FOUND")
        ELSE Ok(PlanOf(ContainerName(source), ContainerName(target), from.rows[1].fields, to.rows[1].fields))

Castable(value, type) ==
    IF "int" \in type THEN value.t \in {"int", "num"} ELSE "num" \notin type \/ value.t \in {"int", "num"}

ValidatePipeline(e, d, later, p, limit) ==
    LET sample == SampleRows(e, d, "", p.source, SmallerOf(limit, MaxRows))
        target == IF Supports(e, "schema") THEN Schema(e, later, "", p.target) ELSE Ok(<<>>)
        fields == IF target.rows = <<>> THEN <<>> ELSE target.rows[1].fields
        Field(n) == LET i == SelectLastInSeq(fields, LAMBDA f : f.name = n)
                    IN  IF i = 0 THEN [pk |-> FALSE, type |-> {}] ELSE fields[i]
        Null(row, c) == c \notin DOMAIN row \/ row[c].t = "null"
        Rows(P(_)) == Cardinality({i \in DOMAIN sample.rows : P(sample.rows[i])})
        stats == TableStatistics(e, later, "", p.source)
    IN  IF ~Supports(e, "sample") THEN Unsupported
        ELSE IF p = NoPlan THEN Refused("INVALID_PLAN")
        ELSE IF sample.status # "ok" THEN sample
        ELSE IF target.status # "ok" THEN target
        ELSE Ok([
                nulls |-> [m \in {x \in p.mapping : Field(x.to).pk} |-> Rows(LAMBDA row : Null(row, m.col))],
                casts |-> [m \in {x \in p.mapping : x.cast} |->
                            Rows(LAMBDA row : ~Null(row, m.col) /\ ~Castable(row[m.col], Field(m.to).type))],
                count |-> IF Supports(e, "stats") /\ stats.status = "ok" /\ stats.rows # NoCount
                          THEN stats.rows ELSE Len(sample.rows)])

(* get_table_relationships: the tables asked for, read one by one, then their *)
(* declared relationships. scope is a sequence of names, or a namespace; order *)
(* is that in which the names of tables are tried.                            *)
ResolveScope(e, d, scope) ==
    IF scope.ns = "" THEN scope.tables
    ELSE Map(Slice(Schema(e, d, scope.ns, All).rows, scope.limit), LAMBDA o : Plain(o.name))

GetTableRelationships(e, d, later, scope, order) ==
    LET asked    == ResolveScope(e, d, scope)
        reads    == Map(asked, LAMBDA r : Schema(e, d, "", r))
        tables   == FlattenSeq(Map(reads, LAMBDA r : r.rows))
        names    == Pick(order, {i \in DOMAIN order : \E j \in DOMAIN tables : tables[j].name = order[i]})
        declared == IF Supports(e, "relationship") THEN Relationships(e, later, asked) ELSE Ok({})
    IN  IF ~Supports(e, "schema") THEN Unsupported
        ELSE IF asked = <<>> THEN Ok([tables |-> <<>>, rels |-> {}])
        ELSE IF \E r \in ToSet(reads) : r.status # "ok" THEN CHOOSE r \in ToSet(reads) : r.status # "ok"
        ELSE IF declared.status # "ok" THEN declared
        ELSE Ok([tables |-> tables,
                 rels |-> MergeRelationships(EngineFamily(e), tables, declared.rows, names)])

(* What build_ontology_index stores: one document per container. *)
OntologyDocuments(e, d) ==
    LET objects == Schema(e, d, "", All)
    IN  IF ~Supports(e, "schema") THEN
            IF Supports(e, "sample") THEN Ok(KeyPatternContainers(d, KeySampleLimit)) ELSE Unsupported
        ELSE IF objects.status # "ok" THEN objects
        ELSE Ok({[ns |-> o.ns, name |-> o.name, fields |-> o.fields] : o \in ToSet(objects.rows)})

-----------------------------------------------------------------------------
(* query_builder and learning. A limit is cut off at the top only: it may be  *)
(* negative, and the slice then drops that many rows from the end.            *)
ExecuteReadonlyQuery(e, d, sql, limit, mask) ==
    LET result == ExecuteReadonly(e, d, sql)
        n == SmallerOf(limit, MaxRows)
    IN  IF ~Supports(e, "sql") THEN Unsupported
        ELSE IF result.status # "ok" THEN result
        ELSE Ok([rows |-> Masked(Slice(result.rows, n), mask), truncated |-> Len(result.rows) > n])

FindQueryPattern(score, topK, min) ==
    LET ranked == SortSeq([i \in DOMAIN Patterns |-> i], LAMBDA i, j : score[i] > score[j])
    IN  Ok(SelectSeq(Slice(ranked, topK), LAMBDA i : score[i] >= min))

GetQueryPatterns(limit, object) ==
    Ok(Slice(SortSeq(SelectSeq(Patterns, LAMBDA p : object = Empty \/ object \in p.objects),
                     LAMBDA p, q : p.freq > q.freq), limit))

-----------------------------------------------------------------------------
Init == engine \in DbTypes /\ answer = NoAnswer

Idle == answer = NoAnswer

(* What a tool may be asked about: on Redis a key pattern, which * is, too. *)
Askable == Refs \cup (IF engine = "redis" THEN {All} ELSE {})

TablesOf(texts) == UNION {ExtractTableNames(texts[i]) : i \in DOMAIN texts}

slow_query_list ==
    /\ Idle
    /\ \E d \in States, min \in {0, 1}, limit \in Limits :
        LET r == SlowQueryList(engine, Databases[d], min, limit)
        IN  Respond("slow_query_list", <<min, limit>>, TablesOf(Map(r.rows, LAMBDA o : o.text)), r, d, d)

db_error_analyze ==
    /\ Idle
    /\ \E d \in States, error \in {"", "timeout"} :
        LET r == ErrorAnalyze(engine, Databases[d], error)
        IN  Respond("db_error_analyze", <<error>>, IF r.status = "ok" THEN TablesOf(r.rows.running) ELSE {}, r, d, d)

get_sessions ==
    /\ Idle
    /\ \E d \in States, status \in {"running", "idle", "all"} :
        Respond("get_sessions", <<status>>, {}, GetSessions(engine, Databases[d], status), d, d)

get_locks ==
    /\ Idle
    /\ \E d \in States : Respond("get_locks", <<>>, {}, GetLocks(engine, Databases[d]), d, d)

get_table_statistics ==
    /\ Idle
    /\ \E d \in States, ref \in Askable, schema \in {r.ns : r \in Refs} :
        Respond("get_table_statistics", <<ref, schema>>, {ref.name},
                GetTableStatistics(engine, Databases[d], schema, ref), d, d)

get_index_statistics ==
    /\ Idle
    /\ \E d \in States, ref \in Askable, schema \in {r.ns : r \in Refs} :
        Respond("get_index_statistics", <<ref, schema>>, {ref.name},
                GetIndexStatistics(engine, Databases[d], schema, ref), d, d)

index_recommend ==
    /\ Idle
    /\ \E d \in States, ref \in Askable, sql \in SQLs :
        Respond("index_recommend", <<ref, sql>>, {ref.name} \cup ExtractTableNames(sql),
                IndexRecommend(engine, Databases[d], ref, sql), d, d)

query_rewrite_suggest ==
    /\ Idle
    /\ \E d \in States, sql \in SQLs :
        Respond("query_rewrite_suggest", <<sql>>, ExtractTableNames(sql),
                QueryRewriteSuggest(engine, Databases[d], sql), d, d)

query_explain ==
    /\ Idle
    /\ \E d \in States, sql \in SQLs, analyze \in BOOLEAN :
        Respond("query_explain", <<sql, analyze>>,
                IF Supports(engine, "sql") /\ ~analyze THEN ExtractTableNames(sql) ELSE {},
                QueryExplain(engine, Databases[d], sql, analyze), d, d)

execute_readonly_query ==
    /\ Idle
    /\ \E d \in States, sql \in SQLs, limit \in Limits, mask \in {{}, {Word("email")}} :
        Respond("execute_readonly_query", <<sql, limit, mask>>, ExtractTableNames(sql),
                ExecuteReadonlyQuery(engine, Databases[d], sql, limit, mask), d, d)

get_schema ==
    /\ Idle
    /\ \E d \in States, ns \in {r.ns : r \in Refs} :
        Respond("get_schema", <<ns>>, {}, GetSchemaTool(engine, Databases[d], ns), d, d)

list_raw_sources ==
    /\ Idle
    /\ \E d \in States, later \in States, ns \in {r.ns : r \in Refs} :
        Respond("list_raw_sources", <<ns>>, {}, ListRawSources(engine, Databases[d], Databases[later], ns), d, later)

profile_data ==
    /\ Idle
    /\ \E d \in States, ref \in Askable, limit \in Limits :
        Respond("profile_data", <<ref, limit>>, {ref.name}, ProfileData(engine, Databases[d], ref, limit), d, d)

generate_pipeline_plan ==
    /\ Idle
    /\ \E d \in States, later \in States, source \in Refs, target \in Refs :
        Respond("generate_pipeline_plan", <<source, target>>, {},
                GeneratePipelinePlan(engine, Databases[d], Databases[later], source, target), d, later)

(* The client hands in the plan it has just been given, or something else. *)
validate_pipeline ==
    /\ Idle \/ answer.tool = "generate_pipeline_plan"
    /\ \E d \in States, later \in States, limit \in Limits :
        LET p == IF answer.tool = "generate_pipeline_plan" /\ answer.status = "ok" THEN answer.data ELSE NoPlan
        IN  Respond("validate_pipeline", <<limit>>, {},
                    ValidatePipeline(engine, Databases[d], Databases[later], p, limit), d, later)

get_table_relationships ==
    /\ Idle
    /\ \E d \in States, later \in States, scope \in Scopes :
        \E order \in SetToSeqs({Databases[d].tables[i].name : i \in DOMAIN Databases[d].tables}) :
            Respond("get_table_relationships", <<scope>>, {},
                    GetTableRelationships(engine, Databases[d], Databases[later], scope, order), d, later)

build_ontology_index ==
    /\ Idle
    /\ \E d \in States : Respond("build_ontology_index", <<>>, {}, OntologyDocuments(engine, Databases[d]), d, d)

find_query_pattern ==
    /\ Idle
    /\ \E score \in [DOMAIN Patterns -> Scores], topK \in Limits, min \in Scores :
        Respond("find_query_pattern", <<score, topK, min>>, {}, FindQueryPattern(score, topK, min), 1, 1)

get_query_patterns ==
    /\ Idle
    /\ \E limit \in Limits, object \in {Empty} \cup {r.name : r \in Refs} :
        Respond("get_query_patterns", <<limit, object>>, {}, GetQueryPatterns(limit, object), 1, 1)

(* The client has read the answer; what it keeps of it are arguments of later calls. *)
NextCall == ~Idle /\ answer' = NoAnswer /\ UNCHANGED engine

Next ==
    \/ slow_query_list \/ db_error_analyze \/ get_sessions \/ get_locks
    \/ get_table_statistics \/ get_index_statistics \/ index_recommend \/ query_rewrite_suggest
    \/ query_explain \/ execute_readonly_query
    \/ get_schema \/ list_raw_sources \/ profile_data
    \/ generate_pipeline_plan \/ validate_pipeline
    \/ get_table_relationships \/ build_ontology_index
    \/ find_query_pattern \/ get_query_patterns
    \/ NextCall

Spec == Init /\ [][Next]_vars
-----------------------------------------------------------------------------
Database == Databases[answer.from]
Later    == Databases[answer.to]
Answered(tool) == answer.tool = tool /\ answer.status = "ok"
UniqueKeyNames(d) ==
    \A x, y \in KeyColumns(d) : x.con = y.con => x.ns = y.ns /\ x.table = y.table

(* Every tool ends in one of the answers it documents or in the error of a    *)
(* read; none calls an operation its engine does not have (AttributeError).   *)
TypeOK ==
    /\ engine \in DbTypes
    /\ {answer.from, answer.to} \subseteq States
    /\ answer.status \in {"none", "ok", "raised", "CAPABILITY_NOT_SUPPORTED", "OBJECT_NOT_FOUND",
                          "INVALID_PLAN", "REQUIRES_EXPLICIT_APPROVAL"}
    /\ (answer.status = "none") = Idle

(* What get_schema says of a namespace is its catalog: each table once and in *)
(* order (a table without columns has no rows to be rebuilt from), with its   *)
(* columns in order and its key columns marked, although the adapter rebuilds *)
(* it from flat rows of joins. PostgreSQL joins by the name of the key alone, *)
(* so there no two tables may share one; the joins of MSSQL and Tibero do not *)
(* find the key at all.                                                       *)
SchemaIsCatalog ==
    Answered("get_schema") /\ (engine \in {"mysql", "clickhouse"} \/ (engine = "postgresql" /\ UniqueKeyNames(Database))) =>
        LET space == Space(Database, answer.args[1])
            tables == Pick(Database.tables, {i \in DOMAIN Database.tables :
                          Database.tables[i].ns = space /\ Database.tables[i].cols # <<>>})
        IN  /\ Len(answer.data) = Len(tables)
            /\ \A i \in DOMAIN tables :
                /\ answer.data[i].name = tables[i].name /\ answer.data[i].ns = space
                /\ Len(answer.data[i].fields) = Len(tables[i].cols)
                /\ \A j \in DOMAIN tables[i].cols :
                    LET c == tables[i].cols[j]
                    IN  answer.data[i].fields[j] = [name |-> c.name, type |-> c.type, comment |-> c.comment,
                                                    pk |-> Contains(tables[i].pk.cols, c.name)]

Named == {answer.data.tables[i].name : i \in DOMAIN answer.data.tables}

NamesAsked ==
    IF answer.args[1].ns # "" THEN Named
    ELSE {answer.args[1].tables[i].name : i \in DOMAIN answer.args[1].tables}

(* The foreign keys that get_relationships finds: PostgreSQL's query looks    *)
(* for the referenced columns in the schema of the table that refers to them  *)
(* (postgresql.py:290-291) and so loses a key that leads to another schema.   *)
IsJoined(t, fk) == engine = "postgresql" => fk.refNs = t.ns

DeclaredAreThere ==
    engine \in Rdb =>
        \A i \in DOMAIN Later.tables :
            Later.tables[i].ns = Later.default /\ Later.tables[i].name \in NamesAsked =>
                \A f \in DOMAIN Later.tables[i].fks : IsJoined(Later.tables[i], Later.tables[i].fks[f]) =>
                    \A p \in DOMAIN Later.tables[i].fks[f].cols :
                        [from |-> Later.tables[i].name, col |-> Later.tables[i].fks[f].cols[p],
                         to |-> Later.tables[i].fks[f].ref, toCol |-> Later.tables[i].fks[f].refCols[p],
                         by |-> "declared"] \in answer.data.rels

NoGuessBesides ==
    \A x, y \in answer.data.rels :
        x.from = y.from /\ x.col = y.col /\ x.by = "declared" => y.by = "declared"

GuessesAreOfAsked ==
    \A x \in answer.data.rels : x.by # "declared" =>
        /\ x.from # x.to /\ {x.from, x.to} \subseteq Named
        /\ \A y \in answer.data.rels : y.from = x.from /\ y.col = x.col /\ y.by = x.by => y.to = x.to

(* The foreign keys the default schema declares are all in the relationships  *)
(* of the asked tables, whatever schema they lead to - on PostgreSQL those    *)
(* that stay in their schema, for the others are lost (IsJoined) although     *)
(* erd_builder.py:17-18 has declared keys always included. A column that has  *)
(* a declared relationship is not given a guess besides, and a guess joins    *)
(* two different tables that were asked for, whichever of the tables whose    *)
(* names match was tried first. The tables are read before the declarations,  *)
(* which may have changed in between.                                         *)
DeclaredWins ==
    Answered("get_table_relationships") => DeclaredAreThere /\ NoGuessBesides /\ GuessesAreOfAsked

(* index_recommend suggests a word only if it stands after a WHERE, an ON or  *)
(* an ORDER BY and no index of the table begins with it, in whatever case it  *)
(* is written. The word need not be a column: qualifiers, tables and words of *)
(* literals are suggested too (index_advisor.py:26-29, 52-55). What is said   *)
(* of the indexes is so for the engines whose statistics name the key columns: *)
(* MSSQL puts included columns before them, PostgreSQL and Tibero return none. *)
AdviceIsUncovered ==
    Answered("index_recommend") =>
        \A c \in answer.data.missing :
            /\ \E i, j \in DOMAIN answer.args[2] :
                /\ i < j /\ answer.args[2][i].v \in {"WHERE", "ON", "ORDER BY"}
                /\ IsName(answer.args[2][j]) /\ Lower(answer.args[2][j].n) = c
            /\ \A i \in DOMAIN Database.tables :
                LET t == Database.tables[i]
                IN  t.ns = Database.default /\ t.name = answer.args[1].name =>
                    /\ engine = "clickhouse" /\ t.pk.cols # <<>> => Lower(Head(t.pk.cols)) # c
                    /\ \A x \in DOMAIN t.indexes :
                        engine = "mysql" \/ (engine = "mssql" /\ t.indexes[x].incl = <<>>) =>
                            Lower(Head(t.indexes[x].cols)) # c

(* A plan accounts for each column of the source once (of two that differ in  *)
(* case, for one): it is mapped to a column of the target that has its name,  *)
(* or the target has none, whatever the case of the names; a mapped column is *)
(* cast where the types differ.                                               *)
(* Source and target are as they were when each of them was read.             *)
PlanPartitionsSource ==
    Answered("generate_pipeline_plan") /\ engine \in Sql \cup Search =>
        LET Table(d, ref) == TablesIn(d, d.default, ref)[1]
            source == Table(Database, answer.data.source)
            target == Table(Later, answer.data.target)
            mapped == {m.col : m \in answer.data.mapping}
            Type(t, n) == t.cols[CHOOSE i \in DOMAIN t.cols : t.cols[i].name = n].type
        IN  /\ mapped \cup answer.data.unmapped \subseteq Columns(source)
            /\ \A c \in Columns(source) : \E n \in mapped \cup answer.data.unmapped : Lower(n) = Lower(c)
            /\ mapped \cap answer.data.unmapped = {}
            /\ \A n \in answer.data.unmapped : \A c \in Columns(target) : Lower(c) # Lower(n)
            /\ \A m \in answer.data.mapping :
                /\ m.to \in Columns(target) /\ Lower(m.to) = Lower(m.col)
                /\ m.cast = (Type(source, m.col) # Type(target, m.to))

Sampled == Answered("profile_data") \/ Answered("execute_readonly_query")

Hidden(c) ==
    IF answer.tool = "profile_data" THEN \E i \in DOMAIN c.w : c.w[i] \in {"email", "token"}
    ELSE c \in answer.args[3]

HiddenAreMasked ==
    \A i \in DOMAIN answer.data.rows : \A c \in DOMAIN answer.data.rows[i] :
        Hidden(c) => answer.data.rows[i][c].t = "mask"

(* A limit of 1 or more is kept to, and so is MaxRows. With 0 only Redis      *)
(* sends rows, as many as one scan collects. A negative limit bounds a sample *)
(* to the one key a scan of Redis takes; a query sends all rows but the last  *)
(* ones, even more than MaxRows (executor.py has no lower bound).             *)
RowsAreLimited ==
    LET asked == answer.args[2]
        sent  == Len(answer.data.rows)
    IN  /\ asked > 0 => sent <= SmallerOf(asked, MaxRows)
        /\ asked = 0 => sent <= IF engine = "redis" THEN MaxScan ELSE 0
        /\ asked < 0 /\ answer.tool = "profile_data" => sent <= IF engine = "redis" THEN 1 ELSE 0

(* Whatever the limit, a query that sends fewer rows than it read says so. *)
CutsAreTold ==
    answer.tool = "execute_readonly_query" =>
        (Len(answer.data.rows) < Len(Read(Database, answer.args[1]).rows) => answer.data.truncated)

(* No sample leaves with a value in a column that must be hidden - one whose  *)
(* name says so, in whatever case, or one the caller named - nor with more    *)
(* rows than asked for and allowed, and no row is left out in silence. The    *)
(* two exceptions of the code, a limit of 0 on Redis and a negative limit of  *)
(* a query, are said in RowsAreLimited.                                       *)
SamplesAreMasked == Sampled => HiddenAreMasked /\ RowsAreLimited /\ CutsAreTold

(* A plan for a source that list_raw_sources names ("ns.table") is about that *)
(* table: it has its columns.                                                 *)
PlanIsForItsSource ==
    Answered("generate_pipeline_plan") /\ answer.from = answer.to /\ engine \in Sql =>
        LET found == TablesIn(Database, Space(Database, answer.args[1].ns), Plain(answer.args[1].name))
        IN  found # <<>> => {m.col : m \in answer.data.mapping} \cup answer.data.unmapped = Columns(found[1])
=============================================================================
