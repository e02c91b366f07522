---------------------------- MODULE ToolsProofs ----------------------------
(* Proofs about the tools for every catalog, every statement and every        *)
(* argument: which operation a tool reaches on which engine and how it ends,  *)
(* which values leave the server, and that what an answer says of a database  *)
(* is what the database holds. Of the databases it is assumed that they are   *)
(* databases (CatalogAssumption), and only where what they hold is compared   *)
(* with the answer.                                                           *)
EXTENDS Tools, CatalogProofs

Answers == {"ok", "raised", "CAPABILITY_NOT_SUPPORTED", "OBJECT_NOT_FOUND", "INVALID_PLAN",
            "REQUIRES_EXPLICIT_APPROVAL"}
Ends == {"ok", "raised"}

-----------------------------------------------------------------------------
(* Which engine offers what, and that a read it offers ends.                  *)

LEMMA WhoSupports ==
    ASSUME NEW e \in Engines
    PROVE  /\ Supports(e, "sql") <=> e \in Sql
           /\ Supports(e, "schema") <=> e # "redis"
           /\ Supports(e, "relationship") <=> e \in Rdb
           /\ Supports(e, "sample") /\ Supports(e, "stats") /\ Supports(e, "slow_op")
           /\ Supports(e, "activity") /\ Supports(e, "error_log")
BY DEF Supports, Capabilities, Capability, Engines, Sql, Rdb, Search

LEMMA SchemaEnds ==
    ASSUME NEW e \in Engines, e # "redis", NEW d, NEW ns, NEW ref
    PROVE  Schema(e, d, ns, ref).status \in Ends
BY DEF Schema, Engines, Sql, Rdb, Search, Ok, Raised, Ends

LEMMA TableStatisticsEnds ==
    ASSUME NEW e \in Engines, NEW d, NEW ns, NEW ref
    PROVE  TableStatistics(e, d, ns, ref).status \in Ends
BY DEF TableStatistics, Engines, Sql, Rdb, Search, Ok, Raised, Ends, MySQLTableStatistics,
   PostgreSQLTableStatistics, MSSQLTableStatistics, ClickHouseTableStatistics,
   TiberoTableStatistics, MongoDBTableStatistics, SearchTableStatistics, RedisTableStatistics

LEMMA IndexStatisticsEnds ==
    ASSUME NEW e \in Engines, NEW d, NEW ns, NEW ref
    PROVE  IndexStatistics(e, d, ns, ref).status \in Ends
BY DEF IndexStatistics, Engines, Sql, Rdb, Search, Ok, Raised, Ends

LEMMA RelationshipsEnds ==
    ASSUME NEW e \in Rdb, NEW d, NEW asked
    PROVE  Relationships(e, d, asked).status \in Ends
BY DEF Relationships, Rdb, Ok, Raised, Ends

LEMMA SampleRowsEnds ==
    ASSUME NEW e \in Engines, NEW d, NEW ns, NEW ref, NEW limit
    PROVE  SampleRows(e, d, ns, ref, limit).status \in Ends
BY DEF SampleRows, Engines, Sql, Rdb, Search, Ok, Raised, Ends, FirstRows, MySQLSample,
   PostgreSQLSample, MSSQLSample, ClickHouseSample, TiberoSample, SearchSample,
   MongoDBSample, RedisSample

LEMMA SlowOperationsEnd ==
    ASSUME NEW e \in Engines, NEW d, NEW min, NEW limit
    PROVE  SlowOperations(e, d, min, limit).status \in Ends
<1>1. ASSUME NEW ops, NEW least PROVE TopOf(ops, limit, least).status \in Ends
  BY DEF TopOf, Ok, Raised, Ends
<1>2. ASSUME NEW rows PROVE Ok(rows).status \in Ends
  BY DEF Ok, Ends
<1>3. MySQLSlow(d, min, limit).status \in Ends
  BY <1>1 DEF MySQLSlow
<1>4. PostgreSQLSlow(d, min, limit).status \in Ends
  BY <1>1 DEF PostgreSQLSlow
<1>5. MSSQLSlow(d, min, limit).status \in Ends
  BY <1>1 DEF MSSQLSlow
<1>6. ClickHouseSlow(d, min, limit).status \in Ends
  BY <1>1 DEF ClickHouseSlow
<1>7. TiberoSlow(d, min, limit).status \in Ends
  BY <1>2 DEF TiberoSlow
<1>8. MongoDBSlow(d, min, limit).status \in Ends
  BY <1>2 DEF MongoDBSlow
<1>9. RedisSlow(d, min, limit).status \in Ends
  BY <1>2, Zenon DEF RedisSlow
<1>10. SearchSlow(d, min, limit).status \in Ends
  BY <1>2, Zenon DEF SearchSlow
<1> QED
  BY <1>3, <1>4, <1>5, <1>6, <1>7, <1>8, <1>9, <1>10 DEF SlowOperations, Engines, Sql, Rdb, Search

LEMMA LocksEnds ==
    ASSUME NEW e \in Engines, NEW d
    PROVE  Locks(e, d).status \in Ends
BY DEF Locks, Engines, Sql, Rdb, Search, Ok, Raised, Ends, MySQLLocks, PostgreSQLLocks,
   MSSQLLocks, TiberoLocks, MongoDBLocks, RedisLocks

LEMMA ReadEnds ==
    ASSUME NEW d, NEW sql
    PROVE  Read(d, sql).status \in Ends
BY DEF Read, Ok, Raised, Ends

LEMMA StatementsEnd ==
    ASSUME NEW e \in Sql, NEW d, NEW sql
    PROVE  Explain(e, d, sql).status \in Ends /\ ExecuteReadonly(e, d, sql).status \in Ends
BY ReadEnds DEF Explain, ExecuteReadonly, Raised, Ends

-----------------------------------------------------------------------------
(* What each tool answers: one of the documented outcomes.                    *)

LEMMA AnalyzerAnswers ==
    ASSUME NEW e \in Engines, NEW d, NEW status, NEW error, NEW min, NEW limit, NEW ns,
           NEW ref, NEW sql, NEW analyze
    PROVE  /\ GetSessions(e, d, status).status \in Answers
           /\ GetLocks(e, d).status \in Answers
           /\ ErrorAnalyze(e, d, error).status \in Answers
           /\ SlowQueryList(e, d, min, limit).status \in Answers
           /\ GetTableStatistics(e, d, ns, ref).status \in Answers
           /\ GetIndexStatistics(e, d, ns, ref).status \in Answers
           /\ IndexRecommend(e, d, ref, sql).status \in Answers
           /\ QueryRewriteSuggest(e, d, sql).status \in Answers
           /\ QueryExplain(e, d, sql, analyze).status \in Answers
<1> USE DEF Answers, Ends, Ok, Raised, Unsupported, Refused
<1>1. GetSessions(e, d, status).status \in Answers
  BY DEF GetSessions
<1>2. GetLocks(e, d).status \in Answers
  BY LocksEnds DEF GetLocks
<1>3. ErrorAnalyze(e, d, error).status \in Answers
  BY LocksEnds DEF ErrorAnalyze
<1>4. SlowQueryList(e, d, min, limit).status \in Answers
  BY SlowOperationsEnd DEF SlowQueryList
<1>5. GetTableStatistics(e, d, ns, ref).status \in Answers
  BY TableStatisticsEnds DEF GetTableStatistics
<1>6. GetIndexStatistics(e, d, ns, ref).status \in Answers
  BY IndexStatisticsEnds DEF GetIndexStatistics
<1>7. IndexRecommend(e, d, ref, sql).status \in Answers
  BY IndexStatisticsEnds DEF IndexRecommend
<1>8. QueryRewriteSuggest(e, d, sql).status \in Answers
  BY DEF QueryRewriteSuggest
<1>9. QueryExplain(e, d, sql, analyze).status \in Answers
  BY WhoSupports, StatementsEnd DEF QueryExplain
<1> QED
  BY <1>1, <1>2, <1>3, <1>4, <1>5, <1>6, <1>7, <1>8, <1>9

LEMMA CatalogAnswers ==
    ASSUME NEW e \in Engines, NEW d, NEW later, NEW ns, NEW ref, NEW goal, NEW limit,
           NEW p, NEW scope, NEW order
    PROVE  /\ GetSchemaTool(e, d, ns).status \in Answers
           /\ ListRawSources(e, d, later, ns).status \in Answers
           /\ ProfileData(e, d, ref, limit).status \in Answers
           /\ GeneratePipelinePlan(e, d, later, ref, goal).status \in Answers
           /\ ValidatePipeline(e, d, later, p, limit).status \in Answers
           /\ GetTableRelationships(e, d, later, scope, order).status \in Answers
           /\ OntologyDocuments(e, d).status \in Answers
<1> USE DEF Answers, Ends, Ok, Raised, Unsupported, Refused
<1>1. GetSchemaTool(e, d, ns).status \in Answers
  BY WhoSupports, SchemaEnds DEF GetSchemaTool
<1>2. ListRawSources(e, d, later, ns).status \in Answers
  BY WhoSupports, SchemaEnds DEF ListRawSources
<1>3. ProfileData(e, d, ref, limit).status \in Answers
  BY SampleRowsEnds DEF ProfileData
<1>4. GeneratePipelinePlan(e, d, later, ref, goal).status \in Answers
  BY WhoSupports, SchemaEnds DEF GeneratePipelinePlan
<1>5. ValidatePipeline(e, d, later, p, limit).status \in Answers
  <2> DEFINE sample == SampleRows(e, d, "", p.source, SmallerOf(limit, MaxRows))
             target == IF Supports(e, "schema") THEN Schema(e, later, "", p.target) ELSE Ok(<<>>)
  <2>1. sample.status \in Ends
    BY SampleRowsEnds
  <2>2. target.status \in Ends
    BY WhoSupports, SchemaEnds
  <2>3. Supports(e, "sample")
    BY WhoSupports
  <2>4. \/ ValidatePipeline(e, d, later, p, limit) \in {Refused("INVALID_PLAN"), sample, target}
        \/ \E x : ValidatePipeline(e, d, later, p, limit) = Ok(x)
    BY <2>3, Zenon DEF ValidatePipeline
  <2> HIDE DEF sample, target
  <2>5. CASE ValidatePipeline(e, d, later, p, limit) \in {Refused("INVALID_PLAN"), sample, target}
    BY <2>1, <2>2, <2>5
  <2>6. CASE \E x : ValidatePipeline(e, d, later, p, limit) = Ok(x)
    BY <2>6
  <2> QED
    BY <2>4, <2>5, <2>6
<1>6. GetTableRelationships(e, d, later, scope, order).status \in Answers
  <2> DEFINE asked    == ResolveScope(e, d, scope)
             reads    == Map(asked, LAMBDA r : Schema(e, d, "", r))
             declared == IF Supports(e, "relationship") THEN Relationships(e, later, asked) ELSE Ok({})
  <2>1. CASE Supports(e, "schema")
    <3>1. \A r \in ToSet(reads) : r.status \in Ends
      <4>1. reads = [i \in DOMAIN asked |-> Schema(e, d, "", asked[i])]
        BY DEF Map
      <4>2. \A i \in DOMAIN asked : Schema(e, d, "", asked[i]).status \in Ends
        BY <2>1, WhoSupports, SchemaEnds
      <4>3. \A i \in DOMAIN reads : reads[i].status \in Ends
        BY <4>1, <4>2
      <4> HIDE DEF reads
      <4> QED
        BY <4>3 DEF ToSet
    <3>2. declared.status \in Ends
      BY WhoSupports, RelationshipsEnds
    <3>3. CASE \E r \in ToSet(reads) : r.status # "ok"
      <4>1. (CHOOSE r \in ToSet(reads) : r.status # "ok").status \in Answers
        BY <3>1, <3>3
      <4> QED
        BY <2>1, <3>3, <4>1 DEF GetTableRelationships
    <3>4. CASE ~\E r \in ToSet(reads) : r.status # "ok"
      BY <2>1, <3>2, <3>4 DEF GetTableRelationships
    <3> QED
      BY <3>3, <3>4
  <2>2. CASE ~Supports(e, "schema")
    BY <2>2 DEF GetTableRelationships
  <2> QED
    BY <2>1, <2>2
<1>7. OntologyDocuments(e, d).status \in Answers
  BY WhoSupports, SchemaEnds DEF OntologyDocuments
<1> QED
  BY <1>1, <1>2, <1>3, <1>4, <1>5, <1>6, <1>7

LEMMA QueryAnswers ==
    ASSUME NEW e \in Engines, NEW d, NEW sql, NEW limit, NEW mask, NEW score, NEW topK,
           NEW min, NEW object
    PROVE  /\ ExecuteReadonlyQuery(e, d, sql, limit, mask).status \in Answers
           /\ FindQueryPattern(score, topK, min).status \in Answers
           /\ GetQueryPatterns(limit, object).status \in Answers
<1> USE DEF Answers, Ends, Ok, Raised, Unsupported
<1>1. ExecuteReadonlyQuery(e, d, sql, limit, mask).status \in Answers
  BY WhoSupports, StatementsEnd DEF ExecuteReadonlyQuery
<1>2. FindQueryPattern(score, topK, min).status \in Answers
  BY DEF FindQueryPattern
<1>3. GetQueryPatterns(limit, object).status \in Answers
  BY DEF GetQueryPatterns
<1> QED
  BY <1>1, <1>2, <1>3

-----------------------------------------------------------------------------
(* Every action is the answer of its tool.                                    *)

Tells(tool) ==
    /\ answer'.tool = tool /\ answer'.status \in Answers
    /\ {answer'.from, answer'.to} \subseteq States
    /\ engine' = engine

LEMMA RespondTells ==
    ASSUME NEW tool, NEW args, NEW refresh, NEW r, r.status \in Answers,
           NEW d \in States, NEW later \in States, Respond(tool, args, refresh, r, d, later)
    PROVE  Tells(tool)
BY DEF Tells, Respond

LEMMA ActionsTell ==
    ASSUME engine \in DbTypes
    PROVE  /\ slow_query_list => Tells("slow_query_list")
           /\ db_error_analyze => Tells("db_error_analyze")
           /\ get_sessions => Tells("get_sessions")
           /\ get_locks => Tells("get_locks")
           /\ get_table_statistics => Tells("get_table_statistics")
           /\ get_index_statistics => Tells("get_index_statistics")
           /\ index_recommend => Tells("index_recommend")
           /\ query_rewrite_suggest => Tells("query_rewrite_suggest")
           /\ query_explain => Tells("query_explain")
           /\ execute_readonly_query => Tells("execute_readonly_query")
           /\ get_schema => Tells("get_schema")
           /\ list_raw_sources => Tells("list_raw_sources")
           /\ profile_data => Tells("profile_data")
           /\ generate_pipeline_plan => Tells("generate_pipeline_plan")
           /\ validate_pipeline => Tells("validate_pipeline")
           /\ get_table_relationships => Tells("get_table_relationships")
           /\ build_ontology_index => Tells("build_ontology_index")
           /\ find_query_pattern => Tells("find_query_pattern")
           /\ get_query_patterns => Tells("get_query_patterns")
<1> USE AnalyzerAnswers, CatalogAnswers, QueryAnswers, RespondTells
<1>1. engine \in Engines /\ 1 \in States
  BY ToolsAssumption DEF States
<1>2. slow_query_list => Tells("slow_query_list")
  BY <1>1 DEF slow_query_list
<1>3. db_error_analyze => Tells("db_error_analyze")
  BY <1>1 DEF db_error_analyze
<1>4. get_sessions => Tells("get_sessions")
  BY <1>1 DEF get_sessions
<1>5. get_locks => Tells("get_locks")
  BY <1>1 DEF get_locks
<1>6. get_table_statistics => Tells("get_table_statistics")
  BY <1>1 DEF get_table_statistics
<1>7. get_index_statistics => Tells("get_index_statistics")
  BY <1>1 DEF get_index_statistics
<1>8. index_recommend => Tells("index_recommend")
  BY <1>1 DEF index_recommend
<1>9. query_rewrite_suggest => Tells("query_rewrite_suggest")
  BY <1>1 DEF query_rewrite_suggest
<1>10. query_explain => Tells("query_explain")
  BY <1>1 DEF query_explain
<1>11. execute_readonly_query => Tells("execute_readonly_query")
  BY <1>1 DEF execute_readonly_query
<1>12. get_schema => Tells("get_schema")
  BY <1>1 DEF get_schema
<1>13. list_raw_sources => Tells("list_raw_sources")
  BY <1>1 DEF list_raw_sources
<1>14. profile_data => Tells("profile_data")
  BY <1>1 DEF profile_data
<1>15. generate_pipeline_plan => Tells("generate_pipeline_plan")
  BY <1>1 DEF generate_pipeline_plan
<1>16. validate_pipeline => Tells("validate_pipeline")
  BY <1>1 DEF validate_pipeline
<1>17. get_table_relationships => Tells("get_table_relationships")
  BY <1>1 DEF get_table_relationships
<1>18. build_ontology_index => Tells("build_ontology_index")
  BY <1>1 DEF build_ontology_index
<1>19. find_query_pattern => Tells("find_query_pattern")
  BY <1>1 DEF find_query_pattern
<1>20. get_query_patterns => Tells("get_query_patterns")
  BY <1>1 DEF get_query_patterns
<1> QED
  BY <1>2, <1>3, <1>4, <1>5, <1>6, <1>7, <1>8, <1>9, <1>10, <1>11, <1>12, <1>13, <1>14, <1>15, <1>16, <1>17, <1>18, <1>19, <1>20

-----------------------------------------------------------------------------
(* The theorems.                                                              *)

\* Every call ends in an answer a tool documents or in the error of a read:
\* no tool reaches an operation that its engine lacks, whatever the catalog
\* holds and whatever the client asks.
THEOREM TypeCorrect == Spec => []TypeOK
<1>1. Init => TypeOK
  BY ToolsAssumption DEF Init, TypeOK, NoAnswer, Idle, States
<1>2. TypeOK /\ [Next]_vars => TypeOK'
  <2> SUFFICES ASSUME TypeOK, [Next]_vars PROVE TypeOK'
    OBVIOUS
  <2>1. CASE NextCall
    BY <2>1, ToolsAssumption DEF NextCall, TypeOK, NoAnswer, Idle, States
  <2>2. CASE UNCHANGED vars
    BY <2>2 DEF vars, TypeOK, Idle, States
  <2>3. ASSUME NEW tool, Tells(tool) PROVE TypeOK'
    <3>1. answer'.status \in Answers /\ answer'.status # NoAnswer.status
      BY <2>3 DEF Tells, Answers, NoAnswer
    <3>2. ~Idle'
      BY <3>1 DEF Idle, NoAnswer
    <3>3. answer'.status # "none"
      BY <3>1 DEF NoAnswer
    <3>4. engine' \in DbTypes /\ {answer'.from, answer'.to} \subseteq States
      BY <2>3 DEF Tells, TypeOK
    <3>5. (answer'.status = "none") = Idle'
      BY <3>2, <3>3, SMT DEF Idle
    <3>6. answer'.status \in Answers \cup {"none"}
      BY <3>1
    <3> QED
      BY <3>4, <3>5, <3>6 DEF Answers, TypeOK, States
  <2>4. CASE Next /\ ~NextCall
    BY <2>3, <2>4, ActionsTell DEF Next, TypeOK
  <2> QED
    BY <2>1, <2>2, <2>4
<1> QED
  BY <1>1, <1>2, PTL DEF Spec

LEMMA MaskedHides ==
    ASSUME NEW rows, NEW columns, NEW i \in DOMAIN Masked(rows, columns),
           NEW c \in DOMAIN Masked(rows, columns)[i], c \in columns
    PROVE  Masked(rows, columns)[i][c].t = "mask"
BY DEF Masked, Map

LEMMA MaskedColumns ==
    ASSUME NEW rows, NEW columns, NEW i \in DOMAIN Masked(rows, columns),
           NEW c \in DOMAIN Masked(rows, columns)[i]
    PROVE  i \in DOMAIN rows /\ c \in DOMAIN rows[i]
BY DEF Masked, Map

LEMMA ProfileHides ==
    ASSUME profile_data, answer'.status = "ok"
    PROVE  HiddenAreMasked'
<1>1. PICK d \in States, ref \in Askable, limit \in Limits :
        /\ answer'.tool = "profile_data"
        /\ answer'.status = ProfileData(engine, Databases[d], ref, limit).status
        /\ answer'.data = ProfileData(engine, Databases[d], ref, limit).rows
  BY DEF profile_data, Respond
<1> DEFINE sample  == SampleRows(engine, Databases[d], "", ref, SmallerOf(limit, MaxRows))
           columns == UNION {DOMAIN sample.rows[i] : i \in DOMAIN sample.rows}
<1>2. answer'.data.rows = Masked(sample.rows, {c \in columns : Sensitive(c)})
  <2> DEFINE result == ProfileData(engine, Databases[d], ref, limit)
  <2>1. \/ result = Unsupported
        \/ result = sample /\ sample.status # "ok"
        \/ \E nulls, distinct :
              result = Ok([nulls |-> nulls, distinct |-> distinct,
                           rows |-> Masked(sample.rows, {c \in columns : Sensitive(c)})])
    BY Zenon DEF ProfileData
  <2> HIDE DEF sample, result, columns
  <2>2. result # Unsupported /\ ~(result = sample /\ sample.status # "ok")
    BY <1>1 DEF Unsupported, result
  <2>3. answer'.data = result.rows
    BY <1>1 DEF result
  <2>4. PICK nulls, distinct :
          result = Ok([nulls |-> nulls, distinct |-> distinct,
                       rows |-> Masked(sample.rows, {c \in columns : Sensitive(c)})])
    BY <2>1, <2>2, Zenon
  <2> QED
    BY <2>3, <2>4 DEF Ok
<1> HIDE DEF sample
<1>3. ASSUME NEW i \in DOMAIN answer'.data.rows, NEW c \in DOMAIN answer'.data.rows[i], Hidden(c)'
      PROVE  answer'.data.rows[i][c].t = "mask"
  <2>1. Sensitive(c)
    BY <1>1, <1>3 DEF Hidden, Sensitive
  <2>2. c \in columns
    BY <1>2, <1>3, MaskedColumns
  <2> QED
    BY <1>2, <1>3, <2>1, <2>2, MaskedHides
<1> QED
  BY <1>3 DEF HiddenAreMasked

LEMMA QueryHides ==
    ASSUME execute_readonly_query, answer'.status = "ok"
    PROVE  HiddenAreMasked'
<1>1. PICK d, sql, limit, mask :
        /\ answer'.tool = "execute_readonly_query" /\ answer'.args = <<sql, limit, mask>>
        /\ answer'.status = ExecuteReadonlyQuery(engine, Databases[d], sql, limit, mask).status
        /\ answer'.data = ExecuteReadonlyQuery(engine, Databases[d], sql, limit, mask).rows
  BY DEF execute_readonly_query, Respond
<1>2. PICK rows : answer'.data.rows = Masked(rows, mask)
  BY <1>1 DEF ExecuteReadonlyQuery, Ok, Unsupported
<1> QED
  BY <1>1, <1>2, MaskedHides DEF HiddenAreMasked, Hidden

\* No sample leaves with a value in a column that must be hidden, whatever
\* the rows and columns are and however the names are written.
THEOREM NothingHiddenLeaves == Spec => [](Sampled => HiddenAreMasked)
<1>1. Init => ~Sampled
  BY DEF Init, Sampled, Answered, NoAnswer
<1>2. TypeOK /\ (Sampled => HiddenAreMasked) /\ [Next]_vars => (Sampled => HiddenAreMasked)'
  <2> SUFFICES ASSUME TypeOK, Sampled => HiddenAreMasked, [Next]_vars, Sampled'
               PROVE  HiddenAreMasked'
    OBVIOUS
  <2>1. CASE UNCHANGED vars
    BY <2>1 DEF vars, Sampled, Answered, HiddenAreMasked, Hidden
  <2>2. CASE profile_data \/ execute_readonly_query
    BY <2>2, ProfileHides, QueryHides DEF Sampled, Answered
  <2>3. CASE NextCall
    BY <2>3 DEF NextCall, NoAnswer, Sampled, Answered
  <2>4. CASE Next /\ ~NextCall /\ ~profile_data /\ ~execute_readonly_query
    BY <2>4, ActionsTell DEF Next, TypeOK, Tells, Sampled, Answered
  <2> QED
    BY <2>1, <2>2, <2>3, <2>4
<1> QED
  BY <1>1, <1>2, TypeCorrect, PTL DEF Spec

\* What a database declares is declared, and what is inferred is not.
LEMMA DeclaredBy ==
    ASSUME NEW e \in Engines, NEW d, NEW asked, NEW r,
           NEW declared,
           declared = IF Supports(e, "relationship") THEN Relationships(e, d, asked) ELSE Ok({}),
           declared.status = "ok", r \in declared.rows
    PROVE  r.by = "declared"
<1>1. ASSUME NEW t, NEW col, NEW to, NEW toCol PROVE Declared(t, col, to, toCol).by = "declared"
  BY DEF Declared
<1>2. e \in Rdb
  BY WhoSupports DEF Ok
<1>3. Relationships(e, d, asked).status = "ok" /\ r \in Relationships(e, d, asked).rows
  BY <1>2, WhoSupports
<1> DEFINE names == {asked[i].name : i \in DOMAIN asked}
<1>4. r \in UNION {MySQLRelationships(d, names), MSSQLRelationships(d, names),
                  PostgreSQLRelationships(d, names), TiberoRelationships(d, names)}
  BY <1>2, <1>3 DEF Relationships, Rdb, Ok, Raised
<1>5. CASE r \in MySQLRelationships(d, names) \/ r \in MSSQLRelationships(d, names)
  <2>1. PICK k : r \in ColumnPairs(k)
    BY <1>5 DEF MySQLRelationships, MSSQLRelationships
  <2>2. PICK p \in DOMAIN k.fk.cols : r = Declared(k.t, k.fk.cols[p], k.fk.ref, k.fk.refCols[p])
    BY <2>1 DEF ColumnPairs
  <2> QED
    BY <1>1, <2>2
<1>6. CASE r \in PostgreSQLRelationships(d, names)
  <2> DEFINE Pairs(k) == {Declared(k.t, from.col, to.table, to.col) :
                             from \in {x \in KeyColumns(d) : x.con = k.fk.name /\ x.ns = k.t.ns},
                             to \in {x \in UsedColumns(d) : x.con = k.fk.name /\ x.ns = k.t.ns}}
  <2>0. PostgreSQLRelationships(d, names) = UNION {Pairs(k) : k \in ForeignKeys(d, names, FALSE)}
    BY DEF PostgreSQLRelationships
  <2> HIDE DEF Pairs
  <2>1. PICK k \in ForeignKeys(d, names, FALSE) : r \in Pairs(k)
    BY <1>6, <2>0
  <2> USE DEF Pairs
  <2>2. PICK from, to : r = Declared(k.t, from.col, to.table, to.col)
    BY <2>1
  <2> QED
    BY <1>1, <2>2
<1>7. CASE r \in TiberoRelationships(d, names)
  <2>1. PICK k \in ForeignKeys(d, names, FALSE) :
          r \in {Declared(k.t, pair[1].col, pair[2].table, pair[2].col) :
                   pair \in {x \in KeyColumns(d) \X KeyColumns(d) :
                       x[1].con = k.fk.name /\ x[2].con = k.fk.key /\ x[1].pos = x[2].pos}}
    BY <1>7, Zenon DEF TiberoRelationships
  <2>2. PICK pair : r = Declared(k.t, pair[1].col, pair[2].table, pair[2].col)
    BY <2>1
  <2> QED
    BY <1>1, <2>2
<1> QED
  BY <1>4, <1>5, <1>6, <1>7

LEMMA InferredBy ==
    ASSUME NEW tables, NEW order, NEW r \in InferRelationships(tables, order)
    PROVE  r.by # "declared"
BY DEF InferRelationships, InferTarget

LEMMA MergeKeepsApart ==
    ASSUME NEW family, NEW tables, NEW declared, NEW order,
           \A r \in declared : r.by = "declared",
           NEW x \in MergeRelationships(family, tables, declared, order),
           NEW y \in MergeRelationships(family, tables, declared, order),
           x.from = y.from, x.col = y.col, x.by = "declared"
    PROVE  y.by = "declared"
<1>1. \A r \in InferRelationships(tables, order) : r.by # "declared"
  BY InferredBy
<1>2. x \in declared
  BY <1>1 DEF MergeRelationships
<1>3. y \in declared \/ <<y.from, y.col>> \notin {<<r.from, r.col>> : r \in declared}
  BY DEF MergeRelationships
<1> QED
  BY <1>2, <1>3

LEMMA RelationshipsApart ==
    ASSUME TypeOK, get_table_relationships, answer'.status = "ok"
    PROVE  NoGuessBesides'
<1>0. PICK d \in States, later \in States, scope \in Scopes : \E order :
        /\ answer'.status = GetTableRelationships(engine, Databases[d], Databases[later], scope, order).status
        /\ answer'.data = GetTableRelationships(engine, Databases[d], Databases[later], scope, order).rows
  BY DEF get_table_relationships, Respond
<1>1. PICK order :
        /\ answer'.status = GetTableRelationships(engine, Databases[d], Databases[later], scope, order).status
        /\ answer'.data = GetTableRelationships(engine, Databases[d], Databases[later], scope, order).rows
  BY <1>0
<1> DEFINE asked    == ResolveScope(engine, Databases[d], scope)
           declared == IF Supports(engine, "relationship")
                       THEN Relationships(engine, Databases[later], asked) ELSE Ok({})
<1>2. engine \in Engines
  BY ToolsAssumption DEF TypeOK
<1>3. declared.status = "ok" => \A r \in declared.rows : r.by = "declared"
  BY <1>2, DeclaredBy
<1>4. \/ answer'.data.rels = {}
      \/ declared.status = "ok" /\ \E tables, names :
            answer'.data.rels = MergeRelationships(EngineFamily(engine), tables, declared.rows, names)
  <2> DEFINE result == GetTableRelationships(engine, Databases[d], Databases[later], scope, order)
             reads  == Map(asked, LAMBDA r : Schema(engine, Databases[d], "", r))
  <2>1. \/ result = Unsupported
        \/ result = Ok([tables |-> <<>>, rels |-> {}])
        \/ /\ \E r \in ToSet(reads) : r.status # "ok"
           /\ result = CHOOSE r \in ToSet(reads) : r.status # "ok"
        \/ result = declared /\ declared.status # "ok"
        \/ declared.status = "ok" /\ \E tables, names :
              result = Ok([tables |-> tables,
                           rels |-> MergeRelationships(EngineFamily(engine), tables, declared.rows, names)])
    BY Zenon DEF GetTableRelationships
  <2> HIDE DEF declared, result, reads
  <2>2. result.status = "ok"
    BY <1>1 DEF result
  <2>3. result # Unsupported
    BY <2>2 DEF Unsupported
  <2>4. ~(/\ \E r \in ToSet(reads) : r.status # "ok"
          /\ result = CHOOSE r \in ToSet(reads) : r.status # "ok")
    BY <2>2
  <2>5. answer'.data = result.rows
    BY <1>1 DEF result
  <2>6. CASE result = Ok([tables |-> <<>>, rels |-> {}])
    BY <2>5, <2>6 DEF Ok
  <2>7. CASE declared.status = "ok" /\ \E tables, names :
               result = Ok([tables |-> tables,
                            rels |-> MergeRelationships(EngineFamily(engine), tables, declared.rows, names)])
    BY <2>5, <2>7 DEF Ok
  <2> QED
    BY <2>1, <2>2, <2>3, <2>4, <2>6, <2>7
<1> HIDE DEF declared
<1> QED
  BY <1>3, <1>4, MergeKeepsApart DEF NoGuessBesides

\* A column with a declared foreign key is never given a guess besides.
THEOREM GuessesYield == Spec => [](Answered("get_table_relationships") => NoGuessBesides)
<1>1. Init => ~Answered("get_table_relationships")
  BY DEF Init, Answered, NoAnswer
<1>2. TypeOK /\ (Answered("get_table_relationships") => NoGuessBesides) /\ [Next]_vars
        => (Answered("get_table_relationships") => NoGuessBesides)'
  <2> SUFFICES ASSUME TypeOK, Answered("get_table_relationships") => NoGuessBesides,
                      [Next]_vars, Answered("get_table_relationships")'
               PROVE  NoGuessBesides'
    OBVIOUS
  <2>1. CASE UNCHANGED vars
    BY <2>1 DEF vars, Answered, NoGuessBesides
  <2>2. CASE get_table_relationships
    BY <2>2, RelationshipsApart DEF Answered
  <2>3. CASE NextCall
    BY <2>3 DEF NextCall, NoAnswer, Answered
  <2>4. CASE Next /\ ~NextCall /\ ~get_table_relationships
    BY <2>4, ActionsTell DEF Next, TypeOK, Tells, Answered
  <2> QED
    BY <2>1, <2>2, <2>3, <2>4
<1> QED
  BY <1>1, <1>2, TypeCorrect, PTL DEF Spec

-----------------------------------------------------------------------------
(* index_recommend: its advice and the indexes.                               *)

StandAfter(sql, i, C) == \A j \in DOMAIN C : \E k \in DOMAIN sql : i < k /\ C[j] = sql[k]

\* The tokens of a clause are tokens of the statement, after the one that
\* opens the clause.
LEMMA ClauseElements ==
    ASSUME NEW sql, IsSequence(sql), NEW i \in DOMAIN sql, NEW stops
    PROVE  /\ Len(Clause(sql, i, stops)) \in Nat /\ DOMAIN Clause(sql, i, stops) = 1..Len(Clause(sql, i, stops))
           /\ StandAfter(sql, i, Clause(sql, i, stops))
<1> DEFINE ends == {j \in i + 1 .. Len(sql) : sql[j].v \in stops}
           m == IF ends = {} THEN Len(sql) ELSE Min(ends) - 1
           C == SubSeq(sql, i + 1, m)
<1>1. Len(sql) \in Nat /\ DOMAIN sql = 1..Len(sql)
  BY SequencesAreIntervals
<1>2. m \in Int /\ m <= Len(sql)
  <2>1. CASE ends = {}
    BY <1>1, <2>1
  <2>2. CASE ends # {}
    <3>1. ends \in SUBSET Nat
      BY <1>1
    <3> HIDE DEF ends
    <3>2. Min(ends) \in ends
      <4>1. \E x \in ends : \A y \in ends : x <= y
        BY <2>2, <3>1, HasLeast
      <4> QED BY <4>1 DEF Min
    <3>3. Min(ends) \in i + 1 .. Len(sql)
      BY <3>2 DEF ends
    <3> QED BY <1>1, <2>2, <3>3
  <2> QED BY <2>1, <2>2
<1> HIDE DEF m
<1>3. Clause(sql, i, stops) = C
  BY DEF Clause, m
<1>4. \A k \in i + 1 .. m : k \in DOMAIN sql /\ sql[k] \in ToSet(sql)
  BY <1>1, <1>2 DEF ToSet
<1>5. /\ C \in Seq(ToSet(sql))
      /\ Len(C) = IF i + 1 <= m THEN m - (i + 1) + 1 ELSE 0
  BY <1>1, <1>2, <1>4, SubSeqProperties
<1>6. Len(C) \in Nat /\ DOMAIN C = 1..Len(C)
  BY <1>5, LenProperties
<1>7. ASSUME NEW j \in DOMAIN C PROVE \E k \in DOMAIN sql : i < k /\ C[j] = sql[k]
  <2>1. j \in 1..(m - (i + 1) + 1) /\ i + 1 <= m
    BY <1>1, <1>2, <1>5, <1>6, <1>7
  <2>2. C[j] = sql[i + 1 + j - 1] /\ i + j \in i + 1 .. m
    BY <1>1, <1>2, <1>4, <2>1, SubSeqProperties
  <2> HIDE DEF C
  <2> QED BY <1>1, <1>2, <1>4, <2>1, <2>2
<1>8. StandAfter(sql, i, C)
  BY <1>7 DEF StandAfter
<1> HIDE DEF C
<1> QED BY <1>3, <1>6, <1>8

\* A word that a statement makes a candidate stands in a clause of it.
InAClause(sql, c) ==
    \E i, j \in DOMAIN sql :
        /\ i < j /\ sql[i].v \in {"WHERE", "ON", "ORDER BY"}
        /\ IsName(sql[j]) /\ Lower(sql[j].n) = c

LEMMA WordsOfClause ==
    ASSUME NEW sql, IsSequence(sql), NEW i \in DOMAIN sql, sql[i].v \in {"WHERE", "ON", "ORDER BY"}, NEW stops,
           NEW C, C = Clause(sql, i, stops)
    PROVE  \A j \in DOMAIN C : IsName(C[j]) => InAClause(sql, Lower(C[j].n))
<1>1. StandAfter(sql, i, C)
  BY ClauseElements
<1>2. \A j \in DOMAIN C : \E k \in DOMAIN sql : i < k /\ C[j] = sql[k]
  BY <1>1, Zenon DEF StandAfter
<1>3. ASSUME NEW j \in DOMAIN C, IsName(C[j]) PROVE InAClause(sql, Lower(C[j].n))
  <2>1. PICK k \in DOMAIN sql : i < k /\ C[j] = sql[k]
    BY <1>2
  <2>2. IsName(sql[k]) /\ Lower(sql[k].n) = Lower(C[j].n)
    BY <1>3, <2>1
  <2> QED BY <2>1, <2>2 DEF InAClause
<1> QED BY <1>3

LEMMA CandidatesAreNamed ==
    ASSUME NEW sql, IsSequence(sql), NEW c \in ExtractCandidateColumns(sql)
    PROVE  InAClause(sql, c)
<1> DEFINE Stops == {"WHERE", "JOIN", "GROUP BY", "ORDER BY", "LIMIT"}
           ons == {i \in DOMAIN sql : sql[i].v = "ON"}
           sorted(i) == IF i = 0 THEN <<>> ELSE Clause(sql, i, {"LIMIT"})
<1>1. ASSUME NEW word PROVE First(sql, word) = 0 \/ (First(sql, word) \in DOMAIN sql /\ sql[First(sql, word)].v = word)
  <2> DEFINE I == {i \in 1..Len(sql) : sql[i].v = word}
  <2>1. First(sql, word) = IF I # {} THEN Min(I) ELSE 0
    BY Zenon DEF First, SelectInSeq
  <2>2. DOMAIN sql = 1..Len(sql) /\ I \in SUBSET Nat
    BY SequencesAreIntervals
  <2>3. ASSUME I # {} PROVE Min(I) \in I
    <3> HIDE DEF I
    <3>1. \E x \in I : \A y \in I : x <= y
      BY <2>2, <2>3, HasLeast
    <3> QED BY <3>1 DEF Min
  <2>4. \A i \in I : i \in DOMAIN sql /\ sql[i].v = word
    BY <2>2
  <2> HIDE DEF I
  <2> QED BY <2>1, <2>3, <2>4
<1>2. ASSUME NEW i \in DOMAIN sql, sql[i].v \in {"WHERE", "ON"}, NEW stops, c \in ConditionColumns(Clause(sql, i, stops))
      PROVE  InAClause(sql, c)
  <2> DEFINE C == Clause(sql, i, stops)
  <2>1. Len(C) \in Nat /\ DOMAIN C = 1..Len(C)
    BY ClauseElements
  <2>2. \A j \in DOMAIN C : IsName(C[j]) => InAClause(sql, Lower(C[j].n))
    BY <1>2, WordsOfClause
  <2> HIDE DEF C
  <2>3. PICK j \in 1..Len(C) - 1 : IsName(C[j]) /\ c = Lower(C[j].n)
    BY <1>2 DEF ConditionColumns, C
  <2>4. j \in DOMAIN C
    BY <2>1
  <2> QED BY <2>2, <2>3, <2>4
<1>3. ASSUME NEW i \in DOMAIN sql, sql[i].v = "ON", NEW stops, c \in QualifiedColumns(Clause(sql, i, stops))
      PROVE  InAClause(sql, c)
  <2> DEFINE C == Clause(sql, i, stops)
  <2>1. \A j \in DOMAIN C : IsName(C[j]) => InAClause(sql, Lower(C[j].n))
    BY <1>3, WordsOfClause
  <2> HIDE DEF C
  <2>2. c \in QualifiedColumns(C)
    BY <1>3 DEF C
  <2>3. \E j \in DOMAIN C : IsName(C[j]) /\ c = Lower(C[j].n)
    BY <2>2, Zenon DEF QualifiedColumns
  <2> QED BY <2>1, <2>3
<1>4. ASSUME c \in {Lower(sorted(First(sql, "ORDER BY"))[i].n) :
                       i \in {j \in DOMAIN sorted(First(sql, "ORDER BY")) :
                                 IsName(sorted(First(sql, "ORDER BY"))[j])
                                 /\ sorted(First(sql, "ORDER BY"))[j].v \notin {"ASC", "DESC"}}}
      PROVE  InAClause(sql, c)
  <2> DEFINE o == First(sql, "ORDER BY")
  <2>1. PICK i \in DOMAIN sorted(o) : IsName(sorted(o)[i]) /\ c = Lower(sorted(o)[i].n)
    BY <1>4
  <2>2. o # 0
    <3> HIDE DEF o
    <3> QED BY <2>1, Nothing
  <2>3. o \in DOMAIN sql /\ sql[o].v = "ORDER BY" /\ sorted(o) = Clause(sql, o, {"LIMIT"})
    BY <1>1, <2>2
  <2> HIDE DEF o, sorted
  <2> QED BY <2>1, <2>3, WordsOfClause
<1>5. \/ First(sql, "WHERE") # 0 /\ c \in ConditionColumns(Clause(sql, First(sql, "WHERE"), Stops \ {"WHERE", "JOIN"}))
      \/ \E i \in ons : c \in QualifiedColumns(Clause(sql, i, Stops)) \cup ConditionColumns(Clause(sql, i, Stops))
      \/ c \in {Lower(sorted(First(sql, "ORDER BY"))[i].n) :
                   i \in {j \in DOMAIN sorted(First(sql, "ORDER BY")) :
                             IsName(sorted(First(sql, "ORDER BY"))[j])
                             /\ sorted(First(sql, "ORDER BY"))[j].v \notin {"ASC", "DESC"}}}
  <2> DEFINE A == IF First(sql, "WHERE") = 0 THEN {}
                  ELSE ConditionColumns(Clause(sql, First(sql, "WHERE"), Stops \ {"WHERE", "JOIN"}))
             B(i) == QualifiedColumns(Clause(sql, i, Stops)) \cup ConditionColumns(Clause(sql, i, Stops))
             D == {Lower(sorted(First(sql, "ORDER BY"))[i].n) :
                      i \in {j \in DOMAIN sorted(First(sql, "ORDER BY")) :
                                IsName(sorted(First(sql, "ORDER BY"))[j])
                                /\ sorted(First(sql, "ORDER BY"))[j].v \notin {"ASC", "DESC"}}}
  <2>1. ExtractCandidateColumns(sql) = UNION {A, UNION {B(i) : i \in ons}, D}
    BY Zenon DEF ExtractCandidateColumns
  <2>2. c \in A => First(sql, "WHERE") # 0 /\ c \in ConditionColumns(Clause(sql, First(sql, "WHERE"), Stops \ {"WHERE", "JOIN"}))
    <3>1. ASSUME NEW o, NEW X, c \in (IF o = 0 THEN {} ELSE X) PROVE o # 0 /\ c \in X
      BY <3>1
    <3> HIDE DEF Stops
    <3> QED BY <3>1, Zenon
  <2>3. c \in A \/ (\E i \in ons : c \in B(i)) \/ c \in D
    <3> HIDE DEF A, B, D, ons
    <3> QED BY <2>1
  <2> HIDE DEF A, D, ons
  <2> QED BY <2>2, <2>3 DEF D
<1> HIDE DEF sorted, Stops
<1> QED BY <1>1, <1>2, <1>3, <1>4, <1>5

\* The indexes that an engine gives with their key columns are those of the
\* table of that name.
LEMMA IndexesLead ==
    ASSUME NEW e \in Sql, NEW d, IsDatabase(d), NEW ref, IsReference(ref),
           NEW ns, Space(d, ns) = d.default,
           NEW x, x = IndexStatistics(e, d, ns, ref), x.status = "ok",
           NEW i \in DOMAIN d.tables, d.tables[i].ns = d.default, d.tables[i].name = ref.name
    PROVE  /\ e = "clickhouse" /\ d.tables[i].pk.cols # <<>> =>
                 Lower(Head(d.tables[i].pk.cols)) \in LeadingColumns(x.rows)
           /\ \A k \in DOMAIN d.tables[i].indexes :
                 e = "mysql" \/ (e = "mssql" /\ d.tables[i].indexes[k].incl = <<>>) =>
                    Lower(Head(d.tables[i].indexes[k].cols)) \in LeadingColumns(x.rows)
<1> DEFINE t == d.tables[i]
           found == Found(d, d.default, ref)
<1>1. Valid(ref)
  BY DEF IndexStatistics, Raised
<1>2. found = <<t>>
  <2> DEFINE I == Asked(d, d.default, ref)
  <2>1. ref = Bare(d.tables[i].name)
    BY <1>1, ValidIsBare
  <2>2. i \in I
    BY <2>1 DEF Asked
  <2>3. TablesIn(d, d.default, ref) # <<>>
    <3>1. TablesIn(d, d.default, ref) = Pick(d.tables, I) /\ I \in SUBSET Nat /\ IsFiniteSet(I)
      BY AskedArePositions
    <3> HIDE DEF I
    <3>2. DOMAIN Pick(d.tables, I) # {}
      BY <2>2, <3>1, PickEnumerates
    <3> QED BY <3>1, <3>2, Nothing
  <2>4. PICK j \in DOMAIN d.tables : I = {j} /\ found = <<d.tables[j]>>
    <3>1. ref.name # All.name
      BY DEF IsReference
    <3> QED BY <2>3, <3>1, TheTable
  <2> HIDE DEF I, found
  <2>5. i = j
    BY <2>2, <2>4
  <2> QED BY <2>4, <2>5
<1>3. found # <<>> /\ found[1] = t
  BY <1>2, One
<1>4. IsTable(d, t)
  BY DEF IsDatabase
<1>5. x = CASE e = "mysql"      -> Ok(MySQLIndexStatistics(found))
            [] e = "postgresql" -> Ok(PostgreSQLIndexStatistics(found))
            [] e = "mssql"      -> Ok(MSSQLIndexStatistics(found))
            [] e = "clickhouse" -> Ok(ClickHouseIndexStatistics(found))
            [] e = "tibero"     -> Ok(TiberoIndexStatistics(found))
            [] e = "mongodb"    -> Ok(MongoDBIndexStatistics(found))
            [] OTHER            -> Ok(<<>>)
  BY <1>1, Zenon DEF IndexStatistics
<1> HIDE DEF t, found
<1>6. ASSUME e = "clickhouse", t.pk.cols # <<>>
      PROVE  Lower(Head(t.pk.cols)) \in LeadingColumns(x.rows)
  <2>1. x.rows = ClickHouseIndexStatistics(found)
    BY <1>5, <1>6 DEF Ok
  <2>2. PICK y : y.cols = t.pk.cols /\ x.rows = <<y>>
    <3>1. ASSUME NEW z PROVE AnIndex(z, t.pk.cols, NoCount).cols = t.pk.cols
      BY DEF AnIndex
    <3>2. \E z : ClickHouseIndexStatistics(found) = <<AnIndex(z, t.pk.cols, NoCount)>>
      BY <1>3, <1>6, Zenon DEF ClickHouseIndexStatistics
    <3> QED BY <2>1, <3>1, <3>2
  <2>3. 1 \in DOMAIN x.rows /\ x.rows[1].cols = t.pk.cols
    BY <2>2, One
  <2> QED BY <1>6, <2>3 DEF LeadingColumns
<1>7. ASSUME NEW k \in DOMAIN t.indexes, NEW y, y.cols = t.indexes[k].cols,
             k \in DOMAIN x.rows, x.rows[k] = y
      PROVE  Lower(Head(t.indexes[k].cols)) \in LeadingColumns(x.rows)
  BY <1>4, <1>7 DEF IsTable, LeadingColumns
<1>8. ASSUME NEW k \in DOMAIN t.indexes, e = "mysql"
      PROVE  Lower(Head(t.indexes[k].cols)) \in LeadingColumns(x.rows)
  <2>1. x.rows = [m \in DOMAIN t.indexes |-> AnIndex(t.indexes[m], t.indexes[m].cols, NoCount)]
    BY <1>3, <1>5, <1>8 DEF Ok, MySQLIndexStatistics, Indexes, Map
  <2>2. AnIndex(t.indexes[k], t.indexes[k].cols, NoCount).cols = t.indexes[k].cols
    BY DEF AnIndex
  <2> QED BY <1>7, <2>1, <2>2
<1>9. ASSUME NEW k \in DOMAIN t.indexes, e = "mssql", t.indexes[k].incl = <<>>
      PROVE  Lower(Head(t.indexes[k].cols)) \in LeadingColumns(x.rows)
  <2>1. x.rows = [m \in DOMAIN t.indexes |-> AnIndex(t.indexes[m], t.indexes[m].incl \o t.indexes[m].cols, t.indexes[m].used)]
    BY <1>3, <1>5, <1>9 DEF Ok, MSSQLIndexStatistics, Indexes, Map
  <2>2. t.indexes[k].incl \o t.indexes[k].cols = t.indexes[k].cols
    <3>1. IsSequence(t.indexes[k].cols)
      BY <1>4 DEF IsTable
    <3> QED BY <1>9, <3>1 DEF IsSequence
  <2>3. AnIndex(t.indexes[k], t.indexes[k].cols, t.indexes[k].used).cols = t.indexes[k].cols
    BY DEF AnIndex
  <2> QED BY <1>7, <2>1, <2>2, <2>3
<1> QED BY <1>6, <1>8, <1>9 DEF t

\* No index of the table named ref begins with c, as far as the statistics tell.
LedByNone(e, d, ref, c) ==
    \A i \in DOMAIN d.tables :
        d.tables[i].ns = d.default /\ d.tables[i].name = ref.name =>
            /\ e = "clickhouse" /\ d.tables[i].pk.cols # <<>> => Lower(Head(d.tables[i].pk.cols)) # c
            /\ \A k \in DOMAIN d.tables[i].indexes :
                  e = "mysql" \/ (e = "mssql" /\ d.tables[i].indexes[k].incl = <<>>) =>
                     Lower(Head(d.tables[i].indexes[k].cols)) # c

\* What index_recommend answers about a statement and the indexes of a table.
LEMMA AdviceFor ==
    ASSUME NEW e \in Engines, NEW d, IsDatabase(d), NEW ref, e \in Sql => IsReference(ref),
           NEW sql, IsSequence(sql),
           NEW r, r = IndexRecommend(e, d, ref, sql), r.status = "ok", NEW c \in r.rows.missing
    PROVE  InAClause(sql, c) /\ LedByNone(e, d, ref, c)
<1>1. \E ns : /\ Space(d, ns) = d.default
              /\ \E x : /\ x = IndexStatistics(e, d, ns, ref) /\ x.status = "ok"
                        /\ c \in ExtractCandidateColumns(sql) /\ c \notin LeadingColumns(x.rows)
  <2> DEFINE x == IndexStatistics(e, d, "", ref)
             candidates == IF sql # <<>> /\ Supports(e, "sql") THEN ExtractCandidateColumns(sql) ELSE {}
  <2>1. \/ r = Unsupported
        \/ r = x /\ x.status # "ok"
        \/ x.status = "ok" /\ \E unused, plan :
              r = Ok([missing |-> candidates \ LeadingColumns(x.rows), unused |-> unused, plan |-> plan])
    BY Zenon DEF IndexRecommend
  <2>2. Space(d, "") = d.default
    BY Zenon DEF Space
  <2>3. candidates \subseteq ExtractCandidateColumns(sql)
    <3>1. ASSUME NEW P, NEW X PROVE (IF P THEN X ELSE {}) \subseteq X
      OBVIOUS
    <3> QED BY <3>1, Zenon
  <2> HIDE DEF x, candidates
  <2>4. r # Unsupported
    BY DEF Unsupported
  <2>5. x.status = "ok" /\ \E unused, plan :
            r = Ok([missing |-> candidates \ LeadingColumns(x.rows), unused |-> unused, plan |-> plan])
    BY <2>1, <2>4, Zenon
  <2>6. c \in candidates \ LeadingColumns(x.rows)
    BY <2>5 DEF Ok
  <2>7. x = IndexStatistics(e, d, "", ref)
    BY Zenon DEF x
  <2>8. c \in ExtractCandidateColumns(sql) /\ c \notin LeadingColumns(x.rows)
    BY <2>3, <2>6
  <2> QED BY <2>2, <2>5, <2>7, <2>8, Zenon
<1>2. PICK ns : /\ Space(d, ns) = d.default
                /\ \E x : /\ x = IndexStatistics(e, d, ns, ref) /\ x.status = "ok"
                          /\ c \in ExtractCandidateColumns(sql) /\ c \notin LeadingColumns(x.rows)
  BY <1>1
<1>3. PICK x : /\ x = IndexStatistics(e, d, ns, ref) /\ x.status = "ok"
               /\ c \in ExtractCandidateColumns(sql) /\ c \notin LeadingColumns(x.rows)
  BY <1>2
<1>4. InAClause(sql, c)
  BY <1>3, CandidatesAreNamed
<1>5. ASSUME NEW i \in DOMAIN d.tables, d.tables[i].ns = d.default, d.tables[i].name = ref.name
      PROVE  /\ e = "clickhouse" /\ d.tables[i].pk.cols # <<>> => Lower(Head(d.tables[i].pk.cols)) # c
             /\ \A k \in DOMAIN d.tables[i].indexes :
                   e = "mysql" \/ (e = "mssql" /\ d.tables[i].indexes[k].incl = <<>>) =>
                      Lower(Head(d.tables[i].indexes[k].cols)) # c
  <2>1. CASE e \in Sql
    <3>1. /\ e = "clickhouse" /\ d.tables[i].pk.cols # <<>> =>
                 Lower(Head(d.tables[i].pk.cols)) \in LeadingColumns(x.rows)
          /\ \A k \in DOMAIN d.tables[i].indexes :
                 e = "mysql" \/ (e = "mssql" /\ d.tables[i].indexes[k].incl = <<>>) =>
                    Lower(Head(d.tables[i].indexes[k].cols)) \in LeadingColumns(x.rows)
      BY <1>2, <1>3, <1>5, <2>1, IndexesLead
    <3> QED BY <1>3, <3>1
  <2>2. CASE e \notin Sql
    BY <2>2 DEF Sql, Rdb
  <2> QED BY <2>1, <2>2
<1> QED BY <1>4, <1>5 DEF LedByNone

\* Who gave an answer: the step that left it, or an earlier one.
LEMMA WhoAnswered ==
    ASSUME TypeOK, [Next]_vars
    PROVE  /\ Answered("get_schema")' => UNCHANGED vars \/ get_schema
           /\ Answered("index_recommend")' => UNCHANGED vars \/ index_recommend
           /\ Answered("generate_pipeline_plan")' => UNCHANGED vars \/ generate_pipeline_plan
           /\ Answered("get_table_relationships")' => UNCHANGED vars \/ get_table_relationships
           /\ Answered("profile_data")' => UNCHANGED vars \/ profile_data
           /\ Answered("execute_readonly_query")' => UNCHANGED vars \/ execute_readonly_query
<1>1. CASE UNCHANGED vars
  BY <1>1
<1>2. CASE NextCall
  BY <1>2 DEF NextCall, NoAnswer, Answered
<1>3. CASE Next /\ ~NextCall
  BY <1>3, ActionsTell DEF Next, TypeOK, Tells, Answered
<1> QED BY <1>1, <1>2, <1>3

\* No answer has been given at the start.
LEMMA NoneAnswered ==
    ASSUME Init, NEW tool, tool # "none"
    PROVE  ~Answered(tool)
BY DEF Init, Answered, NoAnswer

\* The argument names of databases that are known to be databases.
LEMMA TheArguments ==
    ASSUME TypeOK
    PROVE  /\ engine \in Engines
           /\ \A s \in States : IsDatabase(Databases[s])
           /\ engine # "redis" => \A ref \in Askable : IsReference(ref)
           /\ \A sql \in SQLs : IsSequence(sql)
BY ToolsAssumption, CatalogAssumption DEF TypeOK, States, Askable

AdviceSaid(d) ==
    \A c \in answer.data.missing : InAClause(answer.args[2], c) /\ LedByNone(engine, d, answer.args[1], c)

LEMMA AdviceIsSaid == AdviceIsUncovered <=> (Answered("index_recommend") => AdviceSaid(Database))
<1> HIDE DEF Database, Lower, IsName
<1> QED BY Zenon DEF AdviceIsUncovered, AdviceSaid, InAClause, LedByNone

\* index_recommend never suggests a word that an index of the table begins
\* with, nor one that does not stand after a WHERE, ON or ORDER BY of the
\* statement - columns, but also qualifiers and the words of literals: whatever
\* the tables, the indexes and the statement are, and however the names are
\* written.
THEOREM AdviceCounts == Spec => []AdviceIsUncovered
<1> DEFINE Right == Answered("index_recommend") => AdviceSaid(Database)
<1>1. Init => Right
  BY NoneAnswered
<1>2. TypeOK /\ Right /\ [Next]_vars => Right'
  <2> SUFFICES ASSUME TypeOK, Right, [Next]_vars, Answered("index_recommend")'
               PROVE  AdviceSaid(Database)'
    OBVIOUS
  <2>1. CASE UNCHANGED vars
    <3>1. Right' = Right
      BY <2>1 DEF vars, Answered, AdviceSaid, Database
    <3> QED BY <3>1
  <2>2. CASE index_recommend
    <3>1. PICK d \in States, ref \in Askable, sql \in SQLs :
            Respond("index_recommend", <<ref, sql>>, {ref.name} \cup ExtractTableNames(sql),
                    IndexRecommend(engine, Databases[d], ref, sql), d, d)
      BY <2>2 DEF index_recommend
    <3>2. PICK r : r = IndexRecommend(engine, Databases[d], ref, sql)
      OBVIOUS
    <3>3. /\ answer'.args[1] = ref /\ answer'.args[2] = sql /\ answer'.status = r.status
          /\ answer'.data = r.rows /\ answer'.from = d /\ engine' = engine
      BY <3>1, <3>2 DEF Respond
    <3> DEFINE D == Databases[d]
    <3>4. /\ engine \in Engines /\ IsDatabase(D) /\ IsSequence(sql)
          /\ engine \in Sql => IsReference(ref)
      <4>1. engine \in Sql => engine # "redis"
        BY DEF Sql, Rdb
      <4> QED BY <4>1, TheArguments
    <3>5. r.status = "ok" /\ Database' = D
      BY <3>3 DEF Answered, Database
    <3>6. r = IndexRecommend(engine, D, ref, sql)
      BY <3>2
    <3> HIDE DEF D
    <3>7. ASSUME NEW c \in r.rows.missing
          PROVE  InAClause(sql, c) /\ LedByNone(engine, D, ref, c)
      BY <3>4, <3>5, <3>6, <3>7, AdviceFor
    <3> QED BY <3>3, <3>5, <3>7 DEF AdviceSaid
  <2> QED BY <2>1, <2>2, WhoAnswered
<1> QED BY <1>1, <1>2, AdviceIsSaid, TypeCorrect, PTL DEF Spec
-----------------------------------------------------------------------------
(* Samples: what leaves is masked, and limited.                               *)

LEMMA SmallerIs ==
    ASSUME NEW m \in Int, NEW n \in Int
    PROVE  /\ SmallerOf(m, n) \in Int /\ SmallerOf(m, n) <= m /\ SmallerOf(m, n) <= n
           /\ SmallerOf(m, n) = m \/ SmallerOf(m, n) = n
BY DEF SmallerOf

LEMMA LargerIs ==
    ASSUME NEW m \in Int, NEW n \in Int
    PROVE  /\ LargerOf(m, n) \in Int /\ LargerOf(m, n) >= m /\ LargerOf(m, n) >= n
           /\ LargerOf(m, n) = m \/ LargerOf(m, n) = n
BY DEF LargerOf

LEMMA TakeIsLimited ==
    ASSUME NEW s, IsSequence(s), NEW n \in Nat
    PROVE  /\ IsSequence(Take(s, n)) /\ Len(Take(s, n)) <= n
           /\ Len(Take(s, n)) = SmallerOf(n, Len(s))
<1>1. Take(s, n) \in Seq(ToSet(s)) /\ Len(Take(s, n)) = SmallerOf(n, Len(s))
  BY TakeShortens DEF IsSequence
<1>2. Len(s) \in Nat
  BY SequencesAreIntervals
<1>3. Len(Take(s, n)) <= n
  BY <1>1, <1>2, SmallerIs
<1> HIDE DEF Take
<1>4. IsSequence(Take(s, n))
  <2>1. Len(Take(s, n)) \in Nat /\ Take(s, n) = [i \in 1..Len(Take(s, n)) |-> Take(s, n)[i]]
    BY <1>1
  <2> QED BY <2>1, FunctionsAreSequences
<1> QED BY <1>1, <1>3, <1>4

\* A slice begins as the sequence does.
LEMMA SliceShortens ==
    ASSUME NEW S, NEW s \in Seq(S), NEW n \in Int
    PROVE  /\ Slice(s, n) \in Seq(S)
           /\ \A i \in DOMAIN Slice(s, n) : i \in DOMAIN s /\ Slice(s, n)[i] = s[i]
<1> DEFINE m == IF n < 0 THEN LargerOf(Len(s) + n, 0) ELSE n
<1>1. m \in Nat
  BY SMTT(30) DEF LargerOf
<1>2. Slice(s, n) = Take(s, m)
  BY Zenon DEF Slice
<1> HIDE DEF m
<1> QED BY <1>1, <1>2, TakeShortens

\* s[:n] of Python has n elements at most when n is not negative; elements are
\* left out only when there are more than n.
LEMMA SliceIsLimited ==
    ASSUME NEW s, IsSequence(s), NEW n \in Int
    PROVE  /\ IsSequence(Slice(s, n)) /\ Len(Slice(s, n)) \in Nat
           /\ n >= 0 => Len(Slice(s, n)) <= n
           /\ Len(Slice(s, n)) < Len(s) => Len(s) > n
<1>1. Len(s) \in Nat
  BY SequencesAreIntervals
<1> DEFINE m == IF n < 0 THEN LargerOf(Len(s) + n, 0) ELSE n
<1>2. m \in Nat /\ (n >= 0 => m = n)
  BY <1>1, SMTT(30) DEF LargerOf
<1>3. Slice(s, n) = Take(s, m)
  BY Zenon DEF Slice
<1> HIDE DEF m
<1>4. /\ IsSequence(Slice(s, n)) /\ Len(Slice(s, n)) <= m
      /\ Len(Slice(s, n)) = SmallerOf(m, Len(s))
  BY <1>2, <1>3, TakeIsLimited
<1>5. Len(Slice(s, n)) \in Nat
  BY <1>4, SequencesAreIntervals
<1>6. ASSUME Len(Slice(s, n)) < Len(s) PROVE Len(s) > n
  BY <1>1, <1>2, <1>4, <1>6 DEF SmallerOf
<1> QED BY <1>2, <1>4, <1>5, <1>6

LEMMA MaskedLength ==
    ASSUME NEW rows, IsSequence(rows), NEW columns
    PROVE  Len(Masked(rows, columns)) = Len(rows)
<1> DEFINE F(row) == [c \in DOMAIN row |-> IF c \in columns THEN [t |-> "mask", v |-> "***"] ELSE row[c]]
<1>1. Masked(rows, columns) = [i \in DOMAIN rows |-> F(rows[i])]
  BY Zenon DEF Masked, Map
<1> HIDE DEF F
<1>2. Len(rows) \in Nat /\ DOMAIN rows = 1..Len(rows)
  BY SequencesAreIntervals
<1> QED BY <1>1, <1>2

\* A sample has no more rows than asked for; on Redis, where 0 is taken for no
\* limit and a scan takes a key before it stops, no more than one scan collects
\* or the one key.
Bound(e, limit) ==
    CASE limit > 0 -> limit
      [] limit = 0 -> IF e = "redis" THEN MaxScan ELSE 0
      [] limit < 0 -> IF e = "redis" THEN 1 ELSE 0

LEMMA SampleIsLimited ==
    ASSUME NEW e \in Engines, NEW d, IsDatabase(d), NEW ns, NEW ref, NEW limit \in Int,
           NEW x, x = SampleRows(e, d, ns, ref, limit), x.status = "ok"
    PROVE  /\ IsSequence(x.rows)
           /\ Len(x.rows) <= Bound(e, limit)
<1> DEFINE n == SmallerOf(limit, MaxSample)
           space == IF e \in Sql THEN Space(d, ns) ELSE d.default
           found == Found(d, space, ref)
<1>1. /\ MaxSample \in Nat \ {0} /\ MaxScan \in Nat
      /\ n \in Int /\ n <= limit /\ (n = limit \/ n = MaxSample)
  BY IntrospectionAssumption, SmallerIs
<1>2. found # <<>> => IsSequence(found[1].rows)
  <2> HIDE DEF space
  <2>1. found # <<>> => \E i \in DOMAIN d.tables : found[1] = d.tables[i]
    BY FoundAreTables
  <2> QED BY <2>1 DEF IsDatabase, IsTable
<1>3. e \in Sql /\ ~Valid(ref) => x = Raised
  BY DEF SampleRows
<1>4. CASE e \in Sql \cup Search
  <2>1. x = FirstRows(found, n) \/ x = FirstRows(found, LargerOf(n, 0))
    <3>1. ~(e \in Sql /\ ~Valid(ref))
      BY <1>3 DEF Raised
    <3> HIDE DEF n, space, found
    <3>2. x = CASE e = "mysql"      -> MySQLSample(found, n)
                [] e = "postgresql" -> PostgreSQLSample(found, n)
                [] e = "mssql"      -> MSSQLSample(found, n)
                [] e = "clickhouse" -> ClickHouseSample(found, n)
                [] e = "tibero"     -> TiberoSample(found, n)
                [] e \in Search     -> SearchSample(found, n)
                [] e = "mongodb"    -> MongoDBSample(found, n)
                [] e = "redis"      -> RedisSample(ScanPattern(d, ref, n))
      BY <3>1, Zenon DEF SampleRows, n, space, found
    <3> QED
      BY <1>4, <3>2 DEF Sql, Rdb, Search, MySQLSample, PostgreSQLSample, MSSQLSample, ClickHouseSample,
         TiberoSample, SearchSample
  <2> HIDE DEF n, found
  <2>2. PICK m \in Int : m \in {n, LargerOf(n, 0)} /\ x = FirstRows(found, m)
    BY <1>1, <2>1, LargerIs
  <2>3. found # <<>> /\ m \in Nat /\ x.rows = Take(found[1].rows, m)
    BY <2>2 DEF FirstRows, Raised, Ok
  <2>4. IsSequence(x.rows) /\ Len(x.rows) <= m /\ Len(x.rows) \in Nat
    BY <1>2, <2>3, TakeIsLimited, SequencesAreIntervals
  <2>5. e # "redis"
    BY <1>4 DEF Sql, Rdb, Search
  <2>6. m <= Bound(e, limit)
    BY <1>1, <2>2, <2>3, <2>5 DEF LargerOf, Bound
  <2> HIDE DEF Bound
  <2>7. Bound(e, limit) \in Int
    BY <1>1 DEF Bound
  <2> QED BY <2>4, <2>6, <2>7
<1>5. CASE e = "mongodb"
  <2> DEFINE IdAsText(row) == [c \in DOMAIN row |-> IF c.w = <<"_id">> THEN [row[c] EXCEPT !.t = "str"] ELSE row[c]]
             s == Take(found[1].rows, n)
  <2>1. x = MongoDBSample(found, n)
    <3> HIDE DEF n, found
    <3>1. x = MongoDBSample(Found(d, IF e \in Sql THEN Space(d, ns) ELSE d.default, ref), SmallerOf(limit, MaxSample))
      BY <1>5 DEF SampleRows, Sql, Rdb, Search
    <3> QED BY <3>1 DEF n, found
  <2> HIDE DEF n, found
  <2>2. x.rows = IF found = <<>> THEN <<>> ELSE [i \in DOMAIN s |-> IdAsText(s[i])]
    <3>1. \/ x = Raised
          \/ x = Ok(IF found = <<>> THEN <<>> ELSE [i \in DOMAIN s |-> IdAsText(s[i])])
      BY <2>1, Zenon DEF MongoDBSample, Map
    <3> HIDE DEF s, IdAsText
    <3> QED BY <3>1 DEF Ok, Raised
  <2>8. n \in Nat
    <3>1. n <= 0 => x = Raised
      BY <2>1, Zenon DEF MongoDBSample
    <3>2. ~(n <= 0)
      BY <3>1 DEF Raised
    <3> QED BY <1>1, <3>2
  <2> HIDE DEF s, IdAsText
  <2>3. IsSequence(x.rows) /\ Len(x.rows) <= n /\ Len(x.rows) \in Nat
    <3>1. CASE found = <<>>
      BY <2>2, <2>8, <3>1, Nothing
    <3>2. CASE found # <<>>
      <4>1. IsSequence(s) /\ Len(s) <= n /\ Len(s) \in Nat /\ DOMAIN s = 1..Len(s)
        BY <1>2, <2>8, <3>2, TakeIsLimited, SequencesAreIntervals DEF s
      <4>2. x.rows = [i \in 1..Len(s) |-> x.rows[i]]
        BY <2>2, <3>2, <4>1
      <4> QED BY <4>1, <4>2, FunctionsAreSequences
    <3> QED BY <3>1, <3>2
  <2> QED BY <1>1, <1>5, <2>3, <2>8 DEF Bound
<1>6. CASE e = "redis"
  <2> DEFINE bound == IF n = 0 THEN MaxScan ELSE LargerOf(n, 1)
             keys == ScanPattern(d, ref, n)
             Row(k) == Word("key") :> [t |-> "str", v |-> k.key] @@ Word("type") :> [t |-> "str", v |-> k.type]
                          @@ Word("value") :> [t |-> k.type, v |-> k.fields]
  <2>1. x = Ok([i \in DOMAIN keys |-> Row(keys[i])])
    <3>1. x = RedisSample(ScanPattern(d, ref, SmallerOf(limit, MaxSample)))
      BY <1>6 DEF SampleRows, Sql, Rdb, Search
    <3> QED BY <3>1, Zenon DEF RedisSample, Map
  <2> HIDE DEF Row
  <2>2. IsSequence(keys) /\ Len(keys) <= bound
    <3> DEFINE I == {i \in DOMAIN d.keys : ref = All \/ (Valid(ref) /\ d.keys[i].key = ref.name.w)}
    <3>1. d.keys \in Seq(ToSet(d.keys)) /\ I \in SUBSET DOMAIN d.keys
      BY DEF IsDatabase, IsSequence
    <3>2. KeysMatching(d, ref) = Pick(d.keys, I)
      BY Zenon DEF KeysMatching
    <3> HIDE DEF I
    <3>3. KeysMatching(d, ref) \in Seq(ToSet(d.keys))
      BY <3>1, <3>2, PickIsSeq
    <3>4. IsSequence(KeysMatching(d, ref))
      <4> DEFINE s == KeysMatching(d, ref)
      <4> HIDE DEF s
      <4>1. Len(s) \in Nat /\ s = [i \in 1..Len(s) |-> s[i]]
        BY <3>3 DEF s
      <4>2. IsSequence(s)
        BY <4>1, FunctionsAreSequences
      <4> QED BY <4>2 DEF s
    <3>5. bound \in Nat
      <4> HIDE DEF n
      <4> QED BY <1>1, SMTT(30) DEF LargerOf
    <3>6. keys = Take(KeysMatching(d, ref), bound)
      <4> HIDE DEF n
      <4> QED BY Zenon DEF ScanPattern
    <3> HIDE DEF keys, bound
    <3> QED BY <3>4, <3>5, <3>6, TakeIsLimited
  <2> HIDE DEF keys
  <2>3. Len(keys) \in Nat /\ DOMAIN keys = 1..Len(keys)
    BY <2>2, SequencesAreIntervals
  <2>4. x.rows = [i \in 1..Len(keys) |-> Row(keys[i])]
    BY <2>1, <2>3 DEF Ok
  <2>5. x.rows = [i \in 1..Len(keys) |-> x.rows[i]]
    BY <2>4
  <2>6. IsSequence(x.rows) /\ Len(x.rows) = Len(keys)
    BY <2>3, <2>5, FunctionsAreSequences
  <2>7. bound \in Nat /\ bound <= Bound(e, limit) /\ Bound(e, limit) \in Nat
    <3> HIDE DEF n
    <3>1. CASE n = 0
      BY <1>1, <1>6, <3>1, SMTT(30) DEF Bound
    <3>2. CASE n > 0
      BY <1>1, <1>6, <3>2, SMTT(30) DEF Bound, LargerOf
    <3>3. CASE n < 0
      BY <1>1, <1>6, <3>3, SMTT(30) DEF Bound, LargerOf
    <3> QED BY <1>1, <3>1, <3>2, <3>3
  <2> HIDE DEF n, bound
  <2> QED BY <2>2, <2>3, <2>6, <2>7
<1> QED BY <1>4, <1>5, <1>6 DEF Engines
\* What a statement reads are the rows of a table.
LEMMA ReadYieldsRows ==
    ASSUME NEW e \in Sql, NEW d, IsDatabase(d), NEW sql, IsSequence(sql),
           NEW x, x = ExecuteReadonly(e, d, sql), x.status = "ok"
    PROVE  IsSequence(x.rows)
<1> DEFINE reads == {j \in TableRefs(sql) : ~sql[j].q}
           SpaceOf(j) == IF IsQualified(sql, j) THEN Head(sql[j + 1].n.w) ELSE d.default
           Tabs(j) == TablesIn(d, SpaceOf(j), Bare(NameAfter(sql, j)))
<1>1. x = Read(d, sql)
  BY DEF ExecuteReadonly, Raised
<1>2. x = CASE reads = {} -> Ok(<<>>)
            [] \E j \in reads : Tabs(j) = <<>> -> Raised
            [] OTHER -> Ok(Tabs(Min(reads))[1].rows)
  BY <1>1, Zenon DEF Read, Bare
<1>3. reads \in SUBSET Nat
  <2>1. Len(sql) \in Nat
    BY SequencesAreIntervals
  <2>2. TableRefs(sql) \in SUBSET Nat
    BY <2>1 DEF TableRefs
  <2> QED BY <2>2
<1>4. ASSUME NEW j, Tabs(j) # <<>> PROVE IsSequence(Tabs(j)[1].rows)
  <2> HIDE DEF SpaceOf
  <2>1. PICK i \in DOMAIN d.tables : Tabs(j)[1] = d.tables[i]
    BY <1>4, FoundAreTables
  <2> HIDE DEF Tabs
  <2> QED BY <2>1 DEF IsDatabase, IsTable
<1> HIDE DEF reads, Tabs
<1>5. CASE reads = {}
  <2>1. x.rows = <<>>
    BY <1>2, <1>5 DEF Ok
  <2> QED BY <2>1, Nothing
<1>6. CASE reads # {}
  <2>1. Min(reads) \in reads
    <3>1. \E i \in reads : \A j \in reads : i <= j
      BY <1>3, <1>6, HasLeast
    <3> QED BY <3>1 DEF Min
  <2>2. ~(\E j \in reads : Tabs(j) = <<>>) /\ x.rows = Tabs(Min(reads))[1].rows
    <3>1. ASSUME \E j \in reads : Tabs(j) = <<>> PROVE FALSE
      <4>1. x = Raised
        BY <1>2, <1>6, <3>1
      <4> QED BY <4>1 DEF Raised
    <3> QED BY <1>2, <1>6, <3>1 DEF Ok
  <2> QED BY <1>4, <2>1, <2>2
<1> QED BY <1>5, <1>6

LEMMA ProfileIsLimited ==
    ASSUME TypeOK, profile_data, answer'.status = "ok"
    PROVE  RowsAreLimited' /\ CutsAreTold'
<1>1. PICK d \in States, ref \in Askable, limit \in Limits :
        Respond("profile_data", <<ref, limit>>, {ref.name}, ProfileData(engine, Databases[d], ref, limit), d, d)
  BY DEF profile_data
<1>2. PICK r : r = ProfileData(engine, Databases[d], ref, limit)
  OBVIOUS
<1>3. answer'.args[2] = limit /\ r.status = "ok" /\ answer'.data = r.rows /\ engine' = engine
  BY <1>1, <1>2 DEF Respond
<1>4. engine \in Engines /\ IsDatabase(Databases[d]) /\ limit \in Int /\ MaxRows \in Nat \ {0} /\ MaxScan \in Nat
  BY TheArguments, ToolsAssumption, IntrospectionAssumption
<1>5. \E ns, x, columns :
        /\ x = SampleRows(engine, Databases[d], ns, ref, SmallerOf(limit, MaxRows)) /\ x.status = "ok"
        /\ r.rows.rows = Masked(x.rows, columns)
  <2> DEFINE x == SampleRows(engine, Databases[d], "", ref, SmallerOf(limit, MaxRows))
             columns == UNION {DOMAIN x.rows[i] : i \in DOMAIN x.rows}
             hidden == {c \in columns : Sensitive(c)}
  <2>1. \/ r = Unsupported
        \/ r = x /\ x.status # "ok"
        \/ x.status = "ok" /\ \E nulls, distinct :
              r = Ok([nulls |-> nulls, distinct |-> distinct, rows |-> Masked(x.rows, hidden)])
    BY <1>2, Zenon DEF ProfileData
  <2>2. \E ns : x = SampleRows(engine, Databases[d], ns, ref, SmallerOf(limit, MaxRows))
    BY Zenon
  <2> HIDE DEF x, hidden
  <2>3. r # Unsupported
    BY <1>3 DEF Unsupported
  <2>4. PICK nulls, distinct :
           x.status = "ok" /\ r = Ok([nulls |-> nulls, distinct |-> distinct, rows |-> Masked(x.rows, hidden)])
    BY <1>3, <2>1, <2>3, Zenon
  <2>5. r.rows.rows = Masked(x.rows, hidden)
    BY <2>4 DEF Ok
  <2> QED BY <2>2, <2>4, <2>5, Zenon
<1>6. PICK ns, x, columns :
        /\ x = SampleRows(engine, Databases[d], ns, ref, SmallerOf(limit, MaxRows)) /\ x.status = "ok"
        /\ r.rows.rows = Masked(x.rows, columns)
  BY <1>5
<1> DEFINE n == SmallerOf(limit, MaxRows)
<1>7. n \in Int
  BY <1>4, SmallerIs
<1> HIDE DEF n
<1>8. IsSequence(x.rows) /\ Len(x.rows) <= Bound(engine, n)
  BY <1>4, <1>6, <1>7, SampleIsLimited DEF n
<1>9. Len(answer'.data.rows) <= Bound(engine, n)
  <2>1. Len(answer'.data.rows) = Len(x.rows)
    BY <1>3, <1>6, <1>8, MaskedLength
  <2> QED BY <1>8, <2>1
<1>10. (limit > 0 => n > 0) /\ (limit <= 0 => n = limit)
  BY <1>4 DEF n, SmallerOf
<1>11. Bound(engine, n) = CASE limit > 0 -> n
                            [] limit = 0 -> IF engine = "redis" THEN MaxScan ELSE 0
                            [] limit < 0 -> IF engine = "redis" THEN 1 ELSE 0
  BY <1>4, <1>7, <1>10 DEF Bound
<1> HIDE DEF Bound
<1>12. answer'.tool = "profile_data"
  BY <1>1 DEF Respond
<1> QED BY <1>3, <1>4, <1>9, <1>11, <1>12 DEF RowsAreLimited, CutsAreTold, n

\* What execute_readonly_query answers: the rows it has read, cut and masked.
LEMMA QueryAnswer ==
    ASSUME NEW e \in Engines, NEW d, IsDatabase(d), NEW sql, IsSequence(sql), NEW limit \in Int, NEW mask,
           NEW r, r = ExecuteReadonlyQuery(e, d, sql, limit, mask), r.status = "ok"
    PROVE  \E rows : /\ e # "redis" /\ rows = Read(d, sql).rows /\ IsSequence(rows)
                     /\ r.rows.rows = Masked(Slice(rows, SmallerOf(limit, MaxRows)), mask)
                     /\ r.rows.truncated = (Len(rows) > SmallerOf(limit, MaxRows))
<1> DEFINE n == SmallerOf(limit, MaxRows)
           x == ExecuteReadonly(e, d, sql)
           T == Len(x.rows) > n
<1>1. \/ r = Unsupported
      \/ r = x /\ x.status # "ok"
      \/ /\ Supports(e, "sql") /\ x.status = "ok"
         /\ r = Ok([rows |-> Masked(Slice(x.rows, n), mask), truncated |-> T])
  BY Zenon DEF ExecuteReadonlyQuery
<1>2. x = IF e \notin Sql THEN NoSuchMethod ELSE IF ReadonlySql(sql) THEN Read(d, sql) ELSE Raised
  BY Zenon DEF ExecuteReadonly
<1> HIDE DEF x, n, T
<1>3. /\ Supports(e, "sql") /\ x.status = "ok"
      /\ r = Ok([rows |-> Masked(Slice(x.rows, n), mask), truncated |-> T])
  BY <1>1 DEF Unsupported
<1>4. e \in Sql
  BY <1>3, WhoSupports
<1>5. x = Read(d, sql)
  BY <1>2, <1>3, <1>4 DEF Raised
<1>6. IsSequence(x.rows)
  BY <1>3, <1>4, ReadYieldsRows DEF x
<1>7. r.rows.rows = Masked(Slice(x.rows, n), mask) /\ r.rows.truncated = T
  <2>1. PICK t : t = T
    BY Zenon
  <2>2. r = Ok([rows |-> Masked(Slice(x.rows, n), mask), truncated |-> t])
    BY <1>3, <2>1, Zenon
  <2>3. r.rows.rows = Masked(Slice(x.rows, n), mask) /\ r.rows.truncated = t
    BY <2>2 DEF Ok
  <2> QED BY <2>1, <2>3, Zenon
<1>8. e # "redis"
  BY <1>4 DEF Sql, Rdb
<1>9. x.rows = Read(d, sql).rows
  BY <1>5
<1>10. r.rows.truncated = (Len(x.rows) > SmallerOf(limit, MaxRows))
  BY <1>7 DEF T, n
<1>11. r.rows.rows = Masked(Slice(x.rows, SmallerOf(limit, MaxRows)), mask)
  BY <1>7 DEF n
<1> HIDE DEF T, n
<1> QED BY <1>6, <1>8, <1>9, <1>10, <1>11, Zenon

LEMMA QueryIsLimited ==
    ASSUME TypeOK, execute_readonly_query, answer'.status = "ok"
    PROVE  RowsAreLimited' /\ CutsAreTold'
<1>1. PICK d \in States, sql \in SQLs, limit \in Limits, mask \in {{}, {Word("email")}} :
        Respond("execute_readonly_query", <<sql, limit, mask>>, ExtractTableNames(sql),
                ExecuteReadonlyQuery(engine, Databases[d], sql, limit, mask), d, d)
  BY DEF execute_readonly_query
<1>2. PICK r : r = ExecuteReadonlyQuery(engine, Databases[d], sql, limit, mask)
  OBVIOUS
<1>3. /\ answer'.args[1] = sql /\ answer'.args[2] = limit /\ answer'.from = d /\ r.status = "ok"
      /\ answer'.data = r.rows /\ answer'.tool = "execute_readonly_query" /\ engine' = engine
  BY <1>1, <1>2 DEF Respond
<1>4. /\ engine \in Engines /\ IsDatabase(Databases[d]) /\ IsSequence(sql)
      /\ limit \in Int /\ MaxRows \in Nat \ {0}
  BY TheArguments, ToolsAssumption
<1> DEFINE n == SmallerOf(limit, MaxRows)
<1>5. PICK rows : /\ engine # "redis" /\ rows = Read(Databases[d], sql).rows /\ IsSequence(rows)
                  /\ r.rows.rows = Masked(Slice(rows, n), mask)
                  /\ r.rows.truncated = (Len(rows) > n)
  BY <1>2, <1>3, <1>4, QueryAnswer
<1>6. n \in Int /\ (limit >= 0 => n >= 0)
  BY <1>4 DEF SmallerOf
<1>7. Len(answer'.data.rows) = Len(Slice(rows, n))
  BY <1>3, <1>5, <1>6, SliceIsLimited, MaskedLength
<1> HIDE DEF n
<1>8. RowsAreLimited'
  <2>1. limit >= 0 => Len(answer'.data.rows) <= n
    BY <1>4, <1>5, <1>6, <1>7, SliceIsLimited
  <2>2. limit = 0 => n = 0
    BY <1>4 DEF n, SmallerOf
  <2> QED BY <1>3, <1>4, <1>5, <2>1, <2>2 DEF RowsAreLimited, n
<1>9. CutsAreTold'
  <2>1. Len(answer'.data.rows) < Len(rows) => answer'.data.truncated
    BY <1>3, <1>5, <1>6, <1>7, SliceIsLimited
  <2>2. Read(Database, answer.args[1])' = Read(Databases[d], sql)
    BY <1>3 DEF Database
  <2> QED BY <1>5, <2>1, <2>2, Zenon DEF CutsAreTold
<1> QED BY <1>8, <1>9

\* No sample leaves with a value in a column that must be hidden, on any engine;
\* none has more rows than a positive limit asks for and the server allows,
\* and what 0 and negative limits let through is what RowsAreLimited says, no
\* more; a query that leaves rows out says so, whatever the limit.
THEOREM SamplesAreSafe == Spec => []SamplesAreMasked
<1>1. Init => ~Sampled
  BY NoneAnswered DEF Sampled
<1> DEFINE Right == Sampled => RowsAreLimited /\ CutsAreTold
<1>2. TypeOK /\ Right /\ [Next]_vars => Right'
  <2> SUFFICES ASSUME TypeOK, Right, [Next]_vars, Sampled'
               PROVE  RowsAreLimited' /\ CutsAreTold'
    OBVIOUS
  <2>1. CASE UNCHANGED vars
    <3>1. Sampled' = Sampled /\ RowsAreLimited' = RowsAreLimited /\ CutsAreTold' = CutsAreTold
      BY <2>1 DEF vars, Sampled, Answered, RowsAreLimited, CutsAreTold, Database
    <3> QED BY <3>1
  <2>2. CASE profile_data \/ execute_readonly_query
    <3>1. answer'.status = "ok"
      BY DEF Sampled, Answered
    <3> QED BY <2>2, <3>1, ProfileIsLimited, QueryIsLimited
  <2> QED BY <2>1, <2>2, WhoAnswered DEF Sampled
<1> QED BY <1>1, <1>2, TypeCorrect, NothingHiddenLeaves, PTL DEF Spec, SamplesAreMasked
-----------------------------------------------------------------------------
(* get_table_relationships: what is declared, and what may be guessed.        *)

\* A foreign key is among what every relational engine reads of its table; on
\* PostgreSQL, one that stays in its schema.
LEMMA DeclaredIsRead ==
    ASSUME NEW e \in Rdb, NEW d, IsDatabase(d), NEW asked, Relationships(e, d, asked).status = "ok",
           NEW i \in DOMAIN d.tables, d.tables[i].ns = d.default,
           d.tables[i].name \in {asked[j].name : j \in DOMAIN asked},
           NEW f \in DOMAIN d.tables[i].fks, e = "postgresql" => d.tables[i].fks[f].refNs = d.default,
           NEW p \in DOMAIN d.tables[i].fks[f].cols
    PROVE  Declared(d.tables[i], d.tables[i].fks[f].cols[p], d.tables[i].fks[f].ref, d.tables[i].fks[f].refCols[p])
              \in Relationships(e, d, asked).rows
<1> DEFINE names == {asked[j].name : j \in DOMAIN asked}
           t == d.tables[i]
           fk == t.fks[f]
           k == [t |-> t, fk |-> fk]
           D == Declared(t, fk.cols[p], fk.ref, fk.refCols[p])
<1>1. k \in ForeignKeys(d, names, FALSE) /\ k \in ForeignKeys(d, names, TRUE)
  <2>1. ASSUME NEW anywhere \in BOOLEAN PROVE k \in ForeignKeys(d, names, anywhere)
    <3> DEFINE J == {j \in DOMAIN d.tables : d.tables[j].name \in names /\ (anywhere \/ d.tables[j].ns = d.default)}
               G(j) == {[t |-> d.tables[j], fk |-> d.tables[j].fks[g]] : g \in DOMAIN d.tables[j].fks}
    <3>1. ForeignKeys(d, names, anywhere) = UNION {G(j) : j \in J}
      BY Zenon DEF ForeignKeys
    <3>2. i \in J
      OBVIOUS
    <3>3. k \in G(i)
      BY SMTT(30)
    <3> HIDE DEF J, G, k
    <3> QED BY <3>1, <3>2, <3>3
  <2> HIDE DEF k, names
  <2> QED BY <2>1
<1>2. IsForeignKey(d, fk) /\ IsSequence(fk.cols) /\ IsSequence(fk.refCols) /\ Len(fk.refCols) = Len(fk.cols)
  BY DEF IsDatabase, IsTable, IsForeignKey
<1>3. p \in DOMAIN fk.refCols
  <2>1. DOMAIN fk.cols = 1..Len(fk.cols) /\ DOMAIN fk.refCols = 1..Len(fk.refCols)
    BY <1>2, SequencesAreIntervals
  <2> QED BY <1>2, <2>1
<1>4. k.t = t /\ k.fk = fk
  OBVIOUS
<1>5. Relationships(e, d, asked).rows =
        CASE e = "mysql"      -> MySQLRelationships(d, names)
          [] e = "mssql"      -> MSSQLRelationships(d, names)
          [] e = "postgresql" -> PostgreSQLRelationships(d, names)
          [] e = "tibero"     -> TiberoRelationships(d, names)
  <2> HIDE DEF names
  <2>1. ~\E j \in DOMAIN asked : ~Valid(asked[j])
    BY DEF Relationships, Raised
  <2>2. Relationships(e, d, asked) =
          CASE e = "mysql"      -> Ok(MySQLRelationships(d, names))
            [] e = "mssql"      -> Ok(MSSQLRelationships(d, names))
            [] e = "postgresql" -> Ok(PostgreSQLRelationships(d, names))
            [] e = "tibero"     -> Ok(TiberoRelationships(d, names))
            [] OTHER            -> NoSuchMethod
    BY <2>1, Zenon DEF Relationships, names
  <2> QED BY <2>2 DEF Rdb, Ok
<1>6. D \in ColumnPairs(k)
  BY <1>4 DEF ColumnPairs
<1> DEFINE from == [ns |-> t.ns, table |-> t.name, con |-> fk.name, col |-> fk.cols[p], pos |-> p]
<1>7. from \in KeyColumns(d)
  <2> DEFINE A(u) == {[ns |-> u.ns, table |-> u.name, con |-> u.pk.name, col |-> u.pk.cols[q], pos |-> q] : q \in DOMAIN u.pk.cols}
             B(u, g) == {[ns |-> u.ns, table |-> u.name, con |-> u.fks[g].name, col |-> u.fks[g].cols[q], pos |-> q]
                            : q \in DOMAIN u.fks[g].cols}
             C(u) == A(u) \cup UNION {B(u, g) : g \in DOMAIN u.fks}
  <2>1. KeyColumns(d) = UNION {C(d.tables[j]) : j \in DOMAIN d.tables}
    BY Zenon DEF KeyColumns
  <2>2. from \in B(d.tables[i], f)
    OBVIOUS
  <2> HIDE DEF A, B, from
  <2>3. from \in C(d.tables[i])
    BY <2>2
  <2> HIDE DEF C
  <2> QED BY <2>1, <2>3
<1> DEFINE to == [ns |-> fk.refNs, table |-> fk.ref, con |-> fk.name, col |-> fk.refCols[p]]
<1>8. to \in UsedColumns(d)
  <2> DEFINE A(u) == {[ns |-> u.ns, table |-> u.name, con |-> u.pk.name, col |-> u.pk.cols[q]] : q \in DOMAIN u.pk.cols}
             B(u, g) == {[ns |-> u.fks[g].refNs, table |-> u.fks[g].ref, con |-> u.fks[g].name, col |-> u.fks[g].refCols[q]]
                            : q \in DOMAIN u.fks[g].refCols}
             C(u) == A(u) \cup UNION {B(u, g) : g \in DOMAIN u.fks}
  <2>1. UsedColumns(d) = UNION {C(d.tables[j]) : j \in DOMAIN d.tables}
    BY Zenon DEF UsedColumns
  <2>2. to \in B(d.tables[i], f)
    BY <1>3, SMTT(30)
  <2> HIDE DEF A, B, to
  <2>3. to \in C(d.tables[i])
    BY <2>2
  <2> HIDE DEF C
  <2> QED BY <2>1, <2>3
<1>9. PICK l \in DOMAIN d.tables :
        /\ d.tables[l].ns = fk.refNs /\ d.tables[l].name = fk.ref
        /\ d.tables[l].pk.name = fk.key /\ d.tables[l].pk.cols = fk.refCols
  BY <1>2 DEF IsForeignKey
<1> DEFINE key == [ns |-> fk.refNs, table |-> fk.ref, con |-> fk.key, col |-> fk.refCols[p], pos |-> p]
<1>10. key \in KeyColumns(d)
  <2> DEFINE A(u) == {[ns |-> u.ns, table |-> u.name, con |-> u.pk.name, col |-> u.pk.cols[q], pos |-> q] : q \in DOMAIN u.pk.cols}
             B(u, g) == {[ns |-> u.ns, table |-> u.name, con |-> u.fks[g].name, col |-> u.fks[g].cols[q], pos |-> q]
                            : q \in DOMAIN u.fks[g].cols}
             C(u) == A(u) \cup UNION {B(u, g) : g \in DOMAIN u.fks}
  <2>1. KeyColumns(d) = UNION {C(d.tables[j]) : j \in DOMAIN d.tables}
    BY ZenonT(60) DEF KeyColumns
  <2>2. key \in A(d.tables[l])
    BY <1>3, <1>9
  <2> HIDE DEF A, B, key
  <2>3. key \in C(d.tables[l])
    BY <2>2
  <2> HIDE DEF C
  <2> QED BY <2>1, <2>3
<1>11. CASE e = "mysql" \/ e = "mssql"
  <2> HIDE DEF k, D, names
  <2>1. D \in MySQLRelationships(d, names) /\ D \in MSSQLRelationships(d, names)
    BY <1>1, <1>6 DEF MySQLRelationships, MSSQLRelationships
  <2> QED BY <1>5, <1>11, <2>1 DEF D
<1>12. CASE e = "postgresql"
  <2> DEFINE Pairs(q) == {Declared(q.t, x.col, y.table, y.col) :
                            x \in {z \in KeyColumns(d) : z.con = q.fk.name /\ z.ns = q.t.ns},
                            y \in {z \in UsedColumns(d) : z.con = q.fk.name /\ z.ns = q.t.ns}}
  <2>1. PostgreSQLRelationships(d, names) = UNION {Pairs(q) : q \in ForeignKeys(d, names, FALSE)}
    <3> HIDE DEF names, k, D, from, to, key, fk, t
    <3> QED BY DEF PostgreSQLRelationships
  <2>2. D \in Pairs(k)
    <3>1. from.con = fk.name /\ from.ns = t.ns /\ from.col = fk.cols[p]
      OBVIOUS
    <3>2. to.con = fk.name /\ to.ns = t.ns /\ to.table = fk.ref /\ to.col = fk.refCols[p]
      BY <1>12
    <3>3. D = Declared(k.t, from.col, to.table, to.col)
      BY <1>4, <3>1, <3>2, SMTT(30)
    <3> HIDE DEF from, to, k, D, fk, t
    <3> QED BY <1>4, <1>7, <1>8, <3>1, <3>2, <3>3
  <2> HIDE DEF Pairs, k, D, names
  <2> QED BY <1>1, <1>5, <1>12, <2>1, <2>2 DEF D
<1>13. CASE e = "tibero"
  <2> DEFINE Joined(q) == {x \in KeyColumns(d) \X KeyColumns(d) :
                             x[1].con = q.fk.name /\ x[2].con = q.fk.key /\ x[1].pos = x[2].pos}
             Pairs(q) == {Declared(q.t, pair[1].col, pair[2].table, pair[2].col) : pair \in Joined(q)}
  <2>1. TiberoRelationships(d, names) = UNION {Pairs(q) : q \in ForeignKeys(d, names, FALSE)}
    BY Zenon DEF TiberoRelationships
  <2>2. D \in Pairs(k)
    <3>1. from.con = fk.name /\ from.pos = p /\ from.col = fk.cols[p]
      OBVIOUS
    <3>2. key.con = fk.key /\ key.pos = p /\ key.table = fk.ref /\ key.col = fk.refCols[p]
      OBVIOUS
    <3>3. D = Declared(k.t, from.col, key.table, key.col)
      BY <1>4, <3>1, <3>2
    <3> HIDE DEF from, key, k, D, fk, t
    <3>4. <<from, key>> \in Joined(k)
      BY <1>4, <1>7, <1>10, <3>1, <3>2
    <3> HIDE DEF Joined
    <3> QED BY <3>3, <3>4
  <2> HIDE DEF Pairs, k, D, names
  <2> QED BY <1>1, <1>5, <1>13, <2>1, <2>2 DEF D
<1> QED BY <1>11, <1>12, <1>13 DEF Rdb
LEMMA LeastOf ==
    ASSUME NEW S \in SUBSET Nat, S # {}
    PROVE  Min(S) \in S
<1>1. \E x \in S : \A y \in S : x <= y
  BY HasLeast
<1> QED BY <1>1 DEF Min

LEMMA GreatestOf ==
    ASSUME NEW s, IsSequence(s), NEW S \in SUBSET DOMAIN s, S # {}
    PROVE  Max(S) \in S /\ \A k \in S : k <= Max(S)
<1>1. Len(s) \in Nat /\ DOMAIN s = 1..Len(s)
  BY SequencesAreIntervals
<1>2. S \in SUBSET (0..Len(s))
  BY <1>1
<1>3. \E x \in S : \A y \in S : y <= x
  BY <1>1, <1>2, HasGreatest
<1>4. \A x, y \in S : y <= x <=> x >= y
  BY <1>1
<1>5. \E x \in S : \A y \in S : x >= y
  BY <1>3, <1>4
<1> QED BY <1>4, <1>5 DEF Max

\* Where a guess leads is a table of the list.
LEMMA GuessIsNamed ==
    ASSUME NEW tables, IsSequence(tables), NEW order, IsSequence(order),
           \A i \in DOMAIN order : \E j \in DOMAIN tables : tables[j].name = order[i],
           NEW from, NEW c, NEW x, x = InferTarget(tables, from, c, order), x.to # NoTable
    PROVE  \E j \in DOMAIN tables : tables[j].name = x.to
<1>1. ASSUME NEW n, PkTable(tables, n) # NoTable
      PROVE  \E j \in DOMAIN tables : tables[j].name = PkTable(tables, n)
  <2> DEFINE owners == {i \in DOMAIN tables : \E j \in DOMAIN tables[i].fields :
                           tables[i].fields[j].pk /\ Lower(tables[i].fields[j].name) = n}
  <2>1. PkTable(tables, n) = IF owners = {} THEN NoTable ELSE tables[Max(owners)].name
    BY Zenon DEF PkTable
  <2>2. owners \in SUBSET DOMAIN tables
    OBVIOUS
  <2> HIDE DEF owners
  <2>3. owners # {}
    BY <1>1, <2>1
  <2>4. Max(owners) \in owners
    BY <2>2, <2>3, GreatestOf
  <2> QED BY <2>1, <2>2, <2>3, <2>4
<1>2. ASSUME NEW n, FindMatchingTable(n, order) # NoTable
      PROVE  \E j \in DOMAIN tables : tables[j].name = FindMatchingTable(n, order)
  <2> DEFINE I == {i \in 1..Len(order) : order[i] = [n EXCEPT !.s = TRUE] \/
                      (order[i].s = n.s /\ order[i].up = n.up /\ IsStrictSuffix(n.w, order[i].w))}
  <2>1. Len(order) \in Nat /\ DOMAIN order = 1..Len(order)
    BY SequencesAreIntervals
  <2>2. FindMatchingTable(n, order) =
           IF Contains(order, n) THEN n
           ELSE IF (IF I # {} THEN Min(I) ELSE 0) = 0 THEN NoTable ELSE order[IF I # {} THEN Min(I) ELSE 0]
    BY Zenon DEF FindMatchingTable, SelectInSeq
  <2>3. I \in SUBSET Nat /\ I \in SUBSET DOMAIN order
    BY <2>1
  <2> HIDE DEF I
  <2>4. CASE Contains(order, n)
    <3>1. \E i \in DOMAIN order : order[i] = n
      BY <2>1, <2>4 DEF Contains
    <3> QED BY <2>2, <2>4, <3>1
  <2>5. CASE ~Contains(order, n)
    <3>1. I # {}
      BY <1>2, <2>2, <2>5
    <3>2. Min(I) \in DOMAIN order
      BY <2>3, <3>1, LeastOf
    <3>3. FindMatchingTable(n, order) = order[Min(I)]
      BY <1>2, <2>2, <2>5, <3>1
    <3> QED BY <3>2, <3>3
  <2> QED BY <2>4, <2>5
<1>3. ASSUME NEW n, MatchBySuffix(n, from, order) # NoTable
      PROVE  \E j \in DOMAIN tables : tables[j].name = MatchBySuffix(n, from, order)
  <2>1. \E m : MatchBySuffix(n, from, order) = NoTable \/ MatchBySuffix(n, from, order) = FindMatchingTable(m, order)
    BY Zenon DEF MatchBySuffix
  <2> QED BY <1>2, <1>3, <2>1
<1>4. ASSUME NEW comment, MatchByComment(comment, from, tables) # NoTable
      PROVE  \E j \in DOMAIN tables : tables[j].name = MatchByComment(comment, from, tables)
  <2> DEFINE others == {i \in DOMAIN tables : tables[i].name # from}
             Overlap(i) == Cardinality(comment \cap CommentTokens(tables[i]))
             best == {i \in others : Overlap(i) >= MinCommentOverlap /\ \A j \in others : Overlap(j) <= Overlap(i)}
  <2>1. MatchByComment(comment, from, tables) = IF best = {} THEN NoTable ELSE tables[Min(best)].name
    BY Zenon DEF MatchByComment
  <2>2. best \in SUBSET DOMAIN tables
    OBVIOUS
  <2> HIDE DEF best
  <2>3. best # {}
    BY <1>4, <2>1
  <2>4. Min(best) \in best
    <3>1. DOMAIN tables \in SUBSET Nat
      BY SequencesAreIntervals
    <3> QED BY <2>2, <2>3, <3>1, LeastOf
  <2> QED BY <2>1, <2>2, <2>3, <2>4
<1>5. \/ x.to = PkTable(tables, Lower(c.name))
      \/ x.to = MatchBySuffix(Lower(c.name), from, order)
      \/ x.to = MatchByComment(c.comment, from, tables)
  BY DEF InferTarget
<1> QED BY <1>1, <1>3, <1>4, <1>5

\* The comments of the fields of a list of tables are those the engine gives.
Commented(tables, e, d) ==
    \A n \in DOMAIN tables : \A j \in DOMAIN tables[n].fields :
        tables[n].fields[j].comment = CommentOf(e, d, tables[n].name, tables[n].fields[j].name)

\* Two guesses about a column lead to the same table.
LEMMA GuessesAgree ==
    ASSUME NEW tables, IsSequence(tables), NEW order, IsSequence(order),
           \A i \in DOMAIN order : \E j \in DOMAIN tables : tables[j].name = order[i],
           NEW e, NEW d, Commented(tables, e, d),
           NEW x \in InferRelationships(tables, order)
    PROVE  /\ x.from # x.to
           /\ \E j \in DOMAIN tables : tables[j].name = x.from
           /\ \E j \in DOMAIN tables : tables[j].name = x.to
           /\ \A y \in InferRelationships(tables, order) : y.from = x.from /\ y.col = x.col => y.to = x.to
<1> DEFINE Target(u) == InferTarget(tables, u.table, u.c, order)
           R(u) == [from |-> u.table, col |-> u.c.name, to |-> Target(u).to,
                    toCol |-> PkColumn(tables, Target(u).to), by |-> Target(u).by]
           Cells == {u \in CellsOf(tables) : ~u.c.pk /\ Target(u).to \notin {NoTable, u.table}}
<1>1. InferRelationships(tables, order) = {R(u) : u \in Cells}
  BY Zenon DEF InferRelationships
<1>2. ASSUME NEW u \in Cells
      PROVE  /\ Target(u).to # NoTable /\ Target(u).to # u.table
             /\ u.c.comment = CommentOf(e, d, u.table, u.c.name)
             /\ \E j \in DOMAIN tables : tables[j].name = u.table
  <2> DEFINE Of(i) == {[table |-> tables[i].name, c |-> tables[i].fields[j]] : j \in DOMAIN tables[i].fields}
  <2>1. CellsOf(tables) = UNION {Of(i) : i \in DOMAIN tables}
    BY Zenon DEF CellsOf
  <2>2. PICK i \in DOMAIN tables : u \in Of(i)
    <3>1. u \in CellsOf(tables)
      OBVIOUS
    <3> HIDE DEF Of
    <3> QED BY <2>1, <3>1
  <2>3. PICK j \in DOMAIN tables[i].fields : u = [table |-> tables[i].name, c |-> tables[i].fields[j]]
    BY <2>2
  <2>4. u.table = tables[i].name /\ u.c = tables[i].fields[j]
    BY <2>3
  <2> QED BY <2>4 DEF Commented
<1> HIDE DEF Target, Cells
<1>3. ASSUME NEW u PROVE R(u).from = u.table /\ R(u).col = u.c.name /\ R(u).to = Target(u).to
  OBVIOUS
<1> HIDE DEF R
<1>4. PICK u \in Cells : x = R(u)
  BY <1>1
<1>5. ASSUME NEW v \in Cells, v.table = u.table, v.c.name = u.c.name
      PROVE  Target(v).to = Target(u).to
  <2>1. v.c.comment = u.c.comment
    BY <1>2, <1>5
  <2>2. InferTarget(tables, v.table, v.c, order) = InferTarget(tables, u.table, u.c, order)
    BY <1>5, <2>1 DEF InferTarget
  <2> QED BY <2>2 DEF Target
<1>6. \A y \in InferRelationships(tables, order) : y.from = x.from /\ y.col = x.col => y.to = x.to
  BY <1>1, <1>3, <1>4, <1>5
<1>7. \E j \in DOMAIN tables : tables[j].name = Target(u).to
  BY <1>2, GuessIsNamed DEF Target
<1> QED BY <1>2, <1>3, <1>4, <1>6, <1>7
\* The tables that are asked for, one by one or as a namespace, are a sequence
\* of references, none of which stands for all tables.
AreAsked(asked) == IsSequence(asked) /\ \A i \in DOMAIN asked : asked[i].name # All.name

LEMMA ScopeIsResolved ==
    ASSUME NEW e \in Engines, e # "redis", NEW d, IsDatabase(d), NEW scope \in Scopes
    PROVE  AreAsked(ResolveScope(e, d, scope))
<1>1. scope.limit \in Int /\ AreAsked(scope.tables)
  BY CatalogAssumption DEF AreAsked, IsReference
<1> DEFINE x == Schema(e, d, scope.ns, All)
           s == Slice(x.rows, scope.limit)
<1>2. ResolveScope(e, d, scope) = scope.tables \/ ResolveScope(e, d, scope) = [i \in DOMAIN s |-> Plain(s[i].name)]
  BY Zenon DEF ResolveScope, Map
<1>3. IsSequence(x.rows) /\ \A i \in DOMAIN x.rows : x.rows[i].name # All.name
  <2>1. CASE x.status = "ok"
    BY <2>1, AllNamed
  <2>2. CASE x.status # "ok"
    <3>1. x = Raised \/ \E rows : x = Ok(rows)
      BY DEF Schema, Engines, Sql, Rdb, Search
    <3> HIDE DEF x
    <3>2. x.rows = <<>>
      BY <2>2, <3>1 DEF Raised, Ok
    <3> QED BY <3>2, Nothing
  <2> QED BY <2>1, <2>2
<1> HIDE DEF x
<1>4. x.rows \in Seq(ToSet(x.rows)) /\ s \in Seq(ToSet(x.rows)) /\ \A i \in DOMAIN s : i \in DOMAIN x.rows /\ s[i] = x.rows[i]
  BY <1>1, <1>3, SliceShortens DEF IsSequence
<1> HIDE DEF s
<1>5. Len(s) \in Nat /\ DOMAIN s = 1..Len(s)
  BY <1>4, LenProperties
<1>6. ASSUME NEW a, a = [i \in DOMAIN s |-> Plain(s[i].name)] PROVE AreAsked(a)
  <2>1. a = [i \in 1..Len(s) |-> a[i]]
    BY <1>5, <1>6
  <2>2. IsSequence(a)
    BY <1>5, <2>1, FunctionsAreSequences
  <2>3. \A n : Plain(n).name = n
    BY Zenon DEF Plain
  <2>4. \A i \in DOMAIN a : a[i].name = s[i].name /\ i \in DOMAIN s
    BY <1>6, <2>3
  <2> QED BY <1>3, <1>4, <2>2, <2>4 DEF AreAsked
<1> QED BY <1>1, <1>2, <1>6

\* The tables that are read have names that were asked for, and the comments
\* of their fields are those the engine gives.
AreRead(tables, asked, e, d) ==
    /\ IsSequence(tables) /\ Commented(tables, e, d)
    /\ \A n \in DOMAIN tables : tables[n].name \in {asked[i].name : i \in DOMAIN asked}

LEMMA TablesAreRead ==
    ASSUME NEW e \in Engines, e # "redis", NEW d, IsDatabase(d), NEW ns, Space(d, ns) = d.default,
           NEW asked, AreAsked(asked), NEW reads, reads = [i \in DOMAIN asked |-> Schema(e, d, ns, asked[i])],
           \A i \in DOMAIN asked : reads[i].status = "ok",
           NEW tables, tables = FlattenSeq([i \in DOMAIN asked |-> reads[i].rows])
    PROVE  AreRead(tables, asked, e, d)
<1> DEFINE ss == [i \in DOMAIN asked |-> reads[i].rows]
<1>1. \A i \in DOMAIN asked : NamedSo(reads[i].rows, e, d, asked[i].name)
  BY ObjectsNamed DEF AreAsked
<1>2. DOMAIN ss = DOMAIN asked /\ \A i \in DOMAIN asked : ss[i] = reads[i].rows
  OBVIOUS
<1> HIDE DEF ss
<1>3. IsSequence(ss)
  <2>1. Len(asked) \in Nat /\ DOMAIN asked = 1..Len(asked)
    BY SequencesAreIntervals DEF AreAsked
  <2>2. ss = [i \in 1..Len(asked) |-> ss[i]]
    BY <2>1 DEF ss
  <2> QED BY <2>1, <2>2, FunctionsAreSequences
<1>4. \A i \in DOMAIN ss : IsSequence(ss[i])
  BY <1>1, <1>2 DEF NamedSo
<1>5. tables = FlattenSeq(ss)
  BY DEF ss
<1>6. IsSequence(tables) /\ \A n \in DOMAIN tables : \E i \in DOMAIN ss : \E j \in DOMAIN ss[i] : tables[n] = ss[i][j]
  <2>1. /\ IsSequence(FlattenSeq(ss))
        /\ \A n \in DOMAIN FlattenSeq(ss) : \E i \in DOMAIN ss : \E j \in DOMAIN ss[i] : FlattenSeq(ss)[n] = ss[i][j]
    BY <1>3, <1>4, FlattenElements
  <2> QED BY <1>5, <2>1
<1>7. ASSUME NEW n \in DOMAIN tables
      PROVE  /\ tables[n].name \in {asked[i].name : i \in DOMAIN asked}
             /\ \A j \in DOMAIN tables[n].fields :
                   tables[n].fields[j].comment = CommentOf(e, d, tables[n].name, tables[n].fields[j].name)
  <2>1. PICK i \in DOMAIN asked : \E m \in DOMAIN reads[i].rows : tables[n] = reads[i].rows[m]
    BY <1>2, <1>6
  <2>2. tables[n].name = asked[i].name
    BY <1>1, <2>1 DEF NamedSo
  <2>3. \A j \in DOMAIN tables[n].fields :
           tables[n].fields[j].comment = CommentOf(e, d, asked[i].name, tables[n].fields[j].name)
    BY <1>1, <2>1 DEF NamedSo
  <2> QED BY <2>2, <2>3
<1> QED BY <1>6, <1>7 DEF AreRead, Commented
\* The names of the tables read, in the order in which they are tried.
Tried(order, tables) ==
    Pick(order, {i \in DOMAIN order : \E j \in DOMAIN tables : tables[j].name = order[i]})

LEMMA NamesAreRead ==
    ASSUME NEW d, IsDatabase(d), NEW order \in SetToSeqs({d.tables[i].name : i \in DOMAIN d.tables}),
           NEW tables, NEW names, names = Tried(order, tables)
    PROVE  /\ IsSequence(names)
           /\ \A i \in DOMAIN names : \E j \in DOMAIN tables : tables[j].name = names[i]
<1> DEFINE f == [i \in DOMAIN d.tables |-> d.tables[i].name]
           S == {d.tables[i].name : i \in DOMAIN d.tables}
           I == {i \in DOMAIN order : \E j \in DOMAIN tables : tables[j].name = order[i]}
<1>1. IsFiniteSet(S)
  <2>1. Len(d.tables) \in Nat /\ DOMAIN f = 1..Len(d.tables)
    BY SequencesAreIntervals DEF IsDatabase
  <2>2. S = {f[i] : i \in DOMAIN f}
    OBVIOUS
  <2> HIDE DEF f, S
  <2> QED BY <2>1, <2>2, ImageOfInterval
<1>2. order \in [1..Cardinality(S) -> S] /\ Cardinality(S) \in Nat
  <2>1. order \in SetToSeqs(S)
    OBVIOUS
  <2> HIDE DEF S
  <2> QED BY <1>1, <2>1, FS_CardinalityType DEF SetToSeqs
<1> HIDE DEF S
<1>3. order \in Seq(S) /\ I \in SUBSET DOMAIN order
  BY <1>2, SeqDef
<1>4. names = Pick(order, I)
  BY DEF Tried
<1>5. \A i \in I : \E j \in DOMAIN tables : tables[j].name = order[i]
  OBVIOUS
<1> HIDE DEF I
<1>6. /\ I \in SUBSET Nat /\ IsFiniteSet(I) /\ names \in Seq(S)
  BY <1>3, <1>4, PickIsSeq
<1>7. \A i \in DOMAIN names : Nth(I, i) \in I /\ names[i] = order[Nth(I, i)]
  <2>1. \A i \in DOMAIN Pick(order, I) : Nth(I, i) \in I /\ Pick(order, I)[i] = order[Nth(I, i)]
    BY <1>6, PickEnumerates
  <2> QED BY <1>4, <2>1
<1>8. IsSequence(names)
  <2>1. Len(names) \in Nat /\ DOMAIN names = 1..Len(names)
    BY <1>6, LenProperties
  <2>2. names = [i \in DOMAIN names |-> names[i]]
    BY <1>4 DEF Pick
  <2> QED BY <2>1, <2>2, FunctionsAreSequences
<1> QED BY <1>5, <1>7, <1>8

\* The pieces an answer of get_table_relationships is made of: the tables that
\* were read, and what was declared merged with what is inferred from them.
AreMadeOf(rows, e, d, later, asked) ==
    \/ asked = <<>> /\ rows.tables = <<>> /\ rows.rels = {}
    \/ \E declared, names :
         /\ e \in Rdb => declared = Relationships(e, later, asked)
         /\ declared.status = "ok" /\ \A q \in declared.rows : q.by = "declared"
         /\ AreRead(rows.tables, asked, e, d)
         /\ IsSequence(names)
         /\ \A i \in DOMAIN names : \E j \in DOMAIN rows.tables : rows.tables[j].name = names[i]
         /\ rows.rels = MergeRelationships(EngineFamily(e), rows.tables, declared.rows, names)

LEMMA RelationshipsAreMade ==
    ASSUME NEW e \in Engines, NEW d, IsDatabase(d), NEW later, NEW scope \in Scopes,
           NEW order \in SetToSeqs({d.tables[i].name : i \in DOMAIN d.tables}),
           NEW r, r = GetTableRelationships(e, d, later, scope, order), r.status = "ok"
    PROVE  /\ e # "redis"
           /\ \E asked : /\ asked = ResolveScope(e, d, scope) /\ AreAsked(asked)
                         /\ AreMadeOf(r.rows, e, d, later, asked)
<1> DEFINE asked    == ResolveScope(e, d, scope)
           Reads(ns) == [i \in DOMAIN asked |-> Schema(e, d, ns, asked[i])]
           Flat(reads) == FlattenSeq([i \in DOMAIN reads |-> reads[i].rows])
           declared == IF Supports(e, "relationship") THEN Relationships(e, later, asked) ELSE Ok({})
           Made(tables) == Ok([tables |-> tables,
                               rels |-> MergeRelationships(EngineFamily(e), tables, declared.rows, Tried(order, tables))])
<1>1. \E ns : /\ Space(d, ns) = d.default
              /\ \/ r = Unsupported
                 \/ Supports(e, "schema") /\ asked = <<>> /\ r = Ok([tables |-> <<>>, rels |-> {}])
                 \/ r.status # "ok"
                 \/ /\ Supports(e, "schema") /\ declared.status = "ok"
                    /\ ~\E x \in ToSet(Reads(ns)) : x.status # "ok"
                    /\ r = Made(Flat(Reads(ns)))
  <2> DEFINE reads == Reads("")
             Failed == \E x \in ToSet(reads) : x.status # "ok"
             failure == CHOOSE x \in ToSet(reads) : x.status # "ok"
  <2>1. Space(d, "") = d.default
    BY Zenon DEF Space
  <2>2. r = IF ~Supports(e, "schema") THEN Unsupported
            ELSE IF asked = <<>> THEN Ok([tables |-> <<>>, rels |-> {}])
            ELSE IF Failed THEN failure
            ELSE IF declared.status # "ok" THEN declared
            ELSE Made(Flat(reads))
    BY Zenon DEF GetTableRelationships, Map, Tried
  <2>3. Failed => failure.status # "ok"
    BY Zenon
  <2> HIDE DEF reads, Failed, failure, asked, declared, Made, Flat
  <2>4. \/ r = Unsupported
        \/ Supports(e, "schema") /\ asked = <<>> /\ r = Ok([tables |-> <<>>, rels |-> {}])
        \/ r.status # "ok"
        \/ Supports(e, "schema") /\ declared.status = "ok" /\ ~Failed /\ r = Made(Flat(reads))
    BY <2>2, <2>3
  <2>5. reads = Reads("") /\ (Failed <=> \E x \in ToSet(Reads("")) : x.status # "ok")
    BY Zenon DEF reads, Failed
  <2> HIDE DEF Reads
  <2> QED BY <2>1, <2>4, <2>5, Zenon
<1>2. PICK ns : /\ Space(d, ns) = d.default
                /\ \/ r = Unsupported
                   \/ Supports(e, "schema") /\ asked = <<>> /\ r = Ok([tables |-> <<>>, rels |-> {}])
                   \/ r.status # "ok"
                   \/ /\ Supports(e, "schema") /\ declared.status = "ok"
                      /\ ~\E x \in ToSet(Reads(ns)) : x.status # "ok"
                      /\ r = Made(Flat(Reads(ns)))
  BY <1>1
<1> DEFINE reads == Reads(ns)
           tables == Flat(reads)
<1>3. e # "redis" /\ AreAsked(asked)
  <2>1. Supports(e, "schema")
    <3> HIDE DEF asked, declared, Made, Flat, Reads
    <3> QED BY <1>2 DEF Unsupported
  <2> HIDE DEF asked
  <2> QED BY <2>1, WhoSupports, ScopeIsResolved DEF asked
<1>4. \/ asked = <<>> /\ r = Ok([tables |-> <<>>, rels |-> {}])
      \/ declared.status = "ok" /\ (\A i \in DOMAIN asked : reads[i].status = "ok") /\ r = Made(tables)
  <2>1. (~\E x \in ToSet(reads) : x.status # "ok") => \A i \in DOMAIN asked : reads[i].status = "ok"
    <3>1. DOMAIN reads = DOMAIN asked
      OBVIOUS
    <3> HIDE DEF reads, asked
    <3> QED BY <3>1 DEF ToSet
  <2>2. r # Unsupported
    BY DEF Unsupported
  <2> HIDE DEF asked, declared, Made, Flat, Reads
  <2> QED BY <1>2, <2>1, <2>2
<1>5. ASSUME \A i \in DOMAIN asked : reads[i].status = "ok"
      PROVE  AreRead(tables, asked, e, d)
  <2>1. DOMAIN reads = DOMAIN asked /\ reads = [i \in DOMAIN asked |-> Schema(e, d, ns, asked[i])]
    OBVIOUS
  <2> HIDE DEF reads, asked
  <2>2. tables = FlattenSeq([i \in DOMAIN asked |-> reads[i].rows])
    BY <2>1
  <2> HIDE DEF tables
  <2> QED BY <1>2, <1>3, <1>5, <2>1, <2>2, TablesAreRead
<1> HIDE DEF tables
<1>6. /\ IsSequence(Tried(order, tables))
      /\ \A i \in DOMAIN Tried(order, tables) : \E j \in DOMAIN tables : tables[j].name = Tried(order, tables)[i]
  <2>1. PICK names : names = Tried(order, tables)
    OBVIOUS
  <2>2. /\ IsSequence(names)
        /\ \A i \in DOMAIN names : \E j \in DOMAIN tables : tables[j].name = names[i]
    BY <2>1, NamesAreRead
  <2> QED BY <2>1, <2>2
<1> HIDE DEF reads, Reads, Flat, asked
<1>7. /\ e \in Rdb => declared = Relationships(e, later, asked)
      /\ declared.status = "ok" => \A q \in declared.rows : q.by = "declared"
  BY WhoSupports, DeclaredBy
<1> HIDE DEF declared
<1>8. CASE asked = <<>> /\ r = Ok([tables |-> <<>>, rels |-> {}])
  BY <1>3, <1>8 DEF Ok, asked, AreMadeOf
<1>9. CASE declared.status = "ok" /\ (\A i \in DOMAIN asked : reads[i].status = "ok") /\ r = Made(tables)
  <2>1. r.rows.tables = tables
        /\ r.rows.rels = MergeRelationships(EngineFamily(e), tables, declared.rows, Tried(order, tables))
    BY <1>9 DEF Ok
  <2>2. AreRead(tables, asked, e, d)
    BY <1>5, <1>9
  <2>3. AreMadeOf(r.rows, e, d, later, asked)
    BY <1>6, <1>7, <1>9, <2>1, <2>2 DEF AreMadeOf
  <2> QED BY <1>3, <2>3 DEF asked
<1> QED BY <1>4, <1>8, <1>9
(* IsJoined, of any engine. *)
Joins(e, t, fk) == e = "postgresql" => fk.refNs = t.ns

LEMMA RelationshipsTold ==
    ASSUME TypeOK, get_table_relationships, answer'.status = "ok"
    PROVE  DeclaredAreThere' /\ GuessesAreOfAsked'
<1>1. PICK d \in States, later \in States, scope \in Scopes :
        \E order \in SetToSeqs({Databases[d].tables[i].name : i \in DOMAIN Databases[d].tables}) :
            Respond("get_table_relationships", <<scope>>, {},
                    GetTableRelationships(engine, Databases[d], Databases[later], scope, order), d, later)
  BY DEF get_table_relationships
<1> DEFINE B == Databases[d]
           D == Databases[later]
<1>2. PICK order \in SetToSeqs({B.tables[i].name : i \in DOMAIN B.tables}) :
        Respond("get_table_relationships", <<scope>>, {},
                GetTableRelationships(engine, B, D, scope, order), d, later)
  BY <1>1
<1> HIDE DEF B, D
<1>3. PICK r :
        /\ r = GetTableRelationships(engine, B, D, scope, order)
        /\ Respond("get_table_relationships", <<scope>>, {}, r, d, later)
  BY <1>2
<1>4. /\ answer'.args[1] = scope /\ r.status = "ok" /\ answer'.data = r.rows /\ engine' = engine
      /\ Later' = D
  BY <1>3 DEF Respond, Later, D
<1>5. engine \in Engines /\ IsDatabase(B) /\ IsDatabase(D)
  BY TheArguments DEF B, D
<1> DEFINE named == {r.rows.tables[i].name : i \in DOMAIN r.rows.tables}
<1>6. Named' = named
  BY <1>4 DEF Named
<1>7. PICK asked :
        /\ asked = ResolveScope(engine, B, scope) /\ AreAsked(asked)
        /\ AreMadeOf(r.rows, engine, B, D, asked)
  BY <1>3, <1>4, <1>5, RelationshipsAreMade DEF B
<1> DEFINE of == {asked[i].name : i \in DOMAIN asked}
           names0 == IF scope.ns # "" THEN named ELSE {scope.tables[i].name : i \in DOMAIN scope.tables}
<1>8. names0 = named \/ names0 = of
  <2>1. \/ scope.ns # ""
        \/ asked = scope.tables
    BY <1>7, Zenon DEF ResolveScope
  <2>2. CASE scope.ns # ""
    <3> HIDE DEF named
    <3> QED BY <2>2, Zenon
  <2>3. CASE ~(scope.ns # "") /\ asked = scope.tables
    <3> HIDE DEF named
    <3>1. names0 = {scope.tables[i].name : i \in DOMAIN scope.tables}
      BY <2>3, ZenonT(60)
    <3> QED BY <2>3, <3>1
  <2> QED BY <2>1, <2>2, <2>3, Zenon
<1>9. ASSUME names0 \subseteq of,
             \A i \in DOMAIN D.tables :
                D.tables[i].ns = D.default /\ D.tables[i].name \in of /\ engine \in Rdb =>
                    \A f \in DOMAIN D.tables[i].fks : Joins(engine, D.tables[i], D.tables[i].fks[f]) =>
                        \A p \in DOMAIN D.tables[i].fks[f].cols :
                            Declared(D.tables[i], D.tables[i].fks[f].cols[p], D.tables[i].fks[f].ref,
                                     D.tables[i].fks[f].refCols[p]) \in r.rows.rels
      PROVE  DeclaredAreThere'
  <2> HIDE DEF D, of, named
  <2>1. DeclaredAreThere' =
          (engine' \in Rdb =>
            \A i \in DOMAIN D.tables :
                D.tables[i].ns = D.default /\ D.tables[i].name \in names0 =>
                    \A f \in DOMAIN D.tables[i].fks : Joins(engine, D.tables[i], D.tables[i].fks[f]) =>
                        \A p \in DOMAIN D.tables[i].fks[f].cols :
                            Declared(D.tables[i], D.tables[i].fks[f].cols[p], D.tables[i].fks[f].ref,
                                     D.tables[i].fks[f].refCols[p]) \in r.rows.rels)
    <3>1. Later' = D
      BY <1>4
    <3>2. answer'.data.rels = r.rows.rels
      BY <1>4
    <3>3. NamesAsked' = names0
      BY <1>4, <1>6, Zenon DEF NamesAsked, named
    <3>4. \A t, fk : IsJoined(t, fk)' = Joins(engine, t, fk)
      BY <1>4, Zenon DEF IsJoined, Joins
    <3> HIDE DEF names0
    <3> QED BY <3>1, <3>2, <3>3, <3>4, ZenonT(60) DEF DeclaredAreThere, Declared
  <2> HIDE DEF names0
  <2> QED BY <1>4, <1>9, <2>1
<1>10. CASE asked = <<>> /\ r.rows.tables = <<>> /\ r.rows.rels = {}
  <2>1. of = {} /\ named = {}
    BY <1>10, Nothing
  <2>2. DeclaredAreThere'
    <3>1. names0 \subseteq of
      <4> HIDE DEF names0, of, named
      <4> QED BY <1>8, <2>1
    <3>2. \A i \in DOMAIN D.tables : D.tables[i].name \notin of
      BY <2>1
    <3> HIDE DEF names0, of, named, D
    <3> QED BY <1>9, <3>1, <3>2
  <2>3. GuessesAreOfAsked'
    BY <1>4, <1>10 DEF GuessesAreOfAsked
  <2> QED BY <2>2, <2>3
<1>11. ASSUME NEW declared, NEW names,
              engine \in Rdb => declared = Relationships(engine, D, asked),
              declared.status = "ok",
              AreRead(r.rows.tables, asked, engine, B),
              IsSequence(names),
              \A i \in DOMAIN names : \E j \in DOMAIN r.rows.tables : r.rows.tables[j].name = names[i],
              r.rows.rels = MergeRelationships(EngineFamily(engine), r.rows.tables, declared.rows, names),
              \A q \in declared.rows : q.by = "declared"
       PROVE  DeclaredAreThere' /\ GuessesAreOfAsked'
  <2>1. named \subseteq of
    BY <1>11 DEF AreRead
  <2>2. names0 \subseteq of
    <3> HIDE DEF names0, of, named
    <3> QED BY <1>8, <2>1
  <2>3. declared.rows \subseteq r.rows.rels
    BY <1>11, SMTT(30) DEF MergeRelationships
  <2>4. \A i \in DOMAIN D.tables :
          D.tables[i].ns = D.default /\ D.tables[i].name \in of /\ engine \in Rdb =>
              \A f \in DOMAIN D.tables[i].fks : Joins(engine, D.tables[i], D.tables[i].fks[f]) =>
                  \A p \in DOMAIN D.tables[i].fks[f].cols :
                      Declared(D.tables[i], D.tables[i].fks[f].cols[p], D.tables[i].fks[f].ref,
                               D.tables[i].fks[f].refCols[p]) \in r.rows.rels
    <3>1. IsDatabase(D)
      BY <1>5
    <3> HIDE DEF D
    <3> SUFFICES ASSUME NEW i \in DOMAIN D.tables, D.tables[i].ns = D.default, D.tables[i].name \in of, engine \in Rdb,
                        NEW f \in DOMAIN D.tables[i].fks, Joins(engine, D.tables[i], D.tables[i].fks[f]),
                        NEW p \in DOMAIN D.tables[i].fks[f].cols
                 PROVE  Declared(D.tables[i], D.tables[i].fks[f].cols[p], D.tables[i].fks[f].ref,
                                 D.tables[i].fks[f].refCols[p]) \in r.rows.rels
      OBVIOUS
    <3>2. Relationships(engine, D, asked).status = "ok" /\ Relationships(engine, D, asked).rows \subseteq r.rows.rels
      BY <1>11, <2>3
    <3>3. engine = "postgresql" => D.tables[i].fks[f].refNs = D.default
      BY DEF Joins
    <3> QED BY <3>1, <3>2, <3>3, DeclaredIsRead
  <2>5. DeclaredAreThere'
    <3> HIDE DEF names0, of, named, D
    <3> QED BY <1>9, <2>2, <2>4
  <2>6. \A x \in r.rows.rels : x.by # "declared" => x \in InferRelationships(r.rows.tables, names)
    BY <1>11 DEF MergeRelationships
  <2>7. \A x \in InferRelationships(r.rows.tables, names) :
          /\ x.from # x.to
          /\ \E j \in DOMAIN r.rows.tables : r.rows.tables[j].name = x.from
          /\ \E j \in DOMAIN r.rows.tables : r.rows.tables[j].name = x.to
          /\ \A y \in InferRelationships(r.rows.tables, names) : y.from = x.from /\ y.col = x.col => y.to = x.to
    <3>1. IsSequence(r.rows.tables) /\ Commented(r.rows.tables, engine, B)
      BY <1>11 DEF AreRead
    <3> QED BY <1>11, <3>1, GuessesAgree
  <2>8. \A x \in r.rows.rels : x.by # "declared" =>
          /\ x.from # x.to /\ {x.from, x.to} \subseteq named
          /\ \A y \in r.rows.rels : y.from = x.from /\ y.col = x.col /\ y.by = x.by => y.to = x.to
    BY <2>6, <2>7
  <2> HIDE DEF named
  <2>9. GuessesAreOfAsked'
    BY <1>4, <1>6, <2>8 DEF GuessesAreOfAsked
  <2> QED BY <2>5, <2>9
<1> QED BY <1>7, <1>10, <1>11 DEF AreMadeOf

\* The foreign keys that a database declares when the declarations are read are
\* all in the answer for the asked tables, whatever schema they lead to, except
\* for those of PostgreSQL to another schema, which its query loses; no column
\* that has one in the answer is given a guess besides, and a guess joins two different tables that were asked for,
\* whichever name was tried first and however the catalog changed in between.
THEOREM DeclarationsWin == Spec => []DeclaredWins
<1>1. Init => ~Answered("get_table_relationships")
  BY NoneAnswered
<1>2. TypeOK /\ DeclaredWins /\ [Next]_vars
        => (Answered("get_table_relationships") => DeclaredAreThere /\ GuessesAreOfAsked)'
  <2> SUFFICES ASSUME TypeOK, DeclaredWins, [Next]_vars, Answered("get_table_relationships")'
               PROVE  DeclaredAreThere' /\ GuessesAreOfAsked'
    OBVIOUS
  <2>1. CASE UNCHANGED vars
    <3>1. answer' = answer /\ engine' = engine
      BY <2>1 DEF vars
    <3>2. Named' = Named
      BY <3>1 DEF Named
    <3>3. NamesAsked' = NamesAsked
      BY <3>1, <3>2, Zenon DEF NamesAsked
    <3>4. Answered("get_table_relationships") /\ DeclaredAreThere /\ GuessesAreOfAsked
      BY <3>1, SMTT(30) DEF DeclaredWins, Answered
    <3>5. DeclaredAreThere'
      <4>1. DeclaredAreThere' = DeclaredAreThere
        BY <3>1, <3>3 DEF DeclaredAreThere, Later, IsJoined
      <4> QED BY <3>4, <4>1
    <3>6. GuessesAreOfAsked'
      BY <3>1, <3>2, <3>4 DEF GuessesAreOfAsked
    <3> QED BY <3>5, <3>6
  <2>2. CASE get_table_relationships
    BY <2>2, RelationshipsTold DEF Answered
  <2> QED BY <2>1, <2>2, WhoAnswered
<1>3. Init => (Answered("get_table_relationships") => DeclaredAreThere /\ GuessesAreOfAsked)
  BY <1>1
<1>4. DeclaredWins <=> /\ Answered("get_table_relationships") => NoGuessBesides
                       /\ Answered("get_table_relationships") => DeclaredAreThere /\ GuessesAreOfAsked
  BY DEF DeclaredWins
<1> QED BY <1>2, <1>3, <1>4, TypeCorrect, GuessesYield, PTL DEF Spec
-----------------------------------------------------------------------------
(* What get_schema says: the catalog, rebuilt from the rows of a join.        *)

\* The objects describe the tables of the namespace that have columns, in order.
SaysRightly(objects, tables, space) ==
    /\ Len(objects) = Len(tables)
    /\ \A i \in DOMAIN tables :
        /\ objects[i].name = tables[i].name /\ objects[i].ns = space
        /\ DescribesRightly(objects[i], tables[i])

LEMMA SchemaTold ==
    ASSUME NEW e \in Sql, NEW d, IsDatabase(d), Exact(e, d), NEW ns, NEW result, result = Schema(e, d, ns, All),
           result.status = "ok"
    PROVE  SaysRightly(result.rows,
                       Pick(d.tables, {i \in DOMAIN d.tables :
                           d.tables[i].ns = Space(d, ns) /\ d.tables[i].cols # <<>>}), Space(d, ns))
<1> DEFINE L == WithColumns(d, Space(d, ns), All)
           tables == Pick(d.tables, L)
           rows == result.rows
<1>1. L = {i \in DOMAIN d.tables : d.tables[i].ns = Space(d, ns) /\ d.tables[i].cols # <<>>}
  BY Zenon DEF WithColumns
<1>2. Shows(rows, e, d, ns, L)
  <2>1. AreRowsOf(rows, e, d, ns, All)
    BY SqlSchema
  <2> QED BY <2>1, RowsTell
<1> HIDE DEF L, rows
<1>3. /\ L \in SUBSET Nat /\ IsFiniteSet(L) /\ Len(rows) = Cardinality(L)
      /\ \A n \in 1..Cardinality(L) :
            /\ Reflects(rows[n], d.tables[Nth(L, n)]) /\ rows[n].ns = Space(d, ns)
            /\ DescribesRightly(rows[n], d.tables[Nth(L, n)])
  BY <1>2 DEF Shows
<1>4. /\ DOMAIN tables = 1..Cardinality(L) /\ Len(tables) = Cardinality(L)
      /\ \A n \in DOMAIN tables : tables[n] = d.tables[Nth(L, n)]
  BY <1>3, PickEnumerates
<1> HIDE DEF tables
<1>5. \A n \in DOMAIN tables : rows[n].name = tables[n].name
  BY <1>3, <1>4 DEF Reflects
<1>6. SaysRightly(rows, tables, Space(d, ns))
  BY <1>3, <1>4, <1>5 DEF SaysRightly
<1> QED BY <1>1, <1>6 DEF rows, tables

SchemaRead(d) == engine \in {"mysql", "clickhouse"} \/ (engine = "postgresql" /\ UniqueKeyNames(d))

SchemaSaid(d) ==
    SaysRightly(answer.data,
                Pick(d.tables, {i \in DOMAIN d.tables :
                    d.tables[i].ns = Space(d, answer.args[1]) /\ d.tables[i].cols # <<>>}), Space(d, answer.args[1]))

LEMMA SchemaIsSaid == SchemaIsCatalog <=> (Answered("get_schema") /\ SchemaRead(Database) => SchemaSaid(Database))
<1> HIDE DEF Database, UniqueKeyNames, Space, Pick
<1> QED BY Zenon DEF SchemaIsCatalog, SchemaRead, SchemaSaid, SaysRightly, DescribesRightly

\* What get_schema says of a namespace is its catalog: every table that has
\* columns once and in order, its columns in order and its key marked, although
\* the adapter rebuilds it from the flat rows of a join, whatever keys the other
\* tables and the other namespaces have.
THEOREM SchemaIsRight == Spec => []SchemaIsCatalog
<1> DEFINE Right == Answered("get_schema") /\ SchemaRead(Database) => SchemaSaid(Database)
<1>1. Init => Right
  BY NoneAnswered
<1>2. TypeOK /\ Right /\ [Next]_vars => Right'
  <2> SUFFICES ASSUME TypeOK, Right, [Next]_vars, Answered("get_schema")', SchemaRead(Database)'
               PROVE  SchemaSaid(Database)'
    OBVIOUS
  <2>1. CASE UNCHANGED vars
    <3>1. answer' = answer /\ engine' = engine
      BY <2>1 DEF vars
    <3>2. Database' = Database
      BY <3>1 DEF Database
    <3>3. Answered("get_schema") /\ SchemaRead(Database)
      BY <3>1, <3>2 DEF Answered, SchemaRead, UniqueKeyNames
    <3>4. SchemaSaid(Database)
      BY <3>3
    <3> HIDE DEF Database
    <3> QED BY <3>1, <3>2, <3>4 DEF SchemaSaid
  <2>2. CASE get_schema
    <3>1. PICK d \in States, ns \in {r.ns : r \in Refs} :
            Respond("get_schema", <<ns>>, {}, GetSchemaTool(engine, Databases[d], ns), d, d)
      BY <2>2 DEF get_schema
    <3>2. PICK r : r = GetSchemaTool(engine, Databases[d], ns)
      OBVIOUS
    <3>3. /\ answer'.args[1] = ns /\ answer'.status = r.status
          /\ answer'.data = r.rows /\ answer'.from = d /\ engine' = engine
      BY <3>1, <3>2 DEF Respond
    <3> DEFINE D == Databases[d]
    <3>4. IsDatabase(D) /\ r.status = "ok" /\ Database' = D
      BY <3>3, TheArguments DEF Answered, Database
    <3>5. r = GetSchemaTool(engine, D, ns)
      BY <3>2
    <3> HIDE DEF D
    <3>6. engine \in Sql /\ Exact(engine, D)
      <4>1. UniqueKeyNames(Database)' => UniqueKeyNames(D)
        BY <3>4 DEF UniqueKeyNames
      <4> QED BY <3>3, <4>1 DEF Exact, SchemaRead, UniqueKeyNames, Sql, Rdb
    <3>7. r = Schema(engine, D, ns, All)
      BY <3>4, <3>5 DEF GetSchemaTool, Unsupported
    <3>8. SaysRightly(r.rows,
                      Pick(D.tables, {i \in DOMAIN D.tables :
                          D.tables[i].ns = Space(D, ns) /\ D.tables[i].cols # <<>>}), Space(D, ns))
      BY <3>4, <3>6, <3>7, SchemaTold
    <3>9. SchemaSaid(Database)' <=>
             SaysRightly(answer'.data,
                 Pick(Database'.tables, {i \in DOMAIN Database'.tables :
                     Database'.tables[i].ns = Space(Database', answer'.args[1]) /\ Database'.tables[i].cols # <<>>}),
                 Space(Database', answer'.args[1]))
      BY Zenon DEF SchemaSaid
    <3> QED BY <3>3, <3>4, <3>8, <3>9, Zenon
  <2> QED BY <2>1, <2>2, WhoAnswered
<1> QED BY <1>1, <1>2, SchemaIsSaid, TypeCorrect, PTL DEF Spec

-----------------------------------------------------------------------------
(* The pipeline's plan: every column of the source once.                      *)

\* S has the columns of the table t by their names in lower case.
ReadsAs(S, t) ==
    /\ \A n \in DOMAIN S :
          /\ Lower(S[n].name) = n
          /\ \E i \in DOMAIN t.cols : S[n].name = t.cols[i].name /\ S[n].type = t.cols[i].type
    /\ \A i \in DOMAIN t.cols : Lower(t.cols[i].name) \in DOMAIN S

LEMMA LowerNames ==
    ASSUME NEW o, NEW t, Reflects(o, t)
    PROVE  ReadsAs(ByLowerName(o.fields), t)
<1> DEFINE fields == o.fields
           S == ByLowerName(fields)
           Same(n) == {i \in DOMAIN fields : Lower(fields[i].name) = n}
<1>1. PICK k \in Nat : DOMAIN fields = 1..k
  BY DEF Reflects
<1>2. /\ DOMAIN S = {Lower(fields[i].name) : i \in DOMAIN fields}
      /\ \A n \in DOMAIN S : S[n] = fields[Max(Same(n))]
  BY DEF ByLowerName
<1>3. ASSUME NEW n \in DOMAIN S PROVE Max(Same(n)) \in Same(n)
  <2>1. Same(n) \in SUBSET (0..k) /\ Same(n) # {}
    BY <1>1, <1>2
  <2> HIDE DEF Same
  <2>2. \E x \in Same(n) : \A y \in Same(n) : y <= x
    BY <1>1, <2>1, HasGreatest
  <2>3. \A x, y \in Same(n) : y <= x <=> x >= y
    BY <1>1, <2>1
  <2>4. \E x \in Same(n) : \A y \in Same(n) : x >= y
    BY <2>2, <2>3
  <2> QED BY <2>4 DEF Max
<1> HIDE DEF S
<1>4. \A n \in DOMAIN S : \E j \in DOMAIN fields : S[n] = fields[j] /\ Lower(fields[j].name) = n
  BY <1>2, <1>3
<1>5. \A j \in DOMAIN fields : \E i \in DOMAIN t.cols :
         fields[j].name = t.cols[i].name /\ fields[j].type = t.cols[i].type
  BY DEF Reflects
<1>6. \A i \in DOMAIN t.cols : \E j \in DOMAIN fields : fields[j].name = t.cols[i].name
  BY DEF Reflects
<1> HIDE DEF fields
<1>7. ASSUME NEW n \in DOMAIN S
      PROVE  /\ Lower(S[n].name) = n
             /\ \E i \in DOMAIN t.cols : S[n].name = t.cols[i].name /\ S[n].type = t.cols[i].type
  <2>1. PICK j \in DOMAIN fields : S[n] = fields[j] /\ Lower(fields[j].name) = n
    BY <1>4
  <2>2. Lower(S[n].name) = n
    BY <2>1
  <2> QED BY <1>5, <2>1, <2>2
<1>8. \A i \in DOMAIN t.cols : Lower(t.cols[i].name) \in DOMAIN S
  BY <1>2, <1>6, Zenon
<1>9. ReadsAs(S, t)
  BY <1>7, <1>8, Zenon DEF ReadsAs
<1> QED BY <1>9 DEF S, fields

TypeIn(t, n) == t.cols[CHOOSE i \in DOMAIN t.cols : t.cols[i].name = n].type

LEMMA TypesAreRead ==
    ASSUME NEW d, NEW t, IsTable(d, t), NEW S, ReadsAs(S, t), NEW n \in DOMAIN S
    PROVE  S[n].type = TypeIn(t, S[n].name) /\ S[n].type # {} /\ S[n].name \in Columns(t)
<1>1. PICK i \in DOMAIN t.cols : S[n].name = t.cols[i].name /\ S[n].type = t.cols[i].type
  BY DEF ReadsAs
<1>2. t.cols[i].type # {} /\ \A j \in DOMAIN t.cols : t.cols[j].name = t.cols[i].name => j = i
  BY DEF IsTable
<1>3. (CHOOSE j \in DOMAIN t.cols : t.cols[j].name = S[n].name) = i
  BY <1>1, <1>2
<1> QED BY <1>1, <1>2, <1>3 DEF TypeIn, Columns

\* The columns of the table s are mapped to those of t, or are not.
Partitions(mapping, unmapped, s, t) ==
    LET mapped == {m.col : m \in mapping}
    IN  /\ mapped \cup unmapped \subseteq Columns(s)
        /\ \A c \in Columns(s) : \E n \in mapped \cup unmapped : Lower(n) = Lower(c)
        /\ mapped \cap unmapped = {}
        /\ \A n \in unmapped : \A c \in Columns(t) : Lower(c) # Lower(n)
        /\ \A m \in mapping :
            /\ m.to \in Columns(t) /\ Lower(m.to) = Lower(m.col)
            /\ m.cast = (TypeIn(s, m.col) # TypeIn(t, m.to))

LEMMA MappingFields ==
    ASSUME NEW a, NEW b, NEW c
    PROVE  /\ [col |-> a, to |-> b, cast |-> c].col = a
           /\ [col |-> a, to |-> b, cast |-> c].to = b
           /\ [col |-> a, to |-> b, cast |-> c].cast = c
BY Zenon

\* How the plan maps the columns S to the columns T, and what it leaves out.
Maps(mapping, unmapped, S, T) ==
    /\ unmapped = {S[n].name : n \in DOMAIN S \ DOMAIN T}
    /\ \E C : /\ \A n \in DOMAIN S \cap DOMAIN T :
                    C[n] = (S[n].type # {} /\ T[n].type # {} /\ S[n].type # T[n].type)
              /\ mapping = {[col |-> S[n].name, to |-> T[n].name, cast |-> C[n]] : n \in DOMAIN S \cap DOMAIN T}

LEMMA MappingPartitions ==
    ASSUME NEW d, NEW s, IsTable(d, s), NEW S, ReadsAs(S, s),
           NEW later, NEW t, IsTable(later, t), NEW T, ReadsAs(T, t),
           NEW mapping, NEW unmapped, Maps(mapping, unmapped, S, T)
    PROVE  Partitions(mapping, unmapped, s, t)
<1> PICK C : /\ \A n \in DOMAIN S \cap DOMAIN T :
                   C[n] = (S[n].type # {} /\ T[n].type # {} /\ S[n].type # T[n].type)
             /\ mapping = {[col |-> S[n].name, to |-> T[n].name, cast |-> C[n]] : n \in DOMAIN S \cap DOMAIN T}
  BY Zenon DEF Maps
<1> unmapped = {S[n].name : n \in DOMAIN S \ DOMAIN T}
  BY DEF Maps
<1>1. ASSUME NEW n \in DOMAIN S
      PROVE  S[n].name \in Columns(s) /\ Lower(S[n].name) = n /\ S[n].type = TypeIn(s, S[n].name) /\ S[n].type # {}
  BY TypesAreRead DEF ReadsAs
<1>2. ASSUME NEW n \in DOMAIN T
      PROVE  T[n].name \in Columns(t) /\ Lower(T[n].name) = n /\ T[n].type = TypeIn(t, T[n].name) /\ T[n].type # {}
  BY TypesAreRead DEF ReadsAs
<1>3. (\A c \in Columns(s) : Lower(c) \in DOMAIN S) /\ (\A c \in Columns(t) : Lower(c) \in DOMAIN T)
  BY DEF ReadsAs, Columns
<1> DEFINE F(n) == [col |-> S[n].name, to |-> T[n].name, cast |-> C[n]]
<1>0. mapping = {F(n) : n \in DOMAIN S \cap DOMAIN T} /\ \A n : F(n).col = S[n].name /\ F(n).to = T[n].name /\ F(n).cast = C[n]
  BY MappingFields
<1> HIDE DEF F
<1>4. \A m \in mapping : \E n \in DOMAIN S \cap DOMAIN T : m.col = S[n].name /\ m.to = T[n].name /\ m.cast = C[n]
  BY <1>0
<1>5. \A n \in DOMAIN S \cap DOMAIN T : \E m \in mapping : m.col = S[n].name
  BY <1>0
<1> DEFINE mapped == {m.col : m \in mapping}
<1>6. mapped = {S[n].name : n \in DOMAIN S \cap DOMAIN T}
  BY <1>4, <1>5
<1>7. ASSUME NEW m \in mapping
      PROVE  /\ m.to \in Columns(t) /\ Lower(m.to) = Lower(m.col)
             /\ m.cast = (TypeIn(s, m.col) # TypeIn(t, m.to))
  <2>1. PICK n \in DOMAIN S \cap DOMAIN T : m.col = S[n].name /\ m.to = T[n].name /\ m.cast = C[n]
    BY <1>4
  <2>2. C[n] = (TypeIn(s, S[n].name) # TypeIn(t, T[n].name))
    BY <1>1, <1>2, Zenon
  <2> QED BY <1>1, <1>2, <2>1, <2>2, Zenon
<1> HIDE DEF mapped
<1>8. mapped \cup unmapped \subseteq Columns(s)
  BY <1>1, <1>6
<1>9. \A c \in Columns(s) : \E n \in mapped \cup unmapped : Lower(n) = Lower(c)
  <2> SUFFICES ASSUME NEW c \in Columns(s) PROVE \E n \in mapped \cup unmapped : Lower(n) = Lower(c)
    OBVIOUS
  <2> DEFINE k == Lower(c)
  <2>1. k \in DOMAIN S
    BY <1>3
  <2> HIDE DEF k
  <2>2. S[k].name \in mapped \cup unmapped /\ Lower(S[k].name) = k
    BY <1>1, <1>6, <2>1
  <2> QED BY <2>2 DEF k
<1>10. mapped \cap unmapped = {}
  BY <1>1, <1>6
<1>11. \A n \in unmapped : \A c \in Columns(t) : Lower(c) # Lower(n)
  BY <1>1, <1>3
<1> QED BY <1>7, <1>8, <1>9, <1>10, <1>11, Zenon DEF Partitions, mapped

LEMMA PlanFor ==
    ASSUME NEW e \in Sql \cup Search, NEW d, IsDatabase(d), NEW later, IsDatabase(later),
           NEW source, IsReference(source), NEW target, IsReference(target),
           NEW r, r = GeneratePipelinePlan(e, d, later, source, target), r.status = "ok"
    PROVE  Partitions(r.rows.mapping, r.rows.unmapped,
                      TablesIn(d, d.default, r.rows.source)[1], TablesIn(later, later.default, r.rows.target)[1])
<1>1. PICK ns : Space(d, ns) = d.default /\ Space(later, ns) = later.default /\ ns = ""
  BY Zenon DEF Space
<1>2. PICK from, to, a, b :
         /\ from = Schema(e, d, ns, a) /\ to = Schema(e, later, ns, b)
         /\ from = Schema(e, d, "", ContainerName(source)) /\ to = Schema(e, later, "", ContainerName(target))
         /\ a = ContainerName(source) /\ b = ContainerName(target)
  BY <1>1, Zenon
<1>3. a.name # All.name /\ b.name # All.name
  <2>1. ASSUME NEW ref, IsReference(ref) PROVE ContainerName(ref).name # All.name
    <3>1. ContainerName(ref).name = ref.name
      BY BareNames DEF ContainerName, Plain, Bare
    <3>2. ref.name # All.name
      BY <2>1, Zenon DEF IsReference
    <3> QED BY <3>1, <3>2, Zenon
  <2> QED BY <1>2, <2>1, Zenon
<1>4. /\ from.status = "ok" /\ to.status = "ok" /\ from.rows # <<>> /\ to.rows # <<>>
      /\ r = Ok(PlanOf(a, b, from.rows[1].fields, to.rows[1].fields))
  <2>1. Unsupported.status # "ok" /\ Refused("OBJECT_NOT_FOUND").status # "ok"
    BY DEF Unsupported, Refused
  <2> HIDE DEF Unsupported, Refused
  <2> QED BY <1>2, <2>1, Zenon DEF GeneratePipelinePlan
<1>5. PICK i \in DOMAIN d.tables :
         TablesIn(d, d.default, a) = <<d.tables[i]>> /\ Reflects(from.rows[1], d.tables[i])
  <2>1. Schema(e, d, ns, a).status = "ok" /\ from.rows = Schema(e, d, ns, a).rows /\ Space(d, ns) = d.default
    BY <1>1, <1>2, <1>4, Zenon
  <2> QED BY <1>3, <1>4, <2>1, SchemaOfOne
<1>6. PICK k \in DOMAIN later.tables :
         TablesIn(later, later.default, b) = <<later.tables[k]>> /\ Reflects(to.rows[1], later.tables[k])
  <2>1. Schema(e, later, ns, b).status = "ok" /\ to.rows = Schema(e, later, ns, b).rows /\ Space(later, ns) = later.default
    BY <1>1, <1>2, <1>4, Zenon
  <2> QED BY <1>3, <1>4, <2>1, SchemaOfOne
<1> DEFINE s == d.tables[i]
           t == later.tables[k]
           S == ByLowerName(from.rows[1].fields)
           T == ByLowerName(to.rows[1].fields)
           Cast(n) == S[n].type # {} /\ T[n].type # {} /\ S[n].type # T[n].type
           C == [n \in DOMAIN S \cap DOMAIN T |-> Cast(n)]
           mapping == {[col |-> S[n].name, to |-> T[n].name, cast |-> Cast(n)] : n \in DOMAIN S \cap DOMAIN T}
           unmapped == {S[n].name : n \in DOMAIN S \ DOMAIN T}
<1>7. ReadsAs(S, s) /\ ReadsAs(T, t) /\ IsTable(d, s) /\ IsTable(later, t)
  BY <1>5, <1>6, LowerNames DEF IsDatabase
<1>8. r.rows.source = a /\ r.rows.target = b /\ r.rows.mapping = mapping /\ r.rows.unmapped = unmapped
  <2>1. PICK p : p = PlanOf(a, b, from.rows[1].fields, to.rows[1].fields)
    OBVIOUS
  <2>2. r.rows = p
    BY <1>4, <2>1 DEF Ok
  <2>3. p.source = a /\ p.target = b /\ p.mapping = mapping /\ p.unmapped = unmapped
    BY <2>1, Zenon DEF PlanOf
  <2> QED BY <2>2, <2>3, Zenon
<1> HIDE DEF S, T, s, t
<1>9. /\ \A n \in DOMAIN S \cap DOMAIN T : C[n] = Cast(n)
      /\ mapping = {[col |-> S[n].name, to |-> T[n].name, cast |-> C[n]] : n \in DOMAIN S \cap DOMAIN T}
  BY Zenon
<1> HIDE DEF C, mapping, unmapped
<1>10. Partitions(mapping, unmapped, s, t)
  <2>1. \A n \in DOMAIN S \cap DOMAIN T : C[n] = (S[n].type # {} /\ T[n].type # {} /\ S[n].type # T[n].type)
    BY <1>9, Zenon
  <2>2. unmapped = {S[n].name : n \in DOMAIN S \ DOMAIN T}
    BY DEF unmapped
  <2> HIDE DEF Cast
  <2>3. Maps(mapping, unmapped, S, T)
    BY <1>9, <2>1, <2>2, Zenon DEF Maps
  <2> QED BY <1>7, <2>3, MappingPartitions
<1>11. TablesIn(d, d.default, a)[1] = s /\ TablesIn(later, later.default, b)[1] = t
  BY <1>5, <1>6, One DEF s, t
<1> QED BY <1>8, <1>10, <1>11, Zenon

PlanSaid(d, later) ==
    Partitions(answer.data.mapping, answer.data.unmapped,
               TablesIn(d, d.default, answer.data.source)[1], TablesIn(later, later.default, answer.data.target)[1])

LEMMA PlanIsSaid ==
    PlanPartitionsSource <=>
        (Answered("generate_pipeline_plan") /\ engine \in Sql \cup Search => PlanSaid(Database, Later))
<1> HIDE DEF Database, Later, TablesIn, Columns, Lower
<1> QED BY Zenon DEF PlanPartitionsSource, PlanSaid, Partitions, TypeIn

\* A plan maps each column of the source to the one of the target that has its
\* name, whatever the case, or leaves it out because there is none; no column is
\* lost or mapped twice, and one is cast exactly where the types differ.
THEOREM PlanIsPartition == Spec => []PlanPartitionsSource
<1> DEFINE Right == Answered("generate_pipeline_plan") /\ engine \in Sql \cup Search => PlanSaid(Database, Later)
<1>1. Init => Right
  BY NoneAnswered
<1>2. TypeOK /\ Right /\ [Next]_vars => Right'
  <2> SUFFICES ASSUME TypeOK, Right, [Next]_vars, Answered("generate_pipeline_plan")', (engine \in Sql \cup Search)'
               PROVE  PlanSaid(Database, Later)'
    OBVIOUS
  <2>1. CASE UNCHANGED vars
    <3>1. answer' = answer /\ engine' = engine
      BY <2>1 DEF vars
    <3>2. Database' = Database /\ Later' = Later
      BY <3>1 DEF Database, Later
    <3>3. Answered("generate_pipeline_plan") /\ engine \in Sql \cup Search
      BY <3>1 DEF Answered
    <3>4. PlanSaid(Database, Later)
      BY <3>3
    <3> HIDE DEF Database, Later
    <3> QED BY <3>1, <3>2, <3>4 DEF PlanSaid
  <2>2. CASE generate_pipeline_plan
    <3>1. PICK d \in States, later \in States, source \in Refs, target \in Refs :
            Respond("generate_pipeline_plan", <<source, target>>, {},
                GeneratePipelinePlan(engine, Databases[d], Databases[later], source, target), d, later)
      BY <2>2 DEF generate_pipeline_plan
    <3>2. PICK r : r = GeneratePipelinePlan(engine, Databases[d], Databases[later], source, target)
      OBVIOUS
    <3>3. /\ answer'.status = r.status /\ answer'.data = r.rows
          /\ answer'.from = d /\ answer'.to = later /\ engine' = engine
      BY <3>1, <3>2 DEF Respond
    <3> DEFINE D == Databases[d]
               E == Databases[later]
    <3>4. /\ IsDatabase(D) /\ IsDatabase(E) /\ r.status = "ok" /\ Database' = D /\ Later' = E
          /\ engine \in Sql \cup Search
      BY <3>3, TheArguments DEF Answered, Database, Later
    <3>5. IsReference(source) /\ IsReference(target)
      BY CatalogAssumption
    <3>6. r = GeneratePipelinePlan(engine, D, E, source, target)
      BY <3>2
    <3> HIDE DEF D, E
    <3>7. Partitions(r.rows.mapping, r.rows.unmapped,
                     TablesIn(D, D.default, r.rows.source)[1], TablesIn(E, E.default, r.rows.target)[1])
      BY <3>4, <3>5, <3>6, PlanFor
    <3>8. PlanSaid(Database, Later)' <=>
             Partitions(answer'.data.mapping, answer'.data.unmapped,
                        TablesIn(Database', Database'.default, answer'.data.source)[1],
                        TablesIn(Later', Later'.default, answer'.data.target)[1])
      BY Zenon DEF PlanSaid
    <3> QED BY <3>3, <3>4, <3>7, <3>8, Zenon
  <2> QED BY <2>1, <2>2, WhoAnswered
<1> QED BY <1>1, <1>2, PlanIsSaid, TypeCorrect, PTL DEF Spec

-----------------------------------------------------------------------------
(* When a plan is for the source that was named.                              *)

\* The name that was given has no namespace, or the one of the profile.
NamesItsDefault == Space(Database, answer.args[1].ns) = Database.default

NoTwinColumns ==
    \A i \in DOMAIN Database.tables : \A a, b \in Columns(Database.tables[i]) : Lower(a) = Lower(b) => a = b

LEMMA FirstTableIn ==
    ASSUME NEW d, IsDatabase(d), NEW ns, NEW ref, TablesIn(d, ns, ref) # <<>>
    PROVE  \E i \in DOMAIN d.tables : TablesIn(d, ns, ref)[1] = d.tables[i]
<1> DEFINE S == ToSet(d.tables)
           found == TablesIn(d, ns, ref)
<1>1. d.tables \in Seq(S) /\ found = Pick(d.tables, Asked(d, ns, ref))
      /\ Asked(d, ns, ref) \in SUBSET DOMAIN d.tables
  BY AskedArePositions DEF IsDatabase, IsSequence
<1>2. found # <<>>
  OBVIOUS
<1> HIDE DEF S, found
<1>3. found \in Seq(S)
  BY <1>1, PickIsSeq
<1>4. found[1] \in S
  BY <1>2, <1>3
<1> QED BY <1>4 DEF S, found, ToSet

\* The columns of a plan are those of the table it partitions.
LEMMA PartitionHasColumns ==
    ASSUME NEW mapping, NEW unmapped, NEW s, NEW t, Partitions(mapping, unmapped, s, t),
           \A a, b \in Columns(s) : Lower(a) = Lower(b) => a = b
    PROVE  {m.col : m \in mapping} \cup unmapped = Columns(s)
<1> DEFINE all == {m.col : m \in mapping} \cup unmapped
<1>1. all \subseteq Columns(s) /\ \A c \in Columns(s) : \E n \in all : Lower(n) = Lower(c)
  BY Zenon DEF Partitions
<1> HIDE DEF all
<1>2. all = Columns(s)
  BY <1>1
<1> QED BY <1>2 DEF all

\* The source of a plan is the name it was asked for, without the namespace.
SourceIsNamed == Answered("generate_pipeline_plan") => answer.data.source = Plain(answer.args[1].name)

LEMMA SourceOfPlan ==
    ASSUME NEW e, NEW d, NEW later, NEW source, NEW target,
           NEW r, r = GeneratePipelinePlan(e, d, later, source, target), r.status = "ok"
    PROVE  r.rows.source = Plain(source.name)
<1>1. PICK from, to, a, b :
         /\ from = Schema(e, d, "", ContainerName(source)) /\ to = Schema(e, later, "", ContainerName(target))
         /\ a = ContainerName(source) /\ b = ContainerName(target)
  BY Zenon
<1>2. r = Ok(PlanOf(a, b, from.rows[1].fields, to.rows[1].fields))
  <2>1. Unsupported.status # "ok" /\ Refused("OBJECT_NOT_FOUND").status # "ok"
    BY DEF Unsupported, Refused
  <2> HIDE DEF Unsupported, Refused
  <2> QED BY <1>1, <2>1, Zenon DEF GeneratePipelinePlan
<1>3. PICK p : p = PlanOf(a, b, from.rows[1].fields, to.rows[1].fields)
  OBVIOUS
<1>4. r.rows = p
  BY <1>2, <1>3 DEF Ok
<1>5. p.source = a
  BY <1>3, Zenon DEF PlanOf
<1> QED BY <1>1, <1>4, <1>5, Zenon DEF ContainerName

LEMMA NextSourceIsNamed == TypeOK /\ SourceIsNamed /\ [Next]_vars => SourceIsNamed'
<1> SUFFICES ASSUME TypeOK, SourceIsNamed, [Next]_vars, Answered("generate_pipeline_plan")'
             PROVE  answer'.data.source = Plain(answer'.args[1].name)
  BY Zenon DEF SourceIsNamed
<1>1. CASE UNCHANGED vars
  BY <1>1 DEF vars, SourceIsNamed, Answered
<1>2. CASE generate_pipeline_plan
  <2>1. PICK d \in States, later \in States, source \in Refs, target \in Refs :
          Respond("generate_pipeline_plan", <<source, target>>, {},
              GeneratePipelinePlan(engine, Databases[d], Databases[later], source, target), d, later)
    BY <1>2 DEF generate_pipeline_plan
  <2>2. PICK r : r = GeneratePipelinePlan(engine, Databases[d], Databases[later], source, target)
    OBVIOUS
  <2>3. answer'.status = r.status /\ answer'.data = r.rows /\ answer'.args = <<source, target>>
    BY <2>1, <2>2 DEF Respond
  <2>4. r.status = "ok"
    BY <2>3 DEF Answered
  <2>5. r.rows.source = Plain(source.name)
    BY <2>2, <2>4, SourceOfPlan
  <2>6. answer'.args[1] = source
    BY <2>3
  <2> QED BY <2>3, <2>5, <2>6, Zenon
<1> QED BY <1>1, <1>2, WhoAnswered

\* A plan is about the table that was named, and has its columns, when the name
\* has no namespace or the default one and the columns of a table differ in more
\* than case: what a plan for ns.table misses is the namespace that
\* _container_name drops, and nothing else.
THEOREM PlanIsForDefaultSource ==
    Spec => [](Answered("generate_pipeline_plan") /\ NamesItsDefault /\ NoTwinColumns => PlanIsForItsSource)
<1>1. ASSUME TypeOK, PlanPartitionsSource, SourceIsNamed,
             Answered("generate_pipeline_plan"), NamesItsDefault, NoTwinColumns
      PROVE  PlanIsForItsSource
  <2> DEFINE named == Plain(answer.args[1].name)
             found == TablesIn(Database, Space(Database, answer.args[1].ns), named)
  <2> SUFFICES ASSUME engine \in Sql, found # <<>>
               PROVE  {m.col : m \in answer.data.mapping} \cup answer.data.unmapped = Columns(found[1])
    BY Zenon DEF PlanIsForItsSource
  <2>1. PlanSaid(Database, Later) /\ IsDatabase(Database)
    BY <1>1, PlanIsSaid, TheArguments DEF TypeOK, Database
  <2>2. answer.data.source = named /\ found = TablesIn(Database, Database.default, named)
    BY <1>1, Zenon DEF SourceIsNamed, NamesItsDefault
  <2>3. PICK i \in DOMAIN Database.tables : found[1] = Database.tables[i]
    BY <2>1, <2>2, FirstTableIn
  <2>4. \A a, b \in Columns(found[1]) : Lower(a) = Lower(b) => a = b
    BY <1>1, <2>3, Zenon DEF NoTwinColumns
  <2>5. PICK t : Partitions(answer.data.mapping, answer.data.unmapped, found[1], t)
    BY <2>1, <2>2, Zenon DEF PlanSaid
  <2> HIDE DEF found
  <2> QED BY <2>4, <2>5, PartitionHasColumns
<1>2. Init => SourceIsNamed
  BY NoneAnswered DEF SourceIsNamed
<1> QED
  BY <1>1, <1>2, NextSourceIsNamed, PlanIsPartition, TypeCorrect, PTL DEF Spec
=============================================================================
