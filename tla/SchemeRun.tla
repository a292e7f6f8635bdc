----------------------------- MODULE SchemeRun -----------------------------
(***************************************************************************)
(* Running a scheme file (SchemeRunner.py, NetworkConfigQueryRunner.py and    *)
(* the exit code of nca_cli.py): the configurations of the scheme are built    *)
(* one after the other, then each query entry runs each of its sub-queries on  *)
(* one configuration or two at a time, and whatever differs from what the      *)
(* scheme expects is counted.  What a configuration's resources contain and     *)
(* what a query answers are choices of the environment.                         *)
(***************************************************************************)
EXTENDS Integers, FiniteSets, Sequences, SequencesExt

CONSTANTS
  Names,        \* the names of configurations
  Schemes,      \* the scheme files
  Findings,     \* the numbers of warnings a configuration may have
  Answers,      \* what a query may answer: its result, and whether it was not executed
  Unspecified   \* an optional field that is not there

SingleKinds == {"connectivityMap", "vacuity", "disjointness"}
BaseKinds == {"containment", "interferes"}
PairKinds == {"equivalence", "semanticDiff"}
AllPairsKinds == {"pairwiseInterferes"}
\* The queries that set output_config.fullExplanation themselves.
AlwaysExplained == {"connectivityMap", "vacuity", "semanticDiff"}

\* An entry of networkConfigList, and one of queries with its sub-queries.
ConfigEntry ==
  [name : Names, hasPolicies : BOOLEAN, expectedWarnings : Nat \cup {Unspecified},
   expectedError : {0, 1, Unspecified}]
SubQuery ==
  [kind : SingleKinds \cup BaseKinds \cup PairKinds \cup AllPairsKinds, configs : Seq(Names)]
QueryEntry ==
  [subs : Seq(SubQuery), expected : Nat \cup {Unspecified}, expectedNotExecuted : Nat,
   expectedOutput : BOOLEAN, fullExplanation : BOOLEAN, html : BOOLEAN]
ASSUME SchemeAssumption ==
  /\ Schemes \subseteq [configs : Seq(ConfigEntry), queries : Seq(QueryEntry)]
  /\ Findings \subseteq Nat
  /\ Answers \subseteq [result : Nat, notExecuted : {0, 1}]
  /\ Unspecified \notin Int

VARIABLES
  scheme,           \* the scheme file
  pc,               \* where run_scheme is
  at,               \* the next entry of networkConfigList, then of queries
  sub,              \* the next sub-query of the query entry
  network_configs,  \* the names of the configurations that were built
  global_res,       \* what run_scheme will return
  tracker,          \* the ExplTracker is active
  full,             \* output_configuration.fullExplanation, of the query entry
  todo,             \* the iterations the sub-query has left, as pairs of indices
  acc,              \* the QueryResult of the sub-query
  last,             \* res, comparing_err, not_executed of run_queries
  found,            \* history: what each entry of networkConfigList gave, in order
  answered,         \* history: the answers of the queries, in order
  different         \* history: the sub-queries whose output differs from what is expected

history == <<found, answered, different>>
vars == <<scheme, pc, at, sub, network_configs, global_res, tracker, full, todo, acc, last, history>>

NoResult == [result |-> 0, notExecuted |-> 0]
NothingYet == [res |-> 0, comparing_err |-> 0, not_executed |-> 0]
One(cond) == IF cond THEN 1 ELSE 0

Init == /\ scheme \in Schemes /\ pc = "scheme" /\ at = 1 /\ sub = 1
        /\ network_configs = {} /\ global_res = 0 /\ tracker = FALSE /\ full = FALSE
        /\ todo = {} /\ acc = NoResult /\ last = NothingYet
        /\ found = << >> /\ answered = << >> /\ different = {}

Raise == pc' = "raised"
-----------------------------------------------------------------------------
\* activate_exp_tracker: at most one query needs explainability, and it is the first.
SafeToExplain(queries) == \A i \in DOMAIN queries : queries[i].html => i = 1

\* run_scheme up to the configurations: it returns None when it is not safe.
ReadScheme ==
  /\ pc = "scheme"
  /\ pc' = IF SafeToExplain(scheme.queries) THEN "configs" ELSE "refused"
  /\ tracker' = (SafeToExplain(scheme.queries) /\ \E i \in DOMAIN scheme.queries : scheme.queries[i].html)
  /\ UNCHANGED <<scheme, at, sub, network_configs, global_res, full, todo, acc, last, history>>

\* get_network_config, in the environment: a number of findings or a SyntaxError.
Failed == -1
Builds == Findings \cup {Failed}

\* (mutant: the configuration is stored before its warnings are counted, or it fails)
StoredEvenIfFailed(entry, n) == {entry.name}
Stored(entry, n) == IF n = Failed THEN {} ELSE {entry.name}

\* found_error # expected_error
ErrorMismatch(entry, n) ==
  One(entry.expectedError # Unspecified /\ entry.expectedError # One(n = Failed))
\* warnings_found # expected_warnings, of a configuration that could be built
WarningMismatch(entry, n) ==
  One(n # Failed /\ entry.expectedWarnings \notin {Unspecified, n})

\* _add_config
AddConfig ==
  /\ pc = "configs" /\ at <= Len(scheme.configs)
  /\ LET entry == scheme.configs[at] IN
     IF entry.name \in network_configs \/ ~entry.hasPolicies
     THEN Raise /\ UNCHANGED <<at, network_configs, global_res, found>>
     ELSE \E n \in Builds :
            /\ found' = Append(found, n)
            /\ IF n = Failed /\ entry.expectedError = Unspecified
               THEN Raise /\ UNCHANGED <<at, network_configs, global_res>>
               ELSE /\ at' = at + 1
                    /\ network_configs' = network_configs \cup Stored(entry, n)
                    /\ global_res' = global_res + WarningMismatch(entry, n) + ErrorMismatch(entry, n)
                    /\ UNCHANGED pc
  /\ UNCHANGED <<scheme, sub, tracker, full, todo, acc, last, answered, different>>

RunQueries ==
  /\ pc = "configs" /\ at > Len(scheme.configs)
  /\ pc' = "queries" /\ at' = 1
  /\ UNCHANGED <<scheme, sub, network_configs, global_res, tracker, full, todo, acc, last,
                 history>>
-----------------------------------------------------------------------------
\* run_queries takes the next query entry, or is through.
NextQuery ==
  /\ pc = "queries"
  /\ IF at > Len(scheme.queries) THEN pc' = "done" /\ UNCHANGED <<sub, full, last>>
     ELSE /\ pc' = "query" /\ sub' = 1 /\ last' = NothingYet
          /\ full' = scheme.queries[at].fullExplanation
  /\ UNCHANGED <<scheme, at, network_configs, global_res, tracker, todo, acc, history>>

query == scheme.queries[at]
\* The iterations a sub-query runs, as pairs of indices of its configurations; the query
\* of a pair gets the base as its second configuration.
Singles(cs) == {<<i, i>> : i \in DOMAIN cs}
VersusBase(cs) == {<<i, 1>> : i \in 2 .. Len(cs)}
\* (mutant: the last configuration is never the second of a pair)
FollowedShort(cs) == {p \in (DOMAIN cs) \X (DOMAIN cs) : p[1] < p[2] /\ p[2] < Len(cs)}
Followed(cs) == {p \in (DOMAIN cs) \X (DOMAIN cs) : p[1] < p[2]}
AllPairs(cs) == {p \in (DOMAIN cs) \X (DOMAIN cs) : cs[p[1]] # cs[p[2]]}
Iterations(s) == IF s.kind \in SingleKinds THEN Singles(s.configs)
                 ELSE IF s.kind \in BaseKinds THEN VersusBase(s.configs)
                 ELSE IF s.kind \in PairKinds THEN Followed(s.configs)
                 ELSE AllPairs(s.configs)
\* The loops go through the pairs in the order of their indices.
First(todos) == {t \in todos : \A u \in todos : t[1] < u[1] \/ (t[1] = u[1] /\ t[2] <= u[2])}
On(s, t) == {s.configs[t[1]], s.configs[t[2]]}

\* run_query begins: with fewer than two configurations to compare it returns 0
\* where its caller unpacks three values, and a base that is not there is an error.
StartSubQuery ==
  /\ pc = "query" /\ sub <= Len(query.subs)
  /\ LET s == query.subs[sub] IN
     IF \/ (s.kind \notin SingleKinds /\ Len(s.configs) <= 1)
        \/ (s.kind \in BaseKinds /\ s.configs[1] \notin network_configs)
     THEN Raise /\ UNCHANGED <<todo, acc>>
     ELSE pc' = "running" /\ todo' = Iterations(s) /\ acc' = NoResult
  /\ UNCHANGED <<scheme, at, sub, network_configs, global_res, tracker, full, last, history>>

\* (mutant: the results of the iterations overwrite each other)
UpdateOverwrites(r, a) == a
\* QueryResult.update
Update(r, a) == [result |-> r.result + a.result, notExecuted |-> r.notExecuted + a.notExecuted]

\* One iteration: _get_config of the names, then the query.
Iterate ==
  /\ pc = "running"
  /\ \E t \in First(todo) :
       LET s == query.subs[sub] IN
       IF ~(On(s, t) \subseteq network_configs)
       THEN Raise /\ UNCHANGED <<todo, acc, full, answered>>
       ELSE \E a \in Answers :
              /\ todo' = todo \ {t} /\ acc' = Update(acc, a)
              /\ full' = (full \/ (s.kind \in AlwaysExplained /\ a.notExecuted = 0))
              /\ answered' = Append(answered, [query |-> at, sub |-> sub, on |-> On(s, t), answer |-> a])
              /\ UNCHANGED pc
  /\ UNCHANGED <<scheme, at, sub, network_configs, global_res, tracker, last, found, different>>

\* run_query ends: the output is compared if it was explained in full.
EndSubQuery ==
  /\ pc = "running" /\ todo = {}
  /\ \E err \in IF query.expectedOutput /\ full THEN {0, 1} ELSE {0} :
       /\ last' = [res |-> acc.result, comparing_err |-> err, not_executed |-> acc.notExecuted]
       /\ different' = different \cup {d \in {<<at, sub>>} : err = 1}
  /\ pc' = "query" /\ sub' = sub + 1
  /\ UNCHANGED <<scheme, at, network_configs, global_res, tracker, full, todo, acc,
                 found, answered>>

\* run_queries compares what the last sub-query answered with what is expected.
Judge ==
  /\ pc = "query" /\ sub > Len(query.subs)
  /\ global_res' = global_res + One(query.expected \notin {Unspecified, last.res})
                              + One(last.not_executed # query.expectedNotExecuted)
                              + One(last.comparing_err # 0)
  /\ pc' = "queries" /\ at' = at + 1
  /\ UNCHANGED <<scheme, sub, network_configs, tracker, full, todo, acc, last, history>>

Next == \/ ReadScheme \/ AddConfig \/ RunQueries \/ NextQuery \/ StartSubQuery
        \/ Iterate \/ EndSubQuery \/ Judge
Spec == Init /\ [][Next]_vars
-----------------------------------------------------------------------------
(***************************************************************************)
(* Properties, told from the history: what the environment answered.        *)
(***************************************************************************)
AnswersOf(q, k) == {i \in DOMAIN answered : answered[i].query = q /\ answered[i].sub = k}
\* The sum over all sub-queries of an entry, as the number of the units it is made of.
Units(q, field) ==
  UNION {{i} \X (1 .. answered[i].answer[field]) : i \in {j \in DOMAIN answered : answered[j].query = q}}
SumOf(q, field) == Cardinality(Units(q, field))

BadWarnings ==
  {i \in DOMAIN found : /\ found[i] # Failed /\ scheme.configs[i].expectedWarnings # Unspecified
                        /\ scheme.configs[i].expectedWarnings # found[i]}
BadErrors ==
  {i \in DOMAIN found : scheme.configs[i].expectedError = IF found[i] = Failed THEN 0 ELSE 1}
BadResults(qs) == {q \in qs : scheme.queries[q].expected \notin {Unspecified, SumOf(q, "result")}}
BadSkips(qs) == {q \in qs : scheme.queries[q].expectedNotExecuted # SumOf(q, "notExecuted")}
BadOutputs(qs) == {q \in qs : \E d \in different : d[1] = q}

\* The configurations that run in queries.
Queried ==
  UNION {UNION {ToSet(scheme.queries[q].subs[k].configs) : k \in DOMAIN scheme.queries[q].subs}
         : q \in DOMAIN scheme.queries}
\* The sub-queries of an entry but the last found nothing, and skipped nothing.
LastSub(q) == Len(scheme.queries[q].subs)
OnlyLastFinds(q) ==
  /\ \A i \in DOMAIN answered :
       answered[i].query = q => answered[i].sub = LastSub(q) \/ answered[i].answer = NoResult
  /\ \A d \in different : d[1] = q => d[2] = LastSub(q)
\* The exit code of a scheme is the number of its expectations that the answers
\* contradict: for each configuration its warnings and its error, for each query
\* the sum of the results of its sub-queries, the comparison of its output and the
\* number of configurations or pairs it did not run on (docs/SchemeFileFormat.md, the
\* fields of a query and "Exit code meaning").  The code keeps what the last sub-query
\* of an entry gives, and counts configurations that run in no query: this is said of
\* the runs in which neither makes a difference.
ExitCodeCounts ==
  LET qs == DOMAIN scheme.queries
  IN  /\ pc = "done" /\ \A q \in qs : OnlyLastFinds(q)
      /\ \A i \in BadWarnings \cup BadErrors : scheme.configs[i].name \in Queried
      => global_res = Cardinality(BadWarnings) + Cardinality(BadErrors) + Cardinality(BadResults(qs))
                       + Cardinality(BadSkips(qs)) + Cardinality(BadOutputs(qs))

\* What the table of queries in docs/SchemeFileFormat.md says a query compares.
Promised(s) ==
  LET names == {s.configs[i] : i \in DOMAIN s.configs}
  IN  IF s.kind \in SingleKinds THEN {{n} : n \in names}
      ELSE IF s.kind \in BaseKinds THEN {{s.configs[1], s.configs[i]} : i \in 2 .. Len(s.configs)}
      ELSE {{m, n} : m, n \in names} \ {{n} : n \in names}
\* A clean exit vouches for every comparison the scheme asks for: no query entry of
\* one sub-query was skipped on more pairs than the entry says, and the pairs it ran
\* on are all the pairs of different configurations that the kind of query promises.
CleanExitVouches ==
  pc = "done" /\ global_res = 0 =>
    \A q \in DOMAIN scheme.queries :
      LET e == scheme.queries[q] IN
      Len(e.subs) = 1 =>
        /\ Promised(e.subs[1]) \subseteq {answered[i].on : i \in AnswersOf(q, 1)}
        /\ Cardinality({i \in AnswersOf(q, 1) : answered[i].answer.notExecuted = 1})
             = e.expectedNotExecuted

\* The configurations that could be parsed.
Built == {scheme.configs[i].name : i \in {j \in DOMAIN found : found[j] # Failed}}
\* A sub-query that came to its end compared something, and compared all it names: the
\* one exception are configurations of one name, which pairwiseInterferes never pairs.
Compared(s) ==
  /\ s.kind \in SingleKinds \/ Len(s.configs) > 1
  /\ \/ \A i \in DOMAIN s.configs : s.configs[i] \in Built
     \/ s.kind \in AllPairsKinds /\ \A i, j \in DOMAIN s.configs : s.configs[i] = s.configs[j]
\* Every answer is grounded: the configurations it is about could be parsed, even when
\* the scheme expected that error and the run went on, and explanations come from a
\* tracker (a singleton) that was active before the first configuration and has served no
\* other query.  A run that comes to its end has had no comparison of one configuration.
AnswersAreGrounded ==
  /\ \A i \in DOMAIN answered :
       /\ answered[i].on \subseteq Built
       /\ scheme.queries[answered[i].query].html =>
            tracker /\ \A j \in DOMAIN answered : j < i => answered[j].query = answered[i].query
  /\ pc = "done" => \A q \in DOMAIN scheme.queries : \A k \in DOMAIN scheme.queries[q].subs :
                      Compared(scheme.queries[q].subs[k])
=============================================================================
