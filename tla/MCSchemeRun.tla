---------------------------- MODULE MCSchemeRun ----------------------------
(***************************************************************************)
(* Schemes of up to three configurations (one that is expected to fail, one   *)
(* whose name is taken, one without policies) and two query entries, of each   *)
(* kind of iteration, with and without expectations.                            *)
(***************************************************************************)
EXTENDS SchemeRun

Config(name, hasPolicies, warnings, error) ==
  [name |-> name, hasPolicies |-> hasPolicies, expectedWarnings |-> warnings,
   expectedError |-> error]
Sub(kind, configs) == [kind |-> kind, configs |-> configs]
Query(subs, expected, skipped, output, explained, html) ==
  [subs |-> subs, expected |-> expected, expectedNotExecuted |-> skipped,
   expectedOutput |-> output, fullExplanation |-> explained, html |-> html]

Plain(name) == Config(name, TRUE, Unspecified, Unspecified)
MCConfigLists ==
  {<<Plain("A"), Config("B", TRUE, 1, 0), Plain("C")>>,
   <<Config("A", TRUE, 0, 1), Plain("B")>>,
   <<Plain("A"), Plain("A")>>, <<Config("A", FALSE, Unspecified, 1)>>}

Map(html) == Query(<<Sub("connectivityMap", <<"A", "B">>)>>, Unspecified, 0, TRUE, FALSE, html)
Pairs == Query(<<Sub("equivalence", <<"A", "B", "C">>)>>, 1, 0, TRUE, FALSE, FALSE)
Base == Query(<<Sub("interferes", <<"A", "B", "C">>)>>, 2, 1, TRUE, TRUE, FALSE)
Both == Query(<<Sub("pairwiseInterferes", <<"A", "B">>)>>, 1, 0, FALSE, FALSE, FALSE)
Twice == Query(<<Sub("vacuity", <<"B">>), Sub("containment", <<"B", "A">>)>>, 1, 0, TRUE, FALSE, FALSE)
Alone == Query(<<Sub("semanticDiff", <<"A">>)>>, 0, 0, FALSE, FALSE, FALSE)
None == Query(<< >>, 0, 0, FALSE, FALSE, FALSE)

MCSchemes ==
  [configs : MCConfigLists,
   queries : {<<Map(TRUE), Base>>, <<Pairs, Map(TRUE)>>, <<Map(TRUE), Map(TRUE)>>,
              <<Pairs, Both>>, <<Twice, Map(FALSE)>>, <<Both, None>>, <<Alone>>, << >>}]
MCAnswers == [result : {0, 1}, notExecuted : {0, 1}] \cup {[result |-> 2, notExecuted |-> 0]}
=============================================================================
