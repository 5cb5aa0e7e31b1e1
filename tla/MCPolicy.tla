------------------------------ MODULE MCPolicy ------------------------------
(***************************************************************************)
(* An instance of Policy for TLC.  /ws is a directory and /l a link to it; *)
(* /ws/a is a directory, or a link to a directory outside, or nothing;     *)
(* /ws/b is a link to /ws/a; and /ws has a directory whose name is not     *)
(* UTF-8.                                                                  *)
(***************************************************************************)
EXTENDS Policy

Of(p) == <<"/">> \o p

Latin1 == "caf<E9>"

MCPaths == {Of(<<"ws">>), Of(<<"l">>), Of(<<"ws", "a">>), Of(<<"l", "b">>),
            Of(<<"ws", "a", "new">>), Of(<<"ws", "..">>), <<"ws">>,
            Of(<<"l", Latin1>>)}

\* The file system in which /ws/a, where it exists, leads to `a`.
World(exists, a) ==
  LET below == {<<>>, <<Latin1>>} \cup (IF exists THEN {<<"a">>, <<"b">>} ELSE {})
      ways  == {Of(<<w>>) \o p : w \in {"ws", "l"}, p \in below}
      fixed == {Of(<<>>), Of(<<"out">>)}
  IN  [p \in ways \cup fixed |->
         IF p \in fixed THEN p
         ELSE IF Len(p) = 2 THEN Of(<<"ws">>)
         ELSE IF p[3] = Latin1 THEN Of(<<"ws", Latin1>>) ELSE a]

MCNotUtf8 == {Latin1}

MCDefaultLimits == [output |-> 2, seconds |-> 1, memory |-> 2, fuel |-> 2]

\* The longest timeout whose ticks can be counted is 6 seconds; 7 and 63 are past it.
MCAskedLimits ==
  {[output |-> 1, seconds |-> 7, memory |-> 1, fuel |-> 1],
   [output |-> 63, seconds |-> 63, memory |-> 63, fuel |-> 63]}
  \cup {[MCDefaultLimits EXCEPT ![field] = 0] : field \in {"output", "seconds", "memory", "fuel"}}

MCFileSystems == {World(FALSE, <<>>), World(TRUE, Of(<<"ws", "a">>)), World(TRUE, Of(<<"out">>))}
=============================================================================
