----------------------------- MODULE MCComponents -----------------------------
\* The components, each by itself but for those that work in one process: scene says
\* which a behavior is about, and the variables of the others keep their first value.
EXTENDS SnapshotStore, Paging, Dependents, WorkspaceSession, StartupManifest, OutputFile,
        Discovery, SourceParser, Expressions, RuntimeOracle, SourceLoading, TextEdits,
        CacheLifecycle, MCServer

CONSTANTS MaxLines, MaxOperators, MaxEntries, MaxFiles, MaxEdits, MaxResults

VARIABLES
  scene,
  input    \* what a component without state of its own is given, grown step by step

allvars == <<scene, input, rvars, pvars, tvars, wvars, fvars, uvars, parservars, loadvars,
             evalvars, editvars, oraclevars, cachevars, vars, client>>

\* --- values -----------------------------------------------------------------
MCEdgesOf == [p |-> [v1 |-> {<<"p", "q">>}, v2 |-> {<<"p", "p">>}],
              q |-> [v1 |-> {<<"q", "p">>}, v2 |-> {<<"p", "q">>}]]

\* A version of p has a symbol of q, under the key of q's own, and one of q a reference of p.
MCRowsOf ==
  LET own(d, id, v) == [t \in Table |-> {<<d, id, v>>}]
  IN [p |-> [v1 |-> own("p", "i", "v1"),
             v2 |-> [own("p", "i", "v2") EXCEPT !["symbol"] = @ \cup {<<"q", "j", "v2">>}]],
      q |-> [v1 |-> [own("q", "i", "v1") EXCEPT !["reference"] = @ \cup {<<"p", "k", "v1">>}],
             v2 |-> own("q", "j", "v2")]]

Contained(sizes, texts, access) ==
  {[size |-> n, text |-> t, access |-> access] : n \in sizes, t \in texts}
MCContents == Contained({1, 9}, {"a", "b"}, "read") \cup Contained({1}, {"a", "b"}, "listed")
                \cup Contained({1}, {"a"}, "none")

Line(kind, section, arg, key, value) ==
  [kind |-> kind, section |-> section, arg |-> arg, key |-> key, value |-> value]
KeyLine(key, value) == Line("key", "", "", key, value)
MCLines == {Line("section", "state", "+1", "", ""), Line("section", "statedef", "", "", ""),
          Line("section", "", "", "", ""), Line("comment", "", "", "", ""),
          Line("malformed", "", "", "", ""), KeyLine("type", "changestate"),
          KeyLine("type", "null"), KeyLine("value", "1"), KeyLine("value", "expression"),
          KeyLine("trigger", <<"x", "y", "x">>)}
\* Lines that only a command section tells apart.
MCCommandLines ==
  {Line("section", "command", "", "", ""), Line("section", "positional", "", "", ""),
   KeyLine("name", "unquoted"), KeyLine("name", ""), KeyLine("", ""), KeyLine("triggerx", ""),
   Line("malformed", "", "", "", ""), Line("section", "state", "1", "", "")}
MCSourceLine == MCLines \cup MCCommandLines

Leaves == {Node("int", 1, <<>>), Node("string", 1, <<>>), Node("random", 0, <<>>),
           Node("pos", 1, <<>>)}
One == Node("int", 1, <<>>)
Random == Node("random", 0, <<>>)
\* An expression with one more operation around it.
Wider(node) ==
  {Node(op, 0, <<node>>) : op \in {"!", "-", "var", "f"}}
    \cup {Node(op, 0, args) : op \in UNION Range(Levels),
                              args \in {<<node, One>>, <<node, Random>>, <<One, node>>, <<Random, node>>}}
    \cup {Node("cond", 0, args) : args \in {<<node, One, Random>>, <<Random, node, One>>,
                                            <<One, Random, node>>}}
NoInputs == [random |-> Absent, command |-> Absent, statetype |-> Absent, posY |-> Absent,
             vars |-> <<>>]
SomeInputs == [NoInputs EXCEPT !.random = -4]
AllInputs == [random |-> -4, command |-> 1, statetype |-> 2, posY |-> 0, vars |-> <<3>>]
MCInputs == {NoInputs, SomeInputs, AllInputs}

RECURSIVE Depth(_)
Depth(node) ==
  LET below == {Depth(node.args[i]) : i \in DOMAIN node.args}
  IN IF below = {} THEN 0 ELSE 1 + CHOOSE n \in below : \A m \in below : m <= n

\* A snapshot made of others; "huge" is no integer of 64 bits, nor is the one next to it.
Joined(node, parts) ==
  LET paths == {<<>>} \cup UNION {{<<k>> \o p : p \in DOMAIN parts[k]} : k \in DOMAIN parts}
  IN [p \in paths |-> IF p = <<>> THEN node ELSE parts[Head(p)][Tail(p)]]
MCSpelling == {"1", "1.0", "huge", "huge+1", "text"}
MCRead(spelled) == IF spelled = "huge+1" THEN "huge" ELSE spelled
MCScalar(spelled) == Joined(Scalar(spelled), <<>>)
ListOf(parts) == Joined(List(Len(parts)), [k \in {<<"0", "1">>[i] : i \in DOMAIN parts} |->
                                                IF k = "0" THEN parts[1] ELSE parts[2]])
MapOf(parts) == Joined(Map, parts)
Flat == LET scalars == {MCScalar(t) : t \in MCSpelling}
            some == {MCScalar(t) : t \in {"1", "huge", "huge+1"}}
        IN scalars \cup {ListOf(<<>>), MapOf(<<>>)}
             \cup {ListOf(<<v>>) : v \in scalars} \cup {ListOf(<<v, w>>) : v, w \in some}
             \cup {MapOf([a |-> v]) : v \in scalars} \cup {MapOf([b |-> MCScalar("1")])}
             \cup {MapOf([a |-> v, b |-> w]) : v, w \in some}
TextValue == MCScalar("text")
Deep == {ListOf(<<v>>) : v \in Flat} \cup {ListOf(<<v, TextValue>>) : v \in Flat}
          \cup {MapOf([a |-> v]) : v \in Flat} \cup {MapOf([a |-> v, b |-> TextValue]) : v \in Flat}
MCSnapshot == Flat \cup Deep

MCFilesOf == [s1 |-> <<"s3", "s4", "s3">>, s2 |-> <<"s2", "s5">>, s3 |-> <<"s1", "s2", "s1">>,
              s4 |-> <<"s1">>, s5 |-> <<>>, s6 |-> <<"s5", "s5">>]
MCStartupFiles == [[s \in SourceFile |-> <<>>] EXCEPT !["s1"] = <<"s1", "s2", "s5">>,
                                                      !["s6"] = <<"s2", "s3">>]
MCErrorsOf == [[s \in SourceFile |-> 0] EXCEPT !["s3"] = 2]

\* Bytes of "ab", of a line with a character of two bytes, and of two lines with CR LF.
MCFileText == {<<97, 98>>, <<97, 195, 169>>, <<97, CR, LF, 98>>}
LineColumn(line, column) == [line |-> line, column |-> column]
Edit(bytes, s, new) == [start |-> s[1], end |-> s[2], places |-> NoPlace,
                        old |-> SubSeq(bytes, s[1] + 1, s[2]), new |-> new]
Spans(bytes) == {s \in (0..Len(bytes)) \X (0..Len(bytes)) : s[1] <= s[2]}
EditsOf(bytes) ==
  UNION {{Edit(bytes, s, new) : new \in {IF s[1] = s[2] THEN <<97>> ELSE <<>>, <<98>>}} :
           s \in Spans(bytes)}
    \cup {Edit(bytes, <<1, 1>>, <<>>),
          [Edit(bytes, <<0, 1>>, <<97>>) EXCEPT !.old = <<98>>],
          [Edit(bytes, <<1, 2>>, <<>>) EXCEPT !.end = 5],
          [Edit(bytes, <<1, 1>>, <<98>>) EXCEPT !.end = 0],
          [Edit(bytes, <<0, 0>>, <<98>>) EXCEPT !.start = -1]}
\* A single edit whose span is given by lines and columns too.
PlacedEdits(bytes) ==
  UNION {{[Edit(bytes, s, <<98>>) EXCEPT !.places = [start |-> a, end |-> b]] :
            a, b \in {LineColumn(line, column) : line \in 0..2, column \in 0..4}} :
         s \in Spans(bytes)}
MCPossibleEdit == UNION {EditsOf(bytes) \cup PlacedEdits(bytes) : bytes \in MCFileText}

\* --- one component at a time ------------------------------------------------
Scenes == {"store", "paging", "dependents", "session", "manifest", "output", "discovery",
           "parser", "expression", "evaluation", "oracle", "loading", "edits", "cache",
           "server"}

ComponentsInit ==
  /\ scene \in Scenes
  /\ RepositoryInit
  /\ IF scene = "cache" THEN TRUE
     ELSE identity = [p \in Process |-> CHOOSE i \in Identity : TRUE]
  /\ CacheInit
  /\ IF scene = "server" THEN TRUE ELSE allowWrite = FALSE /\ served = "" /\ client = "editor"
  /\ MCServerInit
  /\ IF scene = "paging" THEN TRUE ELSE list = "operations" /\ rows = 0 /\ limit = 0 /\ budget = 0
  /\ PagingInit
  /\ IF scene = "dependents" THEN TRUE ELSE edges = {} /\ changed = {}
  /\ DependentsInit
  /\ SessionInit
  /\ IF scene = "manifest" THEN TRUE ELSE names = [f \in ManifestFile |-> {}] /\ roots = {}
  /\ ManifestInit
  /\ IF scene = "output" THEN TRUE
     ELSE alias = "none" /\ rosters = {} /\ target = Missing /\ errors = [c \in Command |-> FALSE]
  /\ OutputInit
  /\ ParserInit
  /\ LoadingInit /\ load.root = "s1"
  /\ EvaluatorInit
  /\ scene # "evaluation" => known = [now |-> NoInputs, later |-> AllInputs]
  /\ EditsInit
  /\ scene # "edits" => data = <<97, 98>>
  /\ IF scene = "oracle"
     THEN \E pair \in (Flat \X Flat) \cup (Deep \X Deep) :
            expected = Normalized(pair[1]) /\ actual = Normalized(pair[2])
     ELSE expected = TextValue /\ actual = TextValue
  /\ OracleInit
  /\ CASE scene = "discovery" ->
            input \in [tree : {[e \in Entry |-> Gone]}, active : {{1, 4}, {3}, {1, 3, 4}},
                       budget : 1..MaxFiles]
       [] scene = "expression" -> input \in Leaves
       [] OTHER -> input = <<>>

Grow ==
  CASE scene = "discovery" ->
         \E e \in Entry :
           \E c \in (IF e \in Skipped THEN Contained({1}, {"a"}, "read") ELSE Contents) \cup {Gone} :
             input' = [input EXCEPT !.tree[e] = c]
    [] scene = "expression" -> Depth(input) < MaxOperators /\ input' \in Wider(input)
    [] OTHER -> FALSE

\* Files of MaxLines lines; the resolver keeps the order of the references, or turns it.
ReadFile ==
  /\ Len(syntax) < MaxLines
  /\ \E lines \in {MCLines, MCCommandLines} :
       /\ ToSet(syntax) \subseteq lines
       /\ \E t \in lines : FromSyntax(t)
ExportInOrder ==
  LET rest == DOMAIN document.refs \ ToSet(export.taken) IN
  \E i \in rest :
    /\ \/ \A j \in DOMAIN document.refs : j < i <=> j \notin rest
       \/ \A j \in DOMAIN document.refs : j > i <=> j \notin rest
    /\ ResolveReference(i)

LoadStep == LoadingNext /\ (Len(entries) = MaxEntries => load.loading)

EvaluationStep == EvaluatorNext /\ Len(results') <= MaxResults

CollectEdit ==
  /\ Len(edits) < MaxEdits
  /\ \A i \in DOMAIN edits : edits[i].places = NoPlace
  /\ \E e \in EditsOf(data) \cup (IF edits = <<>> THEN PlacedEdits(data) ELSE {}) : Collect(e)
EditStep == CollectEdit \/ Refuse \/ Sort \/ RefuseOverlap \/ StartReplacing \/ Replace

statevars == <<rvars, pvars, tvars, wvars, uvars>>
textvars == <<fvars, parservars, loadvars, evalvars, editvars, oraclevars>>
processvars == <<cachevars, vars, client>>

\* TLC is fastest when what stays as it is comes before the step.
Search ==
  /\ UNCHANGED <<scene, input, rvars, pvars, wvars, uvars, textvars, processvars>>
  /\ Visit

StateStep ==
  \/ scene = "store" /\ UNCHANGED <<pvars, tvars, wvars, uvars>> /\ RepositoryNext
  \/ scene = "paging" /\ UNCHANGED <<rvars, tvars, wvars, uvars>> /\ NextPage
  \/ scene = "session" /\ UNCHANGED <<rvars, pvars, tvars, uvars>> /\ SessionNext
  \/ scene = "output" /\ UNCHANGED <<rvars, pvars, tvars, wvars>> /\ OutputNext

TextStep ==
  \/ /\ scene = "manifest"
     /\ UNCHANGED <<parservars, loadvars, evalvars, editvars, oraclevars>> /\ ManifestNext
  \/ /\ scene = "parser"
     /\ UNCHANGED <<fvars, loadvars, evalvars, editvars, oraclevars>>
     /\ ReadFile \/ ExportInOrder
  \/ /\ scene = "loading"
     /\ UNCHANGED <<fvars, parservars, evalvars, editvars, oraclevars>> /\ LoadStep
  \/ /\ scene = "evaluation"
     /\ UNCHANGED <<fvars, parservars, loadvars, editvars, oraclevars>> /\ EvaluationStep
  \/ /\ scene = "edits"
     /\ UNCHANGED <<fvars, parservars, loadvars, evalvars, oraclevars>> /\ EditStep
  \/ /\ scene = "oracle"
     /\ UNCHANGED <<fvars, parservars, loadvars, evalvars, editvars>> /\ OracleNext

ProcessStep ==
  \/ scene = "cache" /\ UNCHANGED <<vars, client>> /\ CacheNext
  \/ scene = "server" /\ UNCHANGED cachevars /\ MCServerNext

ComponentsNext ==
  \/ Search
  \/ UNCHANGED <<scene, input, textvars, processvars>> /\ StateStep
  \/ UNCHANGED <<scene, input, statevars, processvars>> /\ TextStep
  \/ UNCHANGED <<scene, input, statevars, textvars>> /\ ProcessStep
  \/ UNCHANGED <<scene, statevars, textvars, processvars>> /\ Grow

ComponentsSpec ==
  ComponentsInit /\ [][ComponentsNext]_allvars /\ WF_allvars(Search)
-------------------------------------------------------------------------------
(* Properties of the components that are functions of their input *)

\* An edit of the tree is noticed by the snapshot id as EditNoticed says.
SnapshotNotices ==
  [][scene = "discovery" => EditNoticed(input.tree, input'.tree, input.active, input.budget)]_allvars

\* The parser reads what was written (Parse).
ExpressionsRead == scene = "expression" => ParsesBack(input)
===============================================================================
