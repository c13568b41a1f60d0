------------------------------- MODULE MCServer -------------------------------
\* One server process at a time: the language server's documents under an editor,
\* or the MCP server under an agent while other programs write the same files.
EXTENDS McpServer, TLC

CONSTANTS MaxPreviews   \* previews that succeed

VARIABLE client         \* "editor" or "agent", the same for the whole behavior

PathOf(dirs, base, ext) == [dirs |-> dirs, name |-> base, ext |-> ext]
kStates == PathOf(<<"w", "chars", "k">>, "k", "cns")
kDotted == PathOf(<<"w", ".", "chars", "k">>, "k", "cns")
kDef == PathOf(<<"w", "chars", "k">>, "k", "def")
mStates == PathOf(<<"w", "chars", "m", "sub">>, "m", "cns")
common == PathOf(<<"w", "data">>, "common", "cns")

MCPathOrder == <<kDotted, kStates, kDef, mStates, common>>

State(line) == [kind |-> "state", name |-> "state:1", line |-> line]
CommandSymbol == [kind |-> "command", name |-> "command:x", line |-> 2]
Ref(kind, symbol, dynamic, line, occurrence) ==
  [kind |-> kind, target |-> symbol, dynamic |-> dynamic, line |-> line,
   occurrence |-> occurrence]
ToState(line) == Ref("state", "state:1", FALSE, line, 0)
Elsewhere(line) == Ref("state", "state:v", TRUE, line, 0)
ToCommand == Ref("command", "command:x", FALSE, 5, 0)
ToNoCommand == Ref("command", "command:y", FALSE, 5, 1)

\* On its fourth line one text goes to the state and another elsewhere.
MCText == [empty |-> [symbols |-> <<>>, refs |-> <<>>],
           defines |-> [symbols |-> <<State(1), CommandSymbol>>, refs |-> <<ToState(4)>>],
           uses |-> [symbols |-> <<>>,
                     refs |-> <<Elsewhere(4), ToCommand, ToNoCommand, ToState(6)>>]]

MCPlan == {[root |-> "w1", snapshot |-> "s1",
            edits |-> [f \in {"a", "b"} |-> [old |-> 0, new |-> 1]]],
           [root |-> "w2", snapshot |-> "s1",
            edits |-> [f \in {"a"} |-> [old |-> 0, new |-> 1]]]}

MCHand == {[root |-> "w1", file |-> "a", content |-> 0],
           [root |-> "w1", file |-> "b", content |-> 2],
           [root |-> "w2", file |-> "a", content |-> 0]}

Previews == {[name |-> "patch_preview", plan |-> p] : p \in Plan}
Applies == [name : {"patch_apply"}, root : Root, snapshot : {"", "s1", "s2"}, token : Plan]
Plain == {[name |-> "initialize", version |-> v] : v \in {"missing", "unsupported", "known"}}
           \cup {[name |-> "resources/read", uri |-> u] : u \in {"ikm://workspace", "ikm://other"}}
           \cup {[name |-> n] : n \in {"server/discover", "tools/list", "resources/list",
                                        "unknown", "unknown_tool", "rename_prepare"}}
Queries == {[name |-> "query", key |-> <<"uri", kStates>>, text |-> t] : t \in {"empty", "uses"}}
MCCall == Previews \cup Applies \cup Plain \cup Queries
MCMetadata == {"none", "bad", "other", "good"}

NotRequest == [call |-> None, id |-> Null, meta |-> "none"]

\* Every call alone, with other metadata for two of them and a text for the documents
\* of a read-only server; a mutation is also followed by an application in one batch.
PlainItem(i) == {m \in Item(i) : m.meta = "none"}
Write(i, calls) == {m \in PlainItem(i) : m.id = i /\ m.call \in calls}
Other(i) == {m \in Item(i) : m.call \in {[name |-> "tools/list"], [name |-> "server/discover"]}}
ReadFrames ==
  {<<m>> : m \in {n \in PlainItem(1) : n.call \notin Previews \cup Applies}}
    \cup {<<m>> : m \in Other(1)}
    \cup {<<m, NotRequest, n>> : m \in Other(1), n \in Write(3, Queries)}
PlainFrames ==
  {f \in ReadFrames : \A i \in DOMAIN f : f[i].call \in Queries => f[i].call.text = "empty"}
WriteFrames ==
  {<<m>> : m \in {n \in PlainItem(1) : n.call \in Previews \cup Applies}}
    \cup {<<m, n>> : m \in Write(1, Previews \cup {c \in Applies : c.snapshot = "s1"}),
                     n \in Write(2, {c \in Applies : c.snapshot # "s2"})}
ApplyFrames == {f \in WriteFrames : \A i \in DOMAIN f : f[i].call \notin Previews}

Previewed == FoldFunction(LAMBDA n, m : n + m, 0, issued)
Frames ==
  (IF Previewed < MaxPreviews THEN WriteFrames ELSE ApplyFrames)
    \cup (IF allowWrite THEN PlainFrames ELSE ReadFrames)

MCServerInit ==
  /\ DocumentsInit
  /\ MutationInit
  /\ disk = [r \in Root |-> [f \in File |-> 0]]
  /\ ServerInit
  /\ served \in {"", "w1"}
  /\ client \in {"editor", "agent"}
  /\ client = "editor" => ~allowWrite /\ served = ""

DocumentKeys == ({"uri"} \X Path) \cup {<<"escaped", kDotted>>, <<"path", kStates>>}

Editing ==
  /\ client = "editor"
  /\ \E key \in DocumentKeys :
       \/ \E t \in DOMAIN Text \ {"empty"} : DidOpen(key, t) \/ Request(key, t)
       \/ Request(key, "empty")
       \/ DidClose(key)
  /\ UNCHANGED <<mvars, svars, client>>

Asking ==
  /\ client = "agent"
  /\ \/ \E items \in Frames : Receive(items)
     \/ ReceiveUnreadable
     \/ Handle
     \/ Send
     \/ Environment /\ \A c \in checked'["command"] : c.root = "w2"
  /\ UNCHANGED client

MCServerNext == Editing \/ Asking
===============================================================================
