------------------------------ MODULE McpServer ------------------------------
(***************************************************************************)
(* The MCP server (src/internal/mcp/server.go): frames of requests read    *)
(* one by one, dispatched to the language server's documents and, when     *)
(* writes are allowed, to the mutation service.  Requests of a batch are   *)
(* answered in one frame; other programs run between any two of them.      *)
(***************************************************************************)
EXTENDS LspDocuments, Mutation

CONSTANTS
  Call,       \* what a request may ask: a record with a name and its arguments
  Metadata,   \* what its _meta may hold: "none", "bad", "other", "good"
  NoID,       \* the id of a notification
  Null        \* the id of an answer to what is no request

ASSUME CallAssumption ==
  \A c \in Call : /\ c.name = "patch_preview" => c.plan \in Plan
                  /\ c.name = "patch_apply" => c.root \in Root

VARIABLES
  allowWrite, \* the server was started with --allow-write
  served,     \* the root it was started with, or ""
  frame,      \* the items of the frame being answered
  inbox,      \* those not handled yet
  answers,    \* the responses of this frame so far
  sent        \* the frame is answered

svars == <<allowWrite, served, frame, inbox, answers, sent>>
vars == <<dvars, mvars, svars>>

\* An item that is JSON and no request, or a request, with an id or without.
Item(i) == {[call |-> None, id |-> Null, meta |-> "none"]}
             \cup [call : Call, id : {i, NoID}, meta : Metadata]

Response(id, outcome) == [id |-> id, outcome |-> outcome]

ServerInit ==
  /\ allowWrite \in BOOLEAN
  /\ served \in Root \cup {""}
  /\ frame = <<>>
  /\ inbox = <<>>
  /\ answers = <<>>
  /\ sent = TRUE

Receive(items) ==
  /\ sent
  /\ frame' = items
  /\ inbox' = items
  /\ answers' = <<>>
  /\ sent' = FALSE
  /\ UNCHANGED <<allowWrite, served, dvars, mvars>>

\* Text that is not JSON, a malformed frame and an empty batch are refused whole.
ReceiveUnreadable ==
  /\ sent
  /\ \E code \in {"-32700", "-32600"} :
       answers' = <<Response(Null, code)>>
  /\ sent' = FALSE
  /\ UNCHANGED <<allowWrite, served, frame, inbox, dvars, mvars>>

\* Nothing is written for a frame of notifications.
Send ==
  /\ ~sent
  /\ inbox = <<>>
  /\ sent' = TRUE
  /\ frame' = <<>>
  /\ answers' = <<>>
  /\ UNCHANGED <<allowWrite, served, inbox, dvars, mvars>>

MetadataError(item) ==
  IF item.call.name = "initialize" THEN None
  ELSE CASE item.meta = "none" /\ item.call.name = "server/discover" -> "-32602"
         [] item.meta = "bad" -> "-32602"
         [] item.meta = "other" -> "-32022"
         [] OTHER -> None

Reaches(item) == item.call # None /\ item.id # NoID /\ MetadataError(item) = None

Answer(outcome) ==
  /\ inbox' = Tail(inbox)
  /\ answers' = Append(answers, Response(Head(inbox).id, outcome))
  /\ UNCHANGED <<allowWrite, served, frame, sent>>

\* Mutant: notifications are answered too.
TurnedAnswering ==
  /\ inbox # <<>>
  /\ ~Reaches(Head(inbox))
  /\ Answer(IF Head(inbox).call = None THEN "-32600" ELSE "-32602")
  /\ UNCHANGED <<dvars, mvars>>

\* Items that never reach a method: no request, wrong metadata, notifications.
Turned ==
  /\ inbox # <<>>
  /\ ~Reaches(Head(inbox))
  /\ LET item == Head(inbox) IN
     IF item.id = NoID
     THEN /\ inbox' = Tail(inbox)
          /\ UNCHANGED <<allowWrite, served, frame, answers, sent>>
     ELSE Answer(IF item.call = None THEN "-32600" ELSE MetadataError(item))
  /\ UNCHANGED <<dvars, mvars>>

Asks(name) == inbox # <<>> /\ Reaches(Head(inbox)) /\ Head(inbox).call.name = name
Asked == Head(inbox).call

Initialize ==
  /\ Asks("initialize")
  /\ Answer(CASE Asked.version = "missing" -> "-32602"
              [] Asked.version = "unsupported" -> "-32022"
              [] OTHER -> "result")
  /\ UNCHANGED <<dvars, mvars>>

Discover ==
  /\ Asks("server/discover") \/ Asks("tools/list") \/ Asks("resources/list")
  /\ Answer("result")
  /\ UNCHANGED <<dvars, mvars>>

ResourceRead ==
  /\ Asks("resources/read")
  /\ Answer(IF Asked.uri \in {"ikm://workspace", "ikm://snapshot/current"}
            THEN "result" ELSE "-32602")
  /\ UNCHANGED <<dvars, mvars>>

UnknownMethod ==
  /\ Asks("unknown")
  /\ Answer("-32601")
  /\ UNCHANGED <<dvars, mvars>>

\* A semantic tool, or the language server's method called directly.
Query ==
  /\ Asks("query")
  /\ Request(Asked.key, Asked.text)
  /\ Answer("result")
  /\ UNCHANGED mvars

\* Calls of tools/call that name no tool: the language server answers with an error
\* inside the result, or the arguments lack what its methods need.
UnknownTool ==
  /\ \/ Asks("unknown_tool")
     \/ ~allowWrite /\ (Asks("patch_preview") \/ Asks("patch_apply") \/ Asks("rename_prepare"))
  /\ Answer(IF Asked.name = "unknown_tool" THEN "tool_error" ELSE "-32602")
  /\ UNCHANGED <<dvars, mvars>>

OutsideRoot(root) == served # "" /\ root # served

\* An application has looked at the files and not written them yet.
Applying == checked["server"] # {}

\* Mutant: a token named with the wrong snapshot is used up.
RefuseMutationConsumes ==
  /\ allowWrite
  /\ Asks("patch_apply")
  /\ ~Consumable(Asked.token, Asked.snapshot)
  /\ ~Applying
  /\ tokens' = tokens \ {Asked.token}
  /\ Answer("-32006")
  /\ UNCHANGED <<dvars, disk, checked, issued, spent, beside>>

RefuseMutation ==
  /\ allowWrite
  /\ ~Applying
  /\ \/ Asks("rename_prepare")
     \/ Asks("patch_preview")   \* another root, a stale hash, an unreadable file
     \/ /\ Asks("patch_apply")
        /\ OutsideRoot(Asked.root) \/ ~Consumable(Asked.token, Asked.snapshot)
  /\ Answer("-32006")
  /\ UNCHANGED <<dvars, mvars>>

PatchPreview ==
  /\ allowWrite
  /\ Asks("patch_preview")
  /\ ~OutsideRoot(Asked.plan.root)
  /\ Fresh(Asked.plan.root, Asked.plan)
  /\ Issue(Asked.plan)
  /\ Answer("result")
  /\ UNCHANGED dvars

\* Mutant: the files are written without looking.
PatchApplyBlindly ==
  /\ allowWrite
  /\ Asks("patch_apply")
  /\ ~OutsideRoot(Asked.root) /\ ~Applying
  /\ Consume(Asked.token, Asked.snapshot)
  /\ checked' = [checked EXCEPT !["server"] = {[root |-> Asked.root, plan |-> Asked.token]}]
  /\ UNCHANGED <<dvars, svars, beside>>

\* Service.Apply: the plan behind the token is applied, in the root the caller names.
PatchApply ==
  /\ allowWrite
  /\ Asks("patch_apply")
  /\ ~OutsideRoot(Asked.root) /\ ~Applying
  /\ Consume(Asked.token, Asked.snapshot)
  /\ \/ Check("server", Asked.root, Asked.token) /\ UNCHANGED svars
     \/ Answer("-32006") /\ UNCHANGED checked   \* a stale hash, an unreadable file
  /\ UNCHANGED <<dvars, beside>>

PatchWrite ==
  /\ \/ /\ WriteFiles("server")
        /\ spent' = [p \in Plan |->
                       IF \E c \in checked["server"] : c.plan = p THEN spent[p] + 1 ELSE spent[p]]
        /\ Answer("result")
     \/ GiveUp("server") /\ UNCHANGED spent /\ Answer("-32006")
  /\ beside' = {}
  /\ UNCHANGED <<dvars, tokens, issued>>

Handle ==
  \/ Turned \/ Initialize \/ Discover \/ ResourceRead \/ UnknownMethod
  \/ Query \/ UnknownTool \/ RefuseMutation \/ PatchPreview \/ PatchApply \/ PatchWrite

Environment ==
  /\ OtherSaves \/ CommandWrite \/ \E p \in Plan : CommandCheck(p)
  /\ UNCHANGED <<dvars, svars>>

Frame == Seq(UNION {Item(i) : i \in Nat \ {0}}) \ {<<>>}

Init == DocumentsInit /\ MutationInit /\ ServerInit

Next ==
  \/ \E items \in Frame : Receive(items)
  \/ ReceiveUnreadable \/ Send \/ Handle \/ Environment

Spec == Init /\ [][Next]_vars
------------------------------------------------------------------------------
(* Properties *)

\* Each request of a frame is answered once, in order, under its own id, and a
\* notification is not answered (Serve, handleBatch and Handle).
AnsweredInOrder ==
  LET requests == {j \in 1 .. Len(frame) - Len(inbox) : frame[j].id # NoID}
  IN frame # <<>> =>
       \E at \in [DOMAIN answers -> requests] :
         /\ \A i \in DOMAIN answers : answers[i].id = frame[at[i]].id
         /\ \A i, j \in DOMAIN answers : i < j => at[i] < at[j]
         /\ \A j \in requests : \E i \in DOMAIN answers : at[i] = j

\* A token writes at most as often as its plan was previewed: the token of a plan is
\* always the same text, and Consume removes it before anything is written.
OneWritePerPreview == \A p \in Plan : spent[p] + (IF p \in tokens THEN 1 ELSE 0) <= issued[p]

WritesPlanned ==
  (disk' # disk /\ inbox' # inbox) =>
    /\ allowWrite
    /\ \E p \in Plan, r \in Root :
         /\ disk' = Applied(r, p)
         /\ spent'[p] = spent[p] + 1
         /\ served \in {"", r}
         /\ \A f \in DOMAIN p.edits : disk[r][f] = p.edits[f].old \/ <<r, f>> \in beside

\* The server writes nothing unless started with --allow-write, and then only the plan
\* of a token, each file of which holds the text the plan expects or was saved by
\* another program after the application had looked at it.  It writes under the root
\* it serves; started without one it writes under whichever the client names, and the
\* snapshot the client repeats in patch_apply decides nothing here.
ServerWritesPlanned == [][WritesPlanned]_vars

FailureHarmless ==
  ( /\ ~sent
    /\ inbox' # inbox \/ checked'["server"] # checked["server"]
    /\ answers' = answers \/ Last(answers').outcome # "result" ) =>
    /\ UNCHANGED <<disk, docs>>
    /\ \/ UNCHANGED tokens
       \/ /\ Asks("patch_apply")
          /\ ~OutsideRoot(Asked.root)
          /\ Consumable(Asked.token, Asked.snapshot)
          /\ tokens' = tokens \ {Asked.token}

\* Notifications, refusals and failed calls change neither the disk nor the documents,
\* but a failed application has used up its token, and so has one that has only looked.
FailuresChangeNothing == [][FailureHarmless]_vars
==============================================================================
