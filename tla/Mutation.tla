------------------------------- MODULE Mutation -------------------------------
(***************************************************************************)
(* The authorized mutation service (src/internal/mutation) over a disk     *)
(* that other programs edit too.  A token is the hash of its plan, so the  *)
(* plan itself stands for it.  The transaction of src/internal/patch first *)
(* looks whether the files are as the plan expects, and other programs may *)
(* save them before it writes; what it writes is taken by its promise      *)
(* (AtomicPatch): all edits or none.                                       *)
(***************************************************************************)
EXTENDS Naturals, FiniteSets, Functions

CONSTANTS
  Plan,     \* [root, snapshot, edits] with edits[f] = [old, new] for the edited files
  Root,     \* workspaces
  File,
  Content,
  Hand      \* the edits other programs make: [root, file, content]

ASSUME PlanAssumption == \A p \in Plan : DOMAIN p.edits \subseteq File

VARIABLES
  disk,     \* disk[r][f], what each file holds
  tokens,   \* plans whose token is armed
  checked,  \* the application each applier has looked up the files for and not written
  issued,   \* history: how often each plan was previewed with success
  spent,    \* history: how often each plan was written on a token
  beside    \* history: the files, <<root, file>>, that others wrote since the server's
            \* application looked at its files; none when there is no such application

mvars == <<disk, tokens, checked, issued, spent, beside>>

\* The server's mutation service, and the process of ikm patch apply.
Applier == {"server", "command"}

MutationInit ==
  /\ disk \in [Root -> [File -> Content]]
  /\ tokens = {}
  /\ checked = [a \in Applier |-> {}]
  /\ issued = [p \in Plan |-> 0]
  /\ spent = [p \in Plan |-> 0]
  /\ beside = {}

\* Every edit names the hash and the text that its file has now.
Fresh(root, plan) ==
  \A f \in DOMAIN plan.edits : disk[root][f] = plan.edits[f].old

Applied(root, plan) ==
  [disk EXCEPT ![root] =
     [f \in File |-> IF f \in DOMAIN plan.edits THEN plan.edits[f].new ELSE @[f]]]

\* The transaction reads its files and checks every hash.
Check(applier, root, plan) ==
  /\ Fresh(root, plan)
  /\ checked' = [checked EXCEPT ![applier] = {[root |-> root, plan |-> plan]}]

\* It replaces them, whatever they hold by now; or it fails and restores them.
WriteFiles(applier) ==
  \E c \in checked[applier] :
    /\ disk' = Applied(c.root, c.plan)
    /\ checked' = [checked EXCEPT ![applier] = {}]

GiveUp(applier) ==
  /\ checked[applier] # {}
  /\ checked' = [checked EXCEPT ![applier] = {}]
  /\ UNCHANGED disk

Issue(plan) ==
  /\ tokens' = tokens \cup {plan}
  /\ issued' = [issued EXCEPT ![plan] = @ + 1]
  /\ UNCHANGED <<disk, checked, spent, beside>>

\* The token is checked against the snapshot the caller names, then removed.
Consumable(token, snapshot) ==
  /\ token \in tokens
  /\ snapshot \in {"", token.snapshot}

\* Mutant: the token stays.
ConsumeKeeping(token, snapshot) ==
  /\ Consumable(token, snapshot)
  /\ UNCHANGED <<tokens, disk, issued, spent>>

\* Whatever then becomes of the application, the token is gone.
Consume(token, snapshot) ==
  /\ Consumable(token, snapshot)
  /\ tokens' = tokens \ {token}
  /\ UNCHANGED <<disk, issued, spent>>

Files(root, plan) == {<<root, f>> : f \in DOMAIN plan.edits}

\* Others wrote these files.
SavedBeside(files) == beside' = IF checked["server"] = {} THEN {} ELSE beside \cup files

\* ikm patch apply --allow-write: its own authorizer, issued and consumed at once.
CommandCheck(plan) ==
  /\ checked["command"] = {}
  /\ Check("command", plan.root, plan)
  /\ UNCHANGED <<disk, tokens, issued, spent, beside>>

CommandWrite ==
  /\ \/ /\ WriteFiles("command")
        /\ SavedBeside(UNION {Files(c.root, c.plan) : c \in checked["command"]})
     \/ GiveUp("command") /\ UNCHANGED beside
  /\ UNCHANGED <<tokens, issued, spent>>

\* Another program saves a file.
OtherSaves ==
  /\ \E h \in Hand : /\ disk' = [disk EXCEPT ![h.root][h.file] = h.content]
                      /\ SavedBeside({<<h.root, h.file>>})
  /\ UNCHANGED <<tokens, checked, issued, spent>>
===============================================================================
