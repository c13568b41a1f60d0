----------------------------- MODULE Coordinator -----------------------------
(***************************************************************************)
(* internal/service: the coordinator that analyses a workspace and keeps   *)
(* the result until a file it depends on changes.  Several calls of        *)
(* Analyze run at once; each action is one critical section of the mutex   *)
(* or one call to the file system, and other programs change the files.    *)
(*                                                                         *)
(* A file's bytes are a version number and every write uses a new one.  A  *)
(* version stands for the content hash and for the size and time of the    *)
(* file (two writes of one size within the clock's grain are not told      *)
(* apart by the code and are left out).  What a definition file refers to  *)
(* is given by Refs and does not change.                                   *)
(***************************************************************************)
EXTENDS Naturals

CONSTANTS
  File,        \* the source files
  Root,        \* the definition files that are analysed, among the files
  Refs,        \* Refs[r]: the files r's [Files] section names
  Call,        \* slots for concurrent calls of Analyze
  MaxVersion,  \* bound on the writes by other programs
  Absent,      \* content of a path without a file, hash of a failed snapshot
  NoCall,
  Faults       \* what may happen besides writes between calls

\* "create": a file that was not there appears; "during": the files change while
\* a call runs; "load": the loader cannot read a file that is there; "read": a
\* snapshot's os.Stat or read fails; "cancel": the client gives up.
FaultKinds == {"create", "during", "load", "read", "cancel"}

ASSUME RootAssumption == Root \subseteq File
ASSUME RefsAssumption == Refs \in [Root -> SUBSET File]
ASSUME BoundAssumption == MaxVersion \in Nat
ASSUME AbsentAssumption == Absent \notin Nat
ASSUME NoCallAssumption == NoCall \notin Call
ASSUME FaultsAssumption == Faults \subseteq FaultKinds

Content == Nat \cup {Absent}

VARIABLES
  content,     \* content[f]: the bytes of f
  clock,       \* the last version written
  documents,   \* documents[f]: the cached snapshot of f
  roots,       \* roots[r]: the cached result of r
  dependents,  \* dependents[f]: the roots whose result was computed from f
  misread,     \* history: files that were there when their last snapshot failed
  inFlight,    \* inFlight[r]: the call whose cancel function is registered
  call,        \* the local state of each call
  during       \* history: during[c][f], what f held since c began, and Absent
               \* once the loader of c could not read it

files == <<content, clock>>
cache == <<documents, roots, dependents, misread>>
vars == <<files, cache, inFlight, call, during>>
-----------------------------------------------------------------------------
Nothing == [f \in File |-> Absent]

\* A snapshot record: never taken, failed (os.Stat's or the read's loadErr), or
\* good with the size and time found before the read and the hash of the bytes.
Unknown == [state |-> "unknown", stamp |-> Absent, hash |-> Absent]
Missing == [state |-> "missing", stamp |-> Absent, hash |-> Absent]
Unreadable == [state |-> "unreadable", stamp |-> Absent, hash |-> Absent]
Good(stamp, hash) == [state |-> "good", stamp |-> stamp, hash |-> hash]
Record == [state : {"unknown", "missing", "unreadable", "good"},
           stamp : Content, hash : Content]

\* Where a call is: before the cache lookup, checking the cached hashes, in the
\* four parts of a snapshot, loading, hashing what was loaded, returning.
SnapshotPoints == {"look", "read", "put", "invalidate"}
LoadPoints == {"load", "loading"}
Points == {"idle", "lookup", "verify", "stale", "hash", "end"}
            \cup SnapshotPoints \cup LoadPoints

Idle == [pc |-> "idle", root |-> NoCall, cancelled |-> FALSE, hit |-> FALSE,
         todo |-> {}, cur |-> NoCall, stamp |-> Absent, record |-> Unknown,
         hash |-> Nothing, loaded |-> Nothing, outcome |-> "none"]

CallState ==
  [pc : Points, root : Root \cup {NoCall}, cancelled : BOOLEAN, hit : BOOLEAN,
   todo : SUBSET File, cur : File \cup {NoCall}, stamp : Content,
   record : Record,
   hash : [File -> Content], loaded : [File -> Content],
   outcome : {"none", "ok", "error"}]

TypeOK ==
  /\ content \in [File -> Content]
  /\ clock \in Nat
  /\ documents \in [File -> Record]
  /\ roots \in [Root -> [valid : BOOLEAN, hash : [File -> Content],
                         result : [File -> Content]]]
  /\ dependents \in [File -> SUBSET Root]
  /\ misread \subseteq File
  /\ inFlight \in [Root -> Call \cup {NoCall}]
  /\ call \in [Call -> CallState]
  /\ during \in [Call -> [File -> SUBSET Content]]

Init ==
  /\ content = [f \in File |-> 0]
  /\ clock = 0
  /\ documents = [f \in File |-> Unknown]
  /\ roots = [r \in Root |-> [valid |-> FALSE, hash |-> Nothing, result |-> Nothing]]
  /\ dependents = [f \in File |-> {}]
  /\ misread = {}
  /\ inFlight = [r \in Root |-> NoCall]
  /\ call = [c \in Call |-> Idle]
  /\ during = [c \in Call |-> [f \in File |-> {}]]
-----------------------------------------------------------------------------
\* What opening f finds: its bytes, or an error where the call may fail.
Found(f, fault) == {content[f]} \cup {v \in {Absent} : fault \in Faults}

Goto(c, pc) == call' = [call EXCEPT ![c].pc = pc]
Failed(mine) == [Idle EXCEPT !.pc = "end", !.root = mine.root, !.outcome = "error"]
Served(mine, result) == [Idle EXCEPT !.pc = "end", !.root = mine.root, !.loaded = result,
                                   !.outcome = "ok"]
Serve(c, result) == call' = [call EXCEPT ![c] = Served(@, result)]

\* begin: the call running on this root is cancelled, and this one registered.
Begin(c, r) ==
  /\ call[c].pc = "idle"
  /\ inFlight' = [inFlight EXCEPT ![r] = c]
  /\ call' = [d \in Call |->
       IF d = c THEN [Idle EXCEPT !.pc = "lookup", !.root = r]
       ELSE IF d = inFlight[r] /\ call[d].pc # "end" THEN [call[d] EXCEPT !.cancelled = TRUE]
       ELSE call[d]]
  /\ during' = [during EXCEPT ![c] = [f \in File |-> {content[f]}]]
  /\ UNCHANGED <<files, cache>>

\* hit, first section: a valid entry's hashes are copied for verification.
Lookup(c) ==
  /\ call[c].pc = "lookup"
  /\ LET entry == roots[call[c].root] IN
     call' = [call EXCEPT
       ![c].pc = IF entry.valid THEN "verify" ELSE "load",
       ![c].hit = entry.valid,
       ![c].hash = IF entry.valid THEN entry.hash ELSE Nothing,
       ![c].todo = {f \in File : entry.valid /\ entry.hash[f] # Absent}]
  /\ UNCHANGED <<files, cache, inFlight, during>>

\* hit, last section: every hash agreed; the entry is read again and returned.
Hit(c) ==
  /\ call[c].pc = "verify"
  /\ call[c].todo = {}
  /\ LET entry == roots[call[c].root] IN
     IF entry.valid
     THEN Serve(c, entry.result)
     ELSE call' = [call EXCEPT ![c].pc = "load", ![c].hit = FALSE,
                               ![c].hash = Nothing]
  /\ UNCHANGED <<files, cache, inFlight, during>>

\* markInvalid: a hash differed, or a dependency could not be read.
MarkInvalid(c) ==
  /\ call[c].pc = "stale"
  /\ roots' = [roots EXCEPT ![call[c].root].valid = FALSE]
  /\ call' = [call EXCEPT ![c].pc = "load", ![c].hit = FALSE, ![c].hash = Nothing,
                          ![c].todo = {}]
  /\ UNCHANGED <<files, documents, dependents, misread, inFlight, during>>
-----------------------------------------------------------------------------
\* LoadWorkspaceWithProfile reads the definition and then each file it names; it
\* does not look at the context.  A file that is not there or cannot be read is left
\* out, with a diagnostic that is part of the result.
LoadRoot(c) ==
  /\ call[c].pc = "load"
  /\ ~call[c].cancelled
  /\ LET r == call[c].root IN
     \E v \in Found(r, "load") :
       /\ call' = [call EXCEPT
            ![c].pc = "loading",
            ![c].loaded = [Nothing EXCEPT ![r] = v],
            ![c].todo = IF v = Absent THEN {} ELSE Refs[r] \ {r}]
       /\ during' = [during EXCEPT ![c][r] = @ \cup {v}]
  /\ UNCHANGED <<files, cache, inFlight>>

LoadFile(c) ==
  /\ call[c].pc = "loading"
  /\ \E f \in call[c].todo : \E v \in Found(f, "load") :
       /\ call' = [call EXCEPT ![c].todo = @ \ {f}, ![c].loaded[f] = v]
       /\ during' = [during EXCEPT ![c][f] = @ \cup {v}]
  /\ UNCHANGED <<files, cache, inFlight>>

\* The documents that were loaded are now hashed, one snapshot after the other.
Loaded(c) ==
  /\ call[c].pc = "loading"
  /\ call[c].todo = {}
  /\ ~call[c].cancelled
  /\ call' = [call EXCEPT ![c].pc = "hash",
                          ![c].todo = {f \in File : call[c].loaded[f] # Absent}]
  /\ UNCHANGED <<files, cache, inFlight, during>>

\* storeResult: the entry, its hashes and the reverse dependencies are replaced.
Store(c) ==
  /\ call[c].pc = "hash"
  /\ call[c].todo = {}
  /\ LET r == call[c].root
         deps == {f \in File : call[c].hash[f] # Absent}
     IN /\ roots' = [roots EXCEPT ![r] =
             [valid |-> TRUE, hash |-> call[c].hash, result |-> call[c].loaded]]
        /\ dependents' = [f \in File |->
             IF f \in deps THEN dependents[f] \cup {r} ELSE dependents[f] \ {r}]
  /\ Serve(c, call[c].loaded)
  /\ UNCHANGED <<files, documents, misread, inFlight, during>>

\* end: whatever is registered for the root is removed, and the call returns.
End(c) ==
  /\ call[c].pc = "end"
  /\ inFlight' = [inFlight EXCEPT ![call[c].root] = NoCall]
  /\ call' = [call EXCEPT ![c] = Idle]
  /\ during' = [during EXCEPT ![c] = [f \in File |-> {}]]
  /\ UNCHANGED <<files, cache>>
-----------------------------------------------------------------------------
\* Mutant: a cached snapshot never expires.
ExpiredNever(f, stamp) == documents[f].state # "good"

\* snapshot(f), called by hit and by analyze for each dependency.
Expired(f, stamp) ==
  documents[f].state # "good" \/ documents[f].stamp # stamp

\* What the caller does with the record: a failure or another hash sends hit to
\* markInvalid and makes analyze return the error.
AfterSnapshot(c, record) ==
  LET f == call[c].cur
      mine == call[c]
  IN IF mine.hit
     THEN IF record.state = "good" /\ record.hash = mine.hash[f]
          THEN [mine EXCEPT !.pc = "verify", !.todo = @ \ {f}, !.cur = NoCall,
                            !.stamp = Absent, !.record = Unknown]
          ELSE [mine EXCEPT !.pc = "stale", !.cur = NoCall,
                            !.stamp = Absent, !.record = Unknown]
     ELSE IF record.state = "good"
          THEN [mine EXCEPT !.pc = "hash", !.todo = @ \ {f}, !.cur = NoCall,
                            !.stamp = Absent, !.record = Unknown,
                            !.hash[f] = record.hash]
          ELSE Failed(mine)

\* The context is checked, then os.Stat; any error of it makes the same record.
\* analyze starts with the definition, the first document loaded; hit takes its
\* copy of the hashes in the order of a map.
Stat(c) ==
  /\ call[c].pc \in {"verify", "hash"}
  /\ ~call[c].cancelled
  /\ \E f \in call[c].todo : \E v \in Found(f, "read") :
       /\ call[c].pc = "hash" /\ call[c].root \in call[c].todo => f = call[c].root
       /\ call' = [call EXCEPT
            ![c].pc = IF v = Absent THEN "put" ELSE "look",
            ![c].cur = f, ![c].stamp = v,
            ![c].record = IF v = Absent THEN Missing ELSE Unknown]
  /\ UNCHANGED <<files, cache, inFlight, during>>

\* A cached record with this size and time is used without reading the file.
Look(c) ==
  /\ call[c].pc = "look"
  /\ LET f == call[c].cur IN
     IF Expired(f, call[c].stamp) THEN Goto(c, "read")
     ELSE call' = [call EXCEPT ![c] = AfterSnapshot(c, documents[f])]
  /\ UNCHANGED <<files, cache, inFlight, during>>

Read(c) ==
  /\ call[c].pc = "read"
  /\ LET f == call[c].cur IN
     \E record \in
          {r \in {Good(call[c].stamp, content[f])} : content[f] # Absent}
            \cup {r \in {Unreadable} : content[f] = Absent \/ "read" \in Faults} :
       call' = [call EXCEPT ![c].pc = "put", ![c].record = record]
  /\ UNCHANGED <<files, cache, inFlight, during>>

\* A removal tells nothing of the snapshots before it.
Misread(f, record) ==
  CASE record.state = "good" -> misread \ {f}
    [] record.state = "unreadable" \/ content[f] # Absent -> misread \cup {f}
    [] OTHER -> misread

\* Mutant: the record of a file that has gone is deleted from the map.
PutDeletes(c) ==
  /\ call[c].pc = "put"
  /\ documents' = [f \in File \ {call[c].cur} |-> documents[f]]
  /\ Goto(c, "invalidate")
  /\ UNCHANGED <<files, roots, dependents, misread, inFlight, during>>

\* Mutant: a file that has gone invalidates nothing.
PutGoneQuietly(c) ==
  /\ call[c].pc = "put"
  /\ LET f == call[c].cur
         record == call[c].record
         prev == documents[f]
     IN /\ documents' = [documents EXCEPT ![f] = record]
        /\ IF call[c].stamp # Absent /\ prev.hash # record.hash
           THEN Goto(c, "invalidate")
           ELSE call' = [call EXCEPT ![c] = AfterSnapshot(c, record)]
        /\ misread' = Misread(f, record)
  /\ UNCHANGED <<files, roots, dependents, inFlight, during>>

\* The record replaces the cached one.  A file that has gone invalidates only
\* when it had been hashed; a read invalidates unless the hash is the same.
Put(c) ==
  /\ call[c].pc = "put"
  /\ LET f == call[c].cur
         record == call[c].record
         prev == documents[f]
         changed == IF call[c].stamp = Absent THEN prev.state = "good"
                    ELSE prev.state # "good" \/ prev.hash # record.hash
     IN /\ documents' = [documents EXCEPT ![f] = record]
        /\ IF changed THEN Goto(c, "invalidate")
           ELSE call' = [call EXCEPT ![c] = AfterSnapshot(c, record)]
        /\ misread' = Misread(f, record)
  /\ UNCHANGED <<files, roots, dependents, inFlight, during>>

\* invalidateDependents: the roots computed from f, those computed from these
\* roots, and so on.
DependsOn(f) ==
  {r \in Root : \A S \in SUBSET Root :
     dependents[f] \subseteq S /\ (\A s \in S : dependents[s] \subseteq S) => r \in S}

Invalidate(c) ==
  /\ call[c].pc = "invalidate"
  /\ LET hurt == DependsOn(call[c].cur) IN
     roots' = [r \in Root |->
       IF r \in hurt THEN [roots[r] EXCEPT !.valid = FALSE] ELSE roots[r]]
  /\ call' = [call EXCEPT ![c] = AfterSnapshot(c, call[c].record)]
  /\ UNCHANGED <<files, documents, dependents, misread, inFlight, during>>
-----------------------------------------------------------------------------
\* Another program writes, removes or (with "create") creates a file.
Change ==
  /\ clock < MaxVersion
  /\ "during" \in Faults \/ \A c \in Call : call[c].pc = "idle"
  /\ \E f \in File, v \in {clock + 1, Absent} :
       /\ content[f] # Absent \/ ("create" \in Faults /\ v # Absent)
       /\ clock' = clock + 1
       /\ content' = [content EXCEPT ![f] = v]
       /\ during' = [c \in Call |->
            IF call[c].pc = "idle" THEN during[c]
            ELSE [during[c] EXCEPT ![f] = @ \cup {v}]]
  /\ UNCHANGED <<cache, inFlight, call>>

\* ctx.Err() before the load, after it and before each snapshot: the call was
\* superseded, or the client's own context is cancelled.
GiveUp(c) ==
  /\ \/ call[c].pc = "load"
     \/ call[c].pc = "loading" /\ call[c].todo = {}
     \/ call[c].pc \in {"verify", "hash"} /\ call[c].todo # {}
  /\ call[c].cancelled \/ "cancel" \in Faults
  /\ call' = [call EXCEPT ![c] = Failed(@)]
  /\ UNCHANGED <<files, cache, inFlight, during>>

\* snapshot looks at the context too: hit takes that error for a changed file.
GiveUpInSnapshot(c) ==
  /\ call[c].pc = "verify"
  /\ call[c].todo # {}
  /\ call[c].cancelled \/ "cancel" \in Faults
  /\ call' = [call EXCEPT ![c].pc = "stale", ![c].cancelled = TRUE]
  /\ UNCHANGED <<files, cache, inFlight, during>>

Step(c) ==
  \/ Lookup(c) \/ Hit(c) \/ MarkInvalid(c)
  \/ LoadRoot(c) \/ LoadFile(c) \/ Loaded(c) \/ Store(c) \/ End(c)
  \/ Stat(c) \/ Look(c) \/ Read(c) \/ Put(c) \/ Invalidate(c)
  \/ GiveUp(c) \/ GiveUpInSnapshot(c)

Next ==
  \/ Change
  \/ \E c \in Call : Step(c) \/ \E r \in Root : Begin(c, r)

Spec == Init /\ [][Next]_vars
-----------------------------------------------------------------------------
Returning(c) == call[c].pc = "end" /\ call[c].outcome = "ok"

\* A result of r is computed from r and, where r could be read, the files it names.
Workspace(r, loaded) == {r} \cup (IF loaded[r] = Absent THEN {} ELSE Refs[r])

\* A returned result was computed from bytes that each file of the workspace held
\* at some time during the call, and what it leaves out was missing or unreadable
\* during the call.
ServedFresh ==
  \A c \in Call : Returning(c) =>
    \A f \in Workspace(call[c].root, call[c].loaded) :
      call[c].loaded[f] \in during[c][f]

\* A file that was not loaded is no dependency of the result: the result goes on
\* leaving it out when the file appears or can be read again.
MayOverlook == "create" \in Faults \/ "load" \in Faults

\* No earlier content of a file is ever served: each document of a returned result
\* has the bytes its file held at some time during the call.  What a result leaves
\* out is excepted where a file may appear, or fail to load, behind the cache.
DocumentsFresh ==
  \A c \in Call : Returning(c) =>
    \A f \in Workspace(call[c].root, call[c].loaded) :
      \/ call[c].loaded[f] \in during[c][f]
      \/ MayOverlook /\ call[c].loaded[f] = Absent

\* Between calls, a valid result's hashes are those of the newest snapshots: a change
\* that any call has seen invalidated every result computed from the file.  The one
\* exception is a file whose snapshot failed while it was there: the failed snapshot
\* has no hash, and snapshot invalidates only what it had hashed.
SeenChangesInvalidate ==
  (\A c \in Call : call[c].pc = "idle") =>
    \A r \in Root, f \in File :
      roots[r].valid /\ roots[r].hash[f] # Absent =>
        /\ documents[f].state = "missing" => f \in misread
        /\ documents[f].state = "good" => documents[f].hash = roots[r].hash[f]
=============================================================================
