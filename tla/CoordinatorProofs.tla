-------------------------- MODULE CoordinatorProofs --------------------------
(***************************************************************************)
(* What TLAPS proves of Coordinator, for any number of files, roots, calls *)
(* and writes.                                                             *)
(***************************************************************************)
EXTENDS Coordinator, TLAPS
-----------------------------------------------------------------------------
\* A call under way has a root, and a file while it takes a snapshot.
PlaceInv ==
  \A c \in Call :
    /\ call[c].pc # "idle" => call[c].root \in Root
    /\ call[c].pc \in SnapshotPoints => call[c].cur \in File

TypeInv == TypeOK /\ PlaceInv

\* What the files hold, as a set of hashes says; what the newest snapshot of f says.
Current(hash) == \A f \in File : hash[f] # Absent => hash[f] = content[f]
Known(f) ==
  /\ documents[f].state # "unknown"
  /\ documents[f].state = "missing" => f \in misread
  /\ documents[f].state = "good" => documents[f].hash = content[f]

\* A file holds what was loaded of it, unless the result may have overlooked it.
FreshFile(f, loaded) == loaded[f] = content[f] \/ (MayOverlook /\ loaded[f] = Absent)
Fresh(r, loaded) == \A f \in Workspace(r, loaded) : FreshFile(f, loaded)

DocumentInv ==
  \A f \in File :
    /\ documents[f].state = "good" =>
         documents[f].stamp = documents[f].hash /\ documents[f].hash # Absent
    /\ documents[f].state = "unreadable" => f \in misread

\* The reverse dependencies are those of the entries.  A valid entry's result is what
\* its hashes say, and its hashes agree with the newest snapshots, unless a call is
\* about to invalidate it.
Told(r, f) ==
  /\ documents[f].state = "good" => documents[f].hash = roots[r].hash[f]
  /\ documents[f].state = "missing" => f \in misread

EntryInv ==
  \A r \in Root, f \in File :
    /\ roots[r].hash[f] # Absent <=> r \in dependents[f]
    /\ roots[r].valid => roots[r].result[f] = roots[r].hash[f]
    /\ roots[r].valid /\ roots[r].hash[f] # Absent =>
         /\ documents[f].state # "unknown"
         /\ \/ Told(r, f)
            \/ \E c \in Call : call[c].pc = "invalidate" /\ call[c].cur = f

\* While calls run the files stay as they are: a snapshot under way is one of the file,
SnapshotInv(c) ==
  call[c].pc \in SnapshotPoints =>
    /\ call[c].cur \in call[c].todo
    /\ call[c].stamp \in {content[call[c].cur], Absent}
    /\ call[c].pc \in {"look", "read"} => call[c].stamp # Absent
    /\ call[c].pc \in {"put", "invalidate"} =>
         \/ call[c].stamp = Absent /\ call[c].record = Missing
         \/ call[c].stamp # Absent
              /\ call[c].record \in {Unreadable, Good(call[c].stamp, call[c].stamp)}
    /\ call[c].pc = "invalidate" /\ call[c].record.state = "good" => Known(call[c].cur)

\* the hashes that a call verifies are those of the entry or of a newer one,
VerifyInv(c) ==
  call[c].hit =>
    /\ call[c].pc \in {"verify", "stale"} \cup SnapshotPoints
    /\ \A f \in File : call[c].hash[f] # Absent => f \in call[c].todo \/ call[c].hash[f] = content[f]
    /\ roots[call[c].root].valid =>
         roots[call[c].root].hash = call[c].hash \/ Current(roots[call[c].root].hash)

\* and the hashes that it collects are those of what it loaded.
HashInv(c) ==
  ~call[c].hit =>
    /\ \A f \in File : call[c].hash[f] # Absent => call[c].hash[f] = content[f] /\ Known(f)
    /\ call[c].pc \in {"hash"} \cup SnapshotPoints =>
         /\ Fresh(call[c].root, call[c].loaded)
         /\ \A f \in File : call[c].loaded[f] \in {Absent, content[f]}
         /\ \A f \in File :
              call[c].loaded[f] # Absent <=> f \in call[c].todo \/ call[c].hash[f] # Absent

LoadInv(c) ==
  call[c].pc = "loading" =>
    /\ ~call[c].hit
    /\ FreshFile(call[c].root, call[c].loaded)
    /\ \A f \in File : call[c].loaded[f] \in {Absent, content[f]}
    /\ \A f \in Workspace(call[c].root, call[c].loaded) :
         f \in call[c].todo \/ FreshFile(f, call[c].loaded)

BorderInv(c) ==
  /\ call[c].pc \in {"idle", "load", "loading"} => ~call[c].hit /\ call[c].hash = Nothing
  /\ call[c].pc \in {"verify", "stale"} => call[c].hit
  /\ call[c].pc # "idle" => \A f \in File : content[f] \in during[c][f]

CallInv(c) == SnapshotInv(c) /\ VerifyInv(c) /\ HashInv(c) /\ LoadInv(c) /\ BorderInv(c)

CacheInv == TypeInv /\ DocumentInv /\ EntryInv /\ \A c \in Call : CallInv(c)

\* Where no file is created or overlooked, what was missing when a result was computed
\* is missing.
StillMissing ==
  ~MayOverlook => \A r \in Root : roots[r].valid =>
    \A f \in Workspace(r, roots[r].result) : roots[r].result[f] = Absent => content[f] = Absent

FreshInv == StillMissing /\ \A c \in Call : Returning(c) => Fresh(call[c].root, call[c].loaded)
-----------------------------------------------------------------------------
\* The records a call starts from, fails with and ends with are records of calls.
LEMMA CallRecords ==
  /\ Idle \in CallState
  /\ \A r \in Root : [Idle EXCEPT !.pc = "lookup", !.root = r] \in CallState
  /\ \A mine \in CallState : Failed(mine) \in CallState /\ Failed(mine).pc = "end"
                               /\ Failed(mine).root = mine.root
  /\ \A mine \in CallState, result \in [File -> Content] :
       Served(mine, result) \in CallState /\ Served(mine, result).pc = "end"
         /\ Served(mine, result).root = mine.root
<1>1. Idle \in CallState
  BY DEF Idle, CallState, Points, SnapshotPoints, LoadPoints, Record, Unknown, Nothing, Content
<1>2. ASSUME NEW r \in Root
      PROVE  [Idle EXCEPT !.pc = "lookup", !.root = r] \in CallState
  BY <1>1 DEF CallState, Points
<1>3. ASSUME NEW mine \in CallState
      PROVE  Failed(mine) \in CallState /\ Failed(mine).pc = "end" /\ Failed(mine).root = mine.root
  <2>1. mine.root \in Root \cup {NoCall}
    BY DEF CallState
  <2> QED
    BY <1>1, <2>1 DEF CallState, Failed, Points, Idle
<1>4. ASSUME NEW mine \in CallState, NEW result \in [File -> Content]
      PROVE  /\ Served(mine, result) \in CallState
             /\ Served(mine, result).pc = "end"
             /\ Served(mine, result).root = mine.root
  <2>1. mine.root \in Root \cup {NoCall}
    BY DEF CallState
  <2> QED
    BY <1>1, <2>1 DEF CallState, Served, Points, Idle
<1> QED
  BY <1>1, <1>2, <1>3, <1>4

\* Each record that a snapshot makes is one.
LEMMA RecordFacts ==
  /\ Missing \in Record /\ Unreadable \in Record /\ Unknown \in Record
  /\ \A v, w \in Content : Good(v, w) \in Record
  BY DEF Missing, Unreadable, Unknown, Good, Record, Content

\* What a call is after its snapshot: it goes on with the next file, or not.
LEMMA AfterSnapshotType ==
  ASSUME TypeOK, NEW c \in Call, NEW record \in Record, call[c].cur \in File,
         call[c].root \in Root
  PROVE  /\ AfterSnapshot(c, record) \in CallState
         /\ AfterSnapshot(c, record).pc \in {"verify", "stale", "hash", "end"}
         /\ AfterSnapshot(c, record).root = call[c].root
<1>1. call[c] \in CallState
  BY DEF TypeOK
<1> DEFINE f == call[c].cur
           verified == [call[c] EXCEPT !.pc = "verify", !.todo = @ \ {f}, !.cur = NoCall,
                                       !.stamp = Absent, !.record = Unknown]
           stale == [call[c] EXCEPT !.pc = "stale", !.cur = NoCall,
                                    !.stamp = Absent, !.record = Unknown]
           hashed == [call[c] EXCEPT !.pc = "hash", !.todo = @ \ {f}, !.cur = NoCall,
                                     !.stamp = Absent, !.record = Unknown,
                                     !.hash[f] = record.hash]
<1>2. verified \in CallState /\ verified.pc = "verify" /\ verified.root = call[c].root
  BY <1>1, RecordFacts DEF CallState, Points, Content
<1>3. stale \in CallState /\ stale.pc = "stale" /\ stale.root = call[c].root
  BY <1>1, RecordFacts DEF CallState, Points, Content
<1>4. hashed \in CallState /\ hashed.pc = "hash" /\ hashed.root = call[c].root
  BY <1>1, RecordFacts DEF CallState, Points, Content, Record
<1>5. Failed(call[c]) \in CallState /\ Failed(call[c]).pc = "end" /\ Failed(call[c]).root = call[c].root
  BY <1>1, CallRecords
<1>6. AfterSnapshot(c, record) \in {verified, stale, hashed, Failed(call[c])}
  BY DEF AfterSnapshot
<1> QED
  BY <1>2, <1>3, <1>4, <1>5, <1>6

\* Where a record of a call stands is where PlaceInv wants it.
Placed(mine) ==
  /\ mine.pc # "idle" => mine.root \in Root
  /\ mine.pc \in SnapshotPoints => mine.cur \in File

\* A step that replaces the record of one call.
LEMMA OneMoves ==
  ASSUME TypeInv, NEW c \in Call, NEW mine \in CallState, Placed(mine),
         call' = [call EXCEPT ![c] = mine]
  PROVE  call' \in [Call -> CallState] /\ PlaceInv'
  BY DEF TypeInv, TypeOK, PlaceInv, Placed

\* What opening a file finds is a content.
LEMMA FoundContent ==
  ASSUME TypeInv, NEW f \in File, NEW fault, NEW v \in Found(f, fault)
  PROVE  v \in Content /\ v \in {content[f], Absent}
  BY DEF Found, Content, TypeInv, TypeOK

\* The steps that only move one call on leave the files and the cache alone, and of
\* what was seen during the calls they only add to that call's.
LEMMA MovesFrame ==
  ASSUME TypeInv, NEW c \in Call,
         \/ Lookup(c) \/ Hit(c) \/ LoadRoot(c) \/ LoadFile(c) \/ Loaded(c)
         \/ Stat(c) \/ Look(c) \/ Read(c) \/ GiveUp(c) \/ GiveUpInSnapshot(c)
  PROVE  /\ UNCHANGED <<files, cache, inFlight>>
         /\ during' \in [Call -> [File -> SUBSET Content]]
         /\ \A d \in Call \ {c} : during'[d] = during[d]
         /\ \A f \in File : during[c][f] \subseteq during'[c][f]
<1>0. during \in [Call -> [File -> SUBSET Content]] /\ call[c] \in CallState
  BY DEF TypeInv, TypeOK
<1>1. CASE LoadRoot(c)
  <2>1. call[c].root \in File
    BY <1>1, RootAssumption DEF LoadRoot, TypeInv, PlaceInv, RootAssumption
  <2>2. PICK v \in Found(call[c].root, "load") :
          during' = [during EXCEPT ![c][call[c].root] = @ \cup {v}]
    BY <1>1 DEF LoadRoot
  <2>3. v \in Content
    BY <2>1, FoundContent
  <2> QED
    BY <1>0, <1>1, <2>1, <2>2, <2>3 DEF LoadRoot
<1>2. CASE LoadFile(c)
  <2>1. PICK f \in call[c].todo : \E v \in Found(f, "load") :
          during' = [during EXCEPT ![c][f] = @ \cup {v}]
    BY <1>2 DEF LoadFile
  <2>2. f \in File
    BY <1>0 DEF CallState
  <2>3. PICK v \in Found(f, "load") : during' = [during EXCEPT ![c][f] = @ \cup {v}]
    BY <2>1
  <2>4. v \in Content
    BY <2>2, FoundContent
  <2> QED
    BY <1>0, <1>2, <2>2, <2>3, <2>4 DEF LoadFile
<1>3. CASE ~LoadRoot(c) /\ ~LoadFile(c)
  BY <1>0, <1>3
     DEF Lookup, Hit, Loaded, Stat, Look, Read, GiveUp, GiveUpInSnapshot
<1> QED
  BY <1>1, <1>2, <1>3

\* The steps that only move one call on.
LEMMA MovesType ==
  ASSUME TypeInv, NEW c \in Call,
         \/ Lookup(c) \/ Hit(c) \/ LoadRoot(c) \/ LoadFile(c) \/ Loaded(c)
         \/ Stat(c) \/ Look(c) \/ Read(c) \/ GiveUp(c) \/ GiveUpInSnapshot(c)
  PROVE  TypeInv'
<1> DEFINE mine == call[c]
<1>0. TypeOK /\ PlaceInv /\ mine \in CallState
  BY DEF TypeInv, TypeOK
<1>1. UNCHANGED <<files, cache, inFlight>> /\ during' \in [Call -> [File -> SUBSET Content]]
  BY MovesFrame
<1>2. mine.pc # "idle" /\ mine.root \in Root
  BY <1>0 DEF Lookup, Hit, LoadRoot, LoadFile, Loaded, Stat, Look, Read, GiveUp, GiveUpInSnapshot,
              PlaceInv, SnapshotPoints
<1>3. SUFFICES \E next \in CallState : Placed(next) /\ call' = [call EXCEPT ![c] = next]
  BY <1>1, OneMoves DEF TypeInv, TypeOK, files, cache
<1>4. CASE Lookup(c)
  <2> DEFINE entry == roots[mine.root]
             next == [mine EXCEPT !.pc = IF entry.valid THEN "verify" ELSE "load",
                                  !.hit = entry.valid,
                                  !.hash = IF entry.valid THEN entry.hash ELSE Nothing,
                                  !.todo = {f \in File : entry.valid /\ entry.hash[f] # Absent}]
  <2>1. entry.valid \in BOOLEAN /\ entry.hash \in [File -> Content] /\ Nothing \in [File -> Content]
    BY <1>0, <1>2 DEF TypeOK, Nothing, Content
  <2>2. next \in CallState
    BY <1>0, <2>1 DEF CallState, Points, LoadPoints
  <2>3. Placed(next)
    BY <1>0, <1>2 DEF Placed, CallState, SnapshotPoints
  <2>4. call' = [call EXCEPT ![c] = next]
    BY <1>4 DEF Lookup
  <2> QED
    BY <2>2, <2>3, <2>4
<1>5. CASE Hit(c)
  <2> DEFINE entry == roots[mine.root]
             again == [mine EXCEPT !.pc = "load", !.hit = FALSE, !.hash = Nothing]
  <2>1. entry.result \in [File -> Content] /\ Nothing \in [File -> Content]
    BY <1>0, <1>2 DEF TypeOK, Nothing, Content
  <2>2. again \in CallState /\ Placed(again)
    BY <1>0, <1>2, <2>1 DEF CallState, Points, LoadPoints, Placed, SnapshotPoints
  <2>3. Served(mine, entry.result) \in CallState /\ Placed(Served(mine, entry.result))
    BY <1>0, <1>2, <2>1, CallRecords DEF Placed, SnapshotPoints
  <2>4. \/ call' = [call EXCEPT ![c] = again]
        \/ call' = [call EXCEPT ![c] = Served(mine, entry.result)]
    BY <1>5 DEF Hit, Serve
  <2> QED
    BY <2>2, <2>3, <2>4
<1>6. CASE LoadRoot(c)
  <2>0. PICK v \in Found(mine.root, "load") :
          call' = [call EXCEPT
            ![c].pc = "loading",
            ![c].loaded = [Nothing EXCEPT ![mine.root] = v],
            ![c].todo = IF v = Absent THEN {} ELSE Refs[mine.root] \ {mine.root}]
    BY <1>6 DEF LoadRoot
  <2> DEFINE next == [mine EXCEPT
               !.pc = "loading",
               !.loaded = [Nothing EXCEPT ![mine.root] = v],
               !.todo = IF v = Absent THEN {} ELSE Refs[mine.root] \ {mine.root}]
  <2>1. v \in Content /\ Nothing \in [File -> Content] /\ Refs[mine.root] \subseteq File
    BY <1>0, <1>2, FoundContent, RootAssumption, RefsAssumption
       DEF Nothing, Content, RootAssumption, RefsAssumption
  <2>2. next \in CallState /\ Placed(next)
    BY <1>0, <1>2, <2>1 DEF CallState, Points, LoadPoints, Placed, SnapshotPoints
  <2>3. call' = [call EXCEPT ![c] = next]
    BY <2>0
  <2> QED
    BY <2>2, <2>3
<1>7. CASE LoadFile(c)
  <2>p. PICK f \in mine.todo : \E v \in Found(f, "load") :
          call' = [call EXCEPT ![c].todo = @ \ {f}, ![c].loaded[f] = v]
    BY <1>7 DEF LoadFile
  <2>1. PICK v \in Found(f, "load") :
          call' = [call EXCEPT ![c].todo = @ \ {f}, ![c].loaded[f] = v]
    BY <2>p
  <2> DEFINE next == [mine EXCEPT !.todo = @ \ {f}, !.loaded[f] = v]
  <2>a. f \in File /\ mine.pc = "loading"
    BY <1>0, <1>7 DEF TypeOK, CallState, LoadFile
  <2>2. f \in File /\ v \in Content /\ mine.pc = "loading"
    BY <2>a, FoundContent
  <2>3. next \in CallState /\ Placed(next)
    BY <1>0, <1>2, <2>2 DEF CallState, Points, Placed, SnapshotPoints
  <2>4. call' = [call EXCEPT ![c] = next]
    BY <2>1
  <2> QED
    BY <2>3, <2>4
<1>8. CASE Loaded(c)
  <2> DEFINE next == [mine EXCEPT !.pc = "hash", !.todo = {f \in File : mine.loaded[f] # Absent}]
  <2>1. next \in CallState /\ Placed(next)
    BY <1>0, <1>2 DEF CallState, Points, Placed, SnapshotPoints
  <2>2. call' = [call EXCEPT ![c] = next]
    BY <1>8 DEF Loaded
  <2> QED
    BY <2>1, <2>2
<1>9. CASE Stat(c)
  <2>p. PICK f \in mine.todo : \E v \in Found(f, "read") :
          call' = [call EXCEPT
            ![c].pc = IF v = Absent THEN "put" ELSE "look",
            ![c].cur = f, ![c].stamp = v,
            ![c].record = IF v = Absent THEN Missing ELSE Unknown]
    BY <1>9 DEF Stat
  <2>1. PICK v \in Found(f, "read") :
          call' = [call EXCEPT
            ![c].pc = IF v = Absent THEN "put" ELSE "look",
            ![c].cur = f, ![c].stamp = v,
            ![c].record = IF v = Absent THEN Missing ELSE Unknown]
    BY <2>p
  <2> DEFINE next == [mine EXCEPT
               !.pc = IF v = Absent THEN "put" ELSE "look",
               !.cur = f, !.stamp = v,
               !.record = IF v = Absent THEN Missing ELSE Unknown]
  <2>a. f \in File
    BY <1>0 DEF CallState
  <2>2. f \in File /\ v \in Content
    BY <2>a, FoundContent
  <2>3. next \in CallState /\ Placed(next)
    BY <1>0, <1>2, <2>2, RecordFacts DEF CallState, Points, Placed, SnapshotPoints
  <2>4. call' = [call EXCEPT ![c] = next]
    BY <2>1
  <2> QED
    BY <2>3, <2>4
<1>10. CASE Look(c)
  <2> DEFINE f == mine.cur
             next == [mine EXCEPT !.pc = "read"]
  <2>1. f \in File /\ documents[f] \in Record
    BY <1>0, <1>10 DEF Look, PlaceInv, SnapshotPoints, TypeOK
  <2>2. next \in CallState /\ Placed(next)
    BY <1>0, <1>2, <2>1 DEF CallState, Points, SnapshotPoints, Placed
  <2>3. AfterSnapshot(c, documents[f]) \in CallState /\ Placed(AfterSnapshot(c, documents[f]))
    BY <1>0, <1>2, <2>1, AfterSnapshotType DEF Placed, SnapshotPoints
  <2>4. \/ call' = [call EXCEPT ![c] = next]
        \/ call' = [call EXCEPT ![c] = AfterSnapshot(c, documents[f])]
    BY <1>10 DEF Look, Goto
  <2> QED
    BY <2>2, <2>3, <2>4
<1>11. CASE Read(c)
  <2>1. mine.cur \in File /\ content[mine.cur] \in Content /\ mine.stamp \in Content
    BY <1>0, <1>11 DEF Read, PlaceInv, SnapshotPoints, TypeOK, CallState
  <2>2. PICK record : /\ record \in {Good(mine.stamp, content[mine.cur]), Unreadable}
                      /\ call' = [call EXCEPT ![c].pc = "put", ![c].record = record]
    BY <1>11 DEF Read
  <2> DEFINE next == [mine EXCEPT !.pc = "put", !.record = record]
  <2>3. record \in Record
    BY <2>1, <2>2, RecordFacts
  <2>4. next \in CallState /\ Placed(next)
    BY <1>0, <1>2, <2>1, <2>3 DEF CallState, Points, SnapshotPoints, Placed
  <2>5. call' = [call EXCEPT ![c] = next]
    BY <2>2
  <2> QED
    BY <2>4, <2>5
<1>12. CASE GiveUp(c)
  <2>1. Failed(mine) \in CallState /\ Placed(Failed(mine))
    BY <1>0, <1>2, CallRecords DEF Placed, SnapshotPoints
  <2>2. call' = [call EXCEPT ![c] = Failed(mine)]
    BY <1>12 DEF GiveUp
  <2> QED
    BY <2>1, <2>2
<1>13. CASE GiveUpInSnapshot(c)
  <2> DEFINE next == [mine EXCEPT !.pc = "stale", !.cancelled = TRUE]
  <2>1. next \in CallState /\ Placed(next)
    BY <1>0, <1>2 DEF CallState, Points, SnapshotPoints, Placed
  <2>2. call' = [call EXCEPT ![c] = next]
    BY <1>13 DEF GiveUpInSnapshot
  <2> QED
    BY <2>1, <2>2
<1> QED
  BY <1>4, <1>5, <1>6, <1>7, <1>8, <1>9, <1>10, <1>11, <1>12, <1>13

\* The steps that change the cache.
LEMMA CacheType ==
  ASSUME TypeInv, NEW c \in Call, MarkInvalid(c) \/ Store(c) \/ Put(c) \/ Invalidate(c)
  PROVE  TypeInv'
<1> DEFINE mine == call[c]
<1>0. TypeOK /\ PlaceInv /\ mine \in CallState
  BY DEF TypeInv, TypeOK
<1>1. mine.root \in Root
  BY <1>0 DEF MarkInvalid, Store, Put, Invalidate, PlaceInv
<1>2. CASE MarkInvalid(c)
  <2> DEFINE next == [mine EXCEPT !.pc = "load", !.hit = FALSE, !.hash = Nothing, !.todo = {}]
  <2>1. next \in CallState /\ Placed(next)
    BY <1>0, <1>1 DEF CallState, Points, LoadPoints, SnapshotPoints, Placed, Nothing, Content
  <2>2. call' = [call EXCEPT ![c] = next]
    BY <1>2 DEF MarkInvalid
  <2>3. roots' \in [Root -> [valid : BOOLEAN, hash : [File -> Content], result : [File -> Content]]]
    BY <1>0, <1>2 DEF MarkInvalid, TypeOK
  <2> QED
    BY <1>0, <1>2, <2>1, <2>2, <2>3, OneMoves DEF MarkInvalid, TypeInv, TypeOK, files
<1>3. CASE Store(c)
  <2>1. Served(mine, mine.loaded) \in CallState /\ Placed(Served(mine, mine.loaded))
    <3>1. mine.loaded \in [File -> Content]
      BY <1>0 DEF CallState
    <3>2. /\ Served(mine, mine.loaded) \in CallState /\ Served(mine, mine.loaded).pc = "end"
          /\ Served(mine, mine.loaded).root \in Root
      BY <1>0, <1>1, <3>1, CallRecords
    <3> QED
      BY <3>2 DEF Placed, SnapshotPoints
  <2>2. call' = [call EXCEPT ![c] = Served(mine, mine.loaded)]
    BY <1>3 DEF Store, Serve
  <2>3. roots' \in [Root -> [valid : BOOLEAN, hash : [File -> Content], result : [File -> Content]]]
    BY <1>0, <1>1, <1>3 DEF Store, TypeOK, CallState
  <2>4. dependents' \in [File -> SUBSET Root]
    BY <1>0, <1>1, <1>3 DEF Store, TypeOK
  <2> QED
    BY <1>0, <1>3, <2>1, <2>2, <2>3, <2>4, OneMoves DEF Store, TypeInv, TypeOK, files
<1>4. CASE Put(c)
  <2> DEFINE f == mine.cur
             record == mine.record
             next == [mine EXCEPT !.pc = "invalidate"]
  <2>1. f \in File /\ record \in Record
    BY <1>0, <1>4 DEF Put, PlaceInv, SnapshotPoints, CallState
  <2>2. next \in CallState /\ Placed(next)
    BY <1>0, <1>1, <2>1 DEF CallState, Points, SnapshotPoints, Placed
  <2>3. AfterSnapshot(c, record) \in CallState /\ Placed(AfterSnapshot(c, record))
    BY <1>0, <1>1, <2>1, AfterSnapshotType DEF Placed, SnapshotPoints
  <2>4. \/ call' = [call EXCEPT ![c] = next]
        \/ call' = [call EXCEPT ![c] = AfterSnapshot(c, record)]
    BY <1>4 DEF Put, Goto
  <2>5. documents' \in [File -> Record]
    BY <1>0, <1>4, <2>1 DEF Put, TypeOK
  <2>6. misread' \subseteq File
    BY <1>0, <1>4, <2>1 DEF Put, Misread, TypeOK
  <2> QED
    BY <1>0, <1>4, <2>2, <2>3, <2>4, <2>5, <2>6, OneMoves DEF Put, TypeInv, TypeOK, files
<1>5. CASE Invalidate(c)
  <2>1. mine.cur \in File /\ mine.record \in Record
    BY <1>0, <1>5 DEF Invalidate, PlaceInv, SnapshotPoints, CallState
  <2>2. /\ AfterSnapshot(c, mine.record) \in CallState
        /\ Placed(AfterSnapshot(c, mine.record))
    BY <1>0, <1>1, <2>1, AfterSnapshotType DEF Placed, SnapshotPoints
  <2>3. call' = [call EXCEPT ![c] = AfterSnapshot(c, mine.record)]
    BY <1>5 DEF Invalidate
  <2>4. roots' \in [Root -> [valid : BOOLEAN, hash : [File -> Content], result : [File -> Content]]]
    <3>1. PICK hurt : roots' = [r \in Root |-> IF r \in hurt THEN [roots[r] EXCEPT !.valid = FALSE]
                                               ELSE roots[r]]
      BY <1>5 DEF Invalidate
    <3>2. roots \in [Root -> [valid : BOOLEAN, hash : [File -> Content], result : [File -> Content]]]
      BY <1>0 DEF TypeOK
    <3> QED
      BY <3>1, <3>2
  <2> QED
    BY <1>0, <1>5, <2>2, <2>3, <2>4, OneMoves DEF Invalidate, TypeInv, TypeOK, files
<1> QED
  BY <1>2, <1>3, <1>4, <1>5

\* A call that begins, one that ends, and a write by another program.
LEMMA BorderType ==
  ASSUME TypeInv, Change \/ \E c \in Call : End(c) \/ \E r \in Root : Begin(c, r)
  PROVE  TypeInv'
<1>0. TypeOK /\ PlaceInv
  BY DEF TypeInv
<1>1. CASE Change
  <2>1. PICK f \in File, v \in {clock + 1, Absent} :
          /\ clock' = clock + 1
          /\ content' = [content EXCEPT ![f] = v]
          /\ during' = [c \in Call |-> IF call[c].pc = "idle" THEN during[c]
                                       ELSE [during[c] EXCEPT ![f] = @ \cup {v}]]
    BY <1>1 DEF Change
  <2>2. v \in Content /\ clock' \in Nat
    BY <1>0, <2>1 DEF TypeOK, Content
  <2>3. content' \in [File -> Content] /\ during' \in [Call -> [File -> SUBSET Content]]
    BY <1>0, <2>1, <2>2 DEF TypeOK
  <2> QED
    BY <1>0, <1>1, <2>2, <2>3 DEF Change, TypeInv, TypeOK, PlaceInv, cache
<1>2. ASSUME NEW c \in Call, End(c)
      PROVE  TypeInv'
  <2>1. call[c].root \in Root
    BY <1>0, <1>2 DEF End, PlaceInv
  <2>2. Placed(Idle)
    BY DEF Placed, Idle, SnapshotPoints
  <2>3. inFlight' \in [Root -> Call \cup {NoCall}] /\ during' \in [Call -> [File -> SUBSET Content]]
    BY <1>0, <1>2, <2>1 DEF End, TypeOK
  <2> QED
    BY <1>0, <1>2, <2>2, <2>3, OneMoves, CallRecords DEF End, TypeInv, TypeOK, files, cache
<1>3. ASSUME NEW c \in Call, NEW r \in Root, Begin(c, r)
      PROVE  TypeInv'
  <2> DEFINE first == [Idle EXCEPT !.pc = "lookup", !.root = r]
  <2>1. first \in CallState /\ Placed(first)
    BY CallRecords DEF Placed, Idle, SnapshotPoints
  <2>2. \A d \in Call : call[d] \in CallState /\ Placed(call[d])
    BY <1>0 DEF TypeOK, PlaceInv, Placed
  <2>3. \A d \in Call : LET told == [call[d] EXCEPT !.cancelled = TRUE]
                        IN told \in CallState /\ Placed(told)
    <3> SUFFICES ASSUME NEW d \in Call
                 PROVE  LET told == [call[d] EXCEPT !.cancelled = TRUE]
                        IN told \in CallState /\ Placed(told)
      OBVIOUS
    <3> DEFINE mine == call[d]
               told == [mine EXCEPT !.cancelled = TRUE]
    <3>1. mine \in CallState /\ Placed(mine)
      BY <2>2
    <3> HIDE DEF mine
    <3>2. told \in CallState
      BY <3>1 DEF CallState
    <3>3. told.pc = mine.pc /\ told.root = mine.root /\ told.cur = mine.cur
      BY <3>1 DEF CallState
    <3>4. Placed(told)
      <4> HIDE DEF told
      <4> QED
        BY <3>1, <3>3 DEF Placed
    <3> QED
      BY <3>2, <3>4 DEF mine
  <2>4. call' \in [Call -> CallState] /\ \A d \in Call : Placed(call'[d])
    BY <1>3, <2>1, <2>2, <2>3 DEF Begin
  <2>5. inFlight' \in [Root -> Call \cup {NoCall}]
    BY <1>0, <1>3 DEF Begin, TypeOK
  <2>6. [f \in File |-> {content[f]}] \in [File -> SUBSET Content]
    BY <1>0 DEF TypeOK
  <2>7. during' \in [Call -> [File -> SUBSET Content]]
    BY <1>0, <1>3, <2>6 DEF Begin, TypeOK
  <2> QED
    BY <1>0, <1>3, <2>4, <2>5, <2>7 DEF Begin, TypeInv, TypeOK, PlaceInv, Placed, files, cache
<1> QED
  BY <1>1, <1>2, <1>3

\* The initial state has the types.
LEMMA TypeInit == Init => TypeInv
<1> SUFFICES ASSUME Init PROVE TypeInv
  OBVIOUS
<1>1. 0 \in Content /\ Nothing \in [File -> Content]
  BY DEF Nothing, Content
<1>2. content \in [File -> Content] /\ clock \in Nat /\ documents \in [File -> Record]
  BY <1>1, RecordFacts DEF Init
<1>3. roots \in [Root -> [valid : BOOLEAN, hash : [File -> Content], result : [File -> Content]]]
  BY <1>1 DEF Init
<1>4. call \in [Call -> CallState] /\ PlaceInv
  BY CallRecords DEF Init, PlaceInv, Idle, SnapshotPoints
<1> QED
  BY <1>2, <1>3, <1>4 DEF Init, TypeInv, TypeOK

\* Every step keeps them.
LEMMA TypeNext == TypeInv /\ [Next]_vars => TypeInv'
<1> SUFFICES ASSUME TypeInv, [Next]_vars PROVE TypeInv'
  OBVIOUS
<1>1. CASE UNCHANGED vars
  BY <1>1 DEF vars, files, cache, TypeInv, TypeOK, PlaceInv
<1>2. CASE Next
  BY <1>2, MovesType, CacheType, BorderType DEF Next, Step
<1> QED
  BY <1>1, <1>2

\* The type invariant, whatever faults there are.
THEOREM TypeCorrect == Spec => []TypeOK
<1>1. TypeInv => TypeOK
  BY DEF TypeInv
<1> QED
  BY TypeInit, TypeNext, <1>1, PTL DEF Spec
-----------------------------------------------------------------------------
\* A step that leaves the files alone, forgets no snapshot of what they hold, and
\* stores only results that are current.
KnownKept == \A f \in File : Known(f) /\ content[f] # Absent => Known(f)'
RootsKept ==
  \A r \in Root : roots'[r].valid =>
    \/ roots[r].valid /\ roots'[r].hash = roots[r].hash
    \/ Current(roots'[r].hash)
Steady == content' = content /\ KnownKept /\ RootsKept

\* When the cache stays as it is, so does what is known from it.
LEMMA SameCacheIsSteady ==
  ASSUME UNCHANGED <<files, cache>>
  PROVE  Steady
  BY DEF files, cache, Steady, KnownKept, RootsKept, Known

\* Such a step of one call does not disturb another, which it may cancel.
LEMMA OthersUndisturbed ==
  ASSUME TypeInv, NEW d \in Call, CallInv(d), during'[d] = during[d], Steady,
         call'[d] \in {call[d], [call[d] EXCEPT !.cancelled = TRUE]}
  PROVE  CallInv(d)'
<1> USE DEF Steady
<1>0. LET next == call'[d] IN
      /\ next.pc = call[d].pc /\ next.root = call[d].root /\ next.hit = call[d].hit
      /\ next.todo = call[d].todo /\ next.cur = call[d].cur /\ next.stamp = call[d].stamp
      /\ next.record = call[d].record /\ next.hash = call[d].hash /\ next.loaded = call[d].loaded
  BY DEF TypeInv, TypeOK, CallState
<1>1. /\ call[d] \in CallState
      /\ call[d].pc # "idle" => call[d].root \in Root
      /\ call[d].pc \in SnapshotPoints => call[d].cur \in File
  BY DEF TypeInv, TypeOK, PlaceInv
<1>2. content \in [File -> Content]
  BY DEF TypeInv, TypeOK
<1>3. SnapshotInv(d)'
  <2>1. ASSUME call[d].pc = "invalidate", call[d].record.state = "good"
        PROVE  Known(call[d].cur)'
    <3>1. Known(call[d].cur) /\ call[d].cur \in File
          /\ call[d].stamp \in {content[call[d].cur], Absent}
      BY <1>1, <2>1 DEF CallInv, SnapshotInv, SnapshotPoints
    <3>2. call[d].stamp # Absent
      BY <2>1 DEF CallInv, SnapshotInv, SnapshotPoints, Missing
    <3> QED
      BY <1>0, <3>1, <3>2 DEF KnownKept
  <2> QED
    BY <1>0, <2>1 DEF CallInv, SnapshotInv
<1>4. VerifyInv(d)'
  BY <1>0, <1>1 DEF CallInv, VerifyInv, RootsKept, Current, SnapshotPoints
<1>5. HashInv(d)'
  BY <1>0 DEF CallInv, HashInv, KnownKept, Fresh, FreshFile, Workspace
<1>6. LoadInv(d)' /\ BorderInv(d)'
  BY <1>0 DEF CallInv, LoadInv, BorderInv, FreshFile, Workspace
<1> QED
  BY <1>3, <1>4, <1>5, <1>6 DEF CallInv

\* A call whose record is about none of these points has only to know its files.
LEMMA CallEnds ==
  ASSUME NEW c \in Call, ~call'[c].hit, call'[c].hash = Nothing, call'[c].pc \in {"lookup", "load", "end"},
         \A f \in File : content'[f] \in during'[c][f]
  PROVE  CallInv(c)'
  BY DEF CallInv, SnapshotInv, VerifyInv, HashInv, LoadInv, BorderInv, SnapshotPoints, Nothing

\* What a snapshot says of its file, and what the call does next, fit together.
LEMMA SnapshotTaken ==
  ASSUME CacheInv, NEW c \in Call, NEW record \in Record, call[c].pc \in SnapshotPoints,
         NEW f \in File, f = call[c].cur,
         record.state = "good" => record.hash = content[f] /\ Known(f)',
         call'[c] = AfterSnapshot(c, record), during' = during, Steady
  PROVE  CallInv(c)'
<1> DEFINE mine == call[c]
           next == call'[c]
<1>1. /\ mine \in CallState /\ f \in File /\ mine.root \in Root
      /\ content \in [File -> Content] /\ CallInv(c)
  BY DEF CacheInv, TypeInv, TypeOK, PlaceInv, SnapshotPoints
<1>2. /\ f \in mine.todo /\ mine.todo \subseteq File /\ mine.hash \in [File -> Content]
      /\ \A g \in File : content'[g] \in during'[c][g]
  BY <1>1 DEF CallInv, SnapshotInv, BorderInv, CallState, SnapshotPoints, Steady
<1>3. CASE mine.hit /\ record.state = "good" /\ record.hash = mine.hash[f]
  <2>1. next = [mine EXCEPT !.pc = "verify", !.todo = @ \ {f}, !.cur = NoCall,
                            !.stamp = Absent, !.record = Unknown]
    BY <1>3 DEF AfterSnapshot
  <2>2. /\ next.pc = "verify" /\ next.hit /\ next.todo = mine.todo \ {f}
        /\ next.hash = mine.hash /\ next.root = mine.root
    BY <1>1, <1>3, <2>1 DEF CallState
  <2>3. VerifyInv(c)'
    BY <1>1, <1>2, <1>3, <2>2 DEF CallInv, VerifyInv, Steady, RootsKept, Current
  <2> QED
    BY <1>2, <2>2, <2>3 DEF CallInv, SnapshotInv, HashInv, LoadInv, BorderInv, SnapshotPoints
<1>4. CASE mine.hit /\ ~(record.state = "good" /\ record.hash = mine.hash[f])
  <2>1. next = [mine EXCEPT !.pc = "stale", !.cur = NoCall, !.stamp = Absent, !.record = Unknown]
    BY <1>4 DEF AfterSnapshot
  <2>2. /\ next.pc = "stale" /\ next.hit /\ next.todo = mine.todo
        /\ next.hash = mine.hash /\ next.root = mine.root
    BY <1>1, <1>4, <2>1 DEF CallState
  <2>3. VerifyInv(c)'
    BY <1>1, <1>2, <1>4, <2>2 DEF CallInv, VerifyInv, Steady, RootsKept, Current
  <2> QED
    BY <1>2, <2>2, <2>3 DEF CallInv, SnapshotInv, HashInv, LoadInv, BorderInv, SnapshotPoints
<1>5. CASE ~mine.hit /\ record.state = "good"
  <2>1. next = [mine EXCEPT !.pc = "hash", !.todo = @ \ {f}, !.cur = NoCall,
                            !.stamp = Absent, !.record = Unknown, !.hash[f] = record.hash]
    BY <1>5 DEF AfterSnapshot
  <2>2. /\ next.pc = "hash" /\ ~next.hit /\ next.todo = mine.todo \ {f}
        /\ next.hash = [mine.hash EXCEPT ![f] = record.hash] /\ next.loaded = mine.loaded
        /\ next.root = mine.root
    BY <1>1, <1>5, <2>1 DEF CallState
  <2>3. HashInv(c)'
    <3>1. /\ \A g \in File : mine.hash[g] # Absent => mine.hash[g] = content[g] /\ Known(g)
          /\ Fresh(mine.root, mine.loaded)
          /\ \A g \in File : mine.loaded[g] \in {Absent, content[g]}
          /\ \A g \in File : mine.loaded[g] # Absent <=> g \in mine.todo \/ mine.hash[g] # Absent
      BY <1>1, <1>5 DEF CallInv, HashInv
    <3>2. content[f] # Absent /\ record.hash = content[f]
      BY <1>1, <1>2, <1>5, <3>1
    <3>3. \A g \in File : next.hash[g] # Absent => next.hash[g] = content'[g] /\ Known(g)'
      BY <1>2, <1>5, <2>2, <3>1 DEF Steady, KnownKept
    <3>4. Fresh(call[c].root, call[c].loaded)'
      BY <2>2, <3>1 DEF Fresh, FreshFile, Workspace, Steady
    <3>5. \A g \in File : next.loaded[g] # Absent <=> g \in next.todo \/ next.hash[g] # Absent
      BY <1>2, <2>2, <3>1, <3>2
    <3> QED
      BY <2>2, <3>1, <3>3, <3>4, <3>5 DEF HashInv, Steady
  <2> QED
    BY <1>2, <2>2, <2>3 DEF CallInv, SnapshotInv, VerifyInv, LoadInv, BorderInv, SnapshotPoints
<1>6. CASE ~mine.hit /\ record.state # "good"
  <2>1. next = Failed(mine)
    BY <1>6 DEF AfterSnapshot
  <2>2. next.pc = "end" /\ ~next.hit /\ next.hash = Nothing
    BY <2>1 DEF Failed, Idle
  <2> QED
    BY <1>2, <2>2, CallEnds
<1> QED
  BY <1>3, <1>4, <1>5, <1>6

\* The steps that only move one call on keep what is said of that call.
LEMMA MovedCall ==
  ASSUME CacheInv, NEW c \in Call,
         \/ Lookup(c) \/ Hit(c) \/ LoadRoot(c) \/ LoadFile(c) \/ Loaded(c)
         \/ Stat(c) \/ Look(c) \/ Read(c) \/ GiveUp(c) \/ GiveUpInSnapshot(c)
  PROVE  CallInv(c)'
<1> DEFINE mine == call[c]
           next == call'[c]
<1>0. /\ mine \in CallState /\ content \in [File -> Content] /\ documents \in [File -> Record]
      /\ CallInv(c) /\ call \in [Call -> CallState]
      /\ mine.pc \in SnapshotPoints => mine.cur \in File
  BY DEF CacheInv, TypeInv, TypeOK, PlaceInv
<1>1. UNCHANGED <<files, cache, inFlight>> /\ \A f \in File : during[c][f] \subseteq during'[c][f]
  BY MovesFrame DEF CacheInv
<1>2. mine.pc # "idle" /\ mine.root \in Root
  BY DEF Lookup, Hit, LoadRoot, LoadFile, Loaded, Stat, Look, Read, GiveUp, GiveUpInSnapshot,
         CacheInv, TypeInv, PlaceInv, SnapshotPoints
<1>b. content' = content /\ documents' = documents /\ roots' = roots /\ misread' = misread
  BY <1>1 DEF files, cache
<1>3. (\A f \in File : content'[f] \in during'[c][f]) /\ content' = content
        /\ documents' = documents /\ roots' = roots /\ misread' = misread
  BY <1>0, <1>1, <1>2, <1>b DEF CallInv, BorderInv
<1>4. Steady
  BY <1>1, SameCacheIsSteady
<1>5. CASE Lookup(c)
  <2> DEFINE entry == roots[mine.root]
  <2>1. next = [mine EXCEPT !.pc = IF entry.valid THEN "verify" ELSE "load",
                            !.hit = entry.valid,
                            !.hash = IF entry.valid THEN entry.hash ELSE Nothing,
                            !.todo = {f \in File : entry.valid /\ entry.hash[f] # Absent}]
    BY <1>0, <1>5 DEF Lookup
  <2>2. entry.valid \in BOOLEAN
    BY <1>2 DEF CacheInv, TypeInv, TypeOK
  <2>3. CASE entry.valid
    <3>1. /\ next.pc = "verify" /\ next.hit /\ next.hash = entry.hash /\ next.root = mine.root
          /\ next.todo = {f \in File : entry.hash[f] # Absent}
      BY <1>0, <2>1, <2>3 DEF CallState
    <3>2. VerifyInv(c)'
      BY <1>2, <1>b, <3>1 DEF VerifyInv
    <3> QED
      BY <1>3, <3>1, <3>2 DEF CallInv, SnapshotInv, HashInv, LoadInv, BorderInv, SnapshotPoints
  <2>4. CASE ~entry.valid
    <3>1. next.pc = "load" /\ ~next.hit /\ next.hash = Nothing
      BY <1>0, <2>1, <2>2, <2>4 DEF CallState
    <3> QED
      BY <1>3, <3>1, CallEnds
  <2> QED
    BY <2>3, <2>4
<1>6. CASE Hit(c)
  <2>1. \/ next = [mine EXCEPT !.pc = "load", !.hit = FALSE, !.hash = Nothing]
        \/ next = Served(mine, roots[mine.root].result)
    BY <1>0, <1>6 DEF Hit, Serve
  <2>2. next.pc \in {"load", "end"} /\ ~next.hit /\ next.hash = Nothing
    BY <1>0, <2>1 DEF Served, Idle, CallState
  <2> QED
    BY <1>3, <2>2, CallEnds
<1>7. CASE LoadRoot(c)
  <2> DEFINE r == mine.root
  <2>1. PICK v \in Found(r, "load") :
          next = [mine EXCEPT
               !.pc = "loading",
               !.loaded = [Nothing EXCEPT ![r] = v],
               !.todo = IF v = Absent THEN {} ELSE Refs[r] \ {r}]
    BY <1>0, <1>7 DEF LoadRoot
  <2>2. /\ next.pc = "loading" /\ ~next.hit /\ next.hash = Nothing /\ next.root = r
        /\ next.loaded = [Nothing EXCEPT ![r] = v]
        /\ next.todo = IF v = Absent THEN {} ELSE Refs[r] \ {r}
    BY <1>0, <1>7, <2>1 DEF CallState, LoadRoot, CallInv, BorderInv
  <2>3. r \in File /\ \A f \in File : next.loaded[f] = IF f = r THEN v ELSE Absent
    BY <1>2, <2>2, RootAssumption DEF Nothing, RootAssumption
  <2>a. v = content[r] \/ (MayOverlook /\ v = Absent)
    BY DEF Found, MayOverlook
  <2>4. LoadInv(c)'
    BY <1>3, <2>2, <2>3, <2>a DEF LoadInv, FreshFile, Workspace
  <2> QED
    BY <1>3, <2>2, <2>4 DEF CallInv, SnapshotInv, VerifyInv, HashInv, BorderInv, SnapshotPoints, Nothing
<1>8. CASE LoadFile(c)
  <2>p. PICK f \in mine.todo : \E v \in Found(f, "load") :
          call' = [call EXCEPT ![c].todo = @ \ {f}, ![c].loaded[f] = v]
    BY <1>8 DEF LoadFile
  <2>1. PICK v \in Found(f, "load") :
          call' = [call EXCEPT ![c].todo = @ \ {f}, ![c].loaded[f] = v]
    BY <2>p
  <2>2. f \in File /\ mine.pc = "loading" /\ mine.loaded \in [File -> Content] /\ mine.root \in File
    BY <1>0, <1>2, <1>8, RootAssumption DEF CallState, LoadFile, RootAssumption
  <2>3. next = [mine EXCEPT !.todo = @ \ {f}, !.loaded[f] = v]
    BY <1>0, <2>1
  <2>4. /\ next.pc = "loading" /\ ~next.hit /\ next.hash = Nothing /\ next.root = mine.root
        /\ next.loaded = [mine.loaded EXCEPT ![f] = v]
        /\ next.todo = mine.todo \ {f}
    BY <1>0, <2>2, <2>3 DEF CallState, CallInv, BorderInv
  <2>5. \A g \in File : next.loaded[g] = IF g = f THEN v ELSE mine.loaded[g]
    BY <2>2, <2>4
  <2>a. v = content[f] \/ (MayOverlook /\ v = Absent)
    BY DEF Found, MayOverlook
  <2>6. Refs[mine.root] \subseteq File
    BY <1>2, RefsAssumption DEF RefsAssumption
  <2>7. LoadInv(c)'
    BY <1>0, <1>3, <2>2, <2>4, <2>5, <2>6, <2>a DEF CallInv, LoadInv, FreshFile, Workspace
  <2> QED
    BY <1>3, <2>4, <2>7 DEF CallInv, SnapshotInv, VerifyInv, HashInv, BorderInv, SnapshotPoints, Nothing
<1>9. CASE Loaded(c)
  <2>1. next = [mine EXCEPT !.pc = "hash", !.todo = {f \in File : mine.loaded[f] # Absent}]
    BY <1>0, <1>9 DEF Loaded
  <2>2. /\ next.pc = "hash" /\ ~next.hit /\ next.hash = Nothing /\ next.root = mine.root
        /\ next.loaded = mine.loaded
        /\ next.todo = {f \in File : mine.loaded[f] # Absent}
    BY <1>0, <1>9, <2>1 DEF CallState, Loaded, CallInv, BorderInv
  <2>3. HashInv(c)'
    <3>1. Fresh(mine.root, mine.loaded) /\ \A f \in File : mine.loaded[f] \in {Absent, content[f]}
      BY <1>0, <1>9 DEF Loaded, CallInv, LoadInv, Fresh
    <3>2. Fresh(call[c].root, call[c].loaded)'
      BY <1>b, <2>2, <3>1 DEF Fresh, FreshFile, Workspace
    <3> QED
      BY <1>3, <2>2, <3>1, <3>2 DEF HashInv, Nothing
  <2> QED
    BY <1>3, <2>2, <2>3 DEF CallInv, SnapshotInv, VerifyInv, LoadInv, BorderInv, SnapshotPoints
<1>10. CASE Stat(c)
  <2>p. PICK f \in mine.todo : \E v \in Found(f, "read") :
          call' = [call EXCEPT
            ![c].pc = IF v = Absent THEN "put" ELSE "look",
            ![c].cur = f, ![c].stamp = v,
            ![c].record = IF v = Absent THEN Missing ELSE Unknown]
    BY <1>10 DEF Stat
  <2>1. PICK v \in Found(f, "read") :
          call' = [call EXCEPT
            ![c].pc = IF v = Absent THEN "put" ELSE "look",
            ![c].cur = f, ![c].stamp = v,
            ![c].record = IF v = Absent THEN Missing ELSE Unknown]
    BY <2>p
  <2>2. next = [mine EXCEPT
               !.pc = IF v = Absent THEN "put" ELSE "look",
               !.cur = f, !.stamp = v,
               !.record = IF v = Absent THEN Missing ELSE Unknown]
    BY <1>0, <2>1
  <2>a. v \in {content[f], Absent}
    BY DEF Found
  <2>3. /\ next.pc = IF v = Absent THEN "put" ELSE "look"
        /\ next.cur = f /\ next.stamp = v
        /\ next.record = IF v = Absent THEN Missing ELSE Unknown
        /\ next.hit = mine.hit /\ next.hash = mine.hash /\ next.root = mine.root
        /\ next.loaded = mine.loaded /\ next.todo = mine.todo
    BY <1>0, <2>2 DEF CallState
  <2>4. SnapshotInv(c)'
    BY <1>0, <1>b, <2>3, <2>a DEF SnapshotInv, Missing, SnapshotPoints
  <2>5. HashInv(c)'
    <3>1. ~mine.hit => mine.pc = "hash"
      BY <1>0, <1>10 DEF Stat, CallInv, BorderInv
    <3>2. Fresh(mine.root, mine.loaded) => Fresh(call[c].root, call[c].loaded)'
      BY <1>b, <2>3 DEF Fresh, FreshFile, Workspace
    <3> QED
      BY <1>0, <1>3, <1>4, <2>3, <3>1, <3>2 DEF CallInv, HashInv, Known, SnapshotPoints
  <2> QED
    BY <1>0, <1>3, <2>3, <2>4, <2>5 DEF CallInv, VerifyInv, LoadInv, BorderInv, Current, SnapshotPoints
<1>11. CASE Look(c)
  <2> DEFINE f == mine.cur
  <2>1. f \in File /\ mine.pc = "look"
    BY <1>0, <1>11 DEF Look, SnapshotPoints
  <2>2. CASE Expired(f, mine.stamp)
    <3>1. next = [mine EXCEPT !.pc = "read"]
      BY <1>0, <1>11, <2>2 DEF Look, Goto
    <3>2. /\ next.pc = "read" /\ next.hit = mine.hit /\ next.hash = mine.hash /\ next.root = mine.root
          /\ next.loaded = mine.loaded /\ next.todo = mine.todo /\ next.cur = f
          /\ next.stamp = mine.stamp
      BY <1>0, <3>1 DEF CallState
    <3>3. HashInv(c)'
      <4>1. Fresh(mine.root, mine.loaded) => Fresh(call[c].root, call[c].loaded)'
        BY <1>b, <3>2 DEF Fresh, FreshFile, Workspace
      <4> QED
        BY <1>0, <1>3, <2>1, <3>2, <4>1 DEF CallInv, HashInv, Known, SnapshotPoints
    <3> QED
      BY <1>0, <1>3, <2>1, <3>2, <3>3
         DEF CallInv, SnapshotInv, VerifyInv, LoadInv, BorderInv, Current, SnapshotPoints
  <2>3. CASE ~Expired(f, mine.stamp)
    <3>1. next = AfterSnapshot(c, documents[f])
      BY <1>0, <1>11, <2>3 DEF Look
    <3>2. documents[f].state = "good" /\ documents[f].hash = content[f]
      BY <1>0, <2>1, <2>3 DEF Expired, CacheInv, DocumentInv, CallInv, SnapshotInv, SnapshotPoints
    <3>3. documents[f] \in Record
      BY <1>0, <2>1
    <3> HIDE DEF f
    <3>4. \A g \in File : g = f => Known(g)'
      BY <1>3, <3>2 DEF Known
    <3> QED
      BY <1>4, <1>11, <2>1, <3>1, <3>2, <3>3, <3>4, SnapshotTaken DEF Look, f, SnapshotPoints
  <2> QED
    BY <2>2, <2>3
<1>12. CASE Read(c)
  <2> DEFINE f == mine.cur
  <2>1. f \in File /\ mine.pc = "read"
    BY <1>0, <1>12 DEF Read, SnapshotPoints
  <2>2. PICK record : /\ record \in {Good(mine.stamp, content[f]), Unreadable}
                      /\ call' = [call EXCEPT ![c].pc = "put", ![c].record = record]
    BY <1>12 DEF Read
  <2>3. next = [mine EXCEPT !.pc = "put", !.record = record]
    BY <1>0, <2>2
  <2>4. /\ next.pc = "put" /\ next.hit = mine.hit /\ next.hash = mine.hash /\ next.root = mine.root
        /\ next.loaded = mine.loaded /\ next.todo = mine.todo /\ next.cur = f
        /\ next.stamp = mine.stamp /\ next.record = record
    BY <1>0, <2>3 DEF CallState
  <2>5. SnapshotInv(c)'
    BY <1>0, <1>3, <2>1, <2>2, <2>4 DEF CallInv, SnapshotInv, SnapshotPoints
  <2>6. HashInv(c)'
    <3>1. Fresh(mine.root, mine.loaded) => Fresh(call[c].root, call[c].loaded)'
      BY <1>b, <2>4 DEF Fresh, FreshFile, Workspace
    <3> QED
      BY <1>0, <1>3, <2>1, <2>4, <3>1 DEF CallInv, HashInv, Known, SnapshotPoints
  <2> QED
    BY <1>0, <1>3, <2>1, <2>4, <2>5, <2>6 DEF CallInv, VerifyInv, LoadInv, BorderInv, Current, SnapshotPoints
<1>13. CASE GiveUp(c)
  <2>1. next = Failed(mine)
    BY <1>0, <1>13 DEF GiveUp
  <2>2. next.pc = "end" /\ ~next.hit /\ next.hash = Nothing
    BY <2>1 DEF Failed, Idle
  <2> QED
    BY <1>3, <2>2, CallEnds
<1>14. CASE GiveUpInSnapshot(c)
  <2>1. next = [mine EXCEPT !.pc = "stale", !.cancelled = TRUE] /\ mine.pc = "verify" /\ mine.hit
    BY <1>0, <1>14 DEF GiveUpInSnapshot, CallInv, BorderInv
  <2>2. /\ next.pc = "stale" /\ next.hit = mine.hit /\ next.hash = mine.hash /\ next.root = mine.root
        /\ next.todo = mine.todo
    <3>1. mine \in CallState
      BY <1>0
    <3> HIDE DEF mine, next
    <3> QED
      BY <2>1, <3>1 DEF CallState
  <2> QED
    BY <1>0, <1>3, <2>1, <2>2
       DEF CallInv, SnapshotInv, VerifyInv, HashInv, LoadInv, BorderInv, Current, SnapshotPoints
<1> QED
  BY <1>5, <1>6, <1>7, <1>8, <1>9, <1>10, <1>11, <1>12, <1>13, <1>14

\* Where the cache stays and no call leaves an invalidation, its invariants stay.
LEMMA SameCache ==
  ASSUME CacheInv, UNCHANGED cache,
         \A d \in Call : call[d].pc = "invalidate" => call'[d] = call[d]
  PROVE  DocumentInv' /\ EntryInv'
  BY DEF CacheInv, DocumentInv, EntryInv, Told, cache

\* The steps that only move one call on.
LEMMA MovesInv ==
  ASSUME CacheInv, NEW c \in Call,
         \/ Lookup(c) \/ Hit(c) \/ LoadRoot(c) \/ LoadFile(c) \/ Loaded(c)
         \/ Stat(c) \/ Look(c) \/ Read(c) \/ GiveUp(c) \/ GiveUpInSnapshot(c)
  PROVE  CacheInv'
<1>1. TypeInv' /\ CallInv(c)'
  BY MovesType, MovedCall DEF CacheInv
<1>2. UNCHANGED <<files, cache, inFlight>> /\ \A d \in Call \ {c} : during'[d] = during[d]
  BY MovesFrame DEF CacheInv
<1>3. call[c].pc # "invalidate" /\ \A d \in Call \ {c} : call'[d] = call[d]
  BY DEF Lookup, Hit, LoadRoot, LoadFile, Loaded, Stat, Look, Read, GiveUp, GiveUpInSnapshot,
         Serve, Goto, CacheInv, TypeInv, TypeOK
<1>4. \A d \in Call : CallInv(d)'
  BY <1>1, <1>2, <1>3, SameCacheIsSteady, OthersUndisturbed DEF CacheInv
<1>5. DocumentInv' /\ EntryInv'
  BY <1>2, <1>3, SameCache
<1> QED
  BY <1>1, <1>4, <1>5 DEF CacheInv

\* markInvalid makes one entry invalid.
LEMMA MarkInvalidInv ==
  ASSUME CacheInv, NEW c \in Call, MarkInvalid(c)
  PROVE  CacheInv'
<1>0. /\ TypeOK /\ TypeInv' /\ CallInv(c) /\ call[c].root \in Root /\ call[c] \in CallState
      /\ call \in [Call -> CallState]
  BY CacheType DEF CacheInv, TypeInv, TypeOK, PlaceInv, MarkInvalid
<1> DEFINE r == call[c].root
<1>1. /\ content' = content /\ documents' = documents /\ during' = during /\ misread' = misread
      /\ dependents' = dependents /\ \A d \in Call \ {c} : call'[d] = call[d]
  BY <1>0 DEF MarkInvalid, files
<1>2. \A q \in Root : /\ roots'[q].valid => roots[q].valid
                      /\ roots'[q].hash = roots[q].hash /\ roots'[q].result = roots[q].result
  BY <1>0 DEF MarkInvalid, TypeOK
<1>3. Steady
  BY <1>1, <1>2 DEF Steady, KnownKept, RootsKept, Known
<1>4. call'[c] = [call[c] EXCEPT !.pc = "load", !.hit = FALSE, !.hash = Nothing, !.todo = {}]
  BY <1>0 DEF MarkInvalid
<1>5. call'[c].pc = "load" /\ ~call'[c].hit /\ call'[c].hash = Nothing
  BY <1>0, <1>4 DEF CallState
<1>6. CallInv(c)'
  <2>1. \A f \in File : content'[f] \in during'[c][f]
    BY <1>0, <1>1 DEF MarkInvalid, CallInv, BorderInv
  <2> QED
    BY <1>5, <2>1, CallEnds
<1>7. \A d \in Call : CallInv(d)'
  BY <1>1, <1>3, <1>6, OthersUndisturbed DEF CacheInv
<1>8. DocumentInv' /\ EntryInv'
  <2>1. \A d \in Call : call[d].pc = "invalidate" => call'[d] = call[d]
    BY <1>1 DEF MarkInvalid
  <2>2. \A q \in Root, f \in File : Told(q, f) => Told(q, f)'
    BY <1>1, <1>2 DEF Told
  <2> QED
    BY <1>1, <1>2, <2>1, <2>2 DEF CacheInv, DocumentInv, EntryInv
<1> QED
  BY <1>0, <1>7, <1>8 DEF CacheInv

\* storeResult stores what was loaded, under the hashes of what was loaded.
LEMMA StoreInv ==
  ASSUME CacheInv, NEW c \in Call, Store(c)
  PROVE  CacheInv'
<1> DEFINE r == call[c].root
           mine == call[c]
<1>0. /\ TypeOK /\ TypeInv' /\ CallInv(c) /\ mine.root \in Root /\ mine \in CallState
      /\ call \in [Call -> CallState] /\ mine.pc = "hash" /\ mine.todo = {}
  BY CacheType DEF CacheInv, TypeInv, TypeOK, PlaceInv, Store
<1>1. /\ content' = content /\ documents' = documents /\ during' = during /\ misread' = misread
      /\ call'[c] = Served(mine, mine.loaded) /\ \A d \in Call \ {c} : call'[d] = call[d]
  BY <1>0 DEF Store, Serve, files
<1>2. /\ roots' = [roots EXCEPT ![r] = [valid |-> TRUE, hash |-> mine.hash, result |-> mine.loaded]]
      /\ \A f \in File : dependents'[f] = IF mine.hash[f] # Absent THEN dependents[f] \cup {r}
                                          ELSE dependents[f] \ {r}
  BY DEF Store
<1>3. ~mine.hit
  BY <1>0 DEF CallInv, VerifyInv, SnapshotPoints
<1>4. /\ \A f \in File : mine.hash[f] # Absent => mine.hash[f] = content[f] /\ Known(f)
      /\ \A f \in File : mine.loaded[f] = mine.hash[f]
  BY <1>0, <1>3 DEF CallInv, HashInv
<1>5. /\ roots'[r].valid /\ roots'[r].hash = mine.hash /\ roots'[r].result = mine.loaded
      /\ \A q \in Root \ {r} : roots'[q] = roots[q]
  BY <1>0, <1>2 DEF TypeOK
<1>6. Steady
  BY <1>1, <1>4, <1>5 DEF Steady, KnownKept, RootsKept, Known, Current
<1>7. CallInv(c)'
  <2>1. \A f \in File : content'[f] \in during'[c][f]
    BY <1>0, <1>1 DEF CallInv, BorderInv
  <2>2. call'[c].pc = "end" /\ ~call'[c].hit /\ call'[c].hash = Nothing
    BY <1>1 DEF Served, Idle
  <2> QED
    BY <2>1, <2>2, CallEnds
<1>8. \A d \in Call : CallInv(d)'
  BY <1>1, <1>6, <1>7, OthersUndisturbed DEF CacheInv
<1>9. ASSUME NEW q \in Root, NEW f \in File
      PROVE  /\ roots'[q].hash[f] # Absent <=> q \in dependents'[f]
             /\ roots'[q].valid => roots'[q].result[f] = roots'[q].hash[f]
             /\ roots'[q].valid /\ roots'[q].hash[f] # Absent =>
                  /\ documents'[f].state # "unknown"
                  /\ \/ Told(q, f)'
                     \/ \E d \in Call : call'[d].pc = "invalidate" /\ call'[d].cur = f
  <2>1. CASE q = r
    <3>1. roots'[q].hash[f] # Absent <=> q \in dependents'[f]
      BY <1>2, <1>5, <2>1
    <3>2. roots'[q].result[f] = roots'[q].hash[f]
      BY <1>4, <1>5, <2>1
    <3>3. ASSUME roots'[q].hash[f] # Absent
          PROVE  documents'[f].state # "unknown" /\ Told(q, f)'
      <4>1. Known(f) /\ roots'[q].hash[f] = content[f]
        BY <1>4, <1>5, <2>1, <3>3
      <4> QED
        BY <1>1, <4>1 DEF Known, Told
    <3> QED
      BY <3>1, <3>2, <3>3
  <2>2. CASE q # r
    <3>1. q \in dependents'[f] <=> q \in dependents[f]
      BY <1>2, <2>2
    <3>2. roots'[q] = roots[q]
      BY <1>5, <2>2
    <3>3. Told(q, f) => Told(q, f)'
      BY <1>1, <3>2 DEF Told
    <3>4. \A d \in Call : call[d].pc = "invalidate" => call'[d] = call[d]
      BY <1>0, <1>1
    <3> QED
      BY <1>1, <3>1, <3>2, <3>3, <3>4 DEF CacheInv, EntryInv
  <2> QED
    BY <2>1, <2>2
<1>10. EntryInv'
  BY <1>9 DEF EntryInv
<1>11. DocumentInv'
  BY <1>1 DEF CacheInv, DocumentInv
<1> QED
  BY <1>0, <1>8, <1>10, <1>11 DEF CacheInv

\* A snapshot is stored: a hash that is no longer the file's sends the call to
\* invalidate what depends on it.
LEMMA PutInv ==
  ASSUME CacheInv, NEW c \in Call, Put(c)
  PROVE  CacheInv'
<1> DEFINE mine == call[c]
<1>0. /\ TypeOK /\ TypeInv' /\ CallInv(c) /\ mine.root \in Root /\ mine \in CallState
      /\ call \in [Call -> CallState] /\ mine.pc = "put" /\ documents \in [File -> Record]
      /\ content \in [File -> Content]
  BY CacheType DEF CacheInv, TypeInv, TypeOK, PlaceInv, Put
<1>1. PICK f \in File : f = mine.cur
  BY DEF CacheInv, TypeInv, PlaceInv, SnapshotPoints, Put
<1>2. PICK record \in Record : record = mine.record
  BY <1>0 DEF CallState
<1> DEFINE changed == IF mine.stamp = Absent THEN documents[f].state = "good"
                      ELSE documents[f].state # "good" \/ documents[f].hash # record.hash
<1>3. /\ documents' = [documents EXCEPT ![f] = record] /\ misread' = Misread(f, record)
      /\ content' = content /\ during' = during /\ roots' = roots /\ dependents' = dependents
      /\ \A d \in Call \ {c} : call'[d] = call[d]
  BY <1>0, <1>1, <1>2 DEF Put, Goto, files
<1>4. /\ changed => call'[c] = [mine EXCEPT !.pc = "invalidate"]
      /\ ~changed => call'[c] = AfterSnapshot(c, record)
  BY <1>0, <1>1, <1>2 DEF Put, Goto
<1>5. /\ f \in mine.todo /\ mine.stamp \in {content[f], Absent}
      /\ \/ mine.stamp = Absent /\ record = Missing
         \/ mine.stamp # Absent /\ record \in {Unreadable, Good(content[f], content[f])}
  BY <1>0, <1>1, <1>2 DEF CallInv, SnapshotInv, SnapshotPoints
<1>6. /\ record.state \in {"missing", "unreadable", "good"}
      /\ record.state = "good" => record.stamp = content[f] /\ record.hash = content[f] /\ content[f] # Absent
      /\ record.state = "missing" <=> mine.stamp = Absent
      /\ record.state # "good" => record.hash = Absent
  BY <1>5 DEF Missing, Unreadable, Good
<1>7. /\ documents'[f] = record /\ \A g \in File \ {f} : documents'[g] = documents[g]
      /\ \A g \in File \ {f} : g \in misread' <=> g \in misread
      /\ record.state = "unreadable" => f \in misread'
      /\ record.state = "missing" => misread \subseteq misread'
      /\ record.state = "missing" /\ content[f] # Absent => f \in misread'
  BY <1>0, <1>3, <1>6 DEF Misread
<1>8. Steady
  BY <1>3, <1>6, <1>7 DEF Steady, KnownKept, RootsKept, Known
<1>9. content[f] # Absent => Known(f)'
  BY <1>3, <1>6, <1>7 DEF Known
<1>10. CallInv(c)'
  <2>1. CASE ~changed
    BY <1>0, <1>1, <1>3, <1>4, <1>6, <1>8, <1>9, <2>1, SnapshotTaken DEF SnapshotPoints
  <2>2. CASE changed
    <3>1. LET next == call'[c] IN
          /\ next.pc = "invalidate" /\ next.root = mine.root /\ next.hit = mine.hit
          /\ next.todo = mine.todo /\ next.cur = f /\ next.stamp = mine.stamp
          /\ next.record = record /\ next.hash = mine.hash /\ next.loaded = mine.loaded
      BY <1>0, <1>1, <1>2, <1>4, <2>2 DEF CallState
    <3>2. SnapshotInv(c)'
      <4>1. record.state = "good" => Known(f)'
        BY <1>6, <1>9
      <4>2. record.state = "good" => \A g \in File : g = call'[c].cur => Known(g)'
        BY <3>1, <4>1
      <4>3. record.state = "good" => Known(call[c].cur)'
        BY <1>3, <1>6, <1>7, <3>1 DEF Known
      <4> QED
        BY <1>3, <1>5, <3>1, <4>3 DEF SnapshotInv
    <3>3. VerifyInv(c)'
      BY <1>0, <1>3, <3>1 DEF CallInv, VerifyInv, Current, SnapshotPoints
    <3>4. HashInv(c)'
      <4>1. Fresh(mine.root, mine.loaded) => Fresh(call[c].root, call[c].loaded)'
        BY <1>3, <3>1 DEF Fresh, FreshFile, Workspace
      <4> QED
        BY <1>0, <1>3, <1>8, <3>1, <4>1 DEF CallInv, HashInv, Steady, KnownKept, SnapshotPoints
    <3> QED
      BY <1>0, <1>3, <3>1, <3>2, <3>3, <3>4 DEF CallInv, LoadInv, BorderInv
  <2> QED
    BY <2>1, <2>2
<1>11. \A d \in Call : CallInv(d)'
  BY <1>3, <1>8, <1>10, OthersUndisturbed DEF CacheInv
<1>12. DocumentInv'
  BY <1>6, <1>7 DEF CacheInv, DocumentInv
<1>13. ASSUME NEW q \in Root, NEW g \in File, roots[q].valid, roots[q].hash[g] # Absent
       PROVE  /\ documents'[g].state # "unknown"
              /\ \/ Told(q, g)'
                 \/ \E d \in Call : call'[d].pc = "invalidate" /\ call'[d].cur = g
  <2>1. /\ documents[g].state # "unknown"
        /\ \/ Told(q, g)
           \/ \E d \in Call : call[d].pc = "invalidate" /\ call[d].cur = g
    BY <1>13 DEF CacheInv, EntryInv
  <2>2. \A d \in Call : call[d].pc = "invalidate" => call'[d] = call[d]
    BY <1>0, <1>3
  <2>3. CASE g # f
    BY <1>3, <1>7, <2>1, <2>2, <2>3 DEF Told
  <2>4. CASE g = f /\ changed
    <3>1. call'[c].pc = "invalidate" /\ call'[c].cur = f
      BY <1>0, <1>1, <1>4, <2>4 DEF CallState
    <3> QED
      BY <1>6, <1>7, <2>4, <3>1
  <2>5. CASE g = f /\ ~changed
    <3>1. CASE Told(q, g)
      <4>1. CASE mine.stamp = Absent
        <5>1. documents[f].state \in {"missing", "unreadable"}
          BY <1>0, <1>5, <2>1, <2>5, <4>1 DEF Record
        <5>2. f \in misread
          BY <2>5, <3>1, <5>1 DEF Told, CacheInv, DocumentInv
        <5> QED
          BY <1>3, <1>6, <1>7, <2>5, <4>1, <5>2 DEF Told
      <4>2. CASE mine.stamp # Absent
        <5>1. documents[f].state = "good" /\ documents[f].hash = record.hash
          BY <1>5, <2>5, <4>2
        <5>2. documents[f].hash = roots[q].hash[f]
          BY <2>5, <3>1, <5>1 DEF Told
        <5> QED
          BY <1>3, <1>6, <1>7, <2>5, <4>2, <5>1, <5>2 DEF Told
      <4> QED
        BY <4>1, <4>2
    <3> QED
      BY <1>6, <1>7, <2>1, <2>2, <2>5, <3>1
  <2> QED
    BY <2>3, <2>4, <2>5
<1>14. EntryInv'
  BY <1>3, <1>13 DEF CacheInv, EntryInv
<1> QED
  BY <1>0, <1>11, <1>12, <1>14 DEF CacheInv

\* invalidateDependents reaches every entry that was computed from the file.
LEMMA InvalidateInv ==
  ASSUME CacheInv, NEW c \in Call, Invalidate(c)
  PROVE  CacheInv'
<1> DEFINE mine == call[c]
<1>0. /\ TypeOK /\ TypeInv' /\ CallInv(c) /\ mine.root \in Root /\ mine \in CallState
      /\ call \in [Call -> CallState] /\ mine.pc = "invalidate"
      /\ content \in [File -> Content] /\ dependents \in [File -> SUBSET Root]
  BY CacheType DEF CacheInv, TypeInv, TypeOK, PlaceInv, Invalidate
<1>1. PICK f \in File : f = mine.cur
  BY DEF CacheInv, TypeInv, PlaceInv, SnapshotPoints, Invalidate
<1>2. /\ content' = content /\ documents' = documents /\ during' = during /\ misread' = misread
      /\ dependents' = dependents /\ call'[c] = AfterSnapshot(c, mine.record)
      /\ \A d \in Call \ {c} : call'[d] = call[d]
  BY <1>0 DEF Invalidate, files
<1>3. dependents[f] \subseteq DependsOn(f)
  BY <1>0 DEF DependsOn
<1>4. \A q \in Root :
        /\ roots'[q].valid => roots[q].valid /\ q \notin DependsOn(f)
        /\ roots'[q].hash = roots[q].hash /\ roots'[q].result = roots[q].result
  <2>1. roots' = [q \in Root |-> IF q \in DependsOn(f) THEN [roots[q] EXCEPT !.valid = FALSE]
                                 ELSE roots[q]]
    BY <1>1 DEF Invalidate
  <2> QED
    BY <1>0, <2>1 DEF TypeOK
<1>5. Steady
  BY <1>2, <1>4 DEF Steady, KnownKept, RootsKept, Known
<1>6. CallInv(c)'
  <2>1. mine.record \in Record
    BY <1>0 DEF CallState
  <2>2. mine.record.state = "good" => mine.record.hash = content[f] /\ Known(f)
    BY <1>0, <1>1 DEF CallInv, SnapshotInv, SnapshotPoints, Missing, Unreadable, Good
  <2>3. mine.record.state = "good" => Known(f)'
    BY <1>2, <2>2 DEF Known
  <2> QED
    BY <1>0, <1>1, <1>2, <1>5, <2>1, <2>2, <2>3, SnapshotTaken DEF SnapshotPoints
<1>7. \A d \in Call : CallInv(d)'
  BY <1>2, <1>5, <1>6, OthersUndisturbed DEF CacheInv
<1>8. DocumentInv'
  BY <1>2 DEF CacheInv, DocumentInv
<1>9. ASSUME NEW q \in Root, NEW g \in File, roots'[q].valid, roots[q].hash[g] # Absent
      PROVE  \/ Told(q, g)'
             \/ \E d \in Call : call'[d].pc = "invalidate" /\ call'[d].cur = g
  <2>1. g # f
    BY <1>3, <1>4, <1>9 DEF CacheInv, EntryInv
  <2>2. \/ Told(q, g)
        \/ \E d \in Call : call[d].pc = "invalidate" /\ call[d].cur = g
    BY <1>4, <1>9 DEF CacheInv, EntryInv
  <2>3. \A d \in Call : call[d].cur = g => call'[d] = call[d]
    BY <1>1, <1>2, <2>1
  <2>4. Told(q, g) => Told(q, g)'
    BY <1>2, <1>4 DEF Told
  <2> QED
    BY <2>2, <2>3, <2>4
<1>10. EntryInv'
  BY <1>2, <1>4, <1>9 DEF CacheInv, EntryInv
<1> QED
  BY <1>0, <1>7, <1>8, <1>10 DEF CacheInv

\* A call that has returned, or not begun, says nothing of the files.
LEMMA CallRests ==
  ASSUME NEW c \in Call, ~call'[c].hit, call'[c].hash = Nothing, call'[c].pc = "idle"
  PROVE  CallInv(c)'
  BY DEF CallInv, SnapshotInv, VerifyInv, HashInv, LoadInv, BorderInv, SnapshotPoints, Nothing

\* begin cancels the call that runs on the same root, which stays where it is.
LEMMA BeginInv ==
  ASSUME CacheInv, NEW c \in Call, NEW r \in Root, Begin(c, r)
  PROVE  CacheInv'
<1>0. /\ TypeInv' /\ TypeInv /\ call \in [Call -> CallState] /\ during \in [Call -> [File -> SUBSET Content]]
  BY BorderType DEF CacheInv, TypeInv, TypeOK
<1>1. UNCHANGED <<files, cache>> /\ content' = content
  BY DEF Begin, files
<1>2. Steady
  BY <1>1 DEF files, cache, Steady, KnownKept, RootsKept, Known
<1>3. call'[c] = [Idle EXCEPT !.pc = "lookup", !.root = r]
  BY DEF Begin
<1>4. \A d \in Call \ {c} : /\ call'[d] \in {call[d], [call[d] EXCEPT !.cancelled = TRUE]}
                            /\ during'[d] = during[d]
  BY <1>0 DEF Begin
<1>5. CallInv(c)'
  <2>1. call'[c].pc = "lookup" /\ ~call'[c].hit /\ call'[c].hash = Nothing
    BY <1>3 DEF Idle
  <2>2. \A f \in File : content'[f] \in during'[c][f]
    BY <1>0, <1>1 DEF Begin
  <2> QED
    BY <2>1, <2>2, CallEnds
<1>6. \A d \in Call : CallInv(d)'
  BY <1>0, <1>2, <1>4, <1>5, OthersUndisturbed DEF CacheInv
<1>7. \A d \in Call : call[d].pc = "invalidate" =>
                        call'[d].pc = "invalidate" /\ call'[d].cur = call[d].cur
  <2>1. call[c].pc = "idle"
    BY DEF Begin
  <2>2. \A d \in Call : call[d] \in CallState
    BY <1>0
  <2> QED
    BY <1>4, <2>1, <2>2 DEF CallState
<1>8. DocumentInv' /\ EntryInv'
  BY <1>1, <1>7 DEF CacheInv, DocumentInv, EntryInv, Told, cache
<1> QED
  BY <1>0, <1>6, <1>8 DEF CacheInv

\* end: the call is over.
LEMMA EndInv ==
  ASSUME CacheInv, NEW c \in Call, End(c)
  PROVE  CacheInv'
<1>0. /\ TypeInv' /\ TypeInv /\ call \in [Call -> CallState] /\ during \in [Call -> [File -> SUBSET Content]]
  BY BorderType DEF CacheInv, TypeInv, TypeOK
<1>1. UNCHANGED <<files, cache>>
  BY DEF End
<1>2. Steady
  BY <1>1 DEF files, cache, Steady, KnownKept, RootsKept, Known
<1>3. call'[c] = Idle /\ \A d \in Call \ {c} : call'[d] = call[d] /\ during'[d] = during[d]
  BY <1>0 DEF End
<1>4. CallInv(c)'
  BY <1>3, CallRests DEF Idle
<1>5. \A d \in Call : CallInv(d)'
  BY <1>0, <1>2, <1>3, <1>4, OthersUndisturbed DEF CacheInv
<1>6. \A d \in Call : call[d].pc = "invalidate" => call'[d] = call[d]
  BY <1>3 DEF End
<1>7. DocumentInv' /\ EntryInv'
  BY <1>1, <1>6, SameCache
<1> QED
  BY <1>0, <1>5, <1>7 DEF CacheInv

\* Another program writes while no call runs.
LEMMA ChangeInv ==
  ASSUME CacheInv, Change, "during" \notin Faults
  PROVE  CacheInv'
<1>1. \A c \in Call : call[c].pc = "idle" /\ ~call[c].hit /\ call[c].hash = Nothing
  BY DEF Change, CacheInv, CallInv, BorderInv
<1>2. UNCHANGED <<cache, call>>
  BY DEF Change
<1>3. \A c \in Call : CallInv(c)'
  BY <1>1, <1>2, CallRests
<1>4. DocumentInv' /\ EntryInv'
  BY <1>2, SameCache
<1> QED
  BY <1>3, <1>4, BorderType DEF CacheInv

\* The cache starts empty.
LEMMA CacheInit == Init => CacheInv
<1> SUFFICES ASSUME Init PROVE CacheInv
  OBVIOUS
<1>1. DocumentInv /\ EntryInv
  BY DEF Init, DocumentInv, EntryInv, Unknown, Nothing
<1>2. ASSUME NEW c \in Call PROVE CallInv(c)
  <2>1. call[c] = Idle
    BY DEF Init
  <2> QED
    BY <2>1 DEF CallInv, SnapshotInv, VerifyInv, HashInv, LoadInv, BorderInv, SnapshotPoints,
                Nothing, Idle
<1> QED
  BY <1>1, <1>2, TypeInit DEF CacheInv

\* Where the files stay as they are while calls run, every step keeps the invariant.
LEMMA CacheNext ==
  ASSUME "during" \notin Faults, CacheInv, [Next]_vars
  PROVE  CacheInv'
<1>1. CASE UNCHANGED vars
  <2>1. TypeInv'
    BY <1>1, TypeNext DEF CacheInv
  <2>2. Steady /\ during' = during /\ call' = call /\ UNCHANGED cache
    BY <1>1, SameCacheIsSteady DEF vars
  <2>3. \A c \in Call : CallInv(c)'
    BY <2>2, OthersUndisturbed DEF CacheInv
  <2> QED
    BY <2>1, <2>2, <2>3, SameCache DEF CacheInv
<1>2. CASE Change
  BY <1>2, ChangeInv
<1>3. ASSUME NEW c \in Call, Step(c)
      PROVE  CacheInv'
  BY <1>3, MovesInv, MarkInvalidInv, StoreInv, PutInv, InvalidateInv, EndInv DEF Step
<1>4. ASSUME NEW c \in Call, NEW r \in Root, Begin(c, r)
      PROVE  CacheInv'
  BY <1>4, BeginInv
<1> QED
  BY <1>1, <1>2, <1>3, <1>4 DEF Next

\* What any call has seen of a file invalidated every result computed from it, however
\* many calls put snapshots and results into the cache at the same time.
THEOREM ChangesInvalidate ==
  ASSUME "during" \notin Faults
  PROVE  Spec => []SeenChangesInvalidate
<1>1. CacheInv /\ [Next]_vars => CacheInv'
  BY CacheNext
<1>2. CacheInv => SeenChangesInvalidate
  BY DEF CacheInv, EntryInv, Told, SeenChangesInvalidate
<1> QED
  BY CacheInit, <1>1, <1>2, PTL DEF Spec
-----------------------------------------------------------------------------
\* A snapshot ends no call with a result.
LEMMA SnapshotReturnsNothing ==
  ASSUME TypeOK, NEW c \in Call, NEW record \in Record
  PROVE  LET next == AfterSnapshot(c, record) IN ~(next.pc = "end" /\ next.outcome = "ok")
  BY DEF AfterSnapshot, Failed, TypeOK, CallState, Idle

\* No step of a call writes a file.
LEMMA StepKeepsFiles ==
  ASSUME NEW c \in Call, Step(c)
  PROVE  content' = content
<1>1. CASE Lookup(c) \/ Hit(c) \/ MarkInvalid(c) \/ LoadRoot(c) \/ LoadFile(c) \/ Loaded(c) \/ Store(c)
  BY <1>1 DEF Lookup, Hit, MarkInvalid, LoadRoot, LoadFile, Loaded, Store, files
<1>2. CASE End(c) \/ Stat(c) \/ Look(c) \/ Read(c) \/ Put(c) \/ Invalidate(c)
  BY <1>2 DEF End, Stat, Look, Read, Put, Invalidate, files
<1>3. CASE GiveUp(c) \/ GiveUpInSnapshot(c)
  BY <1>3 DEF GiveUp, GiveUpInSnapshot, files
<1> QED
  BY <1>1, <1>2, <1>3 DEF Step

\* A call returns a result when hit finds the entry valid or storeResult has stored it.
LEMMA OnlyServed ==
  ASSUME TypeInv, [Next]_vars, NEW d \in Call, Returning(d)'
  PROVE  \/ /\ Returning(d)
            /\ call'[d].root = call[d].root /\ call'[d].loaded = call[d].loaded
            /\ content' = content
         \/ Change
         \/ Hit(d) /\ roots[call[d].root].valid
              /\ call'[d].root = call[d].root /\ call'[d].loaded = roots[call[d].root].result
         \/ Store(d) /\ call'[d].root = call[d].root /\ call'[d].loaded = call[d].loaded
<1>0. /\ TypeOK /\ call \in [Call -> CallState] /\ \A c \in Call : call[c] \in CallState
      /\ documents \in [File -> Record]
  BY DEF TypeInv, TypeOK
<1>1. CASE UNCHANGED vars
  BY <1>1 DEF vars, files, Returning
<1>2. CASE Change
  BY <1>2
<1>3. ASSUME NEW c \in Call, NEW r \in Root, Begin(c, r)
      PROVE  /\ Returning(d) /\ call'[d].root = call[d].root /\ call'[d].loaded = call[d].loaded
             /\ content' = content
  <2>1. call'[c].pc = "lookup"
    BY <1>3 DEF Begin, Idle
  <2>2. call'[d] \in {call[d], [call[d] EXCEPT !.cancelled = TRUE]}
    BY <1>3, <2>1 DEF Begin, Returning
  <2> QED
    BY <1>0, <1>3, <2>2 DEF Begin, CallState, Returning, files
<1>4. ASSUME NEW c \in Call, Step(c), c # d
      PROVE  /\ Returning(d) /\ call'[d].root = call[d].root /\ call'[d].loaded = call[d].loaded
             /\ content' = content
  <2>1. content' = content
    BY <1>4, StepKeepsFiles
  <2>2. CASE LoadFile(c) \/ Stat(c) \/ Read(c)
    <3>1. call'[d] = call[d]
      BY <1>0, <1>4, <2>2 DEF LoadFile, Stat, Read
    <3> QED
      BY <2>1, <3>1 DEF Returning
  <2>3. CASE Lookup(c) \/ Hit(c) \/ MarkInvalid(c) \/ LoadRoot(c) \/ Loaded(c) \/ Store(c)
    <3>1. call'[d] = call[d]
      BY <1>0, <1>4, <2>3 DEF Lookup, Hit, MarkInvalid, LoadRoot, Loaded, Store, Serve
    <3> QED
      BY <2>1, <3>1 DEF Returning
  <2>4. CASE End(c) \/ Look(c) \/ Put(c) \/ Invalidate(c) \/ GiveUp(c) \/ GiveUpInSnapshot(c)
    <3>1. call'[d] = call[d]
      BY <1>0, <1>4, <2>4 DEF End, Look, Put, Invalidate, GiveUp, GiveUpInSnapshot, Goto
    <3> QED
      BY <2>1, <3>1 DEF Returning
  <2> QED
    BY <1>4, <2>2, <2>3, <2>4 DEF Step
<1>5. ASSUME Step(d)
      PROVE  \/ Hit(d) /\ roots[call[d].root].valid
                  /\ call'[d].root = call[d].root /\ call'[d].loaded = roots[call[d].root].result
             \/ Store(d) /\ call'[d].root = call[d].root /\ call'[d].loaded = call[d].loaded
  <2>1. CASE Hit(d)
    <3> DEFINE again == [call[d] EXCEPT !.pc = "load", !.hit = FALSE, !.hash = Nothing]
    <3>1. CASE roots[call[d].root].valid
      <4>1. call'[d] = Served(call[d], roots[call[d].root].result)
        BY <1>0, <2>1, <3>1 DEF Hit, Serve
      <4> QED
        BY <2>1, <3>1, <4>1 DEF Served, Idle
    <3>2. CASE ~roots[call[d].root].valid
      <4>1. call'[d] = again /\ again.pc = "load"
        BY <1>0, <2>1, <3>2 DEF Hit, CallState
      <4> QED
        BY <4>1, <1>5 DEF Returning
    <3> QED
      BY <3>1, <3>2
  <2>2. CASE Store(d)
    BY <1>0, <2>2 DEF Store, Serve, Served, Idle
  <2>3. CASE Lookup(d) \/ MarkInvalid(d) \/ LoadRoot(d) \/ Loaded(d) \/ GiveUpInSnapshot(d)
    <3>0. call \in [Call -> CallState] /\ call[d] \in CallState
      BY <1>0
    <3>1. Lookup(d) => call'[d].pc \in {"verify", "load"}
      BY <3>0 DEF Lookup, CallState
    <3>2. MarkInvalid(d) => call'[d].pc = "load"
      BY <3>0 DEF MarkInvalid, CallState
    <3>3. LoadRoot(d) => call'[d].pc = "loading"
      BY <3>0 DEF LoadRoot, CallState
    <3>4. Loaded(d) => call'[d].pc = "hash"
      BY <3>0 DEF Loaded, CallState
    <3>5. GiveUpInSnapshot(d) => call'[d].pc = "stale"
      BY <3>0 DEF GiveUpInSnapshot, CallState
    <3> QED
      BY <1>5, <2>3, <3>1, <3>2, <3>3, <3>4, <3>5 DEF Returning
  <2>4. CASE End(d) \/ GiveUp(d)
    <3>1. call'[d] \in {Idle, Failed(call[d])}
      BY <1>0, <2>4 DEF End, GiveUp
    <3>2. Idle.outcome = "none" /\ Failed(call[d]).outcome = "error"
      BY DEF Failed, Idle
    <3> QED
      BY <1>5, <3>1, <3>2 DEF Returning
  <2>5. CASE LoadFile(d)
    <3>p. PICK f \in call[d].todo : \E v \in Found(f, "load") :
            call' = [call EXCEPT ![d].todo = @ \ {f}, ![d].loaded[f] = v]
      BY <2>5 DEF LoadFile
    <3>1. PICK v \in Found(f, "load") :
            call' = [call EXCEPT ![d].todo = @ \ {f}, ![d].loaded[f] = v]
      BY <3>p
    <3>2. call'[d].pc = "loading"
      BY <1>0, <2>5, <3>1 DEF LoadFile, CallState
    <3> QED
      BY <3>2 DEF Returning
  <2>6. CASE Stat(d)
    <3>1. call'[d].pc \in {"put", "look"}
      BY <1>0, <2>6 DEF Stat, CallState
    <3> QED
      BY <3>1 DEF Returning
  <2>7. CASE Read(d)
    <3>1. call'[d].pc = "put"
      BY <1>0, <2>7 DEF Read, CallState
    <3> QED
      BY <3>1 DEF Returning
  <2>8. CASE Look(d) \/ Put(d) \/ Invalidate(d)
    <3>1. call[d].cur \in File /\ call[d].record \in Record
      BY <1>0, <2>8 DEF Look, Put, Invalidate, TypeInv, PlaceInv, SnapshotPoints, CallState
    <3>2. \/ call'[d].pc \in {"read", "invalidate"}
          \/ \E record \in Record : call'[d] = AfterSnapshot(d, record)
      BY <1>0, <2>8, <3>1 DEF Look, Put, Invalidate, Goto, CallState
    <3> QED
      BY <1>0, <3>2, SnapshotReturnsNothing DEF Returning
  <2> QED
    BY <1>5, <2>1, <2>2, <2>3, <2>4, <2>5, <2>6, <2>7, <2>8 DEF Step
<1> QED
  BY <1>1, <1>2, <1>3, <1>4, <1>5 DEF Next

\* An entry becomes valid only when storeResult stores it.
LEMMA OnlyStored ==
  ASSUME TypeInv, [Next]_vars, NEW r \in Root, roots'[r].valid
  PROVE  \/ roots[r].valid /\ roots'[r].result = roots[r].result
         \/ \E c \in Call : /\ Store(c) /\ call[c].root = r
                            /\ roots'[r].result = call[c].loaded
<1>0. \A c \in Call : call[c].pc # "idle" => call[c].root \in Root
  BY DEF TypeInv, PlaceInv
<1>1. CASE UNCHANGED roots
  BY <1>1
<1>2. ASSUME NEW c \in Call, MarkInvalid(c)
      PROVE  roots[r].valid /\ roots'[r].result = roots[r].result
  BY <1>2 DEF MarkInvalid, TypeInv, TypeOK
<1>3. ASSUME NEW c \in Call, Invalidate(c)
      PROVE  roots[r].valid /\ roots'[r].result = roots[r].result
  BY <1>3 DEF Invalidate, TypeInv, TypeOK
<1>4. ASSUME NEW c \in Call, Store(c)
      PROVE  \/ roots[r].valid /\ roots'[r].result = roots[r].result
             \/ call[c].root = r /\ roots'[r].result = call[c].loaded
  BY <1>0, <1>4 DEF Store, TypeInv, TypeOK
<1>5. ASSUME NEW c \in Call, Step(c), ~MarkInvalid(c), ~Invalidate(c), ~Store(c)
      PROVE  UNCHANGED roots
  <2>1. CASE Lookup(c) \/ Hit(c) \/ LoadRoot(c) \/ LoadFile(c) \/ Loaded(c) \/ End(c)
    BY <2>1 DEF Lookup, Hit, LoadRoot, LoadFile, Loaded, End, cache
  <2>2. CASE Stat(c) \/ Look(c) \/ Read(c) \/ Put(c) \/ GiveUp(c) \/ GiveUpInSnapshot(c)
    BY <2>2 DEF Stat, Look, Read, Put, GiveUp, GiveUpInSnapshot, cache
  <2> QED
    BY <1>5, <2>1, <2>2 DEF Step
<1>6. CASE UNCHANGED vars \/ Change \/ \E c \in Call, q \in Root : Begin(c, q)
  BY <1>1, <1>6 DEF vars, cache, Change, Begin
<1> QED
  BY <1>1, <1>2, <1>3, <1>4, <1>5, <1>6 DEF Next

\* Where no file is written under a call, what is served is what the files of the
\* workspace hold, but for what the result may have overlooked.
LEMMA FreshNext ==
  ASSUME "during" \notin Faults, CacheInv, FreshInv, [Next]_vars
  PROVE  FreshInv'
<1>0. TypeInv
  BY DEF CacheInv
<1>1. ASSUME NEW c \in Call, Store(c)
      PROVE  /\ Fresh(call[c].root, call[c].loaded)
             /\ content' = content
  <2>1. ~call[c].hit
    BY <1>1 DEF CacheInv, CallInv, VerifyInv, Store, SnapshotPoints
  <2> QED
    BY <1>1, <2>1 DEF CacheInv, CallInv, HashInv, Store, files
<1>2. StillMissing'
  <2> SUFFICES ASSUME ~MayOverlook PROVE StillMissing'
    BY DEF StillMissing
  <2>1. ASSUME NEW f \in File, content[f] = Absent
        PROVE  content'[f] = Absent
    <3>1. CASE Change
      BY <2>1, <3>1, <1>0 DEF Change, MayOverlook, TypeInv, TypeOK
    <3>2. CASE content' = content
      BY <2>1, <3>2
    <3> QED
      BY <3>1, <3>2, StepKeepsFiles DEF Next, vars, files, Begin
  <2>2. ASSUME NEW r \in Root, roots'[r].valid, NEW f \in Workspace(r, roots'[r].result),
               roots'[r].result[f] = Absent
        PROVE  content'[f] = Absent
    <3>1. f \in File
      BY <2>2, RootAssumption, RefsAssumption DEF Workspace, RootAssumption, RefsAssumption
    <3>2. CASE roots[r].valid /\ roots'[r].result = roots[r].result
      BY <2>1, <2>2, <3>1, <3>2 DEF FreshInv, StillMissing, Workspace
    <3>3. ASSUME NEW c \in Call, Store(c), call[c].root = r, roots'[r].result = call[c].loaded
          PROVE  content'[f] = Absent
      BY <1>1, <2>2, <3>3 DEF Fresh, FreshFile
    <3> QED
      BY <1>0, <2>2, <3>2, <3>3, OnlyStored
  <2> QED
    BY <2>2 DEF StillMissing, Workspace
<1>3. ASSUME NEW c \in Call, Returning(c)'
      PROVE  Fresh(call[c].root, call[c].loaded)'
  <2>1. ~Change
    BY <1>3 DEF Change, Returning
  <2>2. CASE /\ Returning(c) /\ content' = content
             /\ call'[c].root = call[c].root /\ call'[c].loaded = call[c].loaded
    BY <2>2 DEF FreshInv, Fresh, FreshFile, Workspace
  <2>3. CASE Store(c) /\ call'[c].root = call[c].root /\ call'[c].loaded = call[c].loaded
    BY <1>1, <2>3 DEF Fresh, FreshFile, Workspace
  <2>4. CASE /\ Hit(c) /\ roots[call[c].root].valid /\ call'[c].root = call[c].root
             /\ call'[c].loaded = roots[call[c].root].result
    <3> DEFINE r == call[c].root
               result == roots[r].result
    <3>1. r \in Root /\ call[c].hit /\ call[c].todo = {} /\ content' = content
      BY <2>4, <1>0 DEF Hit, files, CacheInv, CallInv, BorderInv, TypeInv, PlaceInv
    <3>2. Current(roots[r].hash)
      BY <2>4, <3>1 DEF CacheInv, CallInv, VerifyInv, Current
    <3>3. \A f \in File : result[f] # Absent => result[f] = content[f]
      BY <2>4, <3>1, <3>2 DEF CacheInv, EntryInv, Current
    <3>4. \A f \in Workspace(r, result) : f \in File
      BY <3>1, RootAssumption, RefsAssumption DEF Workspace, RootAssumption, RefsAssumption
    <3>5. \A f \in Workspace(r, result) : FreshFile(f, result)
      BY <2>4, <3>1, <3>3, <3>4 DEF FreshInv, StillMissing, FreshFile
    <3> QED
      BY <2>4, <3>1, <3>5 DEF Fresh, FreshFile, Workspace
  <2> QED
    BY <1>0, <1>3, <2>1, <2>2, <2>3, <2>4, OnlyServed
<1> QED
  BY <1>2, <1>3 DEF FreshInv

\* What is said of results holds of every state.
LEMMA FreshInvariance ==
  ASSUME "during" \notin Faults
  PROVE  Spec => [](CacheInv /\ FreshInv)
<1>1. Init => CacheInv /\ FreshInv
  <2>1. Init => FreshInv
    BY DEF Init, FreshInv, StillMissing, Returning, Idle
  <2> QED
    BY <2>1, CacheInit
<1>2. CacheInv /\ FreshInv /\ [Next]_vars => CacheInv' /\ FreshInv'
  BY CacheNext, FreshNext
<1> QED
  BY <1>1, <1>2, PTL DEF Spec

\* A document of a result that is returned has the bytes that were seen, or it is
\* left out.
LEMMA SeenOrLeftOut ==
  ASSUME CacheInv, FreshInv, NEW c \in Call, Returning(c),
         NEW f \in Workspace(call[c].root, call[c].loaded)
  PROVE  \/ call[c].loaded[f] \in during[c][f]
         \/ MayOverlook /\ call[c].loaded[f] = Absent
<1>1. (\A g \in File : content[g] \in during[c][g]) /\ call[c].root \in Root
  BY DEF CacheInv, CallInv, BorderInv, Returning, TypeInv, PlaceInv
<1>2. f \in File
  BY <1>1, RootAssumption, RefsAssumption DEF Workspace, RootAssumption, RefsAssumption
<1>3. FreshFile(f, call[c].loaded)
  BY DEF FreshInv, Fresh
<1> QED
  BY <1>1, <1>2, <1>3 DEF FreshFile

\* No call returns a document of bytes that its file no longer held when the call
\* began, as long as none is written while calls run; files may appear, the loader
\* and the snapshots may fail to read any file at any time.
THEOREM ResultsAreFresh ==
  ASSUME "during" \notin Faults
  PROVE  Spec => []DocumentsFresh
<1>1. CacheInv /\ FreshInv => DocumentsFresh
  BY SeenOrLeftOut DEF DocumentsFresh
<1> QED
  BY <1>1, FreshInvariance, PTL

\* Where no file appears and the loader can read every file, nothing that was there
\* is left out either.
THEOREM ResultsAreComplete ==
  ASSUME "during" \notin Faults, ~MayOverlook
  PROVE  Spec => []ServedFresh
<1>1. CacheInv /\ FreshInv => ServedFresh
  BY SeenOrLeftOut DEF ServedFresh
<1> QED
  BY <1>1, FreshInvariance, PTL
=============================================================================
