--------------------------- MODULE WorkspaceProofs ---------------------------
(***************************************************************************)
(* What TLAPS proves of the workspace and its files: the newest scan of a  *)
(* session is kept, the output of a command is one whole text, the startup *)
(* manifest lists what is reached, and snapshot ids notice edits.          *)
(***************************************************************************)
EXTENDS WorkspaceSession, OutputFile, StartupManifest, Discovery, FiniteSetTheorems,
        SequenceTheorems, TLAPS

-----------------------------------------------------------------------------
(* The startup manifest *)

FrameSet == [file : ManifestFile, depth : Nat, left : SUBSET ManifestFile]

ManifestType ==
  /\ names \in [ManifestFile -> SUBSET ManifestFile] /\ roots \in SUBSET ManifestFile
  /\ todo \in SUBSET roots /\ walked \in SUBSET ManifestFile /\ manifest \in SUBSET ManifestFile
  /\ stack \in Seq(FrameSet)

\* The walk goes one reference deeper with each file on the stack, and no file is on it
\* twice.
StackInv ==
  /\ Len(stack) <= MaxDepth + 1
  /\ \A i \in 1..Len(stack) : /\ stack[i].file \in walked \cap Definition
                              /\ stack[i].depth = i - 1
                              /\ stack[i].left \subseteq names[stack[i].file]
  /\ \A i, j \in 1..Len(stack) : stack[i].file = stack[j].file => i = j

\* A reference of f that is still to be followed.
Pending(f, g) == \E i \in 1..Len(stack) : stack[i].file = f /\ g \in stack[i].left

\* What is listed was reached, and nothing that was to be followed is forgotten.
ListedInv ==
  /\ walked \subseteq manifest /\ manifest \subseteq Reachable
  /\ \A f \in roots : f \in todo \/ (f \in manifest /\ (f \in Definition => f \in walked))
  /\ \A f \in walked \cap Definition : \A g \in names[f] : g \in manifest \/ Pending(f, g)

\* The depth limit cannot be met.
Shallow == Cardinality(Definition \cap Reachable) <= MaxDepth + 1

\* Where the limit cannot be met, a definition file that is listed is walked.
WalkedInv == Shallow => manifest \cap Definition \subseteq walked

ManifestInv ==
  /\ ManifestType
  /\ \A f \in ManifestFile \ Definition : names[f] = {}
  /\ StackInv /\ ListedInv /\ WalkedInv

\* What is reached is the least set with the roots and what its files name.
LEMMA ReachableFacts ==
  ASSUME names \in [ManifestFile -> SUBSET ManifestFile], roots \in SUBSET ManifestFile
  PROVE  /\ Reachable \in SUBSET ManifestFile /\ Complete(Reachable)
         /\ \A S \in SUBSET ManifestFile : Complete(S) => Reachable \subseteq S
<1>1. Reachable \in SUBSET ManifestFile
  BY DEF Reachable
<1>2. \A S \in SUBSET ManifestFile : Complete(S) => Reachable \subseteq S
  BY DEF Reachable
<1>3. roots \subseteq Reachable
  BY DEF Reachable, Complete
<1>4. ASSUME NEW f \in Reachable, NEW g \in names[f]
      PROVE  g \in Reachable
  <2>1. f \in ManifestFile /\ g \in ManifestFile
    BY <1>1, <1>4
  <2>2. ASSUME NEW S \in SUBSET ManifestFile, Complete(S) PROVE g \in S
    BY <1>2, <1>4, <2>2 DEF Complete
  <2> QED
    BY <2>1, <2>2 DEF Reachable
<1> QED
  BY <1>1, <1>2, <1>3, <1>4 DEF Complete

\* A walk that has gone as deep as the limit allows has entered every definition file
\* that is reached, if these are no more than the limit allows.
LEMMA DeepestWalk ==
  ASSUME ManifestInv, Shallow, Len(stack) = MaxDepth + 1
  PROVE  Definition \cap Reachable \subseteq walked
<1> DEFINE n == MaxDepth + 1
           all == Definition \cap Reachable
           fileAt == [i \in 1..n |-> stack[i].file]
           entered == {fileAt[i] : i \in 1..n}
<1>1. MaxDepth \in Nat /\ n \in Nat /\ n \in Int /\ 1 \in Int /\ n >= 1
  BY ManifestAssumption DEF ManifestAssumption
<1>2. Reachable \in SUBSET ManifestFile
  BY ReachableFacts DEF ManifestInv, ManifestType
<1>3. IsFiniteSet(all)
  BY <1>2, FS_Subset, ManifestAssumption DEF ManifestAssumption
<1>4. \A i \in 1..n : stack[i].file \in walked /\ stack[i].file \in all
  BY DEF ManifestInv, StackInv, ListedInv
<1>5. entered \in SUBSET all /\ entered \subseteq walked
  BY <1>4
<1>6. IsFiniteSet(entered)
  BY <1>3, <1>5, FS_Subset
<1>7. fileAt \in Injection(1..n, entered)
  <2>1. fileAt \in [1..n -> entered]
    OBVIOUS
  <2>2. \A i, j \in 1..n : fileAt[i] = fileAt[j] => i = j
    BY DEF ManifestInv, StackInv
  <2> HIDE DEF fileAt, entered, n
  <2> QED
    BY <2>1, <2>2 DEF Injection, IsInjective
<1> HIDE DEF fileAt, entered, all
<1>8. Cardinality(1..n) = n
  <2> HIDE DEF n
  <2>1. Cardinality(1..n) = IF 1 > n THEN 0 ELSE n - 1 + 1
    BY <1>1, FS_Interval
  <2> QED
    BY <1>1, <2>1
<1>9. n <= Cardinality(entered)
  <2> HIDE DEF n
  <2> QED
    BY <1>6, <1>7, <1>8, FS_Injection
<1>10. Cardinality(all) <= n
  BY DEF Shallow, all
<1>11. /\ Cardinality(entered) <= Cardinality(all)
       /\ Cardinality(all) = Cardinality(entered) => all = entered
  BY <1>3, <1>5, FS_Subset
<1>12. Cardinality(all) \in Nat /\ Cardinality(entered) \in Nat
  BY <1>3, <1>6, FS_CardinalityType
<1>13. all = entered
  <2> HIDE DEF n
  <2> QED
    BY <1>1, <1>9, <1>10, <1>11, <1>12
<1> QED
  BY <1>5, <1>13 DEF all

LEMMA ManifestStart == ManifestInit => ManifestInv
<1> SUFFICES ASSUME ManifestInit PROVE ManifestInv
  OBVIOUS
<1>1. ManifestType
  BY DEF ManifestInit, ManifestType
<1>2. stack = <<>> /\ Len(stack) = 0 /\ walked = {} /\ manifest = {} /\ todo = roots
  BY DEF ManifestInit
<1>3. StackInv
  BY <1>2, ManifestAssumption DEF StackInv, ManifestAssumption
<1>4. ListedInv /\ WalkedInv
  <2>1. walked \subseteq manifest /\ manifest \subseteq Reachable /\ walked \cap Definition = {}
    BY <1>2
  <2>2. \A f \in roots : f \in todo
    BY <1>2
  <2>3. WalkedInv
    BY <1>2 DEF WalkedInv
  <2> QED
    BY <2>1, <2>2, <2>3 DEF ListedInv
<1> QED
  BY <1>1, <1>3, <1>4 DEF ManifestInv, ManifestInit

\* What a file names does not change, so neither does what is reached.
LEMMA SameNames ==
  ASSUME UNCHANGED <<names, roots>>
  PROVE  Reachable' = Reachable /\ (Shallow' <=> Shallow)
<1>1. \A S : Complete(S)' <=> Complete(S)
  BY DEF Complete
<1>2. Reachable' = Reachable
  BY <1>1 DEF Reachable
<1> QED
  BY <1>2 DEF Shallow

\* A walk of f from a stack that the invariant allows.
LEMMA WalkStep ==
  ASSUME ManifestInv, UNCHANGED <<names, roots>>, NEW f \in ManifestFile, NEW base \in Seq(FrameSet),
         NEW depth \in Nat, Walk(f, depth, base), manifest' = manifest \cup {f},
         todo' \in SUBSET roots, f \in Reachable,
         Len(base) = depth, depth <= MaxDepth + 1,
         \A i \in 1..Len(base) : /\ base[i].file \in walked \cap Definition
                                 /\ base[i].depth = i - 1
                                 /\ base[i].left \subseteq names[base[i].file],
         \A i, j \in 1..Len(base) : base[i].file = base[j].file => i = j,
         \A r \in roots : r \in todo' \/ (r = f /\ depth = 0)
                            \/ (r \in manifest /\ (r \in Definition => r \in walked)),
         \A x \in walked \cap Definition : \A g \in names[x] :
           \/ g \in manifest'
           \/ \E i \in 1..Len(base) : base[i].file = x /\ g \in base[i].left,
         depth > MaxDepth /\ Shallow /\ f \in Definition => f \in walked
  PROVE  ManifestInv'
<1>1. /\ names \in [ManifestFile -> SUBSET ManifestFile] /\ MaxDepth \in Nat
      /\ walked \in SUBSET ManifestFile /\ manifest \in SUBSET ManifestFile /\ roots \in SUBSET ManifestFile
      /\ walked \subseteq manifest /\ manifest \subseteq Reachable
      /\ \A x \in ManifestFile \ Definition : names[x] = {}
      /\ Shallow => manifest \cap Definition \subseteq walked
      /\ names' = names /\ roots' = roots
  BY ManifestAssumption DEF ManifestInv, ManifestType, ListedInv, WalkedInv, ManifestAssumption
<1>2. Reachable' = Reachable /\ (Shallow' <=> Shallow)
  BY SameNames
<1>3. CASE depth > MaxDepth \/ f \in walked
  <2>1. stack' = base /\ walked' = walked
    BY <1>3 DEF Walk
  <2>2. ManifestType'
    BY <1>1, <2>1 DEF ManifestType
  <2>3. StackInv'
    BY <1>1, <2>1 DEF StackInv
  <2>4. \A r \in roots : r \in todo' \/ (r \in manifest' /\ (r \in Definition => r \in walked))
    BY <1>1, <1>3
  <2>5. \A x \in walked \cap Definition : \A g \in names[x] : g \in manifest' \/ Pending(x, g)'
    BY <2>1 DEF Pending
  <2>6. ListedInv'
    <3>1. walked' \subseteq manifest' /\ manifest' \subseteq Reachable'
      BY <1>1, <1>2, <2>1
    <3> QED
      BY <1>1, <2>1, <2>4, <2>5, <3>1 DEF ListedInv
  <2>7. WalkedInv'
    BY <1>1, <1>2, <1>3, <2>1 DEF WalkedInv
  <2> QED
    BY <1>1, <2>2, <2>3, <2>6, <2>7 DEF ManifestInv
<1>4. CASE depth <= MaxDepth /\ f \notin walked
  <2> DEFINE top == StackFrame(f, depth)
  <2>1. /\ walked' = walked \cup {f}
        /\ stack' = IF f \in Definition THEN Append(base, top) ELSE base
    BY <1>1, <1>4 DEF Walk
  <2>2. top \in FrameSet /\ top.file = f /\ top.depth = depth /\ top.left = names[f]
    BY <1>1 DEF StackFrame, FrameSet
  <2> HIDE DEF top
  <2>3. ManifestType'
    BY <1>1, <2>1, <2>2 DEF ManifestType
  <2>4. /\ \A i \in 1..Len(base) : i \in 1..Len(stack') /\ stack'[i] = base[i]
        /\ f \in Definition => /\ Len(stack') = Len(base) + 1 /\ Len(base) + 1 \in 1..Len(stack')
                               /\ stack'[Len(base) + 1] = top
        /\ \A i \in 1..Len(stack') : i \in 1..Len(base) \/ (i = Len(base) + 1 /\ f \in Definition)
        /\ f \notin Definition => stack' = base
    BY <2>1, <2>2
  <2>5. StackInv'
    <3>1. Len(stack') <= MaxDepth + 1
      BY <1>1, <1>4, <2>4
    <3>2. ASSUME NEW i \in 1..Len(stack')
          PROVE  /\ stack'[i].file \in walked' \cap Definition
                 /\ stack'[i].depth = i - 1
                 /\ stack'[i].left \subseteq names[stack'[i].file]
      <4>1. CASE i \in 1..Len(base)
        BY <2>1, <2>4, <4>1
      <4>2. CASE i = Len(base) + 1 /\ f \in Definition
        BY <2>1, <2>2, <2>4, <4>2
      <4> QED
        BY <2>4, <4>1, <4>2
    <3>3. ASSUME NEW i \in 1..Len(stack'), NEW j \in 1..Len(stack'), stack'[i].file = stack'[j].file
          PROVE  i = j
      <4>1. \A k \in 1..Len(base) : stack'[k].file # f
        BY <1>4, <2>4
      <4>2. \A k \in 1..Len(stack') : k \notin 1..Len(base) => stack'[k].file = f /\ k = Len(base) + 1
        BY <2>2, <2>4
      <4> QED
        BY <2>4, <3>3, <4>1, <4>2
    <3> QED
      BY <1>1, <3>1, <3>2, <3>3 DEF StackInv
  <2>6. \A r \in roots : r \in todo' \/ (r \in manifest' /\ (r \in Definition => r \in walked'))
    BY <2>1
  <2>7. ASSUME NEW x \in walked' \cap Definition, NEW g \in names[x]
        PROVE  g \in manifest' \/ Pending(x, g)'
    <3>1. CASE x = f
      BY <2>2, <2>4, <2>7, <3>1 DEF Pending
    <3>2. CASE x # f
      <4>1. \/ g \in manifest'
            \/ \E i \in 1..Len(base) : base[i].file = x /\ g \in base[i].left
        BY <2>1, <2>7, <3>2
      <4> QED
        BY <2>4, <4>1 DEF Pending
    <3> QED
      BY <3>1, <3>2
  <2>8. ListedInv'
    <3>1. walked' \subseteq manifest' /\ manifest' \subseteq Reachable'
      BY <1>1, <1>2, <2>1
    <3> QED
      BY <1>1, <2>6, <2>7, <3>1 DEF ListedInv
  <2>9. WalkedInv'
    BY <1>1, <1>2, <2>1 DEF WalkedInv
  <2> QED
    BY <1>1, <2>3, <2>5, <2>8, <2>9 DEF ManifestInv
<1> QED
  BY <1>1, <1>3, <1>4

\* A root is walked from an empty stack.
LEMMA RootStep ==
  ASSUME ManifestInv, WalkRoot
  PROVE  ManifestInv'
<1>1. PICK f \in todo : todo' = todo \ {f} /\ manifest' = manifest \cup {f} /\ Walk(f, 0, <<>>)
  BY DEF WalkRoot
<1>2. UNCHANGED <<names, roots>> /\ stack = <<>>
  BY DEF WalkRoot
<1>3. <<>> \in Seq(FrameSet) /\ Len(<<>>) = 0 /\ 0 \in Nat /\ 0 <= MaxDepth + 1 /\ ~(0 > MaxDepth)
  BY ManifestAssumption DEF ManifestAssumption
<1>4. f \in ManifestFile /\ f \in Reachable /\ todo' \in SUBSET roots
  BY <1>1, ReachableFacts DEF ManifestInv, ManifestType, Complete
<1> QED
  <2>1. \A r \in roots : r \in todo' \/ r = f \/ (r \in manifest /\ (r \in Definition => r \in walked))
    BY <1>1 DEF ManifestInv, ListedInv
  <2>2. \A x \in walked \cap Definition : \A g \in names[x] : g \in manifest'
    BY <1>1, <1>2 DEF ManifestInv, ListedInv, Pending
  <2>3. Walk(f, 0, <<>>) /\ manifest' = manifest \cup {f} /\ \A i \in 1..Len(<<>>) : FALSE
    BY <1>1
  <2> QED
    BY <1>2, <1>3, <1>4, <2>1, <2>2, <2>3, WalkStep

\* A reference is followed from the stack with that reference gone.
LEMMA FollowStep ==
  ASSUME ManifestInv, Follow
  PROVE  ManifestInv'
<1> DEFINE n == Len(stack)
           d == stack[n].depth + 1
<1>1. /\ stack # <<>> /\ UNCHANGED <<names, roots, todo>> /\ stack \in Seq(FrameSet)
      /\ n \in 1..n /\ n \in Nat /\ Last(stack) = stack[n]
  BY DEF Follow, ManifestInv, ManifestType, Last
<1>2. PICK f \in stack[n].left :
        /\ manifest' = manifest \cup {f}
        /\ Walk(f, d, [stack EXCEPT ![Len(stack)].left = @ \ {f}])
  BY <1>1 DEF Follow
<1> DEFINE rest == stack[n].left \ {f}
           base == [stack EXCEPT ![n].left = rest]
<1>3. /\ stack[n] \in FrameSet /\ stack[n].depth = n - 1 /\ stack[n].file \in walked \cap Definition
      /\ stack[n].left \subseteq names[stack[n].file] /\ n <= MaxDepth + 1
  BY <1>1 DEF ManifestInv, StackInv
<1>4. d = n /\ d \in Nat /\ d <= MaxDepth + 1
  BY <1>1, <1>3
<1>5. f \in ManifestFile /\ f \in names[stack[n].file]
  BY <1>2, <1>3 DEF FrameSet
<1>6. f \in Reachable
  BY <1>3, <1>5, ReachableFacts DEF ManifestInv, ManifestType, ListedInv, Complete
<1>7. /\ base \in Seq(FrameSet) /\ Len(base) = n
      /\ \A i \in 1..n : i # n => base[i] = stack[i]
      /\ base[n].file = stack[n].file /\ base[n].depth = stack[n].depth /\ base[n].left = rest
  <2>1. rest \in SUBSET ManifestFile
    BY <1>3 DEF FrameSet
  <2> HIDE DEF rest
  <2>2. [stack[n] EXCEPT !.left = rest] \in FrameSet
    BY <1>3, <2>1 DEF FrameSet
  <2>3. base = [stack EXCEPT ![n] = [stack[n] EXCEPT !.left = rest]]
    OBVIOUS
  <2> DEFINE top == [stack[n] EXCEPT !.left = rest]
  <2>4. top \in FrameSet /\ top.file = stack[n].file /\ top.depth = stack[n].depth /\ top.left = rest
    BY <1>3, <2>2 DEF FrameSet
  <2> HIDE DEF top
  <2>5. base = [stack EXCEPT ![n] = top]
    BY <2>3 DEF top
  <2> HIDE DEF base
  <2>6. base \in Seq(FrameSet) /\ Len(base) = n
    BY <1>1, <2>4, <2>5
  <2>7. base[n] = top /\ \A i \in 1..n : i # n => base[i] = stack[i]
    BY <1>1, <2>5
  <2> QED
    BY <2>4, <2>6, <2>7
<1>8. Walk(f, d, base)
  BY <1>2
<1> HIDE DEF rest, base
<1>9. \A i \in 1..n : /\ base[i].file = stack[i].file /\ base[i].depth = stack[i].depth
                      /\ base[i].left \subseteq stack[i].left
                      /\ \A g \in stack[i].left : g = f \/ g \in base[i].left
  BY <1>7 DEF rest
<1>10. /\ \A i \in 1..Len(base) : /\ base[i].file \in walked \cap Definition
                                  /\ base[i].depth = i - 1
                                  /\ base[i].left \subseteq names[base[i].file]
       /\ \A i, j \in 1..Len(base) : base[i].file = base[j].file => i = j
  BY <1>7, <1>9 DEF ManifestInv, StackInv
<1>11. ASSUME NEW x \in walked \cap Definition, NEW g \in names[x]
       PROVE  \/ g \in manifest'
              \/ \E i \in 1..Len(base) : base[i].file = x /\ g \in base[i].left
  <2>1. g \in manifest \/ Pending(x, g)
    BY <1>11 DEF ManifestInv, ListedInv
  <2>2. CASE g \in manifest
    BY <1>2, <2>2
  <2>3. CASE Pending(x, g)
    <3>1. PICK i \in 1..n : stack[i].file = x /\ g \in stack[i].left
      BY <2>3 DEF Pending
    <3> QED
      BY <1>2, <1>7, <1>9, <3>1
  <2> QED
    BY <2>1, <2>2, <2>3
<1>12. \A r \in roots : r \in todo' \/ (r \in manifest /\ (r \in Definition => r \in walked))
  BY <1>1 DEF ManifestInv, ListedInv
<1>13. d > MaxDepth /\ Shallow /\ f \in Definition => f \in walked
  <2> SUFFICES ASSUME d > MaxDepth, Shallow, f \in Definition PROVE f \in walked
    OBVIOUS
  <2>1. Len(stack) = MaxDepth + 1
    <3>1. n > MaxDepth /\ n <= MaxDepth + 1 /\ n \in Nat /\ MaxDepth \in Nat
      BY <1>1, <1>3, <1>4, ManifestAssumption DEF ManifestAssumption
    <3> HIDE DEF n
    <3>2. n = MaxDepth + 1
      BY <3>1
    <3> QED
      BY <3>2 DEF n
  <2> QED
    BY <1>6, <2>1, DeepestWalk
<1>14. todo' \in SUBSET roots
  BY <1>1 DEF ManifestInv, ManifestType
<1>15. base \in Seq(FrameSet) /\ Len(base) = d /\ manifest' = manifest \cup {f}
  BY <1>2, <1>4, <1>7
<1> HIDE DEF d
<1> QED
  BY <1>1, <1>4, <1>5, <1>6, <1>8, <1>10, <1>11, <1>12, <1>13, <1>14, <1>15, WalkStep

\* The walk of a file returns when all its references were followed.
LEMMA ReturnStep ==
  ASSUME ManifestInv, ReturnFrom
  PROVE  ManifestInv'
<1> DEFINE n == Len(stack)
<1>1. /\ stack # <<>> /\ UNCHANGED <<names, roots, todo, walked, manifest>>
      /\ stack \in Seq(FrameSet) /\ n \in 1..n /\ n \in Nat
      /\ stack[n].left = {} /\ stack' = SubSeq(stack, 1, n - 1)
  BY DEF ReturnFrom, ManifestInv, ManifestType, Last, Front
<1>2. /\ stack' \in Seq(FrameSet) /\ Len(stack') = n - 1
      /\ \A i \in 1..(n - 1) : i \in 1..n /\ stack'[i] = stack[i]
  <2>1. 1 \in Int /\ n - 1 \in Int /\ \A i \in 1..(n - 1) : stack[i] \in FrameSet
    BY <1>1
  <2>2. /\ SubSeq(stack, 1, n - 1) \in Seq(FrameSet)
        /\ Len(SubSeq(stack, 1, n - 1)) = IF 1 <= n - 1 THEN n - 1 - 1 + 1 ELSE 0
        /\ \A i \in 1..(n - 1 - 1 + 1) : SubSeq(stack, 1, n - 1)[i] = stack[1 + i - 1]
    BY <2>1, SubSeqProperties
  <2>3. \A i \in 1..(n - 1) : i \in 1..(n - 1 - 1 + 1) /\ 1 + i - 1 = i /\ i \in 1..n
    BY <1>1
  <2> HIDE DEF n
  <2>4. Len(stack') = n - 1
    BY <1>1, <2>2
  <2>5. \A i \in 1..(n - 1) : stack'[i] = stack[i]
    BY <1>1, <2>2, <2>3
  <2> QED
    BY <1>1, <2>2, <2>3, <2>4, <2>5
<1>3. Reachable' = Reachable /\ (Shallow' <=> Shallow)
  BY <1>1, SameNames
<1>4. ManifestType'
  BY <1>1, <1>2 DEF ManifestInv, ManifestType
<1>5. StackInv'
  <2>1. Len(stack') <= MaxDepth + 1
    BY <1>1, <1>2, ManifestAssumption DEF ManifestInv, StackInv, ManifestAssumption
  <2>2. 1..Len(stack') = 1..(n - 1)
    BY <1>2
  <2> QED
    BY <1>1, <1>2, <2>1, <2>2 DEF ManifestInv, StackInv
<1>6. ASSUME NEW x, NEW g, Pending(x, g)
      PROVE  Pending(x, g)'
  <2>1. PICK i \in 1..n : stack[i].file = x /\ g \in stack[i].left
    BY <1>6 DEF Pending
  <2>2. i # n
    BY <1>1, <2>1
  <2>3. i \in 1..Len(stack') /\ stack'[i] = stack[i]
    BY <1>1, <1>2, <2>2
  <2> QED
    BY <2>1, <2>3 DEF Pending
<1>7. ListedInv' /\ WalkedInv'
  BY <1>1, <1>3, <1>6 DEF ManifestInv, ListedInv, WalkedInv
<1> QED
  BY <1>1, <1>4, <1>5, <1>7 DEF ManifestInv

\* When the walk is done the manifest holds the roots and what its files name.
LEMMA ManifestAnswers == ManifestInv => ManifestComplete
<1> SUFFICES ASSUME ManifestInv, ManifestDone
             PROVE  /\ Named(roots) \subseteq manifest
                    /\ Shallow => manifest = Reachable
  BY DEF ManifestInv, ListedInv, ManifestComplete, Shallow
<1>1. /\ todo = {} /\ Len(stack) = 0 /\ names \in [ManifestFile -> SUBSET ManifestFile] /\ roots \in SUBSET ManifestFile
      /\ manifest \in SUBSET ManifestFile /\ manifest \subseteq Reachable
      /\ \A f \in ManifestFile \ Definition : names[f] = {}
  BY DEF ManifestDone, ManifestInv, ManifestType, ListedInv
<1>2. \A f \in walked \cap Definition : names[f] \subseteq manifest
  BY <1>1 DEF ManifestInv, ListedInv, Pending
<1>3. \A f \in roots : f \in manifest /\ names[f] \subseteq manifest
  BY <1>1, <1>2 DEF ManifestInv, ListedInv
<1>4. Named(roots) \subseteq manifest
  BY <1>3 DEF Named
<1>5. ASSUME Shallow PROVE manifest = Reachable
  <2>1. \A f \in manifest : names[f] \subseteq manifest
    BY <1>1, <1>2, <1>5 DEF ManifestInv, WalkedInv
  <2>2. Complete(manifest)
    BY <1>3, <2>1 DEF Complete
  <2> QED
    BY <1>1, <2>2, ReachableFacts
<1> QED
  BY <1>4, <1>5

\* For any files that name each other in any way, in circles too, and any order of the
\* maps: the manifest lists nothing but what is reached from the roots, never loses the
\* roots and what they name, and lists everything that is reached unless the limit on
\* the depth can be met (startupManifest).
THEOREM ManifestIsComplete == ManifestSpec => []ManifestComplete
<1>1. ManifestInv /\ [ManifestNext]_fvars => ManifestInv'
  <2> SUFFICES ASSUME ManifestInv, [ManifestNext]_fvars PROVE ManifestInv'
    OBVIOUS
  <2>1. CASE UNCHANGED fvars
    <3>1. UNCHANGED <<names, roots, todo, stack, walked, manifest>>
      BY <2>1 DEF fvars
    <3>2. Reachable' = Reachable /\ (Shallow' <=> Shallow)
      BY <3>1, SameNames
    <3> QED
      BY <3>1, <3>2 DEF ManifestInv, ManifestType, StackInv, ListedInv, WalkedInv, Pending
  <2> QED
    BY <2>1, RootStep, FollowStep, ReturnStep DEF ManifestNext
<1> QED
  BY ManifestStart, ManifestAnswers, <1>1, PTL DEF ManifestSpec

-----------------------------------------------------------------------------
(* Snapshot ids *)

\* Equal ids hold the same record for every listed active path.
LEMMA RecordOfPath ==
  ASSUME NEW before, NEW after, NEW active, NEW maxFiles,
         SnapshotID(before, active, maxFiles) = SnapshotID(after, active, maxFiles),
         NEW p \in active, p \in Listed(before, maxFiles) \cup Listed(after, maxFiles)
  PROVE  /\ p \in Listed(before, maxFiles) \cap Listed(after, maxFiles)
         /\ FileRecord(before, p) = FileRecord(after, p)
<1>1. {FileRecord(before, q) : q \in Listed(before, maxFiles) \cap active}
        = {FileRecord(after, q) : q \in Listed(after, maxFiles) \cap active}
  BY DEF SnapshotID
<1>2. \A q, r : FileRecord(before, q) = FileRecord(after, r) => q = r
  BY DEF FileRecord
<1>3. CASE p \in Listed(before, maxFiles)
  <2>1. PICK q \in Listed(after, maxFiles) \cap active : FileRecord(before, p) = FileRecord(after, q)
    BY <1>1, <1>3
  <2> QED
    BY <1>2, <1>3, <2>1
<1>4. CASE p \in Listed(after, maxFiles)
  <2>1. PICK q \in Listed(before, maxFiles) \cap active : FileRecord(before, q) = FileRecord(after, p)
    BY <1>1, <1>4
  <2> QED
    BY <1>2, <1>4, <2>1
<1> QED
  BY <1>3, <1>4

\* An edit of one path moves no other file in or out, if the files stay as many.
LEMMA SameCandidates ==
  ASSUME NEW before \in Tree, NEW after \in Tree, NEW p \in Entry,
         \A q \in Entry \ {p} : before[q] = after[q], IsFiniteSet(Entry),
         Cardinality(Candidate(before)) = Cardinality(Candidate(after))
  PROVE  Candidate(before) = Candidate(after)
<1>1. /\ \A q \in Candidate(before) : q = p \/ q \in Candidate(after)
      /\ \A q \in Candidate(after) : q = p \/ q \in Candidate(before)
  BY DEF Candidate
<1>2. IsFiniteSet(Candidate(before)) /\ IsFiniteSet(Candidate(after))
  BY FS_Subset DEF Candidate
<1>3. CASE p \in Candidate(before)
  <2>1. Candidate(after) \in SUBSET Candidate(before)
    BY <1>1, <1>3
  <2> QED
    BY <1>2, <2>1, FS_Subset
<1>4. CASE p \notin Candidate(before)
  <2>1. Candidate(before) \in SUBSET Candidate(after)
    BY <1>1, <1>4
  <2> QED
    BY <1>2, <2>1, FS_Subset
<1> QED
  BY <1>3, <1>4

\* For trees of any size and any edit of one file, whatever could not be looked at or read:
\* the snapshot id tells an edit of an active file that was listed before or after, save of
\* one that was hashed neither time and keeps its size; it stays the same when an inactive
\* file is edited and as many can be looked at (SnapshotID).
THEOREM EditsAreNoticed ==
  ASSUME NEW before \in Tree, NEW after \in Tree, NEW active, NEW maxFiles \in Nat,
         NEW e \in Entry, \A q \in Entry \ {e} : before[q] = after[q]
  PROVE  EditNoticed(before, after, active, maxFiles)
<1> DEFINE same == SnapshotID(before, active, maxFiles) = SnapshotID(after, active, maxFiles)
           edited == {p \in Entry : before[p] # after[p]}
<1>1. ASSUME NEW p \in edited, same, p \in active,
             p \in Listed(before, maxFiles) \cup Listed(after, maxFiles)
      PROVE  /\ before[p] # Gone /\ after[p] # Gone
             /\ before[p].size = after[p].size /\ ~Hashed(before[p]) /\ ~Hashed(after[p])
  <2>1. /\ p \in Listed(before, maxFiles) \cap Listed(after, maxFiles)
        /\ FileRecord(before, p) = FileRecord(after, p)
    BY <1>1, RecordOfPath
  <2>2. /\ before[p] \in Contents /\ after[p] \in Contents /\ before[p] # after[p]
        /\ before[p] # Gone /\ after[p] # Gone
    BY <1>1, <2>1 DEF Listed, Candidate, Tree
  <2>3. before[p].size = after[p].size
    BY <2>1 DEF FileRecord
  <2>4. IF Hashed(before[p]) THEN Hashed(after[p]) /\ before[p].text = after[p].text
                              ELSE ~Hashed(after[p])
    BY <2>1 DEF FileRecord
  <2>5. /\ before[p] \in [size : Nat, text : STRING, access : {"none", "listed", "read"}]
        /\ after[p] \in [size : Nat, text : STRING, access : {"none", "listed", "read"}]
    BY <2>2, EntryAssumption DEF EntryAssumption
  <2>6. Hashed(before[p]) /\ Hashed(after[p]) => before[p] = after[p]
    BY <2>3, <2>4, <2>5 DEF Hashed
  <2> QED
    BY <2>2, <2>3, <2>4, <2>6
<1>2. ASSUME edited \cap active = {}, Cardinality(Candidate(before)) = Cardinality(Candidate(after))
      PROVE  same
  <2>1. Candidate(before) = Candidate(after)
    BY <1>2, SameCandidates, EntryAssumption DEF EntryAssumption
  <2>2. Listed(before, maxFiles) = Listed(after, maxFiles)
    BY <2>1 DEF Listed
  <2>3. \A p \in Listed(before, maxFiles) \cap active : FileRecord(before, p) = FileRecord(after, p)
    <3>1. \A p \in Listed(before, maxFiles) \cap active : before[p] = after[p]
      BY <1>2 DEF Listed, Candidate
    <3> QED
      BY <3>1 DEF FileRecord
  <2>4. {FileRecord(before, p) : p \in Listed(before, maxFiles) \cap active}
          = {FileRecord(after, p) : p \in Listed(after, maxFiles) \cap active}
    BY <2>2, <2>3
  <2>5. Truncated(before, maxFiles) = Truncated(after, maxFiles)
    BY <2>1 DEF Truncated
  <2> QED
    BY <2>4, <2>5 DEF SnapshotID
<1>3. ASSUME ~Truncated(after, maxFiles)
      PROVE  Listed(after, maxFiles) = Candidate(after)
  <2>1. IsFiniteSet(Candidate(after))
    BY FS_Subset, EntryAssumption DEF Candidate, EntryAssumption
  <2>2. Cardinality(Candidate(after)) \in Nat /\ ~(Cardinality(Candidate(after)) >= maxFiles)
    BY <1>3, <2>1, FS_CardinalityType DEF Truncated
  <2>3. ASSUME NEW p \in Candidate(after)
        PROVE  Cardinality({q \in Candidate(after) : q <= p}) <= maxFiles
    <3> DEFINE upTo == {q \in Candidate(after) : q <= p}
    <3>1. /\ IsFiniteSet(upTo) /\ Cardinality(upTo) <= Cardinality(Candidate(after))
          /\ Cardinality(upTo) \in Nat
      BY <2>1, FS_Subset, FS_CardinalityType
    <3> HIDE DEF upTo
    <3>2. Cardinality(upTo) <= maxFiles
      BY <2>2, <3>1
    <3> QED
      BY <3>2 DEF upTo
  <2> QED
    BY <2>3 DEF Listed
<1> QED
  BY <1>1, <1>2, <1>3 DEF EditNoticed

-----------------------------------------------------------------------------
(* Sessions *)

\* Where a scan can be.
Stations == {"new", "discovering", "storing", "stored", "quit", "failed"}

SessionType ==
  /\ started \in 0..MaxScans
  /\ at \in [Scans -> Stations]
  /\ cancelled \subseteq Scans
  /\ running \in Scans \cup {NoScan}
  /\ current \in Scans \cup {NoScan}
  /\ saved \subseteq Scans
  /\ IsFiniteSet(saved)
  /\ overtaken \in BOOLEAN

\* Scans start in the order of their numbers, each stores once at most, and each store
\* is counted.
SessionHistory ==
  /\ \A n \in Scans : at[n] = "new" <=> n > started
  /\ \A n \in Scans : n \in saved <=> at[n] = "stored"
  /\ current \in saved \cup {NoScan}
  /\ saved # {} => current \in saved
  /\ generation = Cardinality(saved)

\* Only the newest scan can be under way and not cancelled, and then it is registered;
\* what was stored is older.
SessionNewest ==
  ~overtaken =>
    /\ \A n \in Scans : at[n] = "storing" => n \notin cancelled
    /\ \A n \in Scans : at[n] \in {"discovering", "storing"} /\ n \notin cancelled =>
         n = started /\ running = n
    /\ current # NoScan => \A n \in saved : n <= current

SessionInvariant == SessionType /\ SessionHistory /\ SessionNewest

USE ScansAssumption DEF ScansAssumption, Scans, Stations

\* A new session has scanned nothing.
LEMMA SessionStart == SessionInit => SessionInvariant
<1> SUFFICES ASSUME SessionInit PROVE SessionInvariant
  OBVIOUS
<1>0. IsFiniteSet({}) /\ Cardinality({}) = 0
  BY FS_EmptySet
<1>1. SessionType
  <2>1. started \in 0..MaxScans /\ at \in [Scans -> Stations]
    BY DEF SessionInit
  <2>2. cancelled \subseteq Scans /\ saved \subseteq Scans /\ IsFiniteSet(saved)
    BY <1>0 DEF SessionInit
  <2>3. running \in Scans \cup {NoScan} /\ current \in Scans \cup {NoScan}
    BY DEF SessionInit
  <2>4. overtaken \in BOOLEAN
    BY DEF SessionInit
  <2> QED
    BY <2>1, <2>2, <2>3, <2>4 DEF SessionType
<1>2. SessionHistory
  BY <1>0 DEF SessionInit, SessionHistory
<1>3. SessionNewest
  BY DEF SessionInit, SessionNewest
<1> QED
  BY <1>1, <1>2, <1>3 DEF SessionInvariant

\* A new scan cancels the one registered, the only one that could still store.
LEMMA ScanStarts == SessionInvariant /\ Start => SessionInvariant'
<1> SUFFICES ASSUME SessionInvariant, Start PROVE SessionInvariant'
  OBVIOUS
<1> USE DEF SessionInvariant
<1> DEFINE next == started + 1
<1>1. /\ started' = next /\ next \in Scans /\ running' = next
      /\ at' = [at EXCEPT ![next] = "discovering"]
      /\ UNCHANGED <<current, generation, saved>>
  BY DEF Start, SessionType
<1>2. at[next] = "new"
  BY <1>1 DEF SessionType, SessionHistory
<1>3. /\ cancelled' = IF running = NoScan THEN cancelled ELSE cancelled \cup {running}
      /\ overtaken' = (overtaken \/ \E n \in cancelled' : at[n] = "storing")
  BY DEF Start, CancelRegistered
<1>4. SessionType'
  <2>1. cancelled' \subseteq Scans
    BY <1>3 DEF SessionType
  <2>2. overtaken' \in BOOLEAN
    BY <1>3, Zenon DEF SessionType
  <2> QED
    BY <1>1, <2>1, <2>2 DEF SessionType
<1>5. SessionHistory'
  <2>1. \A n \in Scans : at'[n] = "new" <=> n > started'
    BY <1>1 DEF SessionType, SessionHistory
  <2>2. \A n \in Scans : n \in saved' <=> at'[n] = "stored"
    BY <1>1, <1>2 DEF SessionType, SessionHistory
  <2> QED
    BY <1>1, <2>1, <2>2 DEF SessionHistory
<1>6. ASSUME ~overtaken'
      PROVE  \A n \in Scans : at[n] \in {"discovering", "storing"} => n \in cancelled'
    BY <1>3, <1>6 DEF SessionType, SessionNewest
<1>7. SessionNewest'
  <2> SUFFICES ASSUME ~overtaken' PROVE SessionNewest'
    BY DEF SessionNewest
  <2>1. ~overtaken /\ \A n \in cancelled' : at[n] # "storing"
    BY <1>3
  <2>2. \A n \in Scans : at'[n] = "storing" => n \notin cancelled'
    BY <1>1, <2>1 DEF SessionType
  <2>3. \A n \in Scans : at'[n] \in {"discovering", "storing"} /\ n \notin cancelled' =>
          n = started' /\ running' = n
    BY <1>1, <1>6 DEF SessionType
  <2>4. (current # NoScan => \A n \in saved : n <= current)'
    BY <1>1, <2>1 DEF SessionNewest
  <2> QED
    BY <2>2, <2>3, <2>4 DEF SessionNewest
<1> QED
  BY <1>4, <1>5, <1>7

\* A scan that stores takes the place of an older one.
LEMMA ScanStores ==
  ASSUME NEW n \in Scans, SessionInvariant, Store(n)
  PROVE  SessionInvariant'
<1> USE DEF SessionInvariant
<1>1. n \notin saved
  BY DEF Store, SessionType, SessionHistory
<1>2. IsFiniteSet(saved') /\ Cardinality(saved') = Cardinality(saved) + 1
  BY <1>1, FS_AddElement DEF Store, SessionType
<1>3. SessionType'
  BY <1>2 DEF Store, SessionType
<1>4. SessionHistory'
  BY <1>2 DEF Store, SessionType, SessionHistory
<1>5. SessionNewest'
  <2> SUFFICES ASSUME ~overtaken' PROVE SessionNewest'
    BY DEF SessionNewest
  <2>1. /\ ~overtaken /\ at[n] = "storing" /\ current' = n /\ n # NoScan
        /\ at' = [at EXCEPT ![n] = "stored"] /\ saved' = saved \cup {n}
        /\ UNCHANGED <<started, cancelled>>
    BY DEF Store
  <2>2. n \notin cancelled /\ n = started
    BY <2>1 DEF SessionNewest
  <2>3. \A m \in Scans : at'[m] \in {"discovering", "storing"} => at[m] = at'[m] /\ m # n
    BY <2>1 DEF SessionType
  <2>4. \A m \in Scans : at'[m] = "storing" => m \notin cancelled'
    BY <2>1, <2>3 DEF SessionNewest
  <2>5. \A m \in Scans : at'[m] \in {"discovering", "storing"} /\ m \notin cancelled' => FALSE
    BY <2>1, <2>2, <2>3 DEF SessionNewest
  <2>6. \A m \in saved' : m <= n
    BY <2>1, <2>2 DEF SessionType, SessionHistory
  <2> QED
    BY <2>1, <2>4, <2>5, <2>6 DEF SessionNewest
<1> QED
  BY <1>3, <1>4, <1>5

\* Steps that start and store nothing.
LEMMA ScanGoesOn ==
  ASSUME NEW n \in Scans, SessionInvariant, CallerCancels(n) \/ DiscoverFails(n) \/ Look(n)
  PROVE  SessionInvariant'
<1> USE DEF SessionInvariant
<1>1. SessionType'
  BY DEF CallerCancels, DiscoverFails, Look, SessionType
<1>2. SessionHistory'
  BY DEF CallerCancels, DiscoverFails, Look, SessionType, SessionHistory
<1>3. SessionNewest'
  <2>1. CASE CallerCancels(n)
    BY <2>1 DEF CallerCancels, SessionType, SessionHistory, SessionNewest
  <2>2. CASE DiscoverFails(n) \/ Look(n)
    <3>1. /\ UNCHANGED <<started, cancelled, running, current, saved, overtaken>>
          /\ at[n] = "discovering"
          /\ at'[n] = "storing" => n \notin cancelled
          /\ \A m \in Scans : m # n => at'[m] = at[m]
      BY <2>2 DEF DiscoverFails, Look, SessionType
    <3> QED
      BY <3>1 DEF SessionNewest
  <2> QED
    BY <2>1, <2>2
<1> QED
  BY <1>1, <1>2, <1>3

\* While no scan is cancelled between its look and its store, no older scan replaces the
\* snapshot of a newer one, however the scans interleave (Session.Scan).
THEOREM SessionKeepsNewest == SessionSpec => []NewestScanKept
<1>1. SessionInvariant /\ [SessionNext]_wvars => SessionInvariant'
  <2> SUFFICES ASSUME SessionInvariant, [SessionNext]_wvars PROVE SessionInvariant'
    OBVIOUS
  <2>1. CASE UNCHANGED wvars
    BY <2>1 DEF wvars, SessionInvariant, SessionType, SessionHistory, SessionNewest
  <2>2. CASE SessionNext
    BY <2>2, ScanStarts, ScanStores, ScanGoesOn DEF SessionNext
  <2> QED
    BY <2>1, <2>2
<1>2. SessionInvariant => NewestScanKept
  <2> SUFFICES ASSUME SessionInvariant PROVE NewestScanKept
    OBVIOUS
  <2> USE DEF SessionInvariant
  <2>1. ASSUME ~overtaken, NEW n \in Scans, at[n] = "storing", NEW m \in saved
        PROVE  m < n
    <3>1. n = started
      BY <2>1 DEF SessionNewest
    <3>2. m \in Scans /\ at[m] = "stored"
      BY <2>1 DEF SessionType, SessionHistory
    <3>3. ~(m > started) /\ m # n
      BY <2>1, <3>2 DEF SessionHistory
    <3> QED
      BY <3>1, <3>2, <3>3 DEF SessionType
  <2> QED
    BY <2>1 DEF SessionHistory, SessionNewest, NewestScanKept
<1> QED
  BY SessionStart, <1>1, <1>2, PTL DEF SessionSpec
-----------------------------------------------------------------------------
(* Output files *)

\* Where a command can be.
Positions == {"load", "create", "write", "stat", "remove", "rename", "cleanup", "done", "failed",
              "left", "dead"}

OutputType ==
  /\ target \in Command \cup {Missing, Old, Source}
  /\ alias \in {"none", "named", "loaded", "linked"}
  /\ rosters \in SUBSET Command
  /\ temp \in [Command -> {"none", "partial", "whole"}]
  /\ step \in [Command -> Positions]
  /\ errors \in [Command -> BOOLEAN]

\* A command that writes has passed its validation, and one that has not created its
\* temporary file, or has returned, has none.
OutputProgress ==
  \A c \in Command :
    /\ step[c] \notin {"load", "failed", "dead"} => ~Protected(c) /\ ~errors[c]
    /\ step[c] \in {"load", "create", "done", "failed"} => temp[c] = "none"

OutputInvariant == OutputType /\ OutputProgress /\ OutputWhole

USE TextAssumption DEF TextAssumption, Positions

\* No command has started.
LEMMA OutputStart == OutputInit => OutputInvariant
  BY DEF OutputInit, OutputInvariant, OutputType, OutputProgress, OutputWhole

\* The steps before the output is touched.
LEMMA OutputPrepared ==
  ASSUME NEW c \in Command, OutputInvariant,
         Validate(c) \/ CreateTemp(c) \/ WriteTemp(c) \/ LookForOld(c)
  PROVE  OutputInvariant'
<1> USE DEF OutputInvariant, Validate, CreateTemp, WriteTemp, LookForOld, Go, Protected
<1>1. OutputType'
  BY DEF OutputType
<1>2. OutputProgress'
  BY DEF OutputType, OutputProgress
<1>3. OutputWhole'
  BY DEF OutputType, OutputProgress, OutputWhole
<1> QED
  BY <1>1, <1>2, <1>3

\* While the old output is gone some command is on its way to rename, or failed there.
LEMMA OutputReplaced ==
  ASSUME NEW c \in Command, OutputInvariant, RemoveOld(c) \/ Rename(c)
  PROVE  OutputInvariant'
<1> USE DEF OutputInvariant, RemoveOld, Rename, Go, Protected
<1>1. OutputType'
  BY DEF OutputType
<1>2. OutputProgress'
  BY DEF OutputType, OutputProgress
<1>3. OutputWhole'
  BY DEF OutputType, OutputProgress, OutputWhole
<1> QED
  BY <1>1, <1>2, <1>3

\* A command that fails after it created its temporary file removes it; one that dies
\* returns nothing.
LEMMA OutputFails ==
  ASSUME NEW c \in Command, OutputInvariant, CallFails(c) \/ CleanUp(c) \/ Dies(c)
  PROVE  OutputInvariant'
<1> USE DEF OutputInvariant, CallFails, CleanUp, Dies, Go, Protected
<1>1. OutputType'
  BY DEF OutputType
<1>2. OutputProgress'
  BY DEF OutputType, OutputProgress
<1>3. OutputWhole'
  BY DEF OutputType, OutputProgress, OutputWhole
<1> QED
  BY <1>1, <1>2, <1>3

\* For any number of commands on one output: no command overwrites an input that it
\* protects, the output is one whole text or gone only where a command is, failed or died
\* between removing and renaming, and a command that returns leaves no temporary file
\* that it could remove (validateOutputPath, writeTextToFile).
THEOREM OutputStaysWhole == OutputSpec => []OutputWhole
<1>1. OutputInvariant /\ [OutputNext]_uvars => OutputInvariant'
  <2> SUFFICES ASSUME OutputInvariant, [OutputNext]_uvars PROVE OutputInvariant'
    OBVIOUS
  <2>1. CASE UNCHANGED uvars
    BY <2>1 DEF uvars, Protected, OutputInvariant, OutputType, OutputProgress, OutputWhole
  <2>2. CASE OutputNext
    BY <2>2, OutputPrepared, OutputReplaced, OutputFails DEF OutputNext
  <2> QED
    BY <2>1, <2>2
<1>2. OutputInvariant => OutputWhole
  BY DEF OutputInvariant
<1> QED
  BY OutputStart, <1>1, <1>2, PTL DEF OutputSpec
==============================================================================
