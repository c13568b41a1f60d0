------------------------------- MODULE TextEdits -------------------------------
(***************************************************************************)
(* The edits of a plan that fall into one file (prepare and validateSpan   *)
(* in src/internal/patch/patch.go): a span of bytes, given once more as    *)
(* lines and columns if the client likes, the old text and the new one.    *)
(* A text is the sequence of its bytes, and the bytes of the new file are  *)
(* named by where they come from.  Hashes and identity contracts are       *)
(* compared before and are those of the file here.                         *)
(***************************************************************************)
EXTENDS Integers, Sequences, FiniteSets

CONSTANTS
  FileText,       \* the texts that the file can have
  PossibleEdit,   \* the edits that a plan can have for it
  NoPlace         \* no lines and columns, no byte

Byte == 0..255
Place == [line : Int, column : Int]

ASSUME FileTextAssumption == FileText \subseteq Seq(Byte)
ASSUME PossibleEditAssumption ==
  \A e \in PossibleEdit :
    /\ {e.start, e.end} \subseteq Int
    /\ {e.old, e.new} \subseteq Seq(Byte)
    /\ e.places # NoPlace => {e.places.start, e.places.end} \subseteq Place
ASSUME NoPlaceAssumption == NoPlace \notin Int

VARIABLES
  data,     \* the file as it was read
  edits,    \* the edits for it, in the order of the plan
  phase,    \* "collecting", "sorted", "replacing" or "refused"
  order,    \* the edits by their numbers, sorted
  left,     \* how many of them are still to be made, the first of the sorted ones
  text      \* the new file so far: <<0, i>> is byte i of the old one, <<n, i>> of edit n

editvars == <<data, edits, phase, order, left, text>>

LF == 10
CR == 13
RuneStart(byte) == byte < 128 \/ byte >= 192

EditsInit ==
  /\ data \in FileText
  /\ edits = <<>>
  /\ phase = "collecting"
  /\ order = <<>>
  /\ left = 0
  /\ text = <<>>

\* The edits of a file are collected from the plan.
Collect(e) ==
  /\ phase = "collecting"
  /\ edits' = Append(edits, e)
  /\ UNCHANGED <<data, phase, order, left, text>>

\* The bytes before the lines, counted from 0, and the end of the line that starts at one.
Newlines(n) == {i \in 1..n : data[i] = LF}
LineStarts == {0} \cup Newlines(Len(data))
LineEnd(start) ==
  LET ends == {i \in start + 1 .. Len(data) : data[i] \in {CR, LF}}
  IN IF ends = {} THEN Len(data) ELSE (CHOOSE i \in ends : \A j \in ends : i <= j) - 1

\* The byte at a line and column, which count from 1.
ByteAt(place) ==
  LET starts == {s \in LineStarts : Cardinality(Newlines(s)) + 1 = place.line}
      start == CHOOSE s \in starts : TRUE
      byte == start + place.column - 1
      end == LineEnd(start)
  IN IF starts = {} \/ byte > end \/ (byte < end /\ ~RuneStart(data[byte + 1])) THEN NoPlace
     ELSE byte

ValidSpan(e) ==
  /\ 0 <= e.start /\ e.start <= e.end
  /\ e.end <= Len(data)
  /\ e.places # NoPlace =>
       /\ \A p \in {e.places.start, e.places.end} : p.line >= 1 /\ p.column >= 1
       /\ e.places.start.line <= e.places.end.line
       /\ ByteAt(e.places.start) = e.start
       /\ ByteAt(e.places.end) = e.end

Accepted(e) == ValidSpan(e) /\ SubSeq(data, e.start + 1, e.end) = e.old

\* Alphabetical order of texts.
TextBefore(a, b) ==
  \E i \in DOMAIN b :
    /\ \A j \in 1..i - 1 : j \in DOMAIN a /\ a[j] = b[j]
    /\ i \in DOMAIN a => a[i] < b[i]

EditBefore(a, b) ==
  \/ a.start < b.start
  \/ a.start = b.start /\ (a.end < b.end \/ (a.end = b.end /\ TextBefore(a.new, b.new)))

Refuse ==
  /\ phase = "collecting"
  /\ \E i \in DOMAIN edits : ~Accepted(edits[i])
  /\ phase' = "refused"
  /\ UNCHANGED <<data, edits, order, left, text>>

\* Equal edits keep their order.
Sort ==
  /\ phase = "collecting" /\ edits # <<>>
  /\ \A i \in DOMAIN edits : Accepted(edits[i])
  /\ phase' = "sorted"
  /\ order' \in [DOMAIN edits -> DOMAIN edits]
  /\ \A i, j \in DOMAIN edits : i < j =>
       LET a == order'[i]
           b == order'[j]
       IN ~EditBefore(edits[b], edits[a]) /\ (a < b \/ EditBefore(edits[a], edits[b]))
  /\ UNCHANGED <<data, edits, left, text>>

\* An edit may not start before the end of the one before it.
Overlaps == \E i \in 2..Len(edits) : edits[order[i - 1]].end > edits[order[i]].start

RefuseOverlap ==
  /\ phase = "sorted" /\ Overlaps
  /\ phase' = "refused"
  /\ UNCHANGED <<data, edits, order, left, text>>

StartReplacing ==
  /\ phase = "sorted" /\ ~Overlaps
  /\ phase' = "replacing"
  /\ left' = Len(edits)
  /\ text' = [i \in DOMAIN data |-> <<0, i>>]
  /\ UNCHANGED <<data, edits, order>>

Replaced(n) ==
  SubSeq(text, 1, edits[n].start)
    \o [i \in DOMAIN edits[n].new |-> <<n, i>>]
    \o SubSeq(text, edits[n].end + 1, Len(text))

\* Mutant: the first edit is made first, and the spans behind it are not moved.
ReplaceForwards ==
  /\ phase = "replacing" /\ left > 0
  /\ text' = Replaced(order[Len(edits) + 1 - left])
  /\ left' = left - 1
  /\ UNCHANGED <<data, edits, phase, order>>

\* The last edit is made first, so that the spans before it stay where they are.
Replace ==
  /\ phase = "replacing" /\ left > 0
  /\ text' = Replaced(order[left])
  /\ left' = left - 1
  /\ UNCHANGED <<data, edits, phase, order>>

EditsNext ==
  \/ \E e \in PossibleEdit : Collect(e)
  \/ Refuse \/ Sort \/ RefuseOverlap \/ StartReplacing \/ Replace

EditsSpec == EditsInit /\ [][EditsNext]_editvars
--------------------------------------------------------------------------------
(* Properties *)

\* Where a client sees a byte: counted in whole lines, up to the first CR of its line.
PlaceOf(byte) ==
  LET before == Newlines(byte)
      start == IF before = {} THEN 0 ELSE CHOOSE i \in before : \A j \in before : j <= i
  IN [line |-> Cardinality(before) + 1, column |-> byte - start + 1,
      shown |-> /\ \A i \in start + 1 .. byte : data[i] # CR
                /\ byte < Len(data) => RuneStart(data[byte + 1])]

AtPlace(byte, place) ==
  LET p == PlaceOf(byte)
  IN p.shown /\ place.line = p.line /\ place.column = p.column

\* Every edit is where it says and replaces what is there, and no two overlap; insertions
\* at the border of an edit, or together, do not.
Sound ==
  /\ \A n \in DOMAIN edits :
       LET e == edits[n]
       IN /\ 0 <= e.start /\ e.start <= e.end /\ e.end <= Len(data)
          /\ SubSeq(data, e.start + 1, e.end) = e.old
          /\ e.places # NoPlace => AtPlace(e.start, e.places.start) /\ AtPlace(e.end, e.places.end)
  /\ \A m, n \in DOMAIN edits : m # n =>
       edits[m].start >= edits[n].end \/ edits[n].start >= edits[m].end

\* The bytes of the new file: those that no edit covers, and those of the new texts.
Written ==
  {<<0, i>> : i \in {j \in DOMAIN data :
                       \A n \in DOMAIN edits : j <= edits[n].start \/ j > edits[n].end}}
    \cup UNION {{<<n, i>> : i \in DOMAIN edits[n].new} : n \in DOMAIN edits}

\* Which byte of the new file comes first: insertions at one place are in alphabetical
\* order, all others in the order of the places where they stand in the old file.
Span(o) == IF o[1] = 0 THEN [start |-> o[2] - 1, end |-> o[2]]
           ELSE [start |-> edits[o[1]].start, end |-> edits[o[1]].end]
Together(o, p) ==
  o[1] # 0 /\ p[1] # 0 /\ Span(o).start = Span(p).end /\ Span(p).start = Span(o).end
Before(o, p) ==
  IF o[1] = p[1] THEN o[2] < p[2]
  ELSE IF ~Together(o, p) THEN Span(o).end <= Span(p).start
  ELSE LET a == edits[o[1]].new
           b == edits[p[1]].new
       IN TextBefore(a, b) \/ (a = b /\ o[1] < p[1])

\* A plan gives the text that its edits describe, in whatever order it lists them, each
\* byte once and in its place, and is refused exactly when an edit is not where it says,
\* or not what is there, or when two edits overlap (prepare).
PatchedAsWritten ==
  /\ phase = "refused" => ~Sound
  /\ phase = "replacing" /\ left = 0 =>
       /\ Sound
       /\ {text[i] : i \in DOMAIN text} = Written
       /\ \A i, j \in DOMAIN text : i < j => text[i] # text[j] /\ ~Before(text[j], text[i])
================================================================================
