-------------------------- MODULE ExpansionProofs ---------------------------
(***************************************************************************)
(* Proofs about Expansion for every file system and every limit.           *)
(*                                                                         *)
(* The machine knows a resource by its key and counts keys from the        *)
(* directory of the root; the file system is asked with paths and counts   *)
(* a target from the directory of the file it stands in.  An answer is     *)
(* remembered by key, so it is the right one for another includer only as  *)
(* long as the two ways of counting agree: Agreeing is what the invariant  *)
(* says of everything the machine holds.  They agree while no symbolic     *)
(* link leads to another directory, which is what IncludesFound assumes;   *)
(* run ExpansionLinks shows that it has to.                                *)
(*                                                                         *)
(* The limits hold whatever the files are: Limited adds to TypeOK what a   *)
(* cursor on the stack and a segment of the output look like, and the sum  *)
(* of the segments' bytes is counted unit by unit.                         *)
(*                                                                         *)
(* Expansion ends, whether or not files include each other: every step     *)
(* descends in a well-founded order (ExpansionDescends).                   *)
(***************************************************************************)
EXTENDS Expansion, TLAPS, FiniteSetTheorems, SequenceTheorems, WellFoundedInduction

-----------------------------------------------------------------------------
(* Sequences. *)

(* All but the last element of a sequence, and its last one.               *)
LEMMA FrontFacts ==
  ASSUME NEW S, NEW s \in Seq(S), s # <<>>
  PROVE  /\ Front(s) \in Seq(S) /\ Len(Front(s)) = Len(s) - 1 /\ Last(s) = s[Len(s)]
         /\ Len(s) \in Nat \ {0} /\ Len(s) \in DOMAIN s
         /\ \A i \in 1..(Len(s) - 1) : Front(s)[i] = s[i]
BY DEF Front, Last

(* Of two sequences joined, the last element goes from the second.         *)
LEMMA FrontOfJoined ==
  ASSUME NEW S, NEW s \in Seq(S), NEW t \in Seq(S), t # <<>>
  PROVE  Front(s \o t) = s \o Front(t)
<1>1. /\ s \o t \in Seq(S) /\ s \o t # <<>> /\ Len(s \o t) = Len(s) + Len(t)
      /\ \A i \in 1..Len(s) + Len(t) : (s \o t)[i] = IF i <= Len(s) THEN s[i] ELSE t[i - Len(s)]
      /\ Len(s) \in Nat /\ Len(t) \in Nat \ {0}
  BY ConcatProperties, LenProperties, EmptySeq
<1>2. /\ Front(t) \in Seq(S) /\ Len(Front(t)) = Len(t) - 1
      /\ \A i \in 1..(Len(t) - 1) : Front(t)[i] = t[i]
  BY FrontFacts
<1>3. /\ Front(s \o t) \in Seq(S) /\ Len(Front(s \o t)) = Len(s \o t) - 1
      /\ \A i \in 1..(Len(s \o t) - 1) : Front(s \o t)[i] = (s \o t)[i]
  <2> DEFINE r == s \o t
  <2>1. r \in Seq(S) /\ r # <<>>
    BY <1>1
  <2> HIDE DEF r
  <2>2. /\ Front(r) \in Seq(S) /\ Len(Front(r)) = Len(r) - 1
        /\ \A i \in 1..(Len(r) - 1) : Front(r)[i] = r[i]
    BY <2>1, FrontFacts
  <2> QED
    BY <2>2 DEF r
<1>4. /\ s \o Front(t) \in Seq(S) /\ Len(s \o Front(t)) = Len(s) + Len(t) - 1
      /\ \A i \in 1..Len(s) + Len(Front(t)) :
           (s \o Front(t))[i] = IF i <= Len(s) THEN s[i] ELSE Front(t)[i - Len(s)]
  <2> DEFINE u == Front(t)
  <2>1. u \in Seq(S) /\ Len(u) = Len(t) - 1
    BY <1>2
  <2> HIDE DEF u
  <2>2. /\ s \o u \in Seq(S) /\ Len(s \o u) = Len(s) + Len(u)
        /\ \A i \in 1..Len(s) + Len(u) : (s \o u)[i] = IF i <= Len(s) THEN s[i] ELSE u[i - Len(s)]
    BY <2>1, ConcatProperties
  <2>3. Len(s) + Len(u) = Len(s) + Len(t) - 1
    BY <1>1, <2>1
  <2> QED
    BY <2>2, <2>3 DEF u
<1>5. \A i \in 1..(Len(s) + Len(t) - 1) : Front(s \o t)[i] = (s \o Front(t))[i]
  BY <1>1, <1>2, <1>3, <1>4
<1>6. /\ Len(Front(s \o t)) = Len(s \o Front(t)) /\ Len(s \o Front(t)) = Len(s) + Len(t) - 1
      /\ Front(s \o t) \in Seq(S) /\ s \o Front(t) \in Seq(S)
  BY <1>1, <1>3, <1>4
<1> QED
  <2> DEFINE u == Front(s \o t)
             v == s \o Front(t)
  <2>1. /\ u \in Seq(S) /\ v \in Seq(S) /\ Len(u) = Len(v)
        /\ \A i \in 1..Len(u) : u[i] = v[i]
    BY <1>5, <1>6
  <2> HIDE DEF u, v
  <2>2. u = v
    BY <2>1, SeqEqual
  <2> QED
    BY <2>2 DEF u, v

(* Putting another last element in the place of one.                       *)
LEMMA Replaced ==
  ASSUME NEW S, NEW s \in Seq(S), s # <<>>, NEW T, S \subseteq T, NEW c \in T
  PROVE  Append(Front(s), c) \in Seq(T)
BY FrontFacts

-----------------------------------------------------------------------------
(* What an include selects are lines of the file. *)

LEMMA ChangedLine ==
  ASSUME NEW line \in SourceLine
  PROVE  /\ \A n \in Nat : [line EXCEPT !.number = n] \in SourceLine
         /\ Indented(line) \in SourceLine
<1>1. \A n \in Nat : [line EXCEPT !.number = n] \in SourceLine
  BY DEF SourceLine
<1>2. \A k \in Kinds, n \in Nat : [line EXCEPT !.kind = k, !.padding = n] \in SourceLine
  BY DEF SourceLine
<1>3. Indented(line) = [line EXCEPT !.kind = IF line.kind = "blank" THEN "blank" ELSE "text", !.padding = 1]
  BY DEF Indented
<1>4. Indented(line) \in SourceLine
  <2> DEFINE k == IF line.kind = "blank" THEN "blank" ELSE "text"
  <2>1. k \in Kinds
    BY DEF Kinds
  <2>2. Indented(line) = [line EXCEPT !.kind = k, !.padding = 1]
    BY <1>3
  <2> HIDE DEF k
  <2> QED
    BY <1>2, <2>1, <2>2
<1> QED
  BY <1>1, <1>4

LEMMA SelectedLines ==
  ASSUME NEW lines \in Seq(SourceLine), NEW include
  PROVE  SelectLines(lines, include) \in Seq(SourceLine)
  <1> DEFINE Selected(i) ==
               /\ lines[i].kind \notin {"tag", "end"}
               /\ include.tag = None \/ Opened(lines, include.tag, i) > 0
               /\ include.numbers = {} \/ i \in include.numbers
             kept == {i \in DOMAIN lines : Selected(i)}
             upTo(i) == {k \in kept : k <= i}
             C == Cardinality(kept)
             place == [i \in kept |-> Cardinality(upTo(i))]
             at(j) == CHOOSE i \in kept : Cardinality(upTo(i)) = j
  <1>1. SelectLines(lines, include) = [j \in 1..C |-> Numbered(lines)[at(j)]]
    BY DEF SelectLines
  <1> HIDE DEF Selected
  <1>2. IsFiniteSet(kept) /\ C \in Nat /\ kept \subseteq Nat /\ kept \subseteq DOMAIN lines
    <2>1. Len(lines) \in Nat /\ kept \subseteq 1..Len(lines) /\ IsFiniteSet(1..Len(lines))
      BY FS_Interval
    <2>2. IsFiniteSet(kept)
      BY <2>1, FS_Subset
    <2> QED
      BY <2>1, <2>2, FS_CardinalityType
  <1> HIDE DEF C
  <1>3. \A i \in kept : /\ upTo(i) \subseteq kept /\ IsFiniteSet(upTo(i)) /\ i \in upTo(i)
                        /\ place[i] = Cardinality(upTo(i)) /\ place[i] \in 1..C
    <2> SUFFICES ASSUME NEW i \in kept
                 PROVE  IsFiniteSet(upTo(i)) /\ i \in upTo(i) /\ Cardinality(upTo(i)) \in 1..C
      OBVIOUS
    <2>1. i \in upTo(i) /\ upTo(i) \subseteq kept
      BY <1>2
    <2> HIDE DEF upTo, kept
    <2>2. IsFiniteSet(upTo(i)) /\ Cardinality(upTo(i)) <= C
      BY <1>2, <2>1, FS_Subset DEF C
    <2>3. Cardinality(upTo(i)) \in Nat /\ Cardinality(upTo(i)) # 0
      BY <2>1, <2>2, FS_CardinalityType, FS_EmptySet
    <2> QED
      BY <1>2, <2>1, <2>2, <2>3
  <1>4. ASSUME NEW i \in kept, NEW j \in kept, i < j PROVE place[i] # place[j]
    <2>1. upTo(i) \subseteq upTo(j) /\ j \in upTo(j) /\ j \notin upTo(i)
      BY <1>2, <1>4
    <2> HIDE DEF upTo, place, kept
    <2> QED
      BY <1>3, <2>1, FS_Subset
  <1> HIDE DEF place
  <1>5. \A i, j \in kept : place[i] = place[j] => i = j
    BY <1>2, <1>4
  <1>6. \A j \in 1..C : at(j) \in kept
    <2>1. place \in Injection(kept, 1..C)
      BY <1>3, <1>5 DEF place, Injection, IsInjective
    <2>2. IsFiniteSet(1..C) /\ Cardinality(1..C) = C
      BY <1>2, FS_Interval
    <2>3. place \in Surjection(kept, 1..C)
      BY <2>1, <2>2, <1>2, FS_Injection DEF C
    <2>4. \A j \in 1..C : \E i \in kept : place[i] = j
      BY <2>3 DEF Surjection
    <2> HIDE DEF kept, upTo
    <2>5. \A j \in 1..C : \E i \in kept : Cardinality(upTo(i)) = j
      BY <1>3, <2>4
    <2> QED
      BY <2>5
  <1> HIDE DEF at, kept, upTo
  <1>7. \A i \in DOMAIN lines : Numbered(lines)[i] \in SourceLine
    <2>1. \A i \in DOMAIN lines : i \in Nat /\ lines[i] \in SourceLine
      OBVIOUS
    <2>2. \A i \in DOMAIN lines : [lines[i] EXCEPT !.number = i] \in SourceLine
      BY <2>1, ChangedLine
    <2> QED
      BY <2>2 DEF Numbered
  <1>8. [j \in 1..C |-> Numbered(lines)[at(j)]] \in [1..C -> SourceLine]
    BY <1>2, <1>6, <1>7
  <1> QED
    BY <1>1, <1>2, <1>8

LEMMA NumberedLines ==
  ASSUME NEW lines \in Seq(SourceLine)
  PROVE  Numbered(lines) \in Seq(SourceLine)
<1>1. \A i \in 1..Len(lines) : i \in Nat /\ lines[i] \in SourceLine
  OBVIOUS
<1>2. Len(lines) \in Nat /\ DOMAIN lines = 1..Len(lines)
  OBVIOUS
<1>3. Numbered(lines) \in [1..Len(lines) -> SourceLine]
  BY <1>1, <1>2, ChangedLine DEF Numbered
<1> QED
  BY <1>2, <1>3

LEMMA TransformedLines ==
  ASSUME NEW lines \in Seq(SourceLine), NEW include
  PROVE  TransformLines(lines, include) \in Seq(SourceLine)
<1>1. \A line \in SourceLine : Indented(line) \in SourceLine
  BY ChangedLine
<1>2. [i \in DOMAIN lines |-> Indented(lines[i])] \in [1..Len(lines) -> SourceLine]
  BY <1>1
<1> QED
  BY <1>2 DEF TransformLines

-----------------------------------------------------------------------------
(* The inductive invariant. *)

(* What the theorem assumes of the file system: a symbolic link leads to a *)
(* file beside it.                                                         *)
LinksStayBeside == \A p \in DOMAIN Links : Front(Links[p]) = Front(p)

(* The path a key stands for when it is counted from the root.             *)
Place(key) == Front(Root) \o key

(* A cursor counts keys from where its source's file is.                   *)
CursorAgrees(c) ==
  /\ DOMAIN c = {"source", "lines", "depth", "base", "active", "next", "conditions", "through"}
  /\ c.source \in Path /\ c.base \in Path /\ c.lines \in Seq(SourceLine) /\ c.next \in Nat \ {0}
  /\ Front(c.source) = Place(c.base)

StackAgrees(s) == s \in Seq(Range(s)) /\ \A i \in DOMAIN s : CursorAgrees(s[i])

(* An include's key stands for the path its target names.                  *)
IncludeAgrees(include) ==
  /\ include.owner \in Path /\ include.to \in Path /\ include.key \in Path /\ include.key # <<>>
  /\ Front(include.owner) \o include.to = Place(include.key)

(* What the machine was told under a key is what is at the key's place.    *)
AnswerAgrees(key, answer) ==
  answer # <<>> => answer[1].source = Place(key) /\ answer[1].lines \in Seq(SourceLine)

DirectiveAgrees(d) == d.source # <<>> => d.source = Front(d.owner) \o d.to

Agreeing ==
  /\ disk \in Disks
  /\ StackAgrees(stack)
  /\ status = "suspended" => IncludeAgrees(pending[1])
  /\ \A key \in DOMAIN resolved : AnswerAgrees(key, resolved[key])
  /\ directives \in Seq(Range(directives)) /\ \A i \in DOMAIN directives : DirectiveAgrees(directives[i])

-----------------------------------------------------------------------------
(* The stack. *)

LEMMA Pushing ==
  ASSUME NEW s, s \in Seq(Range(s)), NEW c
  PROVE  /\ Append(s, c) \in Seq(Range(Append(s, c)))
         /\ \A i \in DOMAIN Append(s, c) : Append(s, c)[i] = c \/ (i \in DOMAIN s /\ Append(s, c)[i] = s[i])
<1>1. /\ Append(s, c) \in Seq(Range(s) \cup {c}) /\ Len(s) \in Nat /\ DOMAIN s = 1..Len(s)
      /\ DOMAIN Append(s, c) = 1..(Len(s) + 1) /\ Append(s, c)[Len(s) + 1] = c
      /\ \A i \in 1..Len(s) : Append(s, c)[i] = s[i]
  OBVIOUS
<1>2. Append(s, c) \in Seq(Range(Append(s, c)))
  <2> DEFINE t == Append(s, c)
  <2>1. t \in Seq(Range(s) \cup {c}) /\ DOMAIN t = 1..(Len(s) + 1) /\ Len(s) + 1 \in Nat
    BY <1>1
  <2> HIDE DEF t
  <2>2. t \in [1..(Len(s) + 1) -> Range(t)]
    BY <2>1 DEF Range
  <2>3. t \in Seq(Range(t))
    BY <2>1, <2>2
  <2> QED
    BY <2>3 DEF t
<1>3. \A i \in DOMAIN Append(s, c) : i = Len(s) + 1 \/ i \in DOMAIN s
  BY <1>1
<1> QED
  BY <1>1, <1>2, <1>3

LEMMA StackPushed ==
  ASSUME NEW s, StackAgrees(s), NEW c, CursorAgrees(c)
  PROVE  StackAgrees(Append(s, c))
BY Pushing DEF StackAgrees

LEMMA StackTop ==
  ASSUME NEW s, StackAgrees(s), s # <<>>
  PROVE  CursorAgrees(Last(s)) /\ StackAgrees(Front(s))
<1>1. /\ Front(s) \in Seq(Range(s)) /\ Len(Front(s)) = Len(s) - 1 /\ Last(s) = s[Len(s)]
      /\ Len(s) \in Nat \ {0} /\ Len(s) \in DOMAIN s
      /\ \A i \in 1..(Len(s) - 1) : Front(s)[i] = s[i]
  BY FrontFacts DEF StackAgrees
<1>2. /\ DOMAIN Front(s) = 1..(Len(s) - 1) /\ \A i \in 1..(Len(s) - 1) : i \in DOMAIN s
  BY <1>1 DEF StackAgrees
<1>3. Front(s) \in [1..(Len(s) - 1) -> Range(Front(s))]
  BY <1>1, <1>2 DEF Range
<1>4. Front(s) \in Seq(Range(Front(s)))
  BY <1>1, <1>3
<1> QED
  BY <1>1, <1>2, <1>4 DEF StackAgrees

(* A cursor that goes on agrees as before.                                 *)
LEMMA GoingOn ==
  ASSUME NEW c, CursorAgrees(c), NEW n \in Nat \ {0}, NEW t, NEW q
  PROVE  /\ CursorAgrees([c EXCEPT !.next = n])
         /\ CursorAgrees([[c EXCEPT !.next = n] EXCEPT !.through = t])
         /\ CursorAgrees([[c EXCEPT !.next = n] EXCEPT !.conditions = q])
BY DEF CursorAgrees

LEMMA OnwardAgrees ==
  ASSUME Agreeing, Running, NEW t, NEW q
  PROVE  /\ CursorAgrees(Top) /\ CursorAgrees(Onward) /\ StackAgrees(Suspended)
         /\ CursorAgrees([Onward EXCEPT !.through = t])
         /\ CursorAgrees([Onward EXCEPT !.conditions = q])
<1>1. CursorAgrees(Top) /\ StackAgrees(Front(stack))
  BY StackTop DEF Agreeing, Running, Top
<1>2. Top.next + 1 \in Nat \ {0}
  BY <1>1 DEF CursorAgrees
<1>3. /\ CursorAgrees(Onward) /\ CursorAgrees([Onward EXCEPT !.through = t])
      /\ CursorAgrees([Onward EXCEPT !.conditions = q])
  BY <1>1, <1>2, GoingOn DEF Onward
<1> QED
  BY <1>1, <1>3, StackPushed DEF Suspended

(* What most lines do: the cursor is put back, nothing is told.            *)
LEMMA ProceedAgrees ==
  ASSUME Agreeing, Running, NEW cursor, CursorAgrees(cursor), NEW after, NEW segments,
         Proceed(cursor, after, segments)
  PROVE  Agreeing'
<1>1. StackAgrees(Append(Front(stack), cursor))
  BY StackTop, StackPushed DEF Agreeing, Running
<1>2. /\ stack' = stack \/ stack' = Append(Front(stack), cursor)
      /\ status' # "suspended" /\ UNCHANGED <<disk, resolved, pending, directives>>
  BY DEF Proceed, End, Running
<1> QED
  BY <1>1, <1>2 DEF Agreeing

(* How a machine ends, and what only notices.                              *)
LEMMA EndAgrees ==
  ASSUME Agreeing, NEW how, how # "suspended", End(how)
  PROVE  Agreeing'
BY DEF End, Agreeing
-----------------------------------------------------------------------------
(* Includes. *)

LEMMA BaseBeside ==
  ASSUME LinksStayBeside
  PROVE  \A p : BaseOf(p) = Front(p)
BY DEF LinksStayBeside, BaseOf, Real

LEMMA Joined ==
  ASSUME NEW s \in Path, NEW t \in Path
  PROVE  s \o t \in Path /\ (t # <<>> => Front(t) \in Path /\ Front(s \o t) = s \o Front(t))
<1>1. s \o t \in Path
  BY DEF Path
<1>2. ASSUME t # <<>> PROVE Front(t) \in Path /\ Front(s \o t) = s \o Front(t)
  BY <1>2, FrontFacts, FrontOfJoined DEF Path
<1> QED
  BY <1>1, <1>2

LEMMA AboveRoot == Front(Root) \in Path
BY ExpansionAssumption, FrontFacts DEF Path

(* A child counts its keys from the directory of its own.                  *)
LEMMA ChildAgrees ==
  ASSUME NEW include, IncludeAgrees(include), NEW source, source = Place(include.key),
         NEW lines \in Seq(SourceLine), NEW depth, NEW active
  PROVE  CursorAgrees(Cursor(source, lines, depth, Front(include.key), active))
<1> DEFINE c == Cursor(source, lines, depth, Front(include.key), active)
<1>1. Front(include.key) \in Path /\ Place(include.key) \in Path
      /\ Front(Place(include.key)) = Place(Front(include.key))
  BY Joined, AboveRoot DEF IncludeAgrees, Place
<1>2. /\ DOMAIN c = {"source", "lines", "depth", "base", "active", "next", "conditions", "through"}
      /\ c.source = source /\ c.base = Front(include.key) /\ c.lines = lines /\ c.next = 1
  BY DEF Cursor
<1> HIDE DEF c
<1> QED
  BY <1>1, <1>2 DEF CursorAgrees, c

(* The include that a line asks for.                                       *)
LEMMA PendingAgrees ==
  ASSUME Agreeing, AtLine, Pending.key # <<>>
  PROVE  IncludeAgrees(Pending)
<1> DEFINE to == ExpandedTarget(Line, state.attributes)
<1>1. CursorAgrees(Top)
  BY OnwardAgrees DEF AtLine
<1>2. Line \in SourceLine
  BY <1>1 DEF CursorAgrees, AtLine, Line
<1>3. Line.to \in Path /\ <<Line.via>> \in Path
  BY <1>2 DEF SourceLine, Path
<1>4. to \in Path
  BY <1>3, Joined DEF ExpandedTarget
<1> HIDE DEF to
<1>5. Pending.owner = Top.source /\ Pending.to = to /\ Pending.key = Top.base \o to
  BY DEF Pending, to
<1>6. Top.source \in Path /\ Top.base \in Path /\ Front(Top.source) = Front(Root) \o Top.base
  BY <1>1 DEF CursorAgrees, Place
<1>7. Front(Top.source) \o to = Front(Root) \o (Top.base \o to)
  <2>1. \A r, s, t \in Path : (r \o s) \o t = r \o (s \o t)
    BY ConcatAssociative DEF Path
  <2>2. (Front(Root) \o Top.base) \o to = Front(Root) \o (Top.base \o to)
    BY <1>4, <1>6, <2>1, AboveRoot, Zenon
  <2> QED
    BY <1>6, <2>2, Zenon
<1>8. Top.base \o to \in Path
  BY <1>4, <1>6, Joined
<1> HIDE DEF Pending, Top
<1> QED
  BY <1>4, <1>5, <1>6, <1>7, <1>8 DEF IncludeAgrees, Place

(* An include is resolved with an answer that is at its key's place.       *)
LEMMA ResolveAgrees ==
  ASSUME Agreeing, NEW include, IncludeAgrees(include), NEW answer, AnswerAgrees(include.key, answer),
         NEW frames, StackAgrees(frames), NEW after, ResolvePending(include, answer, frames, after),
         \A key \in DOMAIN resolved' : AnswerAgrees(key, resolved'[key])
  PROVE  Agreeing'
<1> DEFINE lines == TransformLines(SelectLines(answer[1].lines, include.line), include.line)
           child == Cursor(answer[1].source, lines, include.depth + 1, Front(include.key),
                           include.active \cup {include.key})
           made == [owner |-> include.owner, to |-> include.to,
                    source |-> IF answer = <<>> THEN <<>> ELSE answer[1].source]
<1>1. CASE \E how : how # "suspended" /\ End(how)
  BY <1>1, EndAgrees
<1>2. CASE /\ directives' = Append(directives, made)
           /\ stack' = (IF answer = <<>> THEN frames ELSE Append(frames, child))
           /\ status' = "running" /\ disk' = disk
  <2>1. ASSUME answer # <<>> PROVE CursorAgrees(child)
    <3>1. answer[1].source = Place(include.key) /\ answer[1].lines \in Seq(SourceLine)
      BY <2>1 DEF AnswerAgrees
    <3>2. lines \in Seq(SourceLine)
      BY <3>1, SelectedLines, TransformedLines
    <3> HIDE DEF lines
    <3> QED
      BY <3>1, <3>2, ChildAgrees
  <2> HIDE DEF child
  <2>2. StackAgrees(stack')
    BY <1>2, <2>1, StackPushed
  <2>3. DirectiveAgrees(made)
    BY DEF AnswerAgrees, IncludeAgrees, DirectiveAgrees
  <2> HIDE DEF made
  <2>4. /\ directives' \in Seq(Range(directives'))
        /\ \A i \in DOMAIN directives' : DirectiveAgrees(directives'[i])
    BY <1>2, <2>3, Pushing DEF Agreeing
  <2> QED
    BY <1>2, <2>2, <2>4 DEF Agreeing
<1> HIDE DEF child, made
<1>3. \/ \E how : how # "suspended" /\ End(how)
      \/ /\ directives' = Append(directives, made)
         /\ stack' = (IF answer = <<>> THEN frames ELSE Append(frames, child))
         /\ status' = "running" /\ disk' = disk
  BY DEF ResolvePending, child, made
<1> QED
  BY <1>1, <1>2, <1>3

LEMMA IncludeLineAgrees ==
  ASSUME Agreeing, IncludeLine
  PROVE  Agreeing'
<1>1. Running /\ AtLine /\ StackAgrees(Suspended)
  BY OnwardAgrees DEF IncludeLine, AtLine
<1>2. CASE IncludeProblem # None /\ End(IncludeProblem)
  <2>1. IncludeProblem # "suspended"
    BY DEF IncludeProblem, None
  <2> QED
    BY <1>2, <2>1, EndAgrees
<1>3. ASSUME IncludeProblem = None PROVE IncludeAgrees(Pending)
  <2>1. Pending.key # <<>>
    BY <1>3 DEF IncludeProblem, None
  <2> QED
    BY <1>1, <2>1, PendingAgrees
<1>4. CASE /\ IncludeProblem = None /\ Pending.key \in DOMAIN resolved
           /\ ResolvePending(Pending, resolved[Pending.key], Suspended, Counted) /\ resolved' = resolved
  <2>1. AnswerAgrees(Pending.key, resolved[Pending.key])
        /\ \A key \in DOMAIN resolved' : AnswerAgrees(key, resolved'[key])
    BY <1>4 DEF Agreeing
  <2> QED
    BY <1>1, <1>3, <1>4, <2>1, ResolveAgrees
<1>5. CASE /\ IncludeProblem = None /\ pending' = <<Pending>> /\ stack' = Suspended
           /\ UNCHANGED <<disk, resolved, directives>>
  BY <1>1, <1>3, <1>5 DEF Agreeing
<1> QED
  BY <1>2, <1>4, <1>5 DEF IncludeLine

(* The file system answers with the path the key stands for.               *)
LEMMA AnswerIncludeAgrees ==
  ASSUME LinksStayBeside, Agreeing, AnswerInclude
  PROVE  Agreeing'
<1> DEFINE include == pending[1]
           path == RequestedPath(include)
           answer == Response(path)
<1>1. IncludeAgrees(include) /\ StackAgrees(stack) /\ disk \in Disks
  BY DEF Agreeing, AnswerInclude
<1>2. path = Place(include.key)
  BY <1>1, BaseBeside DEF RequestedPath, IncludeAgrees
<1>3. ASSUME Found(path).is = "file" PROVE Found(path).lines \in Seq(SourceLine)
  BY <1>1, <1>3, ExpansionAssumption DEF Found
<1>4. <<>> \in Seq(SourceLine)
  OBVIOUS
<1> HIDE DEF include, path
<1>5. AnswerAgrees(include.key, answer)
  BY <1>2, <1>3, <1>4 DEF Response, Outcome, AnswerAgrees
<1> HIDE DEF answer
<1>6. CASE \E how : how # "suspended" /\ End(how)
  BY <1>6, EndAgrees
<1>7. CASE /\ ResolvePending(include, answer, stack, state)
           /\ resolved' = resolved \/ resolved' = Told(include.key, answer)
  <2>1. \A key \in DOMAIN resolved' : AnswerAgrees(key, resolved'[key])
    BY <1>5, <1>7 DEF Told, Agreeing
  <2> QED
    BY <1>1, <1>5, <1>7, <2>1, ResolveAgrees
<1> QED
  BY <1>6, <1>7 DEF AnswerInclude, include, path, answer
-----------------------------------------------------------------------------
LEMMA InitAgrees == Init => Agreeing
<1> SUFFICES ASSUME Init PROVE Agreeing
  OBVIOUS
<1> DEFINE c == Cursor(Root, Numbered(disk[Root].lines), 0, <<>>, {})
<1>1. /\ Root \in Path /\ Root # <<>> /\ disk[Root].lines \in Seq(SourceLine)
  BY ExpansionAssumption DEF Init
<1>2. Numbered(disk[Root].lines) \in Seq(SourceLine)
  BY <1>1, NumberedLines
<1>3. Front(Root) = Place(<<>>) /\ <<>> \in Path
  BY AboveRoot, ConcatEmptySeq DEF Place, Path
<1>4. CursorAgrees(c)
  BY <1>1, <1>2, <1>3 DEF Cursor, CursorAgrees
<1> HIDE DEF c
<1>5. StackAgrees(<<c>>)
  <2>1. <<c>> \in Seq({c}) /\ Range(<<c>>) = {c} /\ \A i \in DOMAIN <<c>> : <<c>>[i] = c
    BY DEF Range
  <2> QED
    BY <1>4, <2>1 DEF StackAgrees
<1>6. /\ stack = <<c>> /\ disk \in Disks /\ status = "running" /\ DOMAIN resolved = {} /\ directives = <<>>
  BY DEF Init, c
<1>7. <<>> \in Seq(Range(<<>>)) /\ DOMAIN <<>> = {}
  OBVIOUS
<1> QED
  BY <1>5, <1>6, <1>7 DEF Agreeing

LEMMA DriveAgrees ==
  ASSUME Agreeing, Drive
  PROVE  Agreeing'
<1>1. CASE ValueLine
  BY <1>1, OnwardAgrees, ProceedAgrees DEF ValueLine, AtLine
<1>2. CASE TextLine
  BY <1>2, OnwardAgrees, ProceedAgrees DEF TextLine, AtLine
<1>3. CASE EscapedLine
  BY <1>3, OnwardAgrees, ProceedAgrees DEF EscapedLine, AtLine
<1>4. CASE SkippedLine
  BY <1>4, OnwardAgrees, ProceedAgrees DEF SkippedLine, AtLine
<1>5. CASE OpenConditional
  BY <1>5, OnwardAgrees, ProceedAgrees DEF OpenConditional, AtLine
<1>6. CASE CloseConditional
  BY <1>6, OnwardAgrees, ProceedAgrees, EndAgrees DEF CloseConditional, AtLine
<1>7. CASE InlineConditional
  BY <1>7, OnwardAgrees, ProceedAgrees DEF InlineConditional, AtLine
<1>8. CASE IncludeLine
  BY <1>8, IncludeLineAgrees
<1>9. CASE EndFrame
  <2>1. CASE End("unclosed")
    BY <2>1, EndAgrees
  <2>2. CASE stack' = Front(stack) /\ UNCHANGED <<disk, resolved, pending, directives, status>>
    BY <1>9, <2>2, StackTop DEF EndFrame, Running, Agreeing
  <2> QED
    BY <1>9, <2>1, <2>2 DEF EndFrame
<1>10. CASE NoticeCancellation
  BY <1>10, EndAgrees DEF NoticeCancellation
<1>11. CASE Finish
  BY <1>11, EndAgrees DEF Finish
<1> QED
  BY <1>1, <1>2, <1>3, <1>4, <1>5, <1>6, <1>7, <1>8, <1>9, <1>10, <1>11 DEF Drive

LEMMA StepAgrees ==
  ASSUME LinksStayBeside, Agreeing, [Next]_vars
  PROVE  Agreeing'
<1>1. CASE Drive
  BY <1>1, DriveAgrees
<1>2. CASE AnswerInclude
  BY <1>2, AnswerIncludeAgrees
<1>3. CASE Cancel
  BY <1>3 DEF Cancel, Agreeing
<1>4. CASE UNCHANGED vars
  BY <1>4 DEF vars, Agreeing
<1> QED
  BY <1>1, <1>2, <1>3, <1>4 DEF Next

(* While no symbolic link leads to another directory, every include is     *)
(* answered with the file its target names from the directory of the file  *)
(* it stands in, whatever had been included and remembered before it.      *)
THEOREM IncludesFound ==
  ASSUME LinksStayBeside
  PROVE  Spec => []IncludesFromTheirBase
<1>1. Agreeing => IncludesFromTheirBase
  BY BaseBeside DEF Agreeing, DirectiveAgrees, IncludesFromTheirBase
<1>2. Agreeing /\ [Next]_vars => Agreeing'
  BY StepAgrees
<1> QED
  BY InitAgrees, <1>1, <1>2, PTL DEF Spec
-----------------------------------------------------------------------------
(* Bytes.  What a sequence of segments comes to is the number of the units *)
(* its segments are made of.                                               *)

Units(g, T) == UNION {{x} \X (1..g[x]) : x \in T}

LEMMA UnitsFinite ==
  ASSUME NEW T, IsFiniteSet(T), NEW g, \A x \in T : g[x] \in Nat
  PROVE  IsFiniteSet(Units(g, T))
  <1> DEFINE column == [x \in T |-> {x} \X (1..g[x])]
             columns == {{x} \X (1..g[x]) : x \in T}
  <1>1. column \in Surjection(T, columns)
    BY DEF Surjection
  <1>2. IsFiniteSet(columns)
    BY <1>1, FS_Surjection
  <1>3. ASSUME NEW c \in columns PROVE IsFiniteSet(c)
    <2>1. PICK x \in T : c = {x} \X (1..g[x])
      OBVIOUS
    <2>2. \A n \in Nat : IsFiniteSet(1..n)
      BY FS_Interval
    <2>3. IsFiniteSet({x}) /\ IsFiniteSet(1..g[x])
      BY <2>2, FS_Singleton
    <2> QED
      BY <2>1, <2>3, FS_Product
  <1> QED
    BY <1>2, <1>3, FS_UNION DEF Units

LEMMA UnitsAdd ==
  ASSUME NEW T, IsFiniteSet(T), NEW g, \A x \in T : g[x] \in Nat, NEW x \in T
  PROVE  /\ Cardinality(Units(g, T)) \in Nat /\ Cardinality(Units(g, T \ {x})) \in Nat
         /\ Cardinality(Units(g, T)) = g[x] + Cardinality(Units(g, T \ {x}))
  <1> DEFINE mine == {x} \X (1..g[x])
             rest == Units(g, T \ {x})
  <1>1. Units(g, T) = mine \cup rest /\ mine \cap rest = {}
    BY DEF Units
  <1>2. IsFiniteSet(T \ {x})
    BY FS_RemoveElement
  <1>3. IsFiniteSet(rest)
    BY <1>2, UnitsFinite
  <1>4. IsFiniteSet(mine) /\ Cardinality(mine) = g[x]
    <2>1. IsFiniteSet({x}) /\ Cardinality({x}) = 1
      BY FS_Singleton
    <2>2. \A n \in Nat : IsFiniteSet(1..n) /\ Cardinality(1..n) = n
      BY FS_Interval
    <2>3. \A n \in Nat : IsFiniteSet({x} \X (1..n)) /\ Cardinality({x} \X (1..n)) = 1 * n
      BY <2>1, <2>2, FS_Product
    <2>4. \A n \in Nat : 1 * n = n
      OBVIOUS
    <2> QED
      BY <2>3, <2>4
  <1> HIDE DEF mine, rest
  <1>5. Cardinality(mine \cup rest) = Cardinality(mine) + Cardinality(rest) - Cardinality(mine \cap rest)
    BY <1>3, <1>4, FS_Union
  <1>6. Cardinality(rest) \in Nat /\ Cardinality(mine \cap rest) = 0
    BY <1>1, <1>3, FS_EmptySet, FS_CardinalityType
  <1> QED
    BY <1>1, <1>4, <1>5, <1>6 DEF rest

(* Induction over the subsets of a finite set.                             *)
LEMMA SmallestSubset ==
  ASSUME NEW S, IsFiniteSet(S), NEW D \in SUBSET SUBSET S, D # {}
  PROVE  \E d \in D : \A e \in D : ~(e \subseteq d /\ e # d)
  <1> DEFINE R == StrictSubsetOrdering(S)
  <1>1. IsWellFoundedOn(R, FiniteSubsetsOf(S))
    BY FS_StrictSubsetOrderingWellFounded
  <1>2. FiniteSubsetsOf(S) = SUBSET S
    BY FS_FiniteSubsetsOfFinite
  <1>3. \A e, d \in SUBSET S : <<e, d>> \in R <=> e \subseteq d /\ e # d
    BY DEF StrictSubsetOrdering
  <1> HIDE DEF R
  <1>4. \E d \in D : \A e \in D : ~(<<e, d>> \in R)
    BY <1>1, <1>2, WFMin
  <1> QED
    BY <1>3, <1>4

(* A finite set of numbers that is not empty has a greatest.               *)
LEMMA Greatest ==
  ASSUME NEW S, IsFiniteSet(S), \A x \in S : x \in Nat, S # {}
  PROVE  Max(S) \in S
  <1> DEFINE Without == {d \in SUBSET S : d # {} /\ ~\E m \in d : \A n \in d : m >= n}
  <1>1. Without = {}
    <2> SUFFICES ASSUME Without # {} PROVE FALSE
      OBVIOUS
    <2>1. PICK d \in Without : \A e \in Without : ~(e \subseteq d /\ e # d)
      <3>1. Without \in SUBSET SUBSET S /\ Without # {}
        OBVIOUS
      <3> HIDE DEF Without
      <3> QED
        BY <3>1, SmallestSubset
    <2>2. PICK x \in d : TRUE
      BY <2>1
    <2>3. d \ {x} # {} /\ d \ {x} \subseteq d /\ d \ {x} # d
      BY <2>1, <2>2
    <2>4. d \ {x} \notin Without
      BY <2>1, <2>3
    <2>5. PICK m \in d \ {x} : \A n \in d \ {x} : m >= n
      BY <2>1, <2>3, <2>4
    <2>6. m \in Nat /\ x \in Nat /\ \A n \in d : n \in Nat
      BY <2>1, <2>2, <2>5
    <2>7. CASE m >= x
      BY <2>1, <2>5, <2>7
    <2>8. CASE ~(m >= x)
      <3>1. \A n \in d : x >= n
        BY <2>5, <2>6, <2>8
      <3> QED
        BY <2>1, <2>2, <3>1
    <2> QED
      BY <2>7, <2>8
  <1>2. S \notin Without
    BY <1>1
  <1> QED
    BY <1>2 DEF Max

LEMMA BytesAreUnits ==
  ASSUME NEW S, NEW s \in Seq(S), NEW g, \A i \in DOMAIN s : g[i] = s[i].bytes /\ g[i] \in Nat
  PROVE  BytesOf(s) = Cardinality(Units(g, DOMAIN s))
  <1> DEFINE D == DOMAIN s
             last(d) == Max(d)
             Step(h) == [d \in SUBSET D |-> IF d = {} THEN 0 ELSE h[d \ {last(d)}] + s[last(d)].bytes]
             count == [d \in SUBSET D |-> Cardinality(Units(g, d))]
             iter == CHOOSE h : h = Step(h)
  <1>1. BytesOf(s) = iter[D]
    BY DEF BytesOf, FoldLeft, MapThenFoldSet
  <1>a. D \in SUBSET Nat /\ IsFiniteSet(D)
    <2>1. Len(s) \in Nat /\ D = 1..Len(s)
      OBVIOUS
    <2> QED
      BY <2>1, FS_Interval
  <1>2. ASSUME NEW d \in SUBSET D
        PROVE  /\ d = {} => count[d] = 0
               /\ d # {} => last(d) \in d /\ d \ {last(d)} \in SUBSET D
                            /\ count[d] = count[d \ {last(d)}] + s[last(d)].bytes
    <2>1. Units(g, {}) = {} /\ Cardinality({}) = 0
      BY FS_EmptySet DEF Units
    <2>2. IsFiniteSet(d)
      BY <1>a, FS_Subset
    <2>3. d # {} => last(d) \in d
      BY <1>a, <2>2, Greatest
    <2>4. \A x \in d : count[d] = count[d \ {x}] + s[x].bytes
      <3>1. \A x \in d : /\ Cardinality(Units(g, d)) = g[x] + Cardinality(Units(g, d \ {x}))
                         /\ Cardinality(Units(g, d \ {x})) \in Nat /\ g[x] = s[x].bytes /\ g[x] \in Nat
        BY <2>2, UnitsAdd
      <3>2. /\ count[d] = Cardinality(Units(g, d))
            /\ \A x \in d : count[d \ {x}] = Cardinality(Units(g, d \ {x}))
        OBVIOUS
      <3> HIDE DEF count, D
      <3>3. ASSUME NEW x \in d
            PROVE  count[d] = count[d \ {x}] + s[x].bytes
        <4>1. count[d] = g[x] + count[d \ {x}] /\ count[d \ {x}] \in Nat /\ g[x] \in Nat
          BY <3>1, <3>2
        <4>2. \A a, b \in Nat : a + b = b + a
          OBVIOUS
        <4>3. g[x] = s[x].bytes
          BY <3>1
        <4>4. count[d] = count[d \ {x}] + g[x]
          BY <4>1, <4>2
        <4> QED
          BY <4>3, <4>4
      <3> QED
        BY <3>3
    <2> HIDE DEF last
    <2> QED
      BY <2>1, <2>3, <2>4
  <1> HIDE DEF last
  <1>3. count = Step(count)
    BY <1>2
  <1>4. iter = Step(iter)
    <2> HIDE DEF count, Step
    <2> QED
      BY <1>3
  <1> HIDE DEF iter, count
  <1>5. \A d \in SUBSET D : iter[d] = IF d = {} THEN 0 ELSE iter[d \ {last(d)}] + s[last(d)].bytes
    BY <1>4
  <1> DEFINE Wrong == {d \in SUBSET D : iter[d] # count[d]}
  <1>6. Wrong = {}
    <2> SUFFICES ASSUME Wrong # {} PROVE FALSE
      OBVIOUS
    <2>1. PICK d \in Wrong : \A e \in Wrong : ~(e \subseteq d /\ e # d)
      <3>1. Wrong \in SUBSET SUBSET D
        OBVIOUS
      <3> HIDE DEF Wrong
      <3> QED
        BY <1>a, <3>1, SmallestSubset
    <2>2. d # {}
      BY <1>2, <1>5
    <2>3. last(d) \in d /\ d \ {last(d)} \notin Wrong
      BY <1>2, <2>1, <2>2
    <2> QED
      BY <1>2, <1>5, <2>2, <2>3
  <1> QED
    BY <1>1, <1>6 DEF count

(* The bytes of nothing, and of one segment more.                          *)
LEMMA BytesAppended ==
  ASSUME NEW S, NEW s \in Seq(S), \A i \in DOMAIN s : s[i].bytes \in Nat, NEW x, x.bytes \in Nat
  PROVE  BytesOf(s) \in Nat /\ BytesOf(Append(s, x)) = BytesOf(s) + x.bytes
  <1> DEFINE n == Len(s)
             g == [i \in 1..n |-> s[i].bytes]
             t == Append(s, x)
             h == [i \in 1..(n + 1) |-> t[i].bytes]
  <1>1. /\ n \in Nat /\ DOMAIN s = 1..n /\ t \in Seq(S \cup {x}) /\ DOMAIN t = 1..(n + 1)
        /\ t[n + 1] = x /\ \A i \in 1..n : t[i] = s[i]
    OBVIOUS
  <1> HIDE DEF t
  <1>2. (\A i \in 1..n : g[i] = s[i].bytes /\ g[i] \in Nat /\ h[i] = g[i]) /\ h[n + 1] = x.bytes
    BY <1>1
  <1>3. \A i \in 1..(n + 1) : h[i] = t[i].bytes /\ h[i] \in Nat
    BY <1>1, <1>2
  <1>4. (1..(n + 1)) \ {n + 1} = 1..n /\ n + 1 \in 1..(n + 1)
    BY <1>1
  <1> HIDE DEF n, g, h
  <1>5. BytesOf(s) = Cardinality(Units(g, 1..n))
    BY <1>1, <1>2, BytesAreUnits
  <1>6. BytesOf(t) = Cardinality(Units(h, 1..(n + 1)))
    BY <1>1, <1>3, BytesAreUnits
  <1>7. Units(h, 1..n) = Units(g, 1..n)
    BY <1>2 DEF Units
  <1>8. IsFiniteSet(1..(n + 1))
    BY <1>1, FS_Interval
  <1>9. /\ Cardinality(Units(h, (1..(n + 1)) \ {n + 1})) \in Nat
        /\ Cardinality(Units(h, 1..(n + 1))) = h[n + 1] + Cardinality(Units(h, (1..(n + 1)) \ {n + 1}))
    BY <1>3, <1>4, <1>8, UnitsAdd
  <1>10. /\ Cardinality(Units(g, 1..n)) \in Nat
         /\ Cardinality(Units(h, 1..(n + 1))) = h[n + 1] + Cardinality(Units(g, 1..n))
    BY <1>4, <1>7, <1>9
  <1> HIDE DEF Units
  <1> QED
    BY <1>2, <1>5, <1>6, <1>10 DEF t

LEMMA BytesOfFew ==
  ASSUME NEW x, x.bytes \in Nat
  PROVE  BytesOf(<<>>) = 0 /\ BytesOf(<<x>>) = x.bytes
  <1>1. <<>> \in Seq({}) /\ DOMAIN <<>> = {}
    OBVIOUS
  <1>2. BytesOf(<<>>) = Cardinality(Units(<<>>, {}))
    BY <1>1, BytesAreUnits
  <1>3. BytesOf(<<>>) = 0
    BY <1>2, FS_EmptySet DEF Units
  <1>4. Append(<<>>, x) = <<x>>
    OBVIOUS
  <1>5. BytesOf(Append(<<>>, x)) = BytesOf(<<>>) + x.bytes
    BY <1>1, BytesAppended
  <1> QED
    BY <1>3, <1>4, <1>5
-----------------------------------------------------------------------------
(* The limits: an invariant that needs nothing of the file system. *)

CursorFields == {"source", "lines", "depth", "base", "active", "next", "conditions", "through"}
StateFields == {"includes", "nodes", "attributes", "fences", "position"}

(* The i-th cursor from the bottom has entered i - 1 includes, each once.  *)
CursorLimited(c, i) ==
  /\ DOMAIN c = CursorFields /\ c.lines \in Seq(SourceLine) /\ c.next \in 1..(Len(c.lines) + 1)
  /\ c.depth = i - 1 /\ IsFiniteSet(c.active) /\ Cardinality(c.active) = i - 1

StackLimited(s) ==
  /\ s \in Seq(Range(s)) /\ Len(s) <= MaxDepth + 1
  /\ \A i \in DOMAIN s : CursorLimited(s[i], i)

StateLimited(t) ==
  /\ DOMAIN t = StateFields /\ t.includes \in 0..MaxIncludes /\ t.nodes \in 0..MaxNodes
  /\ Locked \cap t.attributes = External

OutputLimited(o) ==
  /\ o \in Seq(Range(o)) /\ Len(o) <= MaxSegments /\ BytesOf(o) <= MaxBytes
  /\ \A i \in DOMAIN o : o[i].bytes \in Nat

(* An include that was admitted at the n-th cursor may still be entered.   *)
IncludeLimited(include, n) ==
  /\ n \in 1..MaxDepth /\ include.depth = n - 1
  /\ IsFiniteSet(include.active) /\ Cardinality(include.active) = n - 1
  /\ include.key \notin include.active

LinesKnown(answer) == answer # <<>> => answer[1].lines \in Seq(SourceLine)

Limited ==
  /\ disk \in Disks /\ cancelled \in BOOLEAN /\ iterations \in 1..(MaxIterations + 1)
  /\ StateLimited(state) /\ StackLimited(stack) /\ OutputLimited(output)
  /\ status = "suspended" => pending # <<>> /\ IncludeLimited(pending[1], Len(stack))
  /\ \A key \in DOMAIN resolved : LinesKnown(resolved[key])

LEMMA LimitsAreNumbers ==
  /\ MaxDepth \in Nat /\ MaxIncludes \in Nat /\ MaxNodes \in Nat
  /\ MaxBytes \in Nat /\ MaxSegments \in Nat /\ MaxIterations \in Nat
BY ExpansionAssumption DEF Limits

LEMMA PushedLimited ==
  ASSUME NEW s, StackLimited(s), Len(s) <= MaxDepth, NEW c, CursorLimited(c, Len(s) + 1)
  PROVE  StackLimited(Append(s, c))
<1>1. /\ s \in Seq(Range(s)) /\ Len(s) \in Nat /\ DOMAIN s = 1..Len(s)
      /\ \A i \in DOMAIN s : CursorLimited(s[i], i)
  BY DEF StackLimited
<1>2. /\ Append(s, c) \in Seq(Range(Append(s, c))) /\ Len(Append(s, c)) = Len(s) + 1
      /\ DOMAIN Append(s, c) = 1..(Len(s) + 1) /\ Append(s, c)[Len(s) + 1] = c
      /\ \A i \in 1..Len(s) : Append(s, c)[i] = s[i]
  BY <1>1, Pushing
<1>3. Len(s) + 1 <= MaxDepth + 1
  BY <1>1, LimitsAreNumbers
<1>4. ASSUME NEW i \in 1..(Len(s) + 1) PROVE CursorLimited(Append(s, c)[i], i)
  <2>1. CASE i = Len(s) + 1
    BY <1>2, <2>1
  <2>2. CASE i \in 1..Len(s)
    BY <1>1, <1>2, <2>2
  <2> QED
    BY <1>1, <2>1, <2>2
<1> QED
  BY <1>2, <1>3, <1>4 DEF StackLimited

LEMMA TopLimited ==
  ASSUME NEW s, StackLimited(s), s # <<>>
  PROVE  /\ Len(s) \in Nat \ {0} /\ CursorLimited(Last(s), Len(s))
         /\ StackLimited(Front(s)) /\ Len(Front(s)) = Len(s) - 1 /\ Len(Front(s)) <= MaxDepth
<1>1. /\ Front(s) \in Seq(Range(s)) /\ Len(Front(s)) = Len(s) - 1 /\ Last(s) = s[Len(s)]
      /\ Len(s) \in Nat \ {0} /\ Len(s) \in DOMAIN s /\ Len(s) <= MaxDepth + 1
      /\ \A i \in 1..(Len(s) - 1) : Front(s)[i] = s[i]
  BY FrontFacts DEF StackLimited
<1>2. /\ DOMAIN Front(s) = 1..(Len(s) - 1) /\ \A i \in 1..(Len(s) - 1) : i \in DOMAIN s
  BY <1>1 DEF StackLimited
<1>3. Front(s) \in [1..(Len(s) - 1) -> Range(Front(s))]
  BY <1>1, <1>2 DEF Range
<1>4. Front(s) \in Seq(Range(Front(s)))
  BY <1>1, <1>3
<1>5. Len(Front(s)) <= MaxDepth
  BY <1>1, LimitsAreNumbers
<1> QED
  BY <1>1, <1>2, <1>4, <1>5, LimitsAreNumbers DEF StackLimited

(* The cursor at the top may be replaced by one of its depth.              *)
LEMMA ReplacedLimited ==
  ASSUME NEW s, StackLimited(s), s # <<>>, NEW c, CursorLimited(c, Len(s))
  PROVE  StackLimited(Append(Front(s), c)) /\ Len(Append(Front(s), c)) = Len(s)
<1>1. /\ StackLimited(Front(s)) /\ Len(Front(s)) = Len(s) - 1 /\ Len(Front(s)) <= MaxDepth
      /\ Len(s) \in Nat
  BY TopLimited
<1>2. Len(Front(s)) + 1 = Len(s)
  BY <1>1
<1>3. Front(s) \in Seq(Range(Front(s)))
  BY <1>1 DEF StackLimited
<1> QED
  BY <1>1, <1>2, <1>3, PushedLimited

(* A cursor that goes on stays within its lines.                           *)
LEMMA OnwardLimited ==
  ASSUME Limited, AtLine, NEW t, NEW q
  PROVE  /\ Line \in SourceLine /\ Len(stack) \in Nat \ {0} /\ stack # <<>>
         /\ CursorLimited(Top, Len(stack)) /\ CursorLimited(Onward, Len(stack))
         /\ CursorLimited([Onward EXCEPT !.through = t], Len(stack))
         /\ CursorLimited([Onward EXCEPT !.conditions = q], Len(stack))
<1>1. stack # <<>> /\ Len(stack) \in Nat \ {0} /\ CursorLimited(Top, Len(stack))
  BY TopLimited DEF Limited, AtLine, Running, Top
<1>2. /\ Top.next \in Nat \ {0} /\ Top.next <= Len(Top.lines) /\ Top.next + 1 \in 1..(Len(Top.lines) + 1)
      /\ Top.lines \in Seq(SourceLine)
  BY <1>1 DEF CursorLimited, AtLine
<1>3. Line \in SourceLine
  BY <1>2 DEF Line
<1>4. \A c : /\ CursorLimited(c, Len(stack)) /\ c.next + 1 \in 1..(Len(c.lines) + 1)
             => /\ CursorLimited([c EXCEPT !.next = c.next + 1], Len(stack))
                /\ CursorLimited([[c EXCEPT !.next = c.next + 1] EXCEPT !.through = t], Len(stack))
                /\ CursorLimited([[c EXCEPT !.next = c.next + 1] EXCEPT !.conditions = q], Len(stack))
  BY DEF CursorLimited, CursorFields
<1> QED
  BY <1>1, <1>2, <1>3, <1>4 DEF Onward

(* What a line appends fits, or the machine fails.                         *)
LEMMA ProceedLimited ==
  ASSUME Limited, Running, NEW cursor, CursorLimited(cursor, Len(stack)),
         NEW after, DOMAIN after = StateFields, after.includes \in 0..MaxIncludes, after.nodes \in Nat,
         Locked \cap after.attributes = External,
         NEW segments, segments = <<>> \/ \E x : x.bytes \in Nat /\ segments = <<x>>,
         Proceed(cursor, after, segments)
  PROVE  Limited'
<1>1. CASE \E how : how # "suspended" /\ End(how)
  BY <1>1 DEF End, Limited
<1>2. CASE /\ after.nodes <= MaxNodes /\ ~(segments # <<>> /\ Bytes + BytesOf(segments) > MaxBytes)
           /\ Len(output) + Len(segments) <= MaxSegments
           /\ stack' = Append(Front(stack), cursor) /\ state' = after /\ output' = output \o segments
           /\ UNCHANGED <<disk, cancelled, resolved, pending, iterations, status>>
  <2>1. StackLimited(stack')
    BY <1>2, ReplacedLimited DEF Limited, Running
  <2>2. StateLimited(state')
    BY <1>2, LimitsAreNumbers DEF StateLimited
  <2>3. /\ output \in Seq(Range(output)) /\ \A i \in DOMAIN output : output[i].bytes \in Nat
        /\ Len(output) \in Nat /\ DOMAIN output = 1..Len(output)
    BY DEF Limited, OutputLimited
  <2>4. CASE segments = <<>>
    <3>1. output' = output
      BY <1>2, <2>3, <2>4
    <3> QED
      BY <1>2, <2>1, <2>2, <3>1 DEF Limited, Running
  <2>5. ASSUME NEW x, x.bytes \in Nat, segments = <<x>>
        PROVE  OutputLimited(output')
    <3>1. output' = Append(output, x) /\ Len(segments) = 1 /\ segments # <<>>
      BY <1>2, <2>3, <2>5
    <3>2. /\ Append(output, x) \in Seq(Range(Append(output, x)))
          /\ \A i \in DOMAIN Append(output, x) :
               Append(output, x)[i] = x \/ (i \in DOMAIN output /\ Append(output, x)[i] = output[i])
      BY <2>3, Pushing
    <3>3. /\ BytesOf(output) \in Nat /\ BytesOf(Append(output, x)) = BytesOf(output) + x.bytes
          /\ BytesOf(segments) = x.bytes
      BY <2>3, <2>5, BytesAppended, BytesOfFew
    <3>4. BytesOf(output) + x.bytes <= MaxBytes
      BY <1>2, <2>5, <3>1, <3>3, LimitsAreNumbers DEF Bytes
    <3>5. Len(Append(output, x)) <= MaxSegments
      BY <1>2, <2>3, <3>1
    <3> QED
      BY <2>3, <2>5, <3>1, <3>2, <3>3, <3>4, <3>5 DEF OutputLimited
  <2>6. CASE \E x : x.bytes \in Nat /\ segments = <<x>>
    BY <1>2, <2>1, <2>2, <2>5, <2>6 DEF Limited, Running
  <2> QED
    BY <2>4, <2>6
<1>3. \/ \E how : how # "suspended" /\ End(how)
      \/ /\ after.nodes <= MaxNodes /\ ~(segments # <<>> /\ Bytes + BytesOf(segments) > MaxBytes)
         /\ Len(output) + Len(segments) <= MaxSegments
         /\ stack' = Append(Front(stack), cursor) /\ state' = after /\ output' = output \o segments
         /\ UNCHANGED <<disk, cancelled, resolved, pending, iterations, status>>
  <2>1. Len(output) \in Nat /\ Len(segments) \in Nat
    BY DEF Limited, OutputLimited
  <2> QED
    BY <2>1, LimitsAreNumbers DEF Proceed
<1> QED
  BY <1>1, <1>2, <1>3
LEMMA SegmentSizes ==
  ASSUME NEW line \in SourceLine, NEW less \in {0, 1}, NEW mapping
  PROVE  /\ Segment(line, LineBytes + line.padding - less, mapping).bytes \in Nat
         /\ OwnSegment(line).bytes \in Nat
         /\ Segment(line, LineBytes - 1, mapping).bytes \in Nat
<1>1. line.padding \in Nat /\ LineBytes \in Nat /\ LineBytes > 1
  BY ExpansionAssumption DEF SourceLine
<1> QED
  BY <1>1 DEF Segment, OwnSegment

(* The state keeps its fields and, of what is locked, the external values. *)
LEMMA StateFacts ==
  ASSUME Limited
  PROVE  /\ DOMAIN state = StateFields /\ state.includes \in 0..MaxIncludes /\ state.nodes \in Nat
         /\ Locked \cap state.attributes = External
         /\ DOMAIN Node = StateFields /\ Node.includes = state.includes /\ Node.nodes = state.nodes + 1
         /\ Node.attributes = state.attributes
         /\ DOMAIN Counted = StateFields /\ Counted.includes = state.includes + 1
         /\ Counted.nodes = state.nodes + 1 /\ Counted.attributes = state.attributes
BY LimitsAreNumbers DEF Limited, StateLimited, Node, Counted, StateFields

LEMMA TextLineLimited ==
  ASSUME Limited, TextLine
  PROVE  Limited'
<1> DEFINE after == [Node EXCEPT !.fences = Fences(Line), !.attributes = Attributes(Line),
                                 !.position = AcceptsAttribute(Line) \/ Line.kind = "blank"]
<1>1. AtLine /\ Running
  BY DEF TextLine, AtLine
<1>2. Locked \cap Attributes(Line) = External
  BY StateFacts DEF Attributes
<1>3. /\ DOMAIN after = StateFields /\ after.includes = Node.includes /\ after.nodes = Node.nodes
      /\ after.attributes = Attributes(Line)
  BY StateFacts DEF StateFields
<1>4. \E t : Proceed([Onward EXCEPT !.through = t], after, <<OwnSegment(Line)>>)
  BY DEF TextLine
<1>5. PICK t : Proceed([Onward EXCEPT !.through = t], after, <<OwnSegment(Line)>>)
  BY <1>4
<1> HIDE DEF after
<1>6. after.includes \in 0..MaxIncludes /\ after.nodes \in Nat /\ Locked \cap after.attributes = External
  BY <1>2, <1>3, StateFacts
<1>7. Line \in SourceLine /\ CursorLimited([Onward EXCEPT !.through = t], Len(stack))
  BY <1>1, OnwardLimited
<1>8. OwnSegment(Line).bytes \in Nat
  BY <1>7, SegmentSizes
<1> QED
  BY <1>1, <1>3, <1>5, <1>6, <1>7, <1>8, ProceedLimited

(* The other lines that are not includes.                                  *)
LEMMA LineLimited ==
  ASSUME Limited, NEW cursor, NEW after, NEW segments, Proceed(cursor, after, segments), AtLine,
         \E t, q : cursor \in {Onward, [Onward EXCEPT !.through = t], [Onward EXCEPT !.conditions = q]},
         \E position : after \in {state, Node, [state EXCEPT !.position = position],
                                  [Node EXCEPT !.position = position]},
         \/ segments = <<>>
         \/ \E less \in {0, 1} : \E mapping :
              \/ segments = <<Segment(Line, LineBytes + Line.padding - less, mapping)>>
              \/ segments = <<OwnSegment(Line)>>
              \/ segments = <<Segment(Line, LineBytes - 1, mapping)>>
  PROVE  Limited'
<1>1. Line \in SourceLine /\ CursorLimited(cursor, Len(stack)) /\ Running
  BY OnwardLimited DEF AtLine
<1>2. /\ DOMAIN after = StateFields /\ after.includes = state.includes
      /\ after.nodes \in {state.nodes, state.nodes + 1} /\ after.attributes = state.attributes
  BY StateFacts DEF StateFields
<1>3. /\ after.includes \in 0..MaxIncludes /\ after.nodes \in Nat
      /\ Locked \cap after.attributes = External
  BY <1>2, StateFacts
<1>4. segments = <<>> \/ \E x : x.bytes \in Nat /\ segments = <<x>>
  BY <1>1, SegmentSizes
<1> QED
  BY <1>1, <1>2, <1>3, <1>4, ProceedLimited

(* How a machine ends, whatever it was at.                                 *)
LEMMA EndLimited ==
  ASSUME Limited, NEW how, how # "suspended", End(how)
  PROVE  Limited'
BY DEF End, Limited

(* An include that was admitted enters its file.                           *)
LEMMA ResolveLimited ==
  ASSUME Limited, NEW include, NEW frames, StackLimited(frames), frames # <<>>,
         IncludeLimited(include, Len(frames)), NEW answer, LinesKnown(answer),
         NEW after, StateLimited(after), ResolvePending(include, answer, frames, after),
         \A key \in DOMAIN resolved' : LinesKnown(resolved'[key]),
         iterations' \in 1..(MaxIterations + 1)
  PROVE  Limited'
<1> DEFINE lines == TransformLines(SelectLines(answer[1].lines, include.line), include.line)
           child == Cursor(answer[1].source, lines, include.depth + 1, Front(include.key),
                           include.active \cup {include.key})
<1>1. CASE \E how : how # "suspended" /\ End(how)
  BY <1>1, EndLimited
<1>2. CASE /\ stack' = (IF answer = <<>> THEN frames ELSE Append(frames, child))
           /\ state' = after /\ status' = "running" /\ UNCHANGED <<disk, cancelled, output>>
  <2>1. ASSUME answer # <<>> PROVE CursorLimited(child, Len(frames) + 1)
    <3>1. lines \in Seq(SourceLine)
      BY <2>1, SelectedLines, TransformedLines DEF LinesKnown
    <3> HIDE DEF lines
    <3>2. /\ DOMAIN child = CursorFields /\ child.lines = lines /\ child.next = 1
          /\ child.depth = include.depth + 1 /\ child.active = include.active \cup {include.key}
      BY DEF Cursor, CursorFields
    <3> HIDE DEF child
    <3>3. /\ IsFiniteSet(include.active \cup {include.key})
          /\ Cardinality(include.active \cup {include.key}) = Cardinality(include.active) + 1
      BY FS_AddElement DEF IncludeLimited
    <3>4. Len(frames) \in Nat /\ include.depth = Len(frames) - 1 /\ Cardinality(include.active) = Len(frames) - 1
      BY DEF IncludeLimited, StackLimited
    <3>5. 1 \in 1..(Len(lines) + 1) /\ include.depth + 1 = Len(frames) /\ Cardinality(include.active) + 1 = Len(frames)
      BY <3>1, <3>4
    <3> QED
      BY <3>1, <3>2, <3>3, <3>4, <3>5 DEF CursorLimited
  <2> HIDE DEF child
  <2>2. Len(frames) <= MaxDepth
    BY LimitsAreNumbers DEF IncludeLimited
  <2>3. StackLimited(stack')
    BY <1>2, <2>1, <2>2, PushedLimited
  <2> QED
    BY <1>2, <2>3 DEF Limited
<1> HIDE DEF child
<1>3. \/ \E how : how # "suspended" /\ End(how)
      \/ /\ stack' = (IF answer = <<>> THEN frames ELSE Append(frames, child))
         /\ state' = after /\ status' = "running" /\ UNCHANGED <<disk, cancelled, output>>
  BY DEF ResolvePending, child
<1> QED
  BY <1>1, <1>2, <1>3

LEMMA IncludeLineLimited ==
  ASSUME Limited, IncludeLine
  PROVE  Limited'
<1>1. /\ AtLine /\ stack # <<>> /\ Len(stack) \in Nat \ {0} /\ CursorLimited(Top, Len(stack))
      /\ CursorLimited(Onward, Len(stack)) /\ StackLimited(stack)
  BY OnwardLimited DEF IncludeLine, Limited
<1>2. StackLimited(Suspended) /\ Len(Suspended) = Len(stack)
  BY <1>1, ReplacedLimited DEF Suspended
<1>3. Suspended # <<>>
  BY <1>1, <1>2
<1>4. CASE IncludeProblem # None /\ End(IncludeProblem)
  <2>1. IncludeProblem # "suspended"
    BY DEF IncludeProblem, None
  <2> QED
    BY <1>4, <2>1, EndLimited
<1>5. ASSUME IncludeProblem = None
      PROVE  StateLimited(Counted) /\ IncludeLimited(Pending, Len(Suspended))
  <2>1. /\ ~(Top.depth >= MaxDepth) /\ ~(Counted.includes > MaxIncludes) /\ ~(Counted.nodes > MaxNodes)
        /\ Pending.key \notin Top.active
    BY <1>5 DEF IncludeProblem, None
  <2>2. StateLimited(Counted)
    BY <2>1, StateFacts, LimitsAreNumbers DEF StateLimited
  <2>3. /\ Top.depth = Len(stack) - 1 /\ IsFiniteSet(Top.active) /\ Cardinality(Top.active) = Len(stack) - 1
    BY <1>1 DEF CursorLimited
  <2>4. Pending.depth = Top.depth /\ Pending.active = Top.active
    BY DEF Pending
  <2> HIDE DEF Pending, Top
  <2>5. Len(stack) \in 1..MaxDepth
    BY <1>1, <2>1, <2>3, LimitsAreNumbers
  <2> QED
    BY <1>2, <2>1, <2>2, <2>3, <2>4, <2>5 DEF IncludeLimited
<1>6. CASE /\ IncludeProblem = None /\ Pending.key \in DOMAIN resolved
           /\ ResolvePending(Pending, resolved[Pending.key], Suspended, Counted)
           /\ UNCHANGED <<resolved, iterations>>
  <2>1. LinesKnown(resolved[Pending.key]) /\ iterations' \in 1..(MaxIterations + 1)
        /\ \A key \in DOMAIN resolved' : LinesKnown(resolved'[key])
    BY <1>6 DEF Limited
  <2> QED
    BY <1>2, <1>3, <1>5, <1>6, <2>1, ResolveLimited
<1>7. CASE /\ IncludeProblem = None /\ pending' = <<Pending>> /\ stack' = Suspended /\ state' = Counted
           /\ UNCHANGED <<disk, cancelled, resolved, output, iterations>>
  <2>1. pending' # <<>> /\ pending'[1] = Pending
    BY <1>7
  <2> HIDE DEF Pending, Suspended, Counted
  <2> QED
    BY <1>2, <1>3, <1>5, <1>7, <2>1 DEF Limited
<1> QED
  BY <1>4, <1>6, <1>7 DEF IncludeLine

LEMMA AnswerIncludeLimited ==
  ASSUME Limited, AnswerInclude
  PROVE  Limited'
<1> DEFINE include == pending[1]
           path == RequestedPath(include)
           answer == Response(path)
<1>1. IncludeLimited(include, Len(stack)) /\ StackLimited(stack) /\ StateLimited(state) /\ disk \in Disks
  BY DEF Limited, AnswerInclude
<1>2. stack # <<>>
  BY <1>1 DEF IncludeLimited
<1>3. ASSUME Found(path).is = "file" PROVE Found(path).lines \in Seq(SourceLine)
  BY <1>1, <1>3, ExpansionAssumption DEF Found
<1>4. <<>> \in Seq(SourceLine)
  OBVIOUS
<1> HIDE DEF include, path
<1>5. LinesKnown(answer)
  BY <1>3, <1>4 DEF Response, Outcome, LinesKnown
<1> HIDE DEF answer
<1>6. CASE \E how : how # "suspended" /\ End(how)
  BY <1>6, EndLimited
<1>7. CASE /\ ResolvePending(include, answer, stack, state) /\ ~(iterations >= MaxIterations)
           /\ \/ resolved' = resolved /\ iterations' = iterations
              \/ resolved' = Told(include.key, answer) /\ iterations' = iterations + 1
  <2>1. \A key \in DOMAIN resolved' : LinesKnown(resolved'[key])
    BY <1>5, <1>7 DEF Told, Limited
  <2>2. iterations' \in 1..(MaxIterations + 1)
    BY <1>7, LimitsAreNumbers DEF Limited
  <2> QED
    BY <1>1, <1>2, <1>5, <1>7, <2>1, <2>2, ResolveLimited
<1> QED
  BY <1>6, <1>7 DEF AnswerInclude, include, path, answer

LEMMA InitLimited == Init => Limited
<1> SUFFICES ASSUME Init PROVE Limited
  OBVIOUS
<1> DEFINE c == Cursor(Root, Numbered(disk[Root].lines), 0, <<>>, {})
<1>1. Numbered(disk[Root].lines) \in Seq(SourceLine)
  BY NumberedLines, ExpansionAssumption DEF Init
<1>2. IsFiniteSet({}) /\ Cardinality({}) = 0
  BY FS_EmptySet
<1>3. CursorLimited(c, 1)
  BY <1>1, <1>2 DEF Cursor, CursorLimited, CursorFields
<1> HIDE DEF c
<1>4. StackLimited(<<c>>)
  <2>1. <<c>> \in Seq({c}) /\ Range(<<c>>) = {c} /\ Len(<<c>>) = 1 /\ \A i \in DOMAIN <<c>> : i = 1 /\ <<c>>[i] = c
    BY DEF Range
  <2> QED
    BY <1>3, <2>1, LimitsAreNumbers DEF StackLimited
<1>5. StateLimited(state)
  BY ExpansionAssumption, LimitsAreNumbers DEF Init, StateLimited, StateFields
<1>6. OutputLimited(<<>>)
  <2>1. <<>> \in Seq(Range(<<>>)) /\ DOMAIN <<>> = {} /\ Len(<<>>) = 0
    OBVIOUS
  <2>2. [bytes |-> 0].bytes \in Nat
    OBVIOUS
  <2>3. BytesOf(<<>>) = 0
    BY <2>2, BytesOfFew
  <2> QED
    BY <2>1, <2>3, LimitsAreNumbers DEF OutputLimited
<1>7. /\ stack = <<c>> /\ disk \in Disks /\ status = "running" /\ DOMAIN resolved = {} /\ output = <<>>
      /\ cancelled = FALSE /\ iterations = 1
  BY DEF Init, c
<1>8. iterations \in 1..(MaxIterations + 1)
  BY <1>7, LimitsAreNumbers
<1>9. StackLimited(stack) /\ OutputLimited(output)
  BY <1>4, <1>6, <1>7
<1> QED
  BY <1>5, <1>7, <1>8, <1>9 DEF Limited

LEMMA StepLimited ==
  ASSUME Limited, [Next]_vars
  PROVE  Limited'
<1>1. CASE ValueLine
  BY <1>1, LineLimited DEF ValueLine
<1>2. CASE TextLine
  BY <1>2, TextLineLimited
<1>3. CASE EscapedLine
  BY <1>3, LineLimited DEF EscapedLine
<1>4. CASE SkippedLine
  BY <1>4, LineLimited DEF SkippedLine
<1>5. CASE OpenConditional
  BY <1>5, LineLimited DEF OpenConditional
<1>6. CASE CloseConditional
  BY <1>6, LineLimited, EndLimited DEF CloseConditional
<1>7. CASE InlineConditional
  BY <1>7, LineLimited DEF InlineConditional
<1>8. CASE IncludeLine
  BY <1>8, IncludeLineLimited
<1>9. CASE EndFrame
  <2>1. CASE End("unclosed")
    BY <2>1, EndLimited
  <2>2. CASE /\ stack' = Front(stack)
             /\ UNCHANGED <<disk, cancelled, state, resolved, pending, output, directives, iterations, status>>
    BY <1>9, <2>2, TopLimited DEF EndFrame, Running, Limited
  <2> QED
    BY <1>9, <2>1, <2>2 DEF EndFrame
<1>10. CASE NoticeCancellation \/ Finish
  BY <1>10, EndLimited DEF NoticeCancellation, Finish
<1>11. CASE AnswerInclude
  BY <1>11, AnswerIncludeLimited
<1>12. CASE Cancel
  BY <1>12 DEF Cancel, Limited
<1>13. CASE UNCHANGED vars
  BY <1>13 DEF vars, Limited
<1> QED
  BY <1>1, <1>2, <1>3, <1>4, <1>5, <1>6, <1>7, <1>8, <1>9, <1>10, <1>11, <1>12, <1>13 DEF Next, Drive

(* Whatever a document and the files it reaches contain, cycles included:  *)
(* no limit on depth, includes, nodes, segments, bytes or iterations is    *)
(* exceeded, the files being expanded are as many as the includes entered, *)
(* each once, and what is locked keeps its external value.                 *)
THEOREM LimitsKept == Spec => []TypeOK
<1>1. Limited => TypeOK
  BY DEF Limited, StateLimited, StackLimited, CursorLimited, OutputLimited, TypeOK, Bytes
<1>2. Limited /\ [Next]_vars => Limited'
  BY StepLimited
<1> QED
  BY InitLimited, <1>1, <1>2, PTL DEF Spec

-----------------------------------------------------------------------------
(* Why expansion ends. *)

LinesLeft == IF stack = <<>> THEN 0 ELSE Len(Top.lines) + 1 - Top.next

(* An include entered is paid for by the limit on includes; between two of *)
(* them the machine is answered, leaves files and goes on to next lines.   *)
Measure ==
  <<MaxIncludes - state.includes,
    CASE status = "suspended" -> 2 [] status = "running" -> 1 [] OTHER -> 0,
    Len(stack), LinesLeft, IF cancelled THEN 0 ELSE 1>>

Smaller == OpToRel(<, Nat)
Descent == LexProductOrdering(Smaller, Nat, 5)
Descends == <<Measure', Measure>> \in Descent

LEMMA DescentIsWellFounded == IsWellFoundedOn(Descent, [1..5 -> Nat])
<1>1. IsWellFoundedOn(Smaller, Nat)
  BY NatLessThanWellFounded DEF Smaller
<1>2. 5 \in Nat
  OBVIOUS
<1> HIDE DEF Smaller
<1> QED
  BY <1>1, <1>2, WFLexProductOrdering DEF Descent

LEMMA Descending ==
  ASSUME NEW f \in [1..5 -> Nat], NEW g \in [1..5 -> Nat], NEW j \in 1..5,
         \A i \in 1..(j - 1) : f[i] = g[i], f[j] < g[j]
  PROVE  <<f, g>> \in Descent
<1>1. <<f[j], g[j]>> \in Smaller
  BY DEF Smaller, OpToRel
<1> HIDE DEF Smaller
<1> QED
  BY <1>1 DEF Descent, LexProductOrdering

LEMMA MeasureType == Limited => Measure \in [1..5 -> Nat]
<1> SUFFICES ASSUME Limited PROVE Measure \in [1..5 -> Nat]
  OBVIOUS
<1>1. MaxIncludes - state.includes \in Nat
  BY LimitsAreNumbers DEF Limited, StateLimited
<1>2. Len(stack) \in Nat
  BY DEF Limited, StackLimited
<1>3. LinesLeft \in Nat
  <2>1. CASE stack = <<>>
    BY <2>1 DEF LinesLeft
  <2>2. CASE stack # <<>>
    <3>1. CursorLimited(Top, Len(stack))
      BY <2>2, TopLimited DEF Limited, Top
    <3>2. Len(Top.lines) \in Nat /\ Top.next \in 1..(Len(Top.lines) + 1)
      BY <3>1 DEF CursorLimited
    <3> HIDE DEF Top
    <3> QED
      BY <2>2, <3>2 DEF LinesLeft
  <2> QED
    BY <2>1, <2>2
<1> HIDE DEF LinesLeft
<1> DEFINE moment == CASE status = "suspended" -> 2 [] status = "running" -> 1 [] OTHER -> 0
           heard == IF cancelled THEN 0 ELSE 1
<1>4. moment \in Nat /\ heard \in Nat
  OBVIOUS
<1>5. Measure = <<MaxIncludes - state.includes, moment, Len(stack), LinesLeft, heard>>
  BY DEF Measure
<1> HIDE DEF moment, heard
<1> QED
  BY <1>1, <1>2, <1>3, <1>4, <1>5

LEMMA MeasureTypeNext == Limited' => (Measure \in [1..5 -> Nat])'
BY MeasureType, PTL

(* The orders in which a step may descend.                                 *)
LEMMA Descents ==
  ASSUME Limited, Limited',
         \/ state'.includes = state.includes + 1
         \/ /\ state'.includes = state.includes
            /\ \/ status = "suspended" /\ status' # "suspended"
               \/ status = "running" /\ status' \notin {"running", "suspended"}
               \/ /\ status' = status
                  /\ \/ Len(stack') < Len(stack)
                     \/ /\ Len(stack') = Len(stack)
                        /\ \/ LinesLeft' < LinesLeft
                           \/ LinesLeft' = LinesLeft /\ ~cancelled /\ cancelled'
  PROVE  Descends
<1>1. Measure \in [1..5 -> Nat] /\ Measure' \in [1..5 -> Nat]
  BY MeasureType, MeasureTypeNext
<1>2. state.includes \in Nat /\ state'.includes \in Nat /\ MaxIncludes \in Nat
  BY LimitsAreNumbers DEF Limited, StateLimited
<1>3. /\ Measure[1] = MaxIncludes - state.includes /\ Measure'[1] = MaxIncludes - state'.includes
      /\ Measure[2] = (CASE status = "suspended" -> 2 [] status = "running" -> 1 [] OTHER -> 0)
      /\ Measure'[2] = (CASE status' = "suspended" -> 2 [] status' = "running" -> 1 [] OTHER -> 0)
      /\ Measure[3] = Len(stack) /\ Measure'[3] = Len(stack')
      /\ Measure[4] = LinesLeft /\ Measure'[4] = LinesLeft'
      /\ Measure[5] = (IF cancelled THEN 0 ELSE 1) /\ Measure'[5] = (IF cancelled' THEN 0 ELSE 1)
  BY DEF Measure
<1> HIDE DEF Measure, LinesLeft
<1>4. \/ Measure'[1] < Measure[1]
      \/ /\ Measure'[1] = Measure[1]
         /\ \/ Measure'[2] < Measure[2]
            \/ /\ Measure'[2] = Measure[2]
               /\ \/ Measure'[3] < Measure[3]
                  \/ /\ Measure'[3] = Measure[3]
                     /\ \/ Measure'[4] < Measure[4]
                        \/ Measure'[4] = Measure[4] /\ Measure'[5] < Measure[5]
  BY <1>2, <1>3
<1>5. \E j \in 1..5 : (\A i \in 1..(j - 1) : Measure'[i] = Measure[i]) /\ Measure'[j] < Measure[j]
  <2>1. CASE Measure'[1] < Measure[1]
    <3>1. \A i \in 1..(1 - 1) : Measure'[i] = Measure[i]
      OBVIOUS
    <3> QED
      BY <2>1, <3>1
  <2>2. ASSUME NEW k \in 2..5, \A i \in 1..5 : i < k => Measure'[i] = Measure[i],
               Measure'[k] < Measure[k]
        PROVE  \E j \in 1..5 : (\A i \in 1..(j - 1) : Measure'[i] = Measure[i]) /\ Measure'[j] < Measure[j]
    <3>1. k \in 1..5 /\ \A i \in 1..(k - 1) : i \in 1..5 /\ i < k
      OBVIOUS
    <3> QED
      BY <2>2, <3>1
  <2>3. CASE Measure'[1] = Measure[1] /\ Measure'[2] < Measure[2]
    <3>1. \A i \in 1..5 : i < 2 => i = 1
      OBVIOUS
    <3> QED
      BY <2>2, <2>3, <3>1
  <2>4. CASE Measure'[1] = Measure[1] /\ Measure'[2] = Measure[2] /\ Measure'[3] < Measure[3]
    <3>1. \A i \in 1..5 : i < 3 => i \in {1, 2}
      OBVIOUS
    <3> QED
      BY <2>2, <2>4, <3>1
  <2>5. CASE /\ Measure'[1] = Measure[1] /\ Measure'[2] = Measure[2] /\ Measure'[3] = Measure[3]
             /\ Measure'[4] < Measure[4]
    <3>1. \A i \in 1..5 : i < 4 => i \in {1, 2, 3}
      OBVIOUS
    <3> QED
      BY <2>2, <2>5, <3>1
  <2>6. CASE /\ Measure'[1] = Measure[1] /\ Measure'[2] = Measure[2] /\ Measure'[3] = Measure[3]
             /\ Measure'[4] = Measure[4] /\ Measure'[5] < Measure[5]
    <3>1. \A i \in 1..5 : i < 5 => i \in {1, 2, 3, 4}
      OBVIOUS
    <3> QED
      BY <2>2, <2>6, <3>1
  <2> QED
    BY <1>4, <2>1, <2>3, <2>4, <2>5, <2>6
<1> QED
  BY <1>1, <1>5, Descending DEF Descends

LEMMA EndDescends ==
  ASSUME Limited, Limited', status \in {"running", "suspended"},
         NEW how, how \notin {"running", "suspended"}, End(how)
  PROVE  Descends
BY Descents DEF End

(* A line read is not read again in the same frame.                        *)
LEMMA ProceedDescends ==
  ASSUME Limited, Limited', AtLine, NEW cursor, NEW after, NEW segments,
         cursor.lines = Top.lines, cursor.next = Top.next + 1, after.includes = state.includes,
         Proceed(cursor, after, segments)
  PROVE  Descends
<1>1. status = "running" /\ stack # <<>> /\ CursorLimited(Top, Len(stack))
  BY TopLimited DEF Limited, AtLine, Running, Top
<1>2. CASE \E how : how \notin {"running", "suspended"} /\ End(how)
  BY <1>1, <1>2, EndDescends
<1>3. CASE stack' = Append(Front(stack), cursor) /\ state' = after /\ status' = status
  <2>1. /\ Front(stack) \in Seq(Range(Front(stack))) /\ Len(stack) \in Nat \ {0}
        /\ Len(Front(stack)) = Len(stack) - 1
    BY <1>1, TopLimited DEF Limited, StackLimited
  <2>2. Len(stack') = Len(stack) /\ stack' # <<>> /\ Last(stack') = cursor
    <3> DEFINE f == Front(stack)
    <3>1. f \in Seq(Range(f)) /\ Len(f) = Len(stack) - 1
      BY <2>1
    <3> HIDE DEF f
    <3>2. Len(Append(f, cursor)) = Len(f) + 1 /\ Append(f, cursor)[Len(f) + 1] = cursor
      BY <3>1
    <3>3. Append(f, cursor) # <<>>
      BY <3>1
    <3> QED
      BY <1>3, <2>1, <3>1, <3>2, <3>3 DEF Last, f
  <2>3. Top.next \in Nat /\ Len(Top.lines) \in Nat
    BY <1>1 DEF CursorLimited
  <2>4. LinesLeft = Len(Top.lines) + 1 - Top.next /\ LinesLeft' = Len(Top.lines) + 1 - (Top.next + 1)
    BY <1>1, <2>2 DEF LinesLeft, Top
  <2>5. LinesLeft' < LinesLeft
    BY <2>3, <2>4
  <2> HIDE DEF LinesLeft, Top
  <2> QED
    BY <1>1, <1>3, <2>2, <2>5, Descents
<1> QED
  BY <1>2, <1>3 DEF Proceed

LEMMA LineDescends ==
  ASSUME Limited, Limited', AtLine, NEW cursor, NEW after, NEW segments,
         Proceed(cursor, after, segments),
         \E t, q : cursor \in {Onward, [Onward EXCEPT !.through = t], [Onward EXCEPT !.conditions = q]},
         after.includes = state.includes
  PROVE  Descends
<1>1. CursorLimited(Top, Len(stack))
  BY OnwardLimited
<1>2. PICK t, q : cursor \in {Onward, [Onward EXCEPT !.through = t], [Onward EXCEPT !.conditions = q]}
  OBVIOUS
<1>3. \A c : DOMAIN c = CursorFields =>
        /\ [c EXCEPT !.next = c.next + 1].lines = c.lines
        /\ [c EXCEPT !.next = c.next + 1].next = c.next + 1
        /\ [[c EXCEPT !.next = c.next + 1] EXCEPT !.through = t].lines = c.lines
        /\ [[c EXCEPT !.next = c.next + 1] EXCEPT !.through = t].next = c.next + 1
        /\ [[c EXCEPT !.next = c.next + 1] EXCEPT !.conditions = q].lines = c.lines
        /\ [[c EXCEPT !.next = c.next + 1] EXCEPT !.conditions = q].next = c.next + 1
  BY DEF CursorFields
<1>4. cursor.lines = Top.lines /\ cursor.next = Top.next + 1
  BY <1>1, <1>2, <1>3 DEF CursorLimited, Onward
<1> QED
  BY <1>4, ProceedDescends

LEMMA IncludeLineDescends ==
  ASSUME Limited, Limited', IncludeLine
  PROVE  Descends
<1>1. status = "running" /\ Counted.includes = state.includes + 1
  BY StateFacts DEF IncludeLine, AtLine, Running
<1>2. \/ \E how : how \notin {"running", "suspended"} /\ End(how)
      \/ state' = Counted
  BY DEF IncludeLine, IncludeProblem, ResolvePending, None
<1>3. CASE \E how : how \notin {"running", "suspended"} /\ End(how)
  BY <1>1, <1>3, EndDescends
<1>4. CASE state' = Counted
  BY <1>1, <1>4, Descents
<1> QED
  BY <1>2, <1>3, <1>4

LEMMA AnswerIncludeDescends ==
  ASSUME Limited, Limited', AnswerInclude
  PROVE  Descends
<1>1. \/ \E how : how \notin {"running", "suspended"} /\ End(how)
      \/ state' = state /\ status' = "running"
  BY DEF AnswerInclude, ResolvePending
<1>2. status = "suspended"
  BY DEF AnswerInclude
<1>3. CASE \E how : how \notin {"running", "suspended"} /\ End(how)
  BY <1>2, <1>3, EndDescends
<1>4. CASE state' = state /\ status' = "running"
  BY <1>2, <1>4, Descents
<1> QED
  BY <1>1, <1>3, <1>4

LEMMA StepDescends ==
  ASSUME Limited, Next
  PROVE  Descends
<1>0. Limited'
  BY StepLimited
<1>1. /\ Node.includes = state.includes /\ DOMAIN state = StateFields /\ DOMAIN Node = StateFields
      /\ \A p : [state EXCEPT !.position = p].includes = state.includes
      /\ \A p : [Node EXCEPT !.position = p].includes = state.includes
      /\ \A p, a, f : [Node EXCEPT !.fences = f, !.attributes = a, !.position = p].includes = state.includes
  BY StateFacts DEF StateFields
<1> HIDE DEF Node
<1>2. CASE ValueLine
  BY <1>0, <1>1, <1>2, LineDescends DEF ValueLine
<1>3. CASE TextLine
  BY <1>0, <1>1, <1>3, LineDescends DEF TextLine
<1>4. CASE EscapedLine
  BY <1>0, <1>1, <1>4, LineDescends DEF EscapedLine
<1>5. CASE SkippedLine
  BY <1>0, <1>1, <1>5, LineDescends DEF SkippedLine
<1>6. CASE OpenConditional
  BY <1>0, <1>1, <1>6, LineDescends DEF OpenConditional
<1>7. CASE CloseConditional
  <2>1. AtLine /\ status = "running"
    BY <1>7 DEF CloseConditional, AtLine, Running
  <2>2. CASE End("unmatched")
    BY <1>0, <2>1, <2>2, EndDescends
  <2>3. CASE Proceed([Onward EXCEPT !.conditions = Front(@)], Node, <<>>)
    BY <1>0, <1>1, <2>1, <2>3, LineDescends
  <2> QED
    BY <1>7, <2>2, <2>3 DEF CloseConditional
<1>8. CASE InlineConditional
  BY <1>0, <1>1, <1>8, LineDescends DEF InlineConditional
<1>9. CASE IncludeLine
  BY <1>0, <1>9, IncludeLineDescends
<1>10. CASE EndFrame
  <2>1. status = "running" /\ stack # <<>>
    BY <1>10 DEF EndFrame, Running
  <2>2. CASE End("unclosed")
    BY <1>0, <2>1, <2>2, EndDescends
  <2>3. CASE stack' = Front(stack) /\ UNCHANGED <<state, status>>
    <3>1. Len(stack) \in Nat \ {0} /\ Len(stack') = Len(stack) - 1
      BY <2>1, <2>3, TopLimited DEF Limited
    <3>2. Len(stack') < Len(stack)
      BY <3>1
    <3> QED
      BY <1>0, <2>3, <3>2, Descents
  <2> QED
    BY <1>10, <2>2, <2>3 DEF EndFrame
<1>11. CASE NoticeCancellation \/ Finish
  BY <1>0, <1>11, EndDescends DEF NoticeCancellation, Finish, AtLine, Running
<1>12. CASE AnswerInclude
  BY <1>0, <1>12, AnswerIncludeDescends
<1>13. CASE Cancel
  <2>1. LinesLeft' = LinesLeft
    BY <1>13 DEF Cancel, LinesLeft, Top
  <2> QED
    BY <1>0, <1>13, <2>1, Descents DEF Cancel
<1> QED
  BY <1>2, <1>3, <1>4, <1>5, <1>6, <1>7, <1>8, <1>9, <1>10, <1>11, <1>12, <1>13 DEF Next, Drive

(* Whatever the files contain, files that include each other included, no  *)
(* run goes on for ever: each step, of the machine, of the loop that       *)
(* answers it or of who cancels it, descends in an order without infinite  *)
(* descents.                                                               *)
THEOREM ExpansionDescends ==
  /\ IsWellFoundedOn(Descent, [1..5 -> Nat])
  /\ Spec => [](Measure \in [1..5 -> Nat]) /\ [][Descends]_vars
<1>1. Limited /\ [Next]_vars => [Descends]_vars
  BY StepDescends
<1>2. Limited /\ [Next]_vars => Limited'
  BY StepLimited
<1>3. Spec => [](Measure \in [1..5 -> Nat]) /\ [][Descends]_vars
  BY InitLimited, MeasureType, <1>1, <1>2, PTL DEF Spec
<1> QED
  BY <1>3, DescentIsWellFounded
=============================================================================
