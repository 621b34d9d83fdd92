------------------------- MODULE ExpansionReference -------------------------
(***************************************************************************)
(* What Expansion promises: the expansion of the target by recursion, as a *)
(* reader of the documents defines it.  There is no suspension, no table   *)
(* of answers, no stack of conditions and no limit: a block that is not    *)
(* selected is jumped over as a whole, and an include is looked for from   *)
(* the directory its file really is in.                                    *)
(***************************************************************************)
EXTENDS Expansion

Opens(line) == line.kind \in {"ifdef", "ifndef"}
Conditional(line) == Opens(line) \/ line.kind \in {"endif", "inline"}

(* The endif of the block that line i opens, one past the end if none.     *)
MatchingEnd(lines, i) ==
  LET Count(j, kinds) == Cardinality({k \in i..j : lines[k].kind \in kinds})
      ends == {j \in i..Len(lines) : Count(j, {"ifdef", "ifndef"}) = Count(j, {"endif"})}
  IN  IF ends = {} THEN Len(lines) + 1 ELSE CHOOSE j \in ends : \A k \in ends : j <= k

Nothing ==
  [out |-> <<>>, nodes |-> 0, includes |-> 0, deepest |-> 0, asked |-> {}, error |-> None,
   attributes |-> External, fences |-> <<>>, position |-> TRUE]

Emit(r, file, line, less) ==
  [r EXCEPT !.out = Append(@,
     [source |-> file.source, number |-> line.number, bytes |-> LineBytes + line.padding - less,
      mapping |-> IF less = 0 /\ line.padding = 0 THEN "identity" ELSE "whole"])]

(* A line of text after r: what it delimits, and what it sets.             *)
Text(r, file, line) ==
  LET isAttribute == line.kind \in {"set", "unset"} /\ r.fences = <<>> /\ r.position
      isFence == line.kind = "fence"
      isClosing == isFence /\ r.fences # <<>> /\ Last(r.fences) = line.name
  IN  [Emit(r, file, line, 0) EXCEPT
         !.attributes = IF ~isAttribute \/ line.name \in Locked THEN @
                        ELSE IF line.kind = "set" THEN @ \cup {line.name} ELSE @ \ {line.name},
         !.fences = IF isClosing THEN Front(@) ELSE IF isFence THEN Append(@, line.name) ELSE @,
         !.position = isAttribute \/ line.kind = "blank"]

(* r after the lines of a file from i on, with so many blocks open, the    *)
(* lines up to "through" being those of an attribute's value.              *)
RECURSIVE Read(_, _, _, _, _), Included(_, _, _)

Read(r, file, i, open, through) ==
  LET n == [r EXCEPT !.nodes = @ + 1]
      line == file.lines[i]
      isSet == line.name \in r.attributes
      jump == MatchingEnd(file.lines, i)
      last == CHOOSE j \in i..Len(file.lines) :
                /\ j = Len(file.lines) \/ ~file.lines[j].more
                /\ \A k \in i..(j - 1) : file.lines[k].more
  IN  IF r.error # None THEN r
      ELSE IF i > Len(file.lines) THEN [r EXCEPT !.error = IF open > 0 THEN "unclosed" ELSE None]
      ELSE IF i <= through THEN Read(Emit(n, file, line, 0), file, i + 1, open, through)
      ELSE CASE Opens(line) /\ isSet = (line.kind = "ifdef") -> Read(n, file, i + 1, open + 1, 0)
             [] Opens(line) /\ isSet # (line.kind = "ifdef") ->
                  Read([r EXCEPT !.nodes = @ + Cardinality({j \in i..Len(file.lines) :
                                                 j <= jump /\ Conditional(file.lines[j])})],
                       file, jump + 1, IF jump > Len(file.lines) THEN 1 ELSE open, 0)
             [] line.kind = "endif" ->
                  IF open = 0 THEN [n EXCEPT !.error = "unmatched"] ELSE Read(n, file, i + 1, open - 1, 0)
             [] line.kind = "inline" ->
                  Read(IF isSet THEN [Emit(n, file, line, 1) EXCEPT !.position = FALSE] ELSE n,
                       file, i + 1, open, 0)
             [] line.kind = "escaped" ->
                  Read([Emit(r, file, line, 1) EXCEPT !.position = FALSE], file, i + 1, open, 0)
             [] line.kind = "include" -> Read(Included(n, file, line), file, i + 1, open, 0)
             [] OTHER ->
                  LET t == Text(n, file, line) IN
                  Read(t, file, i + 1, open,
                       IF line.kind = "set" /\ t.position THEN last ELSE 0)

(* The answer of the file system to one include, where it is not a file    *)
(* that can be read.                                                       *)
Refusal(path) ==
  IF path \in Rejected \/ Found(path).is = "unreadable" THEN "host" ELSE "missing"

Included(r, file, line) ==
  LET path == BaseOf(file.source) \o ExpandedTarget(line, r.attributes)
      readable == path \notin Rejected /\ Found(path).is = "file"
      lines == IF readable THEN TransformLines(SelectLines(Found(path).lines, line), line) ELSE <<>>
      reached == [r EXCEPT !.includes = @ + 1, !.deepest = IF file.depth < @ THEN @ ELSE file.depth + 1]
      asked == [reached EXCEPT !.asked = @ \cup {path}]
  IN  IF path = BaseOf(Root) THEN [reached EXCEPT !.error = "unsafe"]
      ELSE IF path \in file.within THEN [reached EXCEPT !.error = "cycle"]
      ELSE IF readable \/ LocalTargets
      THEN Read(asked, [source |-> path, lines |-> lines, depth |-> file.depth + 1,
                        within |-> file.within \cup {path}], 1, 0, 0)
      ELSE IF Refusal(path) = "missing" /\ line.optional THEN asked
      ELSE [asked EXCEPT !.error = Refusal(path)]

Reference ==
  Read(Nothing, [source |-> Root, lines |-> Numbered(disk[Root].lines), depth |-> 0, within |-> {}],
       1, 0, 0)

-----------------------------------------------------------------------------
(* The variables have their types.                                         *)
(* A target that completes has been expanded as the recursion defines it,  *)
(* within every limit; one refused for what it says is refused for the     *)
(* first thing wrong in the recursion; one refused for a limit does exceed *)
(* that limit.  So what suspends and resumes the machine, and what it is   *)
(* told once and for all about a key, cannot be seen in the result.        *)
ExpandsAsReference ==
  LET r == Reference
      measure == [depth |-> r.deepest, includes |-> r.includes, nodes |-> r.nodes, bytes |-> BytesOf(r.out),
                  segments |-> Len(r.out), iterations |-> 1 + Cardinality(r.asked)]
      limit == [depth |-> MaxDepth, includes |-> MaxIncludes, nodes |-> MaxNodes, bytes |-> MaxBytes,
                segments |-> MaxSegments, iterations |-> MaxIterations]
  IN  /\ TypeOK
      /\ status = "complete" =>
           /\ r.error = None /\ output = r.out
           /\ \A m \in DOMAIN limit : measure[m] <= limit[m]
      /\ status \in {"unsafe", "cycle", "missing", "host", "unclosed", "unmatched"} => r.error = status
      /\ status \in DOMAIN limit => measure[status] > limit[status]
=============================================================================
