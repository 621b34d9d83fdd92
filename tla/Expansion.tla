----------------------------- MODULE Expansion ------------------------------
(***************************************************************************)
(* Include expansion of one target: the resumable PreprocessMachine of     *)
(* adocweave-core (preprocessor.rs, preprocessor/) and the loop of         *)
(* analyze_target in process.rs, which answers what it asks for from the   *)
(* file system.                                                            *)
(*                                                                         *)
(* A line is a record of its kind and of what a directive in it names; an  *)
(* attribute is set or not.  A path, and the key by which the machine      *)
(* knows a resource, is a sequence of names.  Files do not change: what    *)
(* one request sees of them is the subject of RequestState.                *)
(* A definition under "Altered:" is a plausible mistake in the one that    *)
(* follows it and not part of the specification.                           *)
(***************************************************************************)
EXTENDS Naturals, Sequences, FiniteSets, SequencesExt

CONSTANTS
  Root,          \* the path of the target
  Disks,         \* the functions from paths to files that may be found
  Links,         \* Links[p]: the file the symbolic link p leads to
  Rejected,      \* paths outside the directories includes are allowed from
  External,      \* attributes set from outside the document
  Locked,        \* attributes the document cannot change
  LocalTargets,  \* whether local targets are checked
  LineBytes,     \* bytes of a line with its ending
  MaxDepth, MaxIncludes, MaxNodes, MaxBytes, MaxSegments, MaxIterations

None == "none"
Limits == {MaxDepth, MaxIncludes, MaxNodes, MaxBytes, MaxSegments, MaxIterations}

Path == Seq(STRING)
Kinds ==
  {"text", "blank", "fence", "set", "unset", "tag", "end", "escaped",
   "ifdef", "ifndef", "inline", "endif", "include"}
SourceLine ==
  [kind : Kinds, name : STRING, number : Nat, more : BOOLEAN, padding : Nat, to : Path,
   via : STRING, optional : BOOLEAN, tag : STRING, numbers : SUBSET Nat, indent : BOOLEAN]

ASSUME ExpansionAssumption ==
  /\ LineBytes \in Nat /\ LineBytes > 1 /\ LocalTargets \in BOOLEAN /\ Limits \subseteq Nat
  /\ Root \in Path /\ Root # <<>>
  /\ \A d \in Disks : /\ Root \in DOMAIN d /\ d[Root].is = "file"
                      /\ \A p \in DOMAIN d : d[p].lines \in Seq(SourceLine)
  /\ External \subseteq Locked

VARIABLES
  disk,        \* disk[p]: a file's lines, or that it is missing or unreadable
  cancelled,   \* the caller's cancellation
  stack,       \* the ExpansionCursors, the innermost last
  state,       \* the ExpansionState
  resolved,    \* the answers the machine has, by key
  pending,     \* the PendingInclude of the suspended machine
  output,      \* the segments of the source map, each with the text it stands for
  directives,  \* the includes resolved: by whom, what they named, what they got
  iterations,  \* of the request
  status       \* "running", "suspended", "complete", "cancelled" or what went wrong

vars == <<disk, cancelled, stack, state, resolved, pending, output, directives, iterations, status>>

-----------------------------------------------------------------------------
(* Selection and transformation of an included file (include.rs). *)

Numbered(lines) == [i \in DOMAIN lines |-> [lines[i] EXCEPT !.number = i]]

(* How often the tag is open after line i.                                 *)
Opened(lines, tag, i) ==
  LET open[j \in 0..i] ==
        IF j = 0 THEN 0
        ELSE IF lines[j].kind = "tag" /\ lines[j].name = tag THEN open[j - 1] + 1
        ELSE IF lines[j].kind = "end" /\ lines[j].name = tag /\ open[j - 1] > 0 THEN open[j - 1] - 1
        ELSE open[j - 1]
  IN  open[i]

(* Markers go, then what is outside the tag or the line numbers named.     *)
SelectLines(lines, include) ==
  LET Selected(i) ==
        /\ lines[i].kind \notin {"tag", "end"}
        /\ include.tag = None \/ Opened(lines, include.tag, i) > 0
        /\ include.numbers = {} \/ i \in include.numbers
      kept == {i \in DOMAIN lines : Selected(i)}
      place(i) == Cardinality({k \in kept : k <= i})
  IN  [j \in 1..Cardinality(kept) |-> Numbered(lines)[CHOOSE i \in kept : place(i) = j]]

(* A directive or an attribute that is indented is text.                   *)
Indented(line) ==
  [line EXCEPT !.kind = IF @ = "blank" THEN "blank" ELSE "text", !.padding = 1]

TransformLines(lines, include) ==
  IF include.indent THEN [i \in DOMAIN lines |-> Indented(lines[i])] ELSE lines

-----------------------------------------------------------------------------
(* Paths and keys. *)

Real(path) == IF path \in DOMAIN Links THEN Links[path] ELSE path
Found(path) == IF Real(path) \in DOMAIN disk THEN disk[Real(path)] ELSE [is |-> "missing", lines |-> <<>>]

(* include_bases: where what a file includes is looked for.                *)
BaseOf(path) == Front(Real(path))

(* The reference to an attribute that is not set stays in the target.      *)
ExpandedTarget(line, attributes) ==
  IF line.via = None \/ line.via \in attributes THEN line.to ELSE <<line.via>> \o line.to

Cursor(source, lines, depth, base, active) ==
  [source |-> source, lines |-> lines, depth |-> depth, base |-> base, active |-> active,
   next |-> 1, conditions |-> <<>>, through |-> 0]

-----------------------------------------------------------------------------
Init ==
  /\ disk \in Disks
  /\ cancelled = FALSE
  /\ stack = <<Cursor(Root, Numbered(disk[Root].lines), 0, <<>>, {})>>
  /\ state = [includes |-> 0, nodes |-> 0, attributes |-> External, fences |-> <<>>, position |-> TRUE]
  /\ resolved = [k \in {} |-> <<>>]
  /\ pending = <<>>
  /\ output = <<>>
  /\ directives = <<>>
  /\ iterations = 1
  /\ status = "running"

-----------------------------------------------------------------------------
(* What the handlers share.  A machine that fails is dropped: nothing of   *)
(* it is published.                                                        *)

End(how) ==
  /\ status' = how
  /\ UNCHANGED <<disk, cancelled, stack, state, resolved, pending, output, directives, iterations>>

Running == status = "running" /\ stack # <<>>
Top == Last(stack)
Line == Top.lines[Top.next]
AtLine == Running /\ Top.next <= Len(Top.lines)
Enabled == \A i \in DOMAIN Top.conditions : Top.conditions[i]
InValue == Top.next <= Top.through
Onward == [Top EXCEPT !.next = @ + 1]
Node == [state EXCEPT !.nodes = @ + 1]

BytesOf(segments) == FoldLeft(LAMBDA n, segment : n + segment.bytes, 0, segments)
Bytes == BytesOf(output)

Segment(line, bytes, mapping) ==
  [source |-> Top.source, number |-> line.number, bytes |-> bytes, mapping |-> mapping]
OwnSegment(line) ==
  Segment(line, LineBytes + line.padding, IF line.padding = 0 THEN "identity" ELSE "whole")

(* A line leaves the cursor, the state and what it appends, or fails.      *)
Proceed(cursor, after, segments) ==
  IF after.nodes > MaxNodes THEN End("nodes")
  ELSE IF segments # <<>> /\ Bytes + BytesOf(segments) > MaxBytes THEN End("bytes")
  ELSE IF Len(output) + Len(segments) > MaxSegments THEN End("segments")
  ELSE /\ stack' = Append(Front(stack), cursor)
       /\ state' = after
       /\ output' = output \o segments
       /\ UNCHANGED <<disk, cancelled, resolved, pending, directives, iterations, status>>

-----------------------------------------------------------------------------
(* The lines (drive, process_text, process_conditional, process_escaped).  *)

(* A line of a value is text whatever it looks like.                       *)
ValueLine ==
  /\ AtLine /\ InValue
  /\ Proceed([Onward EXCEPT !.through = IF @ = Top.next THEN 0 ELSE @], Node, <<OwnSegment(Line)>>)

(* The last line of the value that begins at line i.                       *)
ValueEnd(lines, i) ==
  CHOOSE j \in i..Len(lines) :
    /\ j = Len(lines) \/ ~lines[j].more
    /\ \A k \in i..(j - 1) : lines[k].more

Fences(line) ==
  IF line.kind # "fence" THEN state.fences
  ELSE IF state.fences # <<>> /\ Last(state.fences) = line.name THEN Front(state.fences)
  ELSE Append(state.fences, line.name)

(* Attributes stand at the beginning, or after a blank line or another.    *)
AcceptsAttribute(line) ==
  line.kind \in {"set", "unset"} /\ state.fences = <<>> /\ state.position

Attributes(line) ==
  IF ~AcceptsAttribute(line) \/ line.name \in Locked THEN state.attributes
  ELSE IF line.kind = "set" THEN state.attributes \cup {line.name}
  ELSE state.attributes \ {line.name}

TextLine ==
  /\ AtLine /\ ~InValue /\ Enabled
  /\ Line.kind \in {"text", "blank", "fence", "set", "unset", "tag", "end"}
  /\ Proceed([Onward EXCEPT !.through =
                IF AcceptsAttribute(Line) /\ Line.kind = "set" /\ ValueEnd(Top.lines, Top.next) > Top.next
                THEN ValueEnd(Top.lines, Top.next) ELSE 0],
             [Node EXCEPT !.fences = Fences(Line), !.attributes = Attributes(Line),
                          !.position = AcceptsAttribute(Line) \/ Line.kind = "blank"],
             <<OwnSegment(Line)>>)

EscapedLine ==
  /\ AtLine /\ ~InValue /\ Enabled /\ Line.kind = "escaped"
  /\ Proceed(Onward, [state EXCEPT !.position = FALSE],
             <<Segment(Line, LineBytes + Line.padding - 1, "whole")>>)

(* Altered: a line that is passed over stays the next one.                 *)
SkippedInPlace ==
  /\ AtLine /\ ~InValue /\ ~Enabled
  /\ Line.kind \notin {"ifdef", "ifndef", "inline", "endif"}
  /\ Proceed(Top, state, <<>>)

(* What is not selected is passed over, but for conditionals.              *)
SkippedLine ==
  /\ AtLine /\ ~InValue /\ ~Enabled
  /\ Line.kind \notin {"ifdef", "ifndef", "inline", "endif"}
  /\ Proceed(Onward, state, <<>>)

Holds(line) ==
  Enabled /\ (line.name \in state.attributes) = (line.kind # "ifndef")

(* ifeval opens a block as ifdef does.                                     *)
OpenConditional ==
  /\ AtLine /\ ~InValue /\ Line.kind \in {"ifdef", "ifndef"}
  /\ Proceed([Onward EXCEPT !.conditions = Append(@, Holds(Line))], Node, <<>>)

CloseConditional ==
  /\ AtLine /\ ~InValue /\ Line.kind = "endif"
  /\ IF Node.nodes <= MaxNodes /\ Top.conditions = <<>> THEN End("unmatched")
     ELSE Proceed([Onward EXCEPT !.conditions = Front(@)], Node, <<>>)

InlineConditional ==
  /\ AtLine /\ ~InValue /\ Line.kind = "inline"
  /\ IF Holds(Line)
     THEN Proceed(Onward, [Node EXCEPT !.position = FALSE], <<Segment(Line, LineBytes - 1, "whole")>>)
     ELSE Proceed(Onward, Node, <<>>)

EndFrame ==
  /\ Running /\ Top.next > Len(Top.lines)
  /\ IF Top.conditions # <<>> THEN End("unclosed")
     ELSE /\ stack' = Front(stack)
          /\ UNCHANGED <<disk, cancelled, state, resolved, pending, output, directives, iterations, status>>

Finish ==
  /\ status = "running" /\ stack = <<>>
  /\ End(IF cancelled THEN "cancelled" ELSE "complete")

-----------------------------------------------------------------------------
(* Includes. *)

(* resolve_pending, for an answer or what the machine had been told.       *)
ResolvePending(include, answer, frames, after) ==
  LET lines == TransformLines(SelectLines(answer[1].lines, include.line), include.line)
      padding == FoldLeft(LAMBDA n, line : n + line.padding, 0, lines)
      child == Cursor(answer[1].source, lines, include.depth + 1, Front(include.key),
                      include.active \cup {include.key})
  IN  IF answer = <<>> /\ ~include.line.optional THEN End("missing")
      ELSE IF answer # <<>> /\ Bytes + padding > MaxBytes THEN End("bytes")
      ELSE /\ directives' = Append(directives, [owner |-> include.owner, to |-> include.to,
                                                source |-> IF answer = <<>> THEN <<>> ELSE answer[1].source])
           /\ stack' = IF answer = <<>> THEN frames ELSE Append(frames, child)
           /\ state' = after
           /\ pending' = <<>>
           /\ status' = "running"
           /\ UNCHANGED <<disk, cancelled, output>>

Pending ==
  LET to == ExpandedTarget(Line, state.attributes) IN
  [line |-> Line, owner |-> Top.source, to |-> to, key |-> Top.base \o to,
   depth |-> Top.depth, active |-> Top.active]

Counted == [Node EXCEPT !.includes = @ + 1]

(* prepare_include, in its order; of what validate_target refuses, the     *)
(* target that names nothing; attributes and encodings that are refused    *)
(* end the machine likewise.                                               *)
IncludeProblem ==
  IF Top.depth >= MaxDepth THEN "depth"
  ELSE IF Counted.includes > MaxIncludes THEN "includes"
  ELSE IF Counted.nodes > MaxNodes THEN "nodes"
  ELSE IF Pending.key = <<>> THEN "unsafe"
  ELSE IF Pending.key \in Top.active THEN "cycle"
  ELSE None

(* Altered: the line is read again when the machine resumes.               *)
SuspendBefore == Append(Front(stack), Top)

(* The cursor is put back past the line before the machine suspends.       *)
Suspended == Append(Front(stack), Onward)

(* What the machine was once told about a key it does not ask again.       *)
IncludeLine ==
  /\ AtLine /\ ~InValue /\ Enabled /\ Line.kind = "include"
  /\ IF IncludeProblem # None THEN End(IncludeProblem)
     ELSE IF Pending.key \in DOMAIN resolved
     THEN ResolvePending(Pending, resolved[Pending.key], Suspended, Counted)
            /\ UNCHANGED <<resolved, iterations>>
     ELSE /\ pending' = <<Pending>>
          /\ stack' = Suspended
          /\ state' = Counted
          /\ status' = "suspended"
          /\ UNCHANGED <<disk, cancelled, resolved, output, directives, iterations>>

-----------------------------------------------------------------------------
(* analyze_target answers. *)

(* Altered: the file is looked for where the root is.                      *)
RequestedFromRoot(include) == BaseOf(Root) \o include.to

RequestedPath(include) == BaseOf(include.owner) \o include.to

(* With local targets checked, whatever cannot be read is an empty file:   *)
(* the check reports it.                                                   *)
Outcome(path) ==
  IF path \in Rejected THEN "rejected"
  ELSE Found(path).is

Response(path) ==
  IF Outcome(path) = "file" THEN <<[source |-> path, lines |-> Found(path).lines]>>
  ELSE IF LocalTargets THEN <<[source |-> path, lines |-> <<>>]>>
  ELSE <<>>

Told(key, answer) == [k \in DOMAIN resolved \cup {key} |-> IF k = key THEN answer ELSE resolved[k]]

AnswerInclude ==
  /\ status = "suspended"
  /\ LET include == pending[1]
         path == RequestedPath(include)
     IN  IF iterations >= MaxIterations THEN End("iterations")
         ELSE IF Outcome(path) = "rejected" /\ ~LocalTargets THEN End("host")
         ELSE IF cancelled THEN End("cancelled")
         ELSE IF Outcome(path) = "unreadable" /\ ~LocalTargets THEN End("host")
         ELSE /\ ResolvePending(include, Response(path), stack, state)
              /\ IF status' = "running"
                 THEN /\ iterations' = iterations + 1
                      /\ resolved' = Told(include.key, Response(path))
                 ELSE UNCHANGED <<iterations, resolved>>

-----------------------------------------------------------------------------
(* The machine looks at the cancellation at some lines, not at all.        *)
NoticeCancellation == AtLine /\ cancelled /\ End("cancelled")

Cancel ==
  /\ status \in {"running", "suspended"} /\ ~cancelled
  /\ cancelled' = TRUE
  /\ UNCHANGED <<disk, stack, state, resolved, pending, output, directives, iterations, status>>

Drive ==
  \/ ValueLine
  \/ TextLine
  \/ EscapedLine
  \/ SkippedLine
  \/ OpenConditional
  \/ CloseConditional
  \/ InlineConditional
  \/ IncludeLine
  \/ EndFrame
  \/ NoticeCancellation
  \/ Finish

Next == Drive \/ AnswerInclude \/ Cancel

(* One thread drives the machine and answers it.                           *)
Fairness == WF_vars(Drive \/ AnswerInclude)

Spec == Init /\ [][Next]_vars /\ Fairness
-----------------------------------------------------------------------------
Terminal == status \notin {"running", "suspended"}

TypeOK ==
  /\ cancelled \in BOOLEAN /\ iterations \in 1..(MaxIterations + 1)
  /\ state.includes \in 0..MaxIncludes /\ state.nodes \in 0..MaxNodes
  /\ Locked \cap state.attributes = External
  /\ Len(stack) <= MaxDepth + 1 /\ Len(output) <= MaxSegments /\ Bytes <= MaxBytes
  /\ (status = "suspended") => (pending # <<>>)
  /\ \A i \in DOMAIN stack :
       /\ stack[i].depth = i - 1 /\ Cardinality(stack[i].active) = i - 1
       /\ stack[i].next \in 1..(Len(stack[i].lines) + 1)

(* Whatever else has been included before, an include is answered with the *)
(* file its target names from the directory of the file it stands in.      *)
IncludesFromTheirBase ==
  \A i \in DOMAIN directives :
    directives[i].source # <<>> => directives[i].source = BaseOf(directives[i].owner) \o directives[i].to

(* Every expansion ends, cycles and conditions that leave everything out   *)
(* included.                                                               *)
Terminates == <>Terminal
=============================================================================
