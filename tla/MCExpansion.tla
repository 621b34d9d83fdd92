---------------------------- MODULE MCExpansion -----------------------------
EXTENDS ExpansionReference

Plain(kind, name) ==
  [kind |-> kind, name |-> name, number |-> 0, more |-> FALSE, padding |-> 0, to |-> <<>>,
   via |-> None, optional |-> FALSE, tag |-> None, numbers |-> {}, indent |-> FALSE]
Include(to) == [Plain("include", "") EXCEPT !.to = to]
File(lines) == [is |-> "file", lines |-> lines]
Absent == [is |-> "missing", lines |-> <<>>]
Unreadable == [is |-> "unreadable", lines |-> <<>>]
T == Plain("text", "")

(* a.adoc beside b.adoc and d/c.adoc.                                      *)
A == <<"a">>
B == <<"b">>
C == <<"d", "c">>

RootLines ==
  {T, [Plain("set", "x") EXCEPT !.more = TRUE], Plain("ifdef", "x"), Plain("ifndef", "x"), Plain("endif", ""),
   Include(B), [Include(C) EXCEPT !.optional = TRUE]}
RootDocuments ==
  UNION {[1..n -> RootLines] : n \in 1..3}
  \cup {<<Plain("ifdef", "x"), l, Plain("endif", ""), m>> : l \in RootLines, m \in {T, Include(B)}}
  \cup {<<[Include(B) EXCEPT !.indent = TRUE], Include(B)>>,
        <<[Include(B) EXCEPT !.indent = TRUE], [Include(B) EXCEPT !.indent = TRUE]>>,
        <<[Include(B) EXCEPT !.tag = "t"], [Include(B) EXCEPT !.numbers = {2}]>>,
        <<Plain("fence", "-"), Plain("set", "x"), Plain("fence", "-"), Plain("inline", "x")>>,
        <<Plain("set", "x"), Plain("inline", "x"), Plain("unset", "x"), Plain("inline", "x")>>,
        <<Plain("set", "x"), Plain("blank", ""), Plain("unset", "x"), Plain("ifdef", "x"),
          Plain("ifdef", "x"), Plain("inline", "x"), Plain("endif", ""), T, Plain("endif", ""), T>>,
        <<Plain("fence", "-"), Plain("fence", "="), Plain("fence", "-"), Plain("escaped", "")>>,
        <<Plain("set", "l"), Plain("ifdef", "l"), Plain("escaped", ""), Plain("endif", "")>>,
        <<Plain("set", "x"), [Include(<<>>) EXCEPT !.to = B, !.via = "x"]>>,
        <<Include(<<"o">>)>>, <<Include(<<>>)>>, <<Include(B), Include(<<"e">>), Include(B)>>}

MCRoot == A
Bs == {Absent, File(<<T>>), File(<<Plain("set", "x"), Plain("unset", "x")>>), File(<<Plain("set", "x")>>),
       File(<<Include(C), Plain("endif", "")>>), File(<<Plain("ifdef", "x"), T>>), File(<<Include(C)>>),
       File(<<Plain("tag", "t"), T, Plain("end", "t"), Include(B)>>), File(<<Include(A)>>)}
Cs == {Absent, Unreadable, File(<<Plain("unset", "x"), T>>), File(<<Include(B)>>),
       File(<<Plain("ifdef", "x"), T, Plain("endif", "")>>)}
MCDisks == {A :> File(a) @@ B :> b @@ C :> c : a \in RootDocuments, b \in Bs, c \in Cs}
(* e is a symbolic link to the file b beside it.                           *)
LinksBeside == [p \in {<<"e">>} |-> B]
MCRejected == {<<"o">>}
MCLocked == {"l"}

(* d/c.adoc is a file, d/l.adoc a symbolic link to f/g.adoc; each includes *)
(* the n.adoc beside it.                                                   *)
LinkedDisks ==
  {A :> File(<<Include(C), Include(<<"d", "l">>)>>) @@ C :> File(<<Include(<<"n">>)>>)
     @@ <<"f", "g">> :> File(<<Include(<<"n">>)>>) @@ <<"d", "n">> :> File(<<T>>) @@ <<"f", "n">> :> File(<<T>>)}
MCLinks == [p \in {<<"d", "l">>} |-> <<"f", "g">>]
=============================================================================
