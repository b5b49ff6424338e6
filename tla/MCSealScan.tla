----------------------------- MODULE MCSealScan -----------------------------
EXTENDS SealScan

\* A text of one chunk, or of two.
Plain(t) == [form |-> "plain", chunks |-> <<t>>]
Long(t, u) == [form |-> "plain", chunks |-> <<t, u>>]
Packed(p) == [form |-> "packed", whole |-> TRUE, inside |-> p, trailing |-> None]
Followed(p, q) == [form |-> "packed", whole |-> TRUE, inside |-> p, trailing |-> q]
Torn(p) == [Packed(p) EXCEPT !.whole = FALSE]
M(name, suffix, p) == [name |-> name, suffix |-> suffix, content |-> p, safe |-> TRUE]
ZipOf(ms) == [form |-> "zip", ends |-> 1, located |-> TRUE, declared |-> Len(ms), members |-> ms]

\* Every text of one token in every kind of file, and some of two.
Texts == {Plain({}), Plain({"literal"}), Plain({"comment"}), Plain({"symbol"}), Plain({"escaped"}),
          Plain({"unicode", "garbled"}), Plain({"literal", "garbled"}), Plain({"literal", "unicode"}),
          Long({}, {"literal"}), Long({"unicode"}, {"escaped"}), Long({"literal"}, {"symbol", "literal"}),
          Long({"signature"}, {"literal"}), Long({"literal"}, {"signature"})}
Kinds == {"json", "snbt", "code", "data"}
Deep == {Packed(Plain({"literal"})), Packed(Packed(Plain({"literal"}))),
         Packed(ZipOf(<<M("a", "json", Plain({"escaped"}))>>)),
         Packed(ZipOf(<<M("a", "snbt", Packed(Plain({"literal"})))>>)),
         Followed(Plain({}), Plain({"symbol"})), Followed(Packed(Plain({"literal"})), Packed(Plain({"literal"}))),
         Torn(Plain({})), ZipOf(<<>>), ZipOf(<<M("a", "snbt", Plain({"literal"}))>>),
         ZipOf(<<M("a", "data", Packed(Plain({"literal"})))>>),
         [ZipOf(<<M("a", "data", Plain({}))>>) EXCEPT !.declared = 2],
         [ZipOf(<<M("a", "data", Plain({}))>>) EXCEPT !.ends = 2]}
Clause == Plain({"comment"})
Jars ==
  {ZipOf(<<M("a", k, t)>>) : k \in Kinds, t \in Texts}
  \cup {ZipOf(<<M("a", k, p)>>) : k \in {"jar", "data"}, p \in Deep}
  \cup {ZipOf(<<M("a", "data", p), M("b", "json", t)>>) : p \in Deep, t \in {Plain({"escaped"}), Long({}, {"literal"})}}
  \cup {ZipOf(<<M("a", "data", p), M("a", "data", q)>>) : p, q \in {Clause, Plain({}), Packed(Plain({"literal"}))}}
  \cup {ZipOf(<<[M("a", "data", Plain({})) EXCEPT !.safe = FALSE]>>), Plain({"literal"}),
        Packed(Plain({})), [ZipOf(<<>>) EXCEPT !.located = FALSE],
        ZipOf(<<M("a", "data", Clause), M("a", "data", Clause), M("a", "data", Clause)>>)}

Audit  == Plain({"listed", "symbol"})
Audits == {Audit, Plain({"symbol"}), Plain({"listed"})}
SuffixOf == [audit |-> "code", jar |-> "jar", note |-> "data"]
FileNames == {"audit", "jar", "note"}
AllTrees ==
  {[audit |-> Audit, jar |-> j, note |-> Plain({})] : j \in Jars}
  \cup {[audit |-> Audit, jar |-> ZipOf(<<>>), note |-> n] : n \in Deep \cup Texts}
  \cup {[audit |-> a, jar |-> ZipOf(<<M("a", "data", Clause)>>), note |-> Plain({"literal"})] : a \in Audits}
AllDrafts ==
  [audit |-> {Audit, Plain({"symbol"}), Plain({})},
   jar   |-> {None, ZipOf(<<M("a", "snbt", Plain({"literal"}))>>), ZipOf(<<M("a", "data", Plain({"comment"}))>>)},
   note  |-> {None, Plain({}), Plain({"literal"})}]
AuthenticCode == [audit |-> Plain({"symbol"})]
MetaSets == {{}, {[label |-> "meta", jar |-> "jar"]},
             {[label |-> "meta", jar |-> "jar"], [label |-> "other", jar |-> "jar"]}}
ReviewedDuplicates ==
  {[label |-> <<"meta">>, member |-> "a", count |-> 2, content |-> Clause],
   [label |-> <<"meta">>, member |-> "a", count |-> 2, content |-> Packed(Plain({"literal"}))]}
=============================================================================
