------------------------------ MODULE MCSyncRun ------------------------------
(* Instances of SyncRun for TLC. *)
EXTENDS SyncRun

CONSTANTS m1, m2

With(o, v) == [option |-> o, inline |-> v]
Word == Plain("word")

\* Accepted, refused, and accepted although a value looks like an option.
SomeTexts == {
    <<>>, <<Plain("addheader")>>, <<With("exclude", "delete2")>>,
    <<Plain("exclude"), Plain("delete1")>>, <<Plain("exclude"), Plain("exclude"), Plain("delete2")>>,
    <<With("exclude", "word"), Plain("delete2")>>, <<Plain("exclude"), Word, Plain("delete1")>>,
    <<Plain("delete2")>>, <<Plain("exclude")>>, <<With("addheader", "word")>>, <<Plain("unknown")>>,
    <<Word>>}

=============================================================================
