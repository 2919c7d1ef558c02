------------------------------ MODULE Payload ------------------------------
(***************************************************************************)
(* What cache-core takes out of a backend's answer and what it removes     *)
(* from it: extract_dependent_files, extract_file_mtimes and strip_meta of *)
(* proxy.rs, inner_value of batch.rs.                                      *)
(*                                                                         *)
(* An answer is NotJson or a JSON document, reduced to the members these   *)
(* functions look at:                                                      *)
(*   meta        top-level _meta, None if there is none                    *)
(*   content     the items of an MCP CallToolResult, None if not MCP       *)
(*   structured  structuredContent                                         *)
(*   wrapped     whether the payload proper is under the member "result"   *)
(*   body        the payload proper, opaque here                           *)
(* An item has a type and a text; a text is None, NotJson or a document    *)
(* with meta, wrapped and body.  A _meta names files and their mtimes, and *)
(* each of the two members may be missing.                                 *)
(***************************************************************************)
EXTENDS Integers, SequencesExt

CONSTANTS NotJson, None

NoMtimes == [p \in {} |-> 0]

\* The document in the first item of type "text", as the extractors find it.
NestedDoc(a) ==
    LET i == IF a.content = None THEN 0
             ELSE SelectInSeq(a.content, LAMBDA item : item.type = "text")
    IN  IF i = 0 \/ a.content[i].text \in {None, NotJson} THEN None ELSE a.content[i].text

\* Slip: the nested text is read only when there is no _meta at the top at all.
CandidateMetasFirst(a) ==
    IF a = NotJson THEN <<>>
    ELSE IF a.meta # None THEN <<a.meta>>
    ELSE IF NestedDoc(a) = None THEN <<>> ELSE <<NestedDoc(a).meta>>

\* Where the extractors look, in this order: at the top, then in the nested text.
CandidateMetas(a) ==
    IF a = NotJson THEN <<>>
    ELSE <<a.meta, IF NestedDoc(a) = None THEN None ELSE NestedDoc(a).meta>>

ExtractDependentFiles(a) ==
    LET metas == CandidateMetas(a)
        i     == SelectInSeq(metas, LAMBDA m : m # None /\ m.dependent_files # None)
    IN  IF i = 0 THEN {} ELSE metas[i].dependent_files

ExtractFileMtimes(a) ==
    LET metas == CandidateMetas(a)
        i     == SelectInSeq(metas, LAMBDA m : m # None /\ m.file_mtimes # None)
    IN  IF i = 0 THEN NoMtimes ELSE metas[i].file_mtimes

Unmarked(doc) == [doc EXCEPT !.meta = None]

StripItem(item) ==
    IF item.text \in {None, NotJson} THEN item ELSE [item EXCEPT !.text = Unmarked(@)]

\* Slip: structuredContent repeats the document, and keeps its _meta.
StripMetaTextOnly(a) ==
    IF a = NotJson THEN a
    ELSE IF a.content = None THEN Unmarked(a)
    ELSE [a EXCEPT !.content = [i \in DOMAIN @ |-> StripItem(@[i])]]

\* The top-level _meta of an MCP answer belongs to the protocol and stays.
StripMeta(a) ==
    IF a = NotJson THEN a
    ELSE [a EXCEPT
            !.meta       = IF a.content = None THEN None ELSE @,
            !.content    = IF @ = None THEN None ELSE [i \in DOMAIN @ |-> StripItem(@[i])],
            !.structured = IF @ = None THEN None ELSE Unmarked(@)]

\* The element of a batch: the document in the first item, whatever its type,
\* or the whole answer; without _meta and, for some tools, unwrapped.
InnerValue(a, unwrap) ==
    LET inFirst == a # NotJson /\ a.content # None /\ a.content # <<>>
                     /\ Head(a.content).text # None
        doc     == IF inFirst THEN Head(a.content).text ELSE a
    IN  IF doc = NotJson THEN NotJson
        ELSE IF unwrap /\ doc.wrapped THEN doc.body ELSE Unmarked(doc)

=============================================================================
