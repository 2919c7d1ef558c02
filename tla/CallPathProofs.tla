--------------------------- MODULE CallPathProofs ---------------------------
(***************************************************************************)
(* CallPath for any calls, bodies, policy and form of answer.  The lemmas  *)
(* say what the operators of the way of a call yield (the scope of         *)
(* arguments and bodies, what is taken out of an answer, what is left in   *)
(* it); the invariant then ties each entry of the cache to the request it  *)
(* answers (EntryInv) and the versions in it to the flags (FreshState).    *)
(***************************************************************************)
EXTENDS CallPath, SequenceTheorems, WellFoundedInduction, TLAPS

-----------------------------------------------------------------------------
(* The first element of a sequence that fits (SelectInSeq).                  *)

LEMMA MinIs ==
    ASSUME NEW S \in SUBSET Int, NEW n \in S, \A m \in S : n <= m
    PROVE  Min(S) = n
<1>. DEFINE x == CHOOSE y \in S : \A m \in S : y <= m
<1>1. \E y \in S : \A m \in S : y <= m
  OBVIOUS
<1>2. x \in S /\ \A m \in S : x <= m
  BY <1>1, Zenon
<1>3. \A y \in S : (\A m \in S : y <= m) => y = n
  OBVIOUS
<1>. QED
  BY <1>2, <1>3, Zenon DEF Min

LEMMA MinSingle ==
    ASSUME NEW n \in Int
    PROVE  Min({n}) = n
BY MinIs

LEMMA MinIn ==
    ASSUME NEW S \in SUBSET Nat, S # {}
    PROVE  Min(S) \in S
<1>1. PICK n \in S : \A m \in S : ~ (<<m, n>> \in OpToRel(<, Nat))
  BY WFMin, NatLessThanWellFounded, Zenon
<1>2. \A m \in S : ~ (m < n)
  BY <1>1, Zenon DEF OpToRel
<1>3. \A m \in S : n <= m
  BY <1>2
<1>4. Min(S) = n
  BY <1>3, MinIs
<1>. QED
  BY <1>4

-----------------------------------------------------------------------------
(* Scopes.                                                                   *)

\* The arguments that may give the scope.
Given(a) == {i \in 1 .. Len(ScopeArgs) : ScopeArgs[i] \in DOMAIN a /\ a[ScopeArgs[i]] # NotString}

LEMMA GivenFirst ==
    ASSUME NEW a
    PROVE  /\ Given(a) # {} => Min(Given(a)) \in Given(a)
           /\ 1 \in Given(a) => Min(Given(a)) = 1
<1>1. Given(a) \in SUBSET Nat /\ Given(a) \in SUBSET Int /\ \A i \in Given(a) : 1 <= i
  BY DEF Given
<1>. QED
  BY <1>1, MinIn, MinIs

LEMMA ScopeIs ==
    ASSUME NEW a
    PROVE  ExtractScope(a) = IF Given(a) = {} THEN NoScope ELSE a[ScopeArgs[Min(Given(a))]]
<1>1. Given(a) # {} => Min(Given(a)) # 0
  <2>1. \A i \in Given(a) : i # 0
    BY DEF Given
  <2>. QED
    BY <2>1, GivenFirst
<1>. QED
  BY <1>1 DEF ExtractScope, SelectInSeq, Given

LEMMA ScopeIsRepo ==
    ASSUME RepoFirst, NEW a, "repo" \in DOMAIN a, a.repo # NotString
    PROVE  ExtractScope(a) = a.repo
<1>1. 1 \in Given(a)
  BY CallPathAssumption DEF RepoFirst, Given
<1>2. Min(Given(a)) = 1
  BY <1>1, GivenFirst
<1>. QED
  BY <1>1, <1>2, ScopeIs DEF RepoFirst

LEMMA ScopeIsRepoOnly ==
    ASSUME RepoOnly, NEW a
    PROVE  ExtractScope(a) = IF "repo" \in DOMAIN a /\ a.repo # NotString THEN a.repo ELSE NoScope
<1>1. Given(a) = IF "repo" \in DOMAIN a /\ a.repo # NotString THEN {1} ELSE {}
  BY DEF RepoOnly, Given
<1>. QED
  BY <1>1, ScopeIs, ScopeIsRepo DEF RepoOnly, RepoFirst

LEMMA ScopeKnown ==
    ASSUME NEW q \in Requests
    PROVE  /\ ExtractScope(q.args) \in Scopes
           /\ RepoIn(q.args) \in Scopes \cup {NotString, None}
<1>1. PICK c \in Calls : \E a \in Range(SubCalls(c)) \ {NotString} : q = [tool |-> c.tool, args |-> a]
  BY DEF Requests
<1>2. \A n \in (Range(ScopeArgs) \cup {"repo"}) \cap DOMAIN q.args :
          q.args[n] \in Scopes \cup {NotString}
  BY <1>1, RequestAssumption
<1>3. \A i \in 1 .. Len(ScopeArgs) : ScopeArgs[i] \in Range(ScopeArgs)
  BY CallPathAssumption DEF Range
<1>4. ExtractScope(q.args) \in Scopes
  <2>1. CASE Given(q.args) = {}
    BY <2>1, ScopeIs DEF Scopes
  <2>2. CASE Given(q.args) # {}
    <3>1. Min(Given(q.args)) \in Given(q.args)
      BY <2>2, GivenFirst
    <3>. QED
      BY <1>2, <1>3, <2>2, <3>1, ScopeIs DEF Given
  <2>. QED
    BY <2>1, <2>2
<1>. QED
  BY <1>2, <1>4 DEF RepoIn

\* pick_scope takes the first of the three fields that is not empty.
LEMMA PickScopeIs ==
    ASSUME NEW b
    PROVE  PickScope(b) = IF b.scope \notin {None, NoScope} THEN b.scope
                          ELSE IF b.repo \notin {None, NoScope} THEN b.repo
                          ELSE IF b.base \notin {None, NoScope} THEN b.base ELSE NoScope
<1>. DEFINE fields == <<b.scope, b.repo, b.base>>
            Filled == {i \in 1 .. 3 : fields[i] \notin {None, NoScope}}
<1>1. PickScope(b) = LET i == IF Filled # {} THEN Min(Filled) ELSE 0
                     IN  IF i = 0 THEN NoScope ELSE fields[i]
  BY DEF PickScope, SelectInSeq
<1>2. CASE b.scope \notin {None, NoScope}
  <2>1. 1 \in Filled
    BY <1>2
  <2>2. Min(Filled) = 1
    BY <2>1, MinIs
  <2>. QED
    BY <1>1, <1>2, <2>1, <2>2
<1>3. CASE b.scope \in {None, NoScope} /\ b.repo \notin {None, NoScope}
  <2>1. 2 \in Filled /\ 1 \notin Filled
    BY <1>3
  <2>2. Min(Filled) = 2
    BY <2>1, MinIs
  <2>. QED
    BY <1>1, <1>3, <2>1, <2>2
<1>4. CASE /\ b.scope \in {None, NoScope} /\ b.repo \in {None, NoScope}
           /\ b.base \notin {None, NoScope}
  <2>1. Filled = {3}
    BY <1>4
  <2>2. Min(Filled) = 3
    BY <2>1, MinIs
  <2>. QED
    BY <1>1, <1>4, <2>1, <2>2
<1>5. CASE b.scope \in {None, NoScope} /\ b.repo \in {None, NoScope} /\ b.base \in {None, NoScope}
  <2>1. Filled = {}
    BY <1>5
  <2>. QED
    BY <1>1, <1>5, <2>1
<1>. QED
  BY <1>2, <1>3, <1>4, <1>5

\* A body that names one repository, in whichever field, means it; one that names
\* none means everything.
LEMMA PickScopeNamed ==
    ASSUME NEW b \in DropBodies \cup FreezeBodies
    PROVE  LET R == Named({b.scope, b.repo, b.base})
           IN  /\ PickScope(b) \in Scopes
               /\ R = {} => PickScope(b) = NoScope
               /\ \A r : R = {r} => PickScope(b) = r
<1>1. {b.scope, b.repo, b.base} \subseteq Scopes \cup {None}
  BY RequestAssumption
<1>. QED
  BY <1>1, PickScopeIs, CallPathAssumption DEF Named, Scopes

-----------------------------------------------------------------------------
(* Answers.                                                                  *)

LEMMA ContentsTyped ==
    ASSUME index \in [Repo -> [Path -> Version]],
           NEW q \in Requests
    PROVE  /\ Contents(q.args) \in Payloads
           /\ Contents(q.args).repo = RepoIn(q.args)
           /\ DOMAIN Contents(q.args).versions = FilesIn(q.args)
           /\ FilesIn(q.args) \in SUBSET Path
<1>1. FilesIn(q.args) \in SUBSET Path
  BY DEF FilesIn
<1>2. [p \in FilesIn(q.args) |-> index[RepoIn(q.args)][p]] \in [FilesIn(q.args) -> Version]
  BY DEF FilesIn
<1>3. [p \in FilesIn(q.args) |-> index[RepoIn(q.args)][p]] \in Versions
  BY <1>1, <1>2 DEF Versions
<1>. QED
  BY <1>1, <1>3, ScopeKnown DEF Contents, Payloads

\* What a backend with metadata tells of the files it has read.
Told(body) ==
    CASE shape = "silent"  -> None
      [] shape = "noTimes" -> [dependent_files |-> DOMAIN body.versions, file_mtimes |-> None]
      [] OTHER             -> [dependent_files |-> DOMAIN body.versions,
                               file_mtimes |-> body.versions]

Nested(body) == [meta |-> Told(body), wrapped |-> TRUE, body |-> body]

TextItem(doc) == [type |-> "text", text |-> doc]
ImageItem     == [type |-> "image", text |-> None]

LEMMA ToldKnown ==
    ASSUME NEW body \in Payloads
    PROVE  Told(body) # None <=> shape # "silent"
<1>1. body.versions \in Versions /\ DOMAIN body.versions \in SUBSET Path
  BY DEF Payloads, Versions
<1>2. shape # "silent" => Told(body) \in Metas
  BY <1>1 DEF Told, Metas
<1>. QED
  BY <1>2, CallPathAssumption DEF Told

LEMMA ToldTyped ==
    ASSUME NEW body \in Payloads
    PROVE  /\ Told(body) \in Metas \cup {None}
           /\ Nested(body) \in Docs /\ Nested(body) # None /\ Nested(body) # NotJson
           /\ DOMAIN body.versions \in SUBSET Path
           /\ body.versions # None /\ DOMAIN body.versions # None
<1>1. body.versions \in Versions /\ DOMAIN body.versions \in SUBSET Path
  BY DEF Payloads, Versions
<1>2. Told(body) \in Metas \cup {None}
  BY <1>1 DEF Told, Metas
<1>3. Nested(body) \in Docs
  BY <1>2 DEF Nested, Docs
<1>. QED
  BY <1>1, <1>2, <1>3, CallPathAssumption

\* The three forms of an answer: no MCP, with the document in the only item, and with
\* it behind an image.
LEMMA AnswerForm ==
    ASSUME index \in [Repo -> [Path -> Version]], NEW q \in Requests
    PROVE  LET body == Contents(q.args)
           IN  /\ shape = "plain" =>
                    Answer(q.args) = [meta |-> Told(body), content |-> None, structured |-> None,
                                      wrapped |-> TRUE, body |-> body]
               /\ shape = "image" =>
                    Answer(q.args) = [meta |-> None,
                                      content |-> <<ImageItem, TextItem(Nested(body))>>,
                                      structured |-> None, wrapped |-> FALSE, body |-> None]
               /\ shape \notin {"plain", "image"} =>
                    \E m \in Metas \cup {None}, s \in {None, Nested(body)} :
                        /\ m # None => m.dependent_files = None /\ m.file_mtimes = None
                        /\ Answer(q.args) = [meta |-> m, content |-> <<TextItem(Nested(body))>>,
                                             structured |-> s, wrapped |-> FALSE, body |-> None]
<1>. DEFINE body == Contents(q.args)
            mcp  == [meta |-> None, content |-> <<TextItem(Nested(body))>>, structured |-> None,
                     wrapped |-> FALSE, body |-> None]
            bare == [dependent_files |-> None, file_mtimes |-> None]
<1>1. CASE shape = "plain"
  BY <1>1 DEF Answer, Told
<1>2. CASE shape = "image"
  BY <1>2 DEF Answer, Told, Nested, TextItem, ImageItem
<1>3. CASE shape = "structured"
  <2>1. Answer(q.args) = [mcp EXCEPT !.structured = Nested(body)]
    BY <1>3 DEF Answer, Told, Nested, TextItem
  <2>. QED
    BY <1>3, <2>1
<1>4. CASE shape = "protocol"
  <2>1. Answer(q.args) = [mcp EXCEPT !.meta = bare] /\ bare \in Metas
    BY <1>4 DEF Answer, Told, Nested, TextItem, Metas
  <2>. QED
    BY <1>4, <2>1
<1>5. CASE shape \notin {"plain", "image", "structured", "protocol"}
  <2>1. ASSUME shape = "silent" PROVE Answer(q.args) = mcp
    BY <2>1 DEF Answer, Told, Nested, TextItem
  <2>2. ASSUME shape = "noTimes" PROVE Answer(q.args) = mcp
    <3>1. Told(body) = [[dependent_files |-> DOMAIN body.versions, file_mtimes |-> body.versions]
                          EXCEPT !.file_mtimes = None]
      BY <2>2 DEF Told
    <3>. QED
      BY <2>2, <3>1 DEF Answer, Nested, TextItem
  <2>3. ASSUME shape \notin {"silent", "noTimes"} PROVE Answer(q.args) = mcp
    BY <1>5, <2>3 DEF Answer, Told, Nested, TextItem
  <2>4. Answer(q.args) = mcp
    BY <2>1, <2>2, <2>3
  <2>. QED
    BY <1>5, <2>4
<1>. QED
  BY <1>1, <1>2, <1>3, <1>4, <1>5

\* None of the forms is None or NotJson.
LEMMA FormsTyped ==
    ASSUME NEW doc \in Docs
    PROVE  /\ doc # None /\ doc # NotJson
           /\ <<TextItem(doc)>> # None /\ <<ImageItem, TextItem(doc)>> # None
           /\ \A m \in Metas \cup {None}, s \in Docs \cup {None}, w \in BOOLEAN :
                 /\ [meta |-> m, content |-> <<TextItem(doc)>>, structured |-> s,
                     wrapped |-> w, body |-> None] # NotJson
                 /\ [meta |-> m, content |-> <<ImageItem, TextItem(doc)>>, structured |-> s,
                     wrapped |-> w, body |-> None] # NotJson
                 /\ \A b \in Payloads : [meta |-> m, content |-> None, structured |-> s,
                                         wrapped |-> w, body |-> b] # NotJson
<1>1. TextItem(doc) \in Items /\ ImageItem \in Items
  BY DEF TextItem, ImageItem, Items
<1>2. <<TextItem(doc)>> \in Texts /\ <<ImageItem, TextItem(doc)>> \in Texts
  BY <1>1 DEF Texts
<1>3. \A m \in Metas \cup {None}, s \in Docs \cup {None}, w \in BOOLEAN :
         /\ [meta |-> m, content |-> <<TextItem(doc)>>, structured |-> s,
             wrapped |-> w, body |-> None] \in Answers
         /\ [meta |-> m, content |-> <<ImageItem, TextItem(doc)>>, structured |-> s,
             wrapped |-> w, body |-> None] \in Answers
         /\ \A b \in Payloads : [meta |-> m, content |-> None, structured |-> s,
                                 wrapped |-> w, body |-> b] \in Answers
  BY <1>2 DEF Answers
<1>4. /\ \A x \in Docs : x # None /\ x # NotJson
      /\ \A x \in Texts : x # None
      /\ \A x \in Answers : x # NotJson
  BY CallPathAssumption
<1>5. ASSUME NEW m \in Metas \cup {None}, NEW s \in Docs \cup {None}, NEW w \in BOOLEAN
      PROVE  /\ [meta |-> m, content |-> <<TextItem(doc)>>, structured |-> s,
                 wrapped |-> w, body |-> None] # NotJson
             /\ [meta |-> m, content |-> <<ImageItem, TextItem(doc)>>, structured |-> s,
                 wrapped |-> w, body |-> None] # NotJson
             /\ \A b \in Payloads : [meta |-> m, content |-> None, structured |-> s,
                                     wrapped |-> w, body |-> b] # NotJson
  BY <1>3, <1>4
<1>. QED
  BY <1>2, <1>4, <1>5

LEMMA TextForms ==
    ASSUME NEW doc \in Docs
    PROVE  /\ doc # None /\ doc # NotJson
           /\ <<TextItem(doc)>> \in Texts /\ <<TextItem(doc)>> # None
           /\ <<ImageItem, TextItem(doc)>> \in Texts /\ <<ImageItem, TextItem(doc)>> # None
<1>1. TextItem(doc) \in Items /\ ImageItem \in Items
  BY DEF TextItem, ImageItem, Items
<1>. QED
  BY <1>1, FormsTyped DEF Texts

LEMMA AnswerIsJson ==
    ASSUME NEW m \in Metas \cup {None}, NEW c \in Texts \cup {None}, NEW s \in Docs \cup {None},
           NEW w \in BOOLEAN, NEW b \in Payloads \cup {None}
    PROVE  [meta |-> m, content |-> c, structured |-> s, wrapped |-> w, body |-> b] # NotJson
BY CallPathAssumption DEF Answers

\* The document is found in the first item of type text.
LEMMA NestedIs ==
    ASSUME NEW a, NEW doc \in Docs
    PROVE  /\ a.content = None => NestedDoc(a) = None
           /\ a.content = <<TextItem(doc)>> => NestedDoc(a) = doc
           /\ a.content = <<ImageItem, TextItem(doc)>> => NestedDoc(a) = doc
<1>. DEFINE TextAt == {i \in 1 .. Len(a.content) : a.content[i].type = "text"}
<1>1. NestedDoc(a) = LET i == IF a.content = None THEN 0 ELSE IF TextAt # {} THEN Min(TextAt) ELSE 0
                     IN  IF i = 0 \/ a.content[i].text \in {None, NotJson} THEN None
                         ELSE a.content[i].text
  BY DEF NestedDoc, SelectInSeq
<1>2. a.content = None => NestedDoc(a) = None
  BY <1>1
<1>3. ASSUME a.content = <<TextItem(doc)>>
      PROVE  NestedDoc(a) = doc
  <2>1. TextAt = {1} /\ a.content[1].text = doc
    BY <1>3 DEF TextItem
  <2>2. Min(TextAt) = 1
    BY <2>1, MinSingle
  <2>. QED
    BY <1>1, <1>3, <2>1, <2>2, FormsTyped
<1>4. ASSUME a.content = <<ImageItem, TextItem(doc)>>
      PROVE  NestedDoc(a) = doc
  <2>1. TextAt = {2} /\ a.content[2].text = doc
    BY <1>4 DEF TextItem, ImageItem
  <2>2. Min(TextAt) = 2
    BY <2>1, MinSingle
  <2>. QED
    BY <1>1, <1>4, <2>1, <2>2, FormsTyped
<1>. QED
  BY <1>2, <1>3, <1>4

\* Of the _meta at the top and the nested one, the first that has the member counts.
LEMMA ExtractsFirst ==
    ASSUME NEW a, NEW m1, NEW m2, CandidateMetas(a) = <<m1, m2>>
    PROVE  /\ ExtractDependentFiles(a) =
                IF m1 # None /\ m1.dependent_files # None THEN m1.dependent_files
                ELSE IF m2 # None /\ m2.dependent_files # None THEN m2.dependent_files ELSE {}
           /\ ExtractFileMtimes(a) =
                IF m1 # None /\ m1.file_mtimes # None THEN m1.file_mtimes
                ELSE IF m2 # None /\ m2.file_mtimes # None THEN m2.file_mtimes ELSE NoMtimes
<1>. DEFINE metas == <<m1, m2>>
            Files == {i \in 1 .. 2 : metas[i] # None /\ metas[i].dependent_files # None}
            Times == {i \in 1 .. 2 : metas[i] # None /\ metas[i].file_mtimes # None}
<1>1. /\ ExtractDependentFiles(a) =
            LET i == IF Files # {} THEN Min(Files) ELSE 0
            IN  IF i = 0 THEN {} ELSE metas[i].dependent_files
      /\ ExtractFileMtimes(a) =
            LET i == IF Times # {} THEN Min(Times) ELSE 0
            IN  IF i = 0 THEN NoMtimes ELSE metas[i].file_mtimes
  BY DEF ExtractDependentFiles, ExtractFileMtimes, SelectInSeq
<1>2. ASSUME NEW S \in SUBSET (1 .. 2)
      PROVE  (IF S # {} THEN Min(S) ELSE 0) = IF 1 \in S THEN 1 ELSE IF 2 \in S THEN 2 ELSE 0
  <2>1. CASE 1 \in S
    BY <2>1, MinIs
  <2>2. CASE S = {2}
    BY <2>2, MinSingle
  <2>3. CASE S = {}
    BY <2>3
  <2>. QED
    <3>1. \A x \in S : x = 1 \/ x = 2
      OBVIOUS
    <3>2. 1 \in S \/ S = {2} \/ S = {}
      BY <3>1
    <3>. QED
      BY <2>1, <2>2, <2>3, <3>2
<1>3. /\ Files \in SUBSET (1 .. 2) /\ Times \in SUBSET (1 .. 2)
      /\ 1 \in Files <=> m1 # None /\ m1.dependent_files # None
      /\ 2 \in Files <=> m2 # None /\ m2.dependent_files # None
      /\ 1 \in Times <=> m1 # None /\ m1.file_mtimes # None
      /\ 2 \in Times <=> m2 # None /\ m2.file_mtimes # None
      /\ metas[1] = m1 /\ metas[2] = m2
  OBVIOUS
<1>. HIDE DEF metas, Files, Times
<1>4. ExtractDependentFiles(a) =
          IF 1 \in Files THEN metas[1].dependent_files
          ELSE IF 2 \in Files THEN metas[2].dependent_files ELSE {}
  BY <1>1, <1>2, <1>3
<1>5. ExtractFileMtimes(a) =
          IF 1 \in Times THEN metas[1].file_mtimes
          ELSE IF 2 \in Times THEN metas[2].file_mtimes ELSE NoMtimes
  BY <1>1, <1>2, <1>3
<1>. QED
  BY <1>3, <1>4, <1>5

\* What extract_dependent_files and extract_file_mtimes find, in whichever form the
\* backend answers: all it has told.
LEMMA Extracted ==
    ASSUME index \in [Repo -> [Path -> Version]], NEW q \in Requests
    PROVE  /\ ExtractDependentFiles(Answer(q.args)) =
                IF shape = "silent" THEN {} ELSE FilesIn(q.args)
           /\ ExtractFileMtimes(Answer(q.args)) =
                IF shape \in {"silent", "noTimes"} THEN NoMtimes
                ELSE Contents(q.args).versions
<1>. DEFINE body == Contents(q.args)
            a    == Answer(q.args)
<1>1. body \in Payloads /\ DOMAIN body.versions = FilesIn(q.args)
  BY ContentsTyped
<1>2. /\ Told(body) \in Metas \cup {None}
      /\ Nested(body) \in Docs /\ Nested(body).meta = Told(body)
      /\ body.versions # None /\ DOMAIN body.versions # None
  BY <1>1, ToldTyped DEF Nested
<1>3. \E m1, m2 :
          /\ CandidateMetas(a) = <<m1, m2>>
          /\ \/ m1 = Told(body) /\ m2 = None
             \/ /\ m2 = Told(body)
                /\ m1 # None => m1.dependent_files = None /\ m1.file_mtimes = None
  <2>1. CASE shape = "plain"
    <3>1. a = [meta |-> Told(body), content |-> None, structured |-> None,
               wrapped |-> TRUE, body |-> body]
      BY <2>1, AnswerForm
    <3>2. a # NotJson
      BY <1>1, <1>2, <3>1, FormsTyped
    <3>3. a.content = None /\ a.meta = Told(body)
      BY <3>1
    <3>4. NestedDoc(a) = None
      BY <1>2, <3>3, NestedIs
    <3>. QED
      BY <3>2, <3>3, <3>4 DEF CandidateMetas
  <2>2. CASE shape = "image"
    <3>1. a = [meta |-> None, content |-> <<ImageItem, TextItem(Nested(body))>>,
               structured |-> None, wrapped |-> FALSE, body |-> None]
      BY <2>2, AnswerForm
    <3>2. a # NotJson
      BY <1>2, <3>1, FormsTyped
    <3>3. NestedDoc(a) = Nested(body) /\ a.meta = None
      BY <1>2, <3>1, NestedIs
    <3>. QED
      BY <1>2, <3>2, <3>3, FormsTyped DEF CandidateMetas
  <2>3. CASE shape \notin {"plain", "image"}
    <3>1. PICK m \in Metas \cup {None}, s \in {None, Nested(body)} :
              /\ m # None => m.dependent_files = None /\ m.file_mtimes = None
              /\ a = [meta |-> m, content |-> <<TextItem(Nested(body))>>,
                      structured |-> s, wrapped |-> FALSE, body |-> None]
      BY <2>3, AnswerForm
    <3>2. a # NotJson
      BY <1>2, <3>1, FormsTyped
    <3>3. NestedDoc(a) = Nested(body) /\ a.meta = m
      BY <1>2, <3>1, NestedIs
    <3>. QED
      BY <1>2, <3>1, <3>2, <3>3, FormsTyped DEF CandidateMetas
  <2>. QED
    BY <2>1, <2>2, <2>3
<1>4. PICK m1, m2 :
          /\ CandidateMetas(a) = <<m1, m2>>
          /\ \/ m1 = Told(body) /\ m2 = None
             \/ /\ m2 = Told(body)
                /\ m1 # None => m1.dependent_files = None /\ m1.file_mtimes = None
  BY <1>3
<1>. HIDE DEF body, a
<1>5. /\ ExtractDependentFiles(a) =
            IF Told(body) # None /\ Told(body).dependent_files # None
            THEN Told(body).dependent_files ELSE {}
      /\ ExtractFileMtimes(a) =
            IF Told(body) # None /\ Told(body).file_mtimes # None
            THEN Told(body).file_mtimes ELSE NoMtimes
  BY <1>4, ExtractsFirst
<1>6. Told(body) # None <=> shape # "silent"
  BY <1>1, <1>2, ToldKnown
<1>. QED
  BY <1>1, <1>2, <1>5, <1>6 DEF Told, a, body

\* The document as strip_meta leaves it.
Bare(body) == [meta |-> None, wrapped |-> TRUE, body |-> body]

\* The forms of an answer without the metadata; a _meta of the protocol stays.
Stripped(v, body) ==
    \/ v = [meta |-> None, content |-> None, structured |-> None, wrapped |-> TRUE, body |-> body]
    \/ v = [meta |-> None, content |-> <<ImageItem, TextItem(Bare(body))>>,
            structured |-> None, wrapped |-> FALSE, body |-> None]
    \/ \E m \in Metas \cup {None}, s \in {None, Bare(body)} :
          /\ m # None => m.dependent_files = None /\ m.file_mtimes = None
          /\ v = [meta |-> m, content |-> <<TextItem(Bare(body))>>, structured |-> s,
                  wrapped |-> FALSE, body |-> None]

LEMMA UnmarkedIs ==
    ASSUME NEW m, NEW w, NEW b
    PROVE  Unmarked([meta |-> m, wrapped |-> w, body |-> b]) = [meta |-> None, wrapped |-> w, body |-> b]
BY DEF Unmarked

LEMMA BareTyped ==
    ASSUME NEW body \in Payloads
    PROVE  Bare(body) \in Docs /\ Unmarked(Nested(body)) = Bare(body)
<1>1. Bare(body) \in Docs
  BY DEF Bare, Docs
<1>2. Unmarked(Nested(body)) = Bare(body)
  BY UnmarkedIs, Zenon DEF Bare, Nested
<1>. QED
  BY <1>1, <1>2

LEMMA NothingToUnmark ==
    ASSUME NEW c, NEW s, NEW w, NEW b,
           NEW v, v = [meta |-> None, content |-> c, structured |-> s, wrapped |-> w, body |-> b]
    PROVE  Unmarked(v) = v
BY DEF Unmarked

LEMMA StripPlain ==
    ASSUME NEW m, NEW w, NEW b,
           [meta |-> m, content |-> None, structured |-> None, wrapped |-> w, body |-> b] # NotJson
    PROVE  StripMeta([meta |-> m, content |-> None, structured |-> None, wrapped |-> w, body |-> b]) =
              [meta |-> None, content |-> None, structured |-> None, wrapped |-> w, body |-> b]
BY DEF StripMeta

\* The items of a content, each stripped.
StripItems(c) == [i \in DOMAIN c |-> StripItem(c[i])]

LEMMA StripMcp ==
    ASSUME NEW m, NEW c, NEW s, NEW w, NEW b, c # None,
           NEW v, v = [meta |-> m, content |-> c, structured |-> s, wrapped |-> w, body |-> b],
           v # NotJson
    PROVE  StripMeta(v) =
              [meta |-> m, content |-> StripItems(c),
               structured |-> IF s = None THEN None ELSE Unmarked(s), wrapped |-> w, body |-> b]
<1>. DEFINE c2 == StripItems(c)
            s2 == IF s = None THEN None ELSE Unmarked(s)
<1>1. StripMeta(v) = [v EXCEPT !.meta = m, !.content = c2, !.structured = s2]
  BY DEF StripMeta, StripItems
<1>. HIDE DEF c2, s2
<1>2. StripMeta(v) = [meta |-> m, content |-> c2, structured |-> s2, wrapped |-> w, body |-> b]
  BY <1>1
<1>. QED
  BY <1>2 DEF c2, s2

\* The answers of a backend that speaks MCP.
Mcp(m, c, s) == [meta |-> m, content |-> c, structured |-> s, wrapped |-> FALSE, body |-> None]

LEMMA McpStripped ==
    ASSUME NEW m, NEW c, NEW s, c # None, Mcp(m, c, s) # NotJson
    PROVE  StripMeta(Mcp(m, c, s)) =
              Mcp(m, StripItems(c), IF s = None THEN None ELSE Unmarked(s))
<1>1. PICK w : w = FALSE
  OBVIOUS
<1>2. PICK v : v = [meta |-> m, content |-> c, structured |-> s, wrapped |-> w, body |-> None]
  OBVIOUS
<1>3. v = Mcp(m, c, s)
  BY <1>1, <1>2 DEF Mcp
<1>4. StripMeta(v) =
         [meta |-> m, content |-> StripItems(c),
          structured |-> IF s = None THEN None ELSE Unmarked(s), wrapped |-> w, body |-> None]
  BY <1>2, <1>3, StripMcp
<1>. QED
  BY <1>1, <1>3, <1>4 DEF Mcp

LEMMA ItemStripped ==
    ASSUME NEW body \in Payloads
    PROVE  /\ StripItem(TextItem(Nested(body))) = TextItem(Bare(body))
           /\ StripItem(ImageItem) = ImageItem
<1>1. Nested(body) # None /\ Nested(body) # NotJson
  BY ToldTyped
<1>2. StripItem(TextItem(Nested(body))) =
          [TextItem(Nested(body)) EXCEPT !.text = Unmarked(@)]
  BY <1>1 DEF StripItem, TextItem
<1>. QED
  BY <1>2, BareTyped DEF StripItem, TextItem, ImageItem

LEMMA AnswerStripped ==
    ASSUME index \in [Repo -> [Path -> Version]], NEW q \in Requests
    PROVE  Stripped(StripMeta(Answer(q.args)), Contents(q.args))
<1>. DEFINE body == Contents(q.args)
            a    == Answer(q.args)
<1>1. body \in Payloads
  BY ContentsTyped
<1>2. Nested(body) \in Docs /\ Told(body) \in Metas \cup {None}
  BY <1>1, ToldTyped
<1>3. CASE shape = "plain"
  <2>1. a = [meta |-> Told(body), content |-> None, structured |-> None,
             wrapped |-> TRUE, body |-> body]
    BY <1>3, AnswerForm
  <2>2. a # NotJson
    BY <1>1, <1>2, <2>1, FormsTyped
  <2>3. StripMeta(a) = [meta |-> None, content |-> None, structured |-> None,
                        wrapped |-> TRUE, body |-> body]
    <3>1. ASSUME NEW m, [meta |-> m, content |-> None, structured |-> None,
                         wrapped |-> TRUE, body |-> body] # NotJson
          PROVE  StripMeta([meta |-> m, content |-> None, structured |-> None,
                            wrapped |-> TRUE, body |-> body])
                    = [meta |-> None, content |-> None, structured |-> None,
                       wrapped |-> TRUE, body |-> body]
      BY <3>1, StripPlain, Zenon
    <3>. QED
      BY <2>1, <2>2, <3>1
  <2>. QED
    BY <2>3 DEF Stripped
<1>4. CASE shape = "image"
  <2>1. a = [meta |-> None, content |-> <<ImageItem, TextItem(Nested(body))>>,
             structured |-> None, wrapped |-> FALSE, body |-> None]
    BY <1>4, AnswerForm
  <2>. DEFINE c == <<ImageItem, TextItem(Nested(body))>>
  <2>2. a # NotJson
    BY <1>2, <2>1, FormsTyped
  <2>3. c # None
    BY <1>2, FormsTyped
  <2>4. StripItems(c) = <<ImageItem, TextItem(Bare(body))>>
    BY <1>1, ItemStripped DEF StripItems
  <2>. HIDE DEF c
  <2>5. StripMeta(a) = [meta |-> None, content |-> StripItems(c), structured |-> None,
                        wrapped |-> FALSE, body |-> None]
    <3>1. a = Mcp(None, c, None)
      BY <2>1 DEF c, Mcp
    <3>. HIDE DEF a
    <3>2. StripMeta(Mcp(None, c, None)) =
             Mcp(None, StripItems(c), IF None = None THEN None ELSE Unmarked(None))
      BY <2>2, <2>3, <3>1, McpStripped
    <3>3. StripMeta(a) = Mcp(None, StripItems(c), None)
      BY <3>1, <3>2
    <3>. QED
      BY <3>3 DEF Mcp
  <2>. QED
    BY <2>4, <2>5 DEF Stripped
<1>5. CASE shape \notin {"plain", "image"}
  <2>1. PICK m \in Metas \cup {None}, s \in {None, Nested(body)} :
            /\ m # None => m.dependent_files = None /\ m.file_mtimes = None
            /\ a = [meta |-> m, content |-> <<TextItem(Nested(body))>>,
                    structured |-> s, wrapped |-> FALSE, body |-> None]
    BY <1>5, AnswerForm
  <2>. DEFINE c == <<TextItem(Nested(body))>>
  <2>2. a # NotJson
    BY <1>2, <2>1, FormsTyped
  <2>3. c # None /\ Nested(body) # None
    BY <1>2, FormsTyped
  <2>4. StripItems(c) = <<TextItem(Bare(body))>>
    BY <1>1, ItemStripped DEF StripItems
  <2>. DEFINE t == IF s = None THEN None ELSE Unmarked(s)
  <2>5. t \in {None, Bare(body)}
    BY <1>1, BareTyped
  <2>. HIDE DEF c
  <2>6. StripMeta(a) = [meta |-> m, content |-> StripItems(c), structured |-> t,
                        wrapped |-> FALSE, body |-> None]
    <3>1. a = Mcp(m, c, s)
      BY <2>1 DEF c, Mcp
    <3>. HIDE DEF a, body
    <3>2. StripMeta(Mcp(m, c, s)) = Mcp(m, StripItems(c), t)
      BY <2>2, <2>3, <3>1, McpStripped
    <3>3. StripMeta(a) = Mcp(m, StripItems(c), t)
      BY <3>1, <3>2
    <3>. QED
      BY <3>3 DEF Mcp
  <2>. HIDE DEF t
  <2>. QED
    BY <2>1, <2>4, <2>5, <2>6 DEF Stripped
<1>. QED
  BY <1>3, <1>4, <1>5

\* strip_meta takes nothing but the metadata.
LEMMA StrippedBody ==
    ASSUME NEW body \in Payloads, NEW v, Stripped(v, body)
    PROVE  BodyOf(v) = body
<1>1. Bare(body) \in Docs /\ Bare(body) # None /\ Bare(body).body = body
  BY BareTyped, FormsTyped DEF Bare
<1>2. CASE v = [meta |-> None, content |-> None, structured |-> None, wrapped |-> TRUE, body |-> body]
  <2>1. NestedDoc(v) = None /\ v.body = body
    BY <1>1, <1>2, NestedIs
  <2>. QED
    BY <2>1 DEF BodyOf
<1>3. CASE v # [meta |-> None, content |-> None, structured |-> None, wrapped |-> TRUE, body |-> body]
  <2>1. v.content = <<TextItem(Bare(body))>> \/ v.content = <<ImageItem, TextItem(Bare(body))>>
    BY <1>3 DEF Stripped
  <2>2. NestedDoc(v) = Bare(body)
    BY <1>1, <2>1, NestedIs
  <2>. QED
    BY <1>1, <2>2 DEF BodyOf
<1>. QED
  BY <1>2, <1>3

\* No dependent_files and no file_mtimes anywhere in a value.
Clean(v) ==
    \A m \in MetasIn(v) \ {None} : m.dependent_files = None /\ m.file_mtimes = None

\* Neither a stripped answer nor what inner_value takes from it has any.
LEMMA StrippedClean ==
    ASSUME NEW body \in Payloads, NEW v, Stripped(v, body)
    PROVE  Clean(v) /\ \A u \in BOOLEAN : Clean(InnerValue(v, u))
<1>1. /\ Bare(body) \in Docs /\ Bare(body) # None /\ Bare(body) # NotJson
      /\ Bare(body).meta = None /\ Bare(body).body = body /\ Bare(body).wrapped = TRUE
      /\ Unmarked(Bare(body)) = Bare(body) /\ DOMAIN Bare(body) = {"meta", "wrapped", "body"}
  BY BareTyped, FormsTyped DEF Bare, Unmarked
<1>2. Clean(Bare(body))
  BY <1>1 DEF Clean, MetasIn
<1>3. Clean(body)
  <2>1. DOMAIN body = {"repo", "versions"}
    BY DEF Payloads
  <2>. QED
    BY <2>1 DEF Clean, MetasIn
<1>4. CASE v = [meta |-> None, content |-> None, structured |-> None, wrapped |-> TRUE, body |-> body]
  <2>1. Clean(v)
    BY <1>4 DEF Clean, MetasIn
  <2>2. v # NotJson
    BY <1>4, AnswerIsJson
  <2>3. InnerValue(v, TRUE) = body
    BY <1>4, <2>2 DEF InnerValue
  <2>4. InnerValue(v, FALSE) = Unmarked(v)
    BY <1>4, <2>2 DEF InnerValue
  <2>5. Unmarked(v) = v
    BY <1>4, NothingToUnmark
  <2>. QED
    BY <1>3, <2>1, <2>3, <2>4, <2>5
<1>5. CASE v = [meta |-> None, content |-> <<ImageItem, TextItem(Bare(body))>>,
                structured |-> None, wrapped |-> FALSE, body |-> None]
  <2>1. v # NotJson /\ v.content # None /\ v.content[1].text = None /\ v.wrapped = FALSE
    <3>1. v # NotJson
      BY <1>1, <1>5, TextForms, AnswerIsJson
    <3>2. <<ImageItem, TextItem(Bare(body))>> # None
      BY <1>1, FormsTyped
    <3>. QED
      BY <1>5, <3>1, <3>2 DEF ImageItem
  <2>2. {item.text.meta : item \in {i \in Range(v.content) : i.text # None}} = {None}
    BY <1>1, <1>5 DEF Range, ImageItem, TextItem
  <2>3. Clean(v)
    BY <1>5, <2>2 DEF Clean, MetasIn
  <2>4. \A u \in BOOLEAN : InnerValue(v, u) = Unmarked(v)
    BY <2>1 DEF InnerValue
  <2>5. Unmarked(v) = v
    BY <1>5, NothingToUnmark
  <2>. QED
    BY <2>3, <2>4, <2>5
<1>6. ASSUME NEW m \in Metas \cup {None}, NEW s \in {None, Bare(body)},
             m # None => m.dependent_files = None /\ m.file_mtimes = None,
             v = [meta |-> m, content |-> <<TextItem(Bare(body))>>, structured |-> s,
                  wrapped |-> FALSE, body |-> None]
      PROVE  Clean(v) /\ \A u \in BOOLEAN : Clean(InnerValue(v, u))
  <2>1. v # NotJson /\ v.content # None
    BY <1>1, <1>6, FormsTyped
  <2>2. {item.text.meta : item \in {i \in Range(v.content) : i.text # None}} = {None}
    BY <1>1, <1>6 DEF Range, TextItem
  <2>3. MetasIn(v) \subseteq {m, None}
    BY <1>1, <1>6, <2>2 DEF MetasIn
  <2>4. Clean(v)
    BY <1>6, <2>3 DEF Clean
  <2>5. \A u \in BOOLEAN : InnerValue(v, u) = IF u THEN body ELSE Bare(body)
    BY <1>1, <1>6, <2>1 DEF InnerValue, TextItem
  <2>. QED
    BY <1>2, <1>3, <2>4, <2>5
<1>. QED
  BY <1>4, <1>5, <1>6 DEF Stripped

-----------------------------------------------------------------------------
(* The call in progress.                                                     *)

\* Every sub-call is either to be made or has its result.
CallInv ==
    /\ call \in Calls \cup {None}
    /\ call = None => todo = <<>> /\ results = <<>>
    /\ call # None => /\ todo \in Seq(Range(SubCalls(call)))
                      /\ Len(results) + Len(todo) = Len(SubCalls(call))
    /\ results \in Seq(Range(results))

\* The steps that end a sub-call.
Ends == NotAName \/ Refuse \/ Bypass \/ (\E e \in cache : Hit(e)) \/ Fetch \/ BackendFails

LEMMA EndsGot ==
    ASSUME Ends
    PROVE  todo # <<>> /\ \E x : Got(x)
BY Zenon DEF Ends, NotAName, Refuse, Bypass, Hit, Fetch, BackendFails, Handling, Cacheable

\* The sub-call that handle() works on is one that a client has asked for.
LEMMA HandlingAsked ==
    ASSUME CallInv, Handling
    PROVE  /\ call \in Calls
           /\ [tool |-> call.tool, args |-> args] \in Requests
<1>1. call \in Calls /\ todo \in Seq(Range(SubCalls(call))) /\ todo # <<>>
  BY DEF CallInv, Handling
<1>2. Head(todo) \in Range(SubCalls(call)) \ {NotString}
  BY <1>1 DEF Handling
<1>3. [tool |-> call.tool, args |-> args] \in
         {[tool |-> call.tool, args |-> a] : a \in Range(SubCalls(call)) \ {NotString}}
  BY <1>2 DEF args
<1>. QED
  BY <1>1, <1>3 DEF Requests

LEMMA OneMore ==
    ASSUME results \in Seq(Range(results)), NEW x
    PROVE  /\ Append(results, x) \in Seq(Range(Append(results, x)))
           /\ Len(Append(results, x)) = Len(results) + 1
           /\ \A i \in DOMAIN Append(results, x) :
                 /\ i \in DOMAIN results => Append(results, x)[i] = results[i]
                 /\ i \notin DOMAIN results => Append(results, x)[i] = x
<1>. DEFINE s == Append(results, x)
            T == Range(results) \cup {x}
<1>1. s \in Seq(T) /\ Len(s) = Len(results) + 1
  BY DEF T
<1>2. \A i \in 1 .. Len(s) : s[i] \in Range(s)
  BY <1>1 DEF Range
<1>3. s = [i \in 1 .. Len(s) |-> s[i]]
  <2>. HIDE DEF s, T
  <2>. QED
    BY <1>1
<1>4. s \in Seq(Range(s))
  <2>. HIDE DEF s, T
  <2>1. Len(s) \in Nat
    BY <1>1
  <2>2. s \in [1 .. Len(s) -> Range(s)]
    BY <1>2, <1>3
  <2>. QED
    BY <2>1, <2>2
<1>5. \A i \in 1 .. Len(results) + 1 :
         s[i] = IF i \in 1 .. Len(results) THEN results[i] ELSE x
  OBVIOUS
<1>6. DOMAIN results = 1 .. Len(results) /\ DOMAIN s = 1 .. Len(results) + 1
  BY <1>1
<1>. QED
  BY <1>1, <1>4, <1>5, <1>6

LEMMA CallInvStep ==
    ASSUME CallInv, [Next]_vars
    PROVE  CallInv'
<1>1. ASSUME NEW c \in Calls, Receive(c)
      PROVE  CallInv'
  <2>1. SubCalls(c) \in Seq(Range(SubCalls(c))) /\ c # None
    BY RequestAssumption, CallPathAssumption
  <2>2. call = None /\ call' = c /\ todo' = SubCalls(c) /\ results' = <<>> /\ results = <<>>
    BY <1>1 DEF Receive, CallInv
  <2>3. SubCalls(call)' = SubCalls(c)
    BY <2>2 DEF SubCalls, DetectBatch, SubArgs
  <2>4. <<>> \in Seq(Range(<<>>)) /\ Len(<<>>) + Len(SubCalls(c)) = Len(SubCalls(c))
    BY <2>1
  <2>. QED
    BY <2>1, <2>2, <2>4 DEF CallInv
<1>2. CASE Ends
  <2>1. PICK x : Got(x)
    BY <1>2, EndsGot
  <2>2. todo # <<>>
    BY <1>2, EndsGot
  <2>3. call \in Calls /\ call # None /\ todo \in Seq(Range(SubCalls(call)))
    BY <2>2 DEF CallInv
  <2>4. /\ call' = call /\ todo' = Tail(todo) /\ results' = Append(results, x)
    BY <2>1 DEF Got
  <2>5. results' \in Seq(Range(results')) /\ Len(results') = Len(results) + 1
    BY <2>4, OneMore DEF CallInv
  <2>6. todo' \in Seq(Range(SubCalls(call))) /\ Len(todo') = Len(todo) - 1 /\ Len(todo) \in Nat
    BY <2>2, <2>3, <2>4
  <2>7. Len(results) \in Nat
    BY DEF CallInv
  <2>8. Len(results) + Len(todo) = Len(SubCalls(call))
    BY <2>3 DEF CallInv
  <2>9. Len(results') + Len(todo') = Len(SubCalls(call))
    BY <2>5, <2>6, <2>7, <2>8
  <2>. QED
    BY <2>3, <2>4, <2>5, <2>6, <2>9 DEF CallInv
<1>3. CASE Reply
  <2>1. call' = None /\ todo' = <<>> /\ results' = <<>>
    BY <1>3 DEF Reply
  <2>2. <<>> \in Seq(Range(<<>>))
    OBVIOUS
  <2>. QED
    BY <2>1, <2>2 DEF CallInv
<1>4. ASSUME UNCHANGED callVars
      PROVE  CallInv'
  BY <1>4 DEF CallInv, callVars
<1>5. CASE \/ \E r \in Repo, p \in Path : Commit(r, p)
           \/ \E b \in MarkBodies : MarkDirty(b)
           \/ \E b \in DropBodies : Invalidate(b)
           \/ \E b \in FreezeBodies : Freeze(b) \/ Thaw(b)
           \/ ThawAll
           \/ UNCHANGED vars
  <2>1. UNCHANGED callVars
    BY <1>5 DEF Commit, MarkDirty, Invalidate, Freeze, Thaw, ThawAll, vars
  <2>. QED
    BY <2>1, <1>4
<1>. QED
  BY <1>1, <1>2, <1>3, <1>5 DEF Next, CallStep, Ends

THEOREM CallProgress == Spec => []CallInv
<1>1. Init => CallInv
  <2>1. <<>> \in Seq(Range(<<>>))
    OBVIOUS
  <2>. QED
    BY <2>1 DEF Init, CallInv
<1>. QED
  BY <1>1, CallInvStep, PTL DEF Spec

-----------------------------------------------------------------------------
(* The values of the variables.                                              *)

DataInv ==
    /\ shape \in Shapes
    /\ index \in [Repo -> [Path -> Version]]
    /\ dirty \in [Scopes \X Path -> Version \cup {None}]
    /\ frozen \subseteq Scopes
    /\ announced \in [Repo -> [Path -> Version]]
    /\ closed \subseteq Scopes

LEMMA MarkScopeKnown ==
    ASSUME NEW b \in MarkBodies
    PROVE  MarkScope(b) \in Scopes /\ b.files \in Versions
BY RequestAssumption DEF MarkScope, Scopes

LEMMA FilesTyped ==
    ASSUME NEW b \in MarkBodies, NEW p \in DOMAIN b.files
    PROVE  p \in Path /\ b.files[p] \in Version
BY MarkScopeKnown DEF Versions

\* What a miss does to the flags: it can only take some away.
LEMMA FetchFlags ==
    ASSUME DataInv, Fetch
    PROVE  dirty' \in [Scopes \X Path -> Version \cup {None}]
<1>. PICK gone \in SUBSET DOMAIN dirty :
        dirty' = [f \in DOMAIN dirty |-> IF f \in gone THEN None ELSE dirty[f]]
  <2>. DEFINE answer  == Answer(args)
              deps    == ExtractDependentFiles(answer)
              mtimes  == ExtractFileMtimes(answer)
              flagged == {p \in deps : dirty[scope, p] # None}
              behind  == {p \in flagged : p \notin DOMAIN mtimes \/ mtimes[p] < dirty[scope, p]}
              gone    == {f \in DOMAIN dirty : behind = {} /\ f[1] = scope /\ f[2] \in flagged}
  <2>1. dirty' = [f \in DOMAIN dirty |->
                    IF behind = {} /\ f[1] = scope /\ f[2] \in flagged THEN None ELSE dirty[f]]
    BY Zenon DEF Fetch
  <2>. HIDE DEF behind, flagged
  <2>2. dirty' = [f \in DOMAIN dirty |-> IF f \in gone THEN None ELSE dirty[f]]
    BY <2>1
  <2>. QED
    BY <2>2
<1>. QED
  BY DEF DataInv

LEMMA DataInvStep ==
    ASSUME DataInv, [Next]_vars
    PROVE  DataInv'
<1>1. CASE Ends
  <2>1. UNCHANGED <<shape, index, frozen, announced, closed>>
    BY <1>1 DEF Ends, NotAName, Refuse, Bypass, Hit, Fetch, BackendFails, Got, historyVars
  <2>2. UNCHANGED dirty \/ Fetch
    BY <1>1 DEF Ends, NotAName, Refuse, Bypass, Hit, BackendFails
  <2>3. dirty' \in [Scopes \X Path -> Version \cup {None}]
    BY <2>2, FetchFlags DEF DataInv
  <2>. QED
    BY <2>1, <2>3 DEF DataInv
<1>2. CASE \/ \E c \in Calls : Receive(c)
           \/ Reply
           \/ \E b \in DropBodies : Invalidate(b)
           \/ UNCHANGED vars
  BY <1>2 DEF DataInv, Receive, Reply, Invalidate, historyVars, vars
<1>3. ASSUME NEW r \in Repo, NEW p \in Path, Commit(r, p)
      PROVE  DataInv'
  <2>1. index[r][p] + 1 \in Version
    BY <1>3, CallPathAssumption DEF DataInv, Commit, Version
  <2>2. index' \in [Repo -> [Path -> Version]]
    BY <1>3, <2>1 DEF DataInv, Commit
  <2>. QED
    BY <1>3, <2>2 DEF DataInv, Commit, historyVars
<1>4. ASSUME NEW b \in MarkBodies, MarkDirty(b)
      PROVE  DataInv'
  <2>1. dirty' \in [Scopes \X Path -> Version \cup {None}]
    <3>1. \A f \in Scopes \X Path : f[2] \in DOMAIN b.files => b.files[f[2]] \in Version
      BY FilesTyped
    <3>. QED
      BY <1>4, <3>1 DEF DataInv, MarkDirty
  <2>2. announced' \in [Repo -> [Path -> Version]]
    <3>1. \A p \in Path : p \in DOMAIN b.files => b.files[p] \in Version
      BY FilesTyped
    <3>. QED
      BY <1>4, <3>1 DEF DataInv, MarkDirty
  <2>. QED
    BY <1>4, <2>1, <2>2 DEF DataInv, MarkDirty
<1>5. ASSUME NEW b \in FreezeBodies, Freeze(b) \/ Thaw(b)
      PROVE  DataInv'
  <2>1. PickScope(b) \in Scopes
    BY PickScopeNamed
  <2>2. Named({b.scope, b.repo, b.base}) \subseteq Scopes /\ NoScope \in Scopes
    BY DEF Named, Scopes
  <2>. QED
    BY <1>5, <2>1, <2>2 DEF DataInv, Freeze, Thaw
<1>6. CASE ThawAll
  BY <1>6 DEF DataInv, ThawAll
<1>. QED
  BY <1>1, <1>2, <1>3, <1>4, <1>5, <1>6 DEF Next, CallStep, Ends

LEMMA DataInvInit ==
    ASSUME Init
    PROVE  DataInv
BY CallPathAssumption DEF Init, DataInv, Version

-----------------------------------------------------------------------------
(* The entries of the cache.                                                 *)

\* The request an entry answers.
AskedFor(e) == [tool |-> e.key.tool, args |-> e.key.args]

\* The entry is under the key of a request that uses the cache; its payload is the
\* body of an answer to it without metadata, and its files are those of the body
\* if the backend names any.
EntryOK(e) ==
    /\ AskedFor(e) \in Requests
    /\ ~ Bypasses(e.key.tool, e.key.args)
    /\ e.key = KeyFor(e.key.tool, e.key.args)
    /\ e.dependent_files = IF shape = "silent" THEN {} ELSE FilesIn(e.key.args)
    /\ BodyOf(e.payload) \in Payloads
    /\ Stripped(e.payload, BodyOf(e.payload))
    /\ BodyOf(e.payload).repo = RepoIn(e.key.args)
    /\ DOMAIN BodyOf(e.payload).versions = FilesIn(e.key.args)

EntryInv == \A e \in cache : EntryOK(e)

\* What a miss would keep.
NewEntry ==
    [key |-> key, payload |-> StripMeta(Answer(args)),
     dependent_files |-> ExtractDependentFiles(Answer(args))]

LEMMA NewEntryOK ==
    ASSUME CallInv, DataInv, Cacheable
    PROVE  /\ EntryOK(NewEntry)
           /\ BodyOf(NewEntry.payload) = Contents(args)
<1>. DEFINE q == [tool |-> call.tool, args |-> args]
<1>1. q \in Requests
  BY HandlingAsked DEF Cacheable
<1>2. index \in [Repo -> [Path -> Version]] /\ q.args = args
  BY DEF DataInv
<1>3. /\ NewEntry.key = KeyFor(call.tool, args)
      /\ NewEntry.payload = StripMeta(Answer(args))
      /\ NewEntry.dependent_files = ExtractDependentFiles(Answer(args))
  BY DEF NewEntry, key
<1>4. /\ Contents(args) \in Payloads
      /\ Contents(args).repo = RepoIn(args)
      /\ DOMAIN Contents(args).versions = FilesIn(args)
  BY <1>1, <1>2, ContentsTyped, Zenon
<1>5. Stripped(NewEntry.payload, Contents(args))
  BY <1>1, <1>2, <1>3, AnswerStripped, Zenon
<1>6. BodyOf(NewEntry.payload) = Contents(args)
  BY <1>4, <1>5, StrippedBody
<1>7. NewEntry.dependent_files = IF shape = "silent" THEN {} ELSE FilesIn(args)
  BY <1>1, <1>2, <1>3, Extracted, Zenon
<1>8. /\ NewEntry.key.tool = call.tool
      /\ NewEntry.key.args = args
  BY <1>3 DEF KeyFor
<1>9. AskedFor(NewEntry) = q
  BY <1>8 DEF AskedFor
<1>10. ~ Bypasses(call.tool, args)
  BY DEF Cacheable
<1>. QED
  BY <1>1, <1>3, <1>4, <1>5, <1>6, <1>7, <1>8, <1>9, <1>10, Zenon DEF EntryOK

LEMMA FetchKeeps ==
    ASSUME Fetch
    PROVE  /\ Cacheable
           /\ cache' = cache \/ cache' = {e \in cache : e.key # key} \cup {NewEntry}
<1>. DEFINE behind ==
        {p \in {x \in ExtractDependentFiles(Answer(args)) : dirty[scope, x] # None} :
            \/ p \notin DOMAIN ExtractFileMtimes(Answer(args))
            \/ ExtractFileMtimes(Answer(args))[p] < dirty[scope, p]}
<1>1. cache' = IF behind # {} THEN cache ELSE {e \in cache : e.key # key} \cup {NewEntry}
  BY Zenon DEF Fetch, NewEntry
<1>. QED
  BY <1>1 DEF Fetch

\* An entry stays in order while the backend keeps its form.
LEMMA EntryStays ==
    ASSUME NEW e, EntryOK(e), UNCHANGED shape
    PROVE  EntryOK(e)'
BY DEF EntryOK

LEMMA EntryInvStep ==
    ASSUME CallInv, DataInv, EntryInv, [Next]_vars
    PROVE  EntryInv'
<1>1. UNCHANGED shape
  BY DEF Next, CallStep, Receive, NotAName, Refuse, Bypass, Hit, Fetch, BackendFails, Got, Reply,
         Commit, MarkDirty, Invalidate, Freeze, Thaw, ThawAll, vars
<1>2. cache' \subseteq cache \/ Fetch
  BY DEF Next, CallStep, Receive, NotAName, Refuse, Bypass, Hit, BackendFails, Reply,
         Commit, MarkDirty, Invalidate, Freeze, Thaw, ThawAll, vars
<1>3. CASE cache' \subseteq cache
  BY <1>1, <1>3, EntryStays DEF EntryInv
<1>4. CASE Fetch
  <2>1. cache' \subseteq cache \cup {NewEntry} /\ Cacheable
    BY <1>4, FetchKeeps
  <2>2. EntryOK(NewEntry)
    BY <2>1, NewEntryOK
  <2>3. \A e \in cache' : EntryOK(e)
    BY <2>1, <2>2 DEF EntryInv
  <2>4. \A e \in cache' : EntryOK(e)'
    BY <1>1, <2>3, EntryStays
  <2>. QED
    BY <2>4 DEF EntryInv
<1>. QED
  BY <1>2, <1>3, <1>4

-----------------------------------------------------------------------------
(* What holds whatever the configuration.                                    *)

PathInv == CallInv /\ DataInv /\ EntryInv

LEMMA PathSafety == Spec => []PathInv
<1>1. Init => PathInv
  <2>1. <<>> \in Seq(Range(<<>>))
    OBVIOUS
  <2>2. ASSUME Init
        PROVE  CallInv /\ EntryInv
    BY <2>1, <2>2 DEF Init, CallInv, EntryInv
  <2>. QED
    BY <2>2, DataInvInit DEF PathInv
<1>2. PathInv /\ [Next]_vars => PathInv'
  BY CallInvStep, DataInvStep, EntryInvStep DEF PathInv
<1>. QED
  BY <1>1, <1>2, PTL DEF Spec

\* The variables keep their types, and no sub-call of a batch is lost or made
\* twice, whatever the other requests do meanwhile.
THEOREM PathTypeCorrect == Spec => []TypeOK
<1>1. ASSUME PathInv
      PROVE  TypeOK
  <2>1. ASSUME NEW e \in cache
        PROVE  e.key.scope \in Scopes /\ e.dependent_files \subseteq Path
    <3>1. EntryOK(e)
      BY <1>1 DEF PathInv, EntryInv
    <3>2. AskedFor(e) \in Requests /\ AskedFor(e).args = e.key.args
      BY <3>1 DEF EntryOK, AskedFor
    <3>3. e.key.scope = ExtractScope(e.key.args)
      <4>1. e.key = KeyFor(e.key.tool, e.key.args)
        BY <3>1 DEF EntryOK
      <4>2. \A tool, a : KeyFor(tool, a).scope = ExtractScope(a)
        BY DEF KeyFor
      <4>. QED
        BY <4>1, <4>2, Zenon
    <3>4. e.key.scope \in Scopes
      BY <3>2, <3>3, ScopeKnown, Zenon
    <3>5. e.dependent_files \subseteq FilesIn(e.key.args)
      BY <3>1, Zenon DEF EntryOK
    <3>6. FilesIn(e.key.args) \subseteq Path
      BY DEF FilesIn
    <3>. QED
      BY <3>4, <3>5, <3>6
  <2>. QED
    BY <1>1, <2>1 DEF PathInv, CallInv, DataInv, TypeOK
<1>. QED
  BY <1>1, PathSafety, PTL

LEMMA UnwrapFlag ==
    ASSUME DetectBatch(call)
    PROVE  BatchTools[call.tool].unwrap \in BOOLEAN
<1>1. call.tool \in {"get_function", "get_class", "get_object_structure"}
  BY DEF DetectBatch, BatchTools
<1>2. PICK no : no = FALSE
  OBVIOUS
<1>3. PICK yes : yes = TRUE
  OBVIOUS
<1>4. BatchTools =
        [get_function         |-> [plural |-> "names", singular |-> "name", unwrap |-> no],
         get_class            |-> [plural |-> "names", singular |-> "name", unwrap |-> no],
         get_object_structure |-> [plural |-> "full_names", singular |-> "full_name", unwrap |-> yes]]
  BY <1>2, <1>3, Zenon DEF BatchTools
<1>5. BatchTools[call.tool].unwrap \in {no, yes}
  BY <1>1, <1>4
<1>. QED
  BY <1>2, <1>3, <1>5, Zenon

LEMMA ServedClean ==
    ASSUME NEW body \in Payloads, NEW v, Stripped(v, body)
    PROVE  Clean(Served(v))
BY StrippedClean, UnwrapFlag, Zenon DEF Served

\* What a sub-call ends with, if it is an answer, has no metadata.
LEMMA AnswersClean ==
    ASSUME PathInv, Ends
    PROVE  \E x : Got(x) /\ (x.kind = "answer" => Clean(x.value))
<1>. DEFINE Ok(x) == Got(x) /\ (x.kind = "answer" => Clean(x.value))
            reply(v) == [kind |-> "answer", value |-> v]
<1>1. \A v : reply(v).value = v
  OBVIOUS
<1>2. CASE NotAName \/ Refuse \/ BackendFails
  <2>1. Got([kind |-> "error"]) \/ Got([kind |-> "frozen"])
    BY <1>2, Zenon DEF NotAName, Refuse, BackendFails
  <2>2. [kind |-> "error"].kind # "answer" /\ [kind |-> "frozen"].kind # "answer"
    OBVIOUS
  <2>. QED
    BY <2>1, <2>2, Zenon
<1>3. CASE Bypass
  <2>1. Got(reply(Served(StripMeta(Answer(args)))))
    BY <1>3, Zenon DEF Bypass
  <2>. DEFINE q == [tool |-> call.tool, args |-> args]
  <2>2. q \in Requests
    BY <1>3, HandlingAsked DEF Bypass, PathInv
  <2>3. q.args = args /\ index \in [Repo -> [Path -> Version]]
    BY DEF PathInv, DataInv
  <2>4. Contents(args) \in Payloads /\ Stripped(StripMeta(Answer(args)), Contents(args))
    BY <2>2, <2>3, AnswerStripped, ContentsTyped, Zenon
  <2>5. Clean(Served(StripMeta(Answer(args))))
    BY <2>4, ServedClean
  <2>. QED
    BY <1>1, <2>1, <2>5, Zenon
<1>4. ASSUME NEW e \in cache, Hit(e)
      PROVE  \E x : Ok(x)
  <2>1. Got(reply(Served(e.payload)))
    BY <1>4, Zenon DEF Hit
  <2>2. BodyOf(e.payload) \in Payloads /\ Stripped(e.payload, BodyOf(e.payload))
    BY Zenon DEF PathInv, EntryInv, EntryOK
  <2>3. Clean(Served(e.payload))
    BY <2>2, ServedClean
  <2>. QED
    BY <1>1, <2>1, <2>3, Zenon
<1>5. CASE Fetch
  <2>1. Got(reply(Served(NewEntry.payload)))
    BY <1>5, Zenon DEF Fetch, NewEntry
  <2>2. EntryOK(NewEntry)
    BY <1>5, FetchKeeps, NewEntryOK DEF PathInv
  <2>3. Clean(Served(NewEntry.payload))
    BY <2>2, ServedClean DEF EntryOK
  <2>. QED
    BY <1>1, <2>1, <2>3, Zenon
<1>. QED
  BY <1>2, <1>3, <1>4, <1>5, Zenon DEF Ends

\* No client, of a single call or of a batch, on a hit, a miss or a bypass, sees the
\* metadata between backend and proxy, in whichever form the backend answers.
THEOREM MetadataStays == Spec => []NoMetaServed
<1>. DEFINE Sent == \A i \in DOMAIN results : results[i].kind = "answer" => Clean(results[i].value)
<1>1. Sent => NoMetaServed
  BY Zenon DEF Clean, NoMetaServed
<1>2. Init => Sent
  BY DEF Init
<1>3. ASSUME PathInv, Sent, [Next]_vars
      PROVE  Sent'
  <2>1. CASE Ends
    <3>1. PICK x : Got(x) /\ (x.kind = "answer" => Clean(x.value))
      BY <1>3, <2>1, AnswersClean
    <3>2. results' = Append(results, x)
      BY <3>1 DEF Got
    <3>3. \A i \in DOMAIN results' :
             IF i \in DOMAIN results THEN results'[i] = results[i] ELSE results'[i] = x
      BY <1>3, <3>2, OneMore, Zenon DEF PathInv, CallInv
    <3>4. ASSUME NEW i \in DOMAIN results', results'[i].kind = "answer"
          PROVE  Clean(results'[i].value)
      BY <1>3, <3>1, <3>3, <3>4, Zenon
    <3>5. \A i \in DOMAIN results' : results'[i].kind = "answer" => Clean(results'[i].value)
      BY <3>4
    <3>. QED
      BY <3>5, Zenon DEF Clean, MetasIn
  <2>2. CASE Reply
    BY <2>2 DEF Reply
  <2>3. CASE UNCHANGED results
    BY <1>3, <2>3 DEF Clean
  <2>. QED
    BY <1>3, <2>1, <2>2, <2>3
       DEF Next, CallStep, Ends, Receive, Commit, MarkDirty, Invalidate, Freeze, Thaw, ThawAll,
           callVars, vars
<1>. HIDE DEF Sent
<1>. QED
  BY <1>1, <1>2, <1>3, PathSafety, PTL DEF Spec

\* /invalidate of files, in either field, removes the entries whose answer has the
\* contents of one of them, and no other.
THEOREM FilesInvalidated == Spec => []InvalidationReachesFiles
<1>1. ASSUME PathInv
      PROVE  InvalidationReachesFiles
  <2>. SUFFICES ASSUME shape # "silent", NEW b \in DropBodies, ~ b.all, PathsOf(b) # {}
                PROVE  Dropped(b) = {e \in cache :
                                       DOMAIN BodyOf(e.payload).versions \cap PathsOf(b) # {}}
    BY Zenon DEF InvalidationReachesFiles
  <2>1. ASSUME NEW e \in cache
        PROVE  e.dependent_files = DOMAIN BodyOf(e.payload).versions
    BY <1>1, Zenon DEF PathInv, EntryInv, EntryOK
  <2>2. CASE b.file_paths # None
    BY <2>1, <2>2 DEF Dropped, PathsOf
  <2>3. CASE b.file_paths = None
    <3>1. b.file_path # None /\ PathsOf(b) = {b.file_path}
      BY <2>3 DEF PathsOf
    <3>. QED
      BY <2>1, <2>3, <3>1 DEF Dropped
  <2>. QED
    BY <2>2, <2>3
<1>. QED
  BY <1>1, PathSafety, PTL

-----------------------------------------------------------------------------
(* What the policy and the first argument of a call decide.                  *)

\* Entries are of scopes and tools that the policy lets into the cache: single calls
\* and sub-calls of batches, for whom the scope is read from their own arguments.
THEOREM PolicyHolds ==
    ASSUME RepoFirst, RulesForRepos
    PROVE  Spec => []OnlyCacheableKept
<1>1. ASSUME PathInv
      PROVE  OnlyCacheableKept
  <2>. SUFFICES ASSUME NEW e \in cache
                PROVE  /\ "repo" \in DOMAIN e.key.args /\ e.key.args.repo \in DOMAIN ScopeRule
                             => ScopeRule[e.key.args.repo]
                       /\ e.key.tool \in DOMAIN ToolRule => ToolRule[e.key.tool].cacheable
                       /\ e.key.tool \notin DOMAIN ToolRule => DefaultTtl # 0
    BY DEF OnlyCacheableKept
  <2>1. ~ Bypasses(e.key.tool, e.key.args)
    BY <1>1 DEF PathInv, EntryInv, EntryOK
  <2>2. ASSUME "repo" \in DOMAIN e.key.args, e.key.args.repo \in DOMAIN ScopeRule
        PROVE  ScopeRule[e.key.args.repo]
    <3>1. e.key.args.repo # NotString /\ e.key.args.repo # NoScope
      BY <2>2 DEF RulesForRepos
    <3>2. ExtractScope(e.key.args) = e.key.args.repo
      BY <2>2, <3>1, ScopeIsRepo, Zenon
    <3>3. IsScopeCacheable(e.key.args.repo)
      BY <2>1, <3>1, <3>2, Zenon DEF Bypasses
    <3>. QED
      BY <2>2, <3>3, Zenon DEF IsScopeCacheable
  <2>3. TtlFor(e.key.tool) # None
    BY <2>1, Zenon DEF Bypasses
  <2>4. e.key.tool \in DOMAIN ToolRule => ToolRule[e.key.tool].cacheable
    BY <2>3, Zenon DEF TtlFor
  <2>5. e.key.tool \notin DOMAIN ToolRule => DefaultTtl # 0
    BY <2>3, Zenon DEF TtlFor
  <2>. QED
    BY <2>2, <2>4, <2>5
<1>. QED
  BY <1>1, PathSafety, PTL

\* /invalidate of one repository removes what was answered from it and nothing else.
\* That needs the scope of a call to be its repository: under other scope_args a
\* call for the repository may be kept under another scope.
THEOREM RepositoryInvalidated ==
    ASSUME RepoOnly
    PROVE  Spec => []InvalidationIsSelective
<1>1. ASSUME PathInv
      PROVE  InvalidationIsSelective
  <2>. SUFFICES ASSUME NEW b \in DropBodies, ~ b.all, b.file_paths = None, b.file_path = None,
                       NEW r \in Repo, Named({b.scope, b.repo, b.base}) = {r}
                PROVE  Dropped(b) = {e \in cache : BodyOf(e.payload).repo = r}
    BY DEF InvalidationIsSelective
  <2>1. r # NoScope /\ r # NotString /\ r # None
    BY CallPathAssumption DEF Scopes
  <2>2. PickScope(b) = r
    BY PickScopeNamed
  <2>3. ASSUME NEW e \in cache
        PROVE  e.key.scope = r <=> BodyOf(e.payload).repo = r
    <3>1. EntryOK(e)
      BY <1>1 DEF PathInv, EntryInv
    <3>2. e.key.scope = ExtractScope(e.key.args)
      <4>1. e.key = KeyFor(e.key.tool, e.key.args)
        BY <3>1 DEF EntryOK
      <4>2. \A tool, a : KeyFor(tool, a).scope = ExtractScope(a)
        BY DEF KeyFor
      <4>. QED
        BY <4>1, <4>2, Zenon
    <3>3. BodyOf(e.payload).repo = RepoIn(e.key.args)
      BY <3>1, Zenon DEF EntryOK
    <3>. DEFINE a == e.key.args
    <3>4. ExtractScope(a) = IF "repo" \in DOMAIN a /\ a.repo # NotString THEN a.repo ELSE NoScope
      BY ScopeIsRepoOnly
    <3>5. RepoIn(a) = IF "repo" \in DOMAIN a THEN a.repo ELSE None
      BY DEF RepoIn
    <3>. HIDE DEF a
    <3>6. ExtractScope(a) = r <=> RepoIn(a) = r
      BY <2>1, <3>4, <3>5
    <3>. QED
      BY <3>2, <3>3, <3>6 DEF a
  <2>4. Dropped(b) = {e \in cache : e.key.scope = PickScope(b)}
    BY <2>1, <2>2 DEF Dropped
  <2>. QED
    BY <2>2, <2>3, <2>4
<1>. QED
  BY <1>1, PathSafety, PTL

-----------------------------------------------------------------------------
(* The freeze.                                                               *)

LEMMA FreezeNames ==
    ASSUME OneRepoEach, NEW b \in FreezeBodies
    PROVE  {PickScope(b)} = IF Named({b.scope, b.repo, b.base}) = {} THEN {NoScope}
                            ELSE Named({b.scope, b.repo, b.base})
<1>. DEFINE R == Named({b.scope, b.repo, b.base})
<1>1. \A r, s \in R : r = s
  BY DEF OneRepoEach
<1>2. (R = {} => PickScope(b) = NoScope) /\ \A r : R = {r} => PickScope(b) = r
  BY PickScopeNamed
<1>. HIDE DEF R
<1>3. R = {} \/ \E r : R = {r}
  BY <1>1
<1>. QED
  BY <1>2, <1>3 DEF R

\* frozen has what the operators want closed, in whichever field they say so.
LEMMA FrozenIsClosed ==
    ASSUME OneRepoEach
    PROVE  Spec => [](frozen = closed)
<1>1. Init => frozen = closed
  BY DEF Init
<1>2. ASSUME frozen = closed, [Next]_vars
      PROVE  (frozen = closed)'
  <2>1. ASSUME NEW b \in FreezeBodies, Freeze(b) \/ Thaw(b)
        PROVE  frozen' = closed'
    BY <1>2, <2>1, FreezeNames DEF Freeze, Thaw
  <2>2. CASE ThawAll
    BY <2>2 DEF ThawAll
  <2>3. CASE UNCHANGED <<frozen, closed>>
    BY <1>2, <2>3
  <2>. QED
    BY <1>2, <2>1, <2>2, <2>3
       DEF Next, CallStep, Receive, NotAName, Refuse, Bypass, Hit, Fetch, BackendFails, Got, Reply,
           Commit, MarkDirty, Invalidate, historyVars, vars
<1>. QED
  BY <1>1, <1>2, PTL DEF Spec

\* Only a sub-call that finds no freeze gets an answer.
LEMMA AnswersUnfrozen ==
    ASSUME Ends
    PROVE  \E x : Got(x) /\ (x.kind = "answer" => Handling /\ ~ IsFrozen(scope))
<1>1. CASE NotAName \/ Refuse \/ BackendFails
  <2>1. Got([kind |-> "error"]) \/ Got([kind |-> "frozen"])
    BY <1>1, Zenon DEF NotAName, Refuse, BackendFails
  <2>2. [kind |-> "error"].kind # "answer" /\ [kind |-> "frozen"].kind # "answer"
    OBVIOUS
  <2>. QED
    BY <2>1, <2>2, Zenon
<1>2. CASE Bypass \/ (\E e \in cache : Hit(e)) \/ Fetch
  <2>1. Handling /\ ~ IsFrozen(scope)
    BY <1>2, Zenon DEF Bypass, Hit, Fetch, Cacheable
  <2>2. \E x : Got(x)
    BY <1>2, EndsGot DEF Ends
  <2>. QED
    BY <2>1, <2>2
<1>. QED
  BY <1>1, <1>2 DEF Ends

\* While an operator wants a repository, or everything, closed, no call for it gets
\* an answer: hits, misses and calls that bypass the cache alike.
THEOREM ClosedToAll ==
    ASSUME RepoFirst, OneRepoEach
    PROVE  Spec => NothingWhileFrozen
<1>. DEFINE Held ==
        \A i \in DOMAIN results' \ DOMAIN results :
            results'[i].kind = "answer" =>
                /\ NoScope \notin closed
                /\ "repo" \in DOMAIN args => args.repo \notin closed
<1>1. ASSUME PathInv, frozen = closed, [Next]_vars
      PROVE  Held
  <2>1. CASE Ends
    <3>1. PICK x : Got(x) /\ (x.kind = "answer" => Handling /\ ~ IsFrozen(scope))
      BY <2>1, AnswersUnfrozen
    <3>2. results' = Append(results, x)
      BY <3>1 DEF Got
    <3>3. \A i \in DOMAIN results' \ DOMAIN results : results'[i] = x
      BY <1>1, <3>2, OneMore, Zenon DEF PathInv, CallInv
    <3>4. ASSUME ~ IsFrozen(scope)
          PROVE  /\ NoScope \notin closed
                 /\ "repo" \in DOMAIN args => args.repo \notin closed
      <4>1. scope \notin closed /\ NoScope \notin closed
        BY <1>1, <3>4 DEF IsFrozen
      <4>2. NotString \notin closed
        BY <1>1, CallPathAssumption DEF PathInv, DataInv
      <4>3. "repo" \in DOMAIN args /\ args.repo # NotString => scope = args.repo
        BY ScopeIsRepo, Zenon DEF scope
      <4>. QED
        BY <4>1, <4>2, <4>3, Zenon
    <3>. QED
      BY <3>1, <3>3, <3>4, Zenon
  <2>2. CASE Reply
    BY <2>2 DEF Reply
  <2>3. CASE UNCHANGED results
    BY <2>3
  <2>. QED
    BY <1>1, <2>1, <2>2, <2>3
       DEF Next, CallStep, Ends, Receive, Commit, MarkDirty, Invalidate, Freeze, Thaw, ThawAll,
           callVars, vars
<1>2. Held => (\A i \in DOMAIN results' \ DOMAIN results :
                  results'[i].kind = "answer" =>
                      /\ NoScope \notin closed
                      /\ "repo" \in DOMAIN args => args.repo \notin closed)
  OBVIOUS
<1>. HIDE DEF Held
<1>. QED
  BY <1>1, <1>2, PathSafety, FrozenIsClosed, PTL DEF Spec, NothingWhileFrozen

-----------------------------------------------------------------------------
(* Freshness.                                                                *)

\* An announced write is in the backend, or still flagged at its version or a later one.
AnnouncedInv ==
    \A r \in Repo, p \in Path :
        \/ announced[r][p] <= index[r][p]
        \/ dirty[<<r, p>>] # None /\ announced[r][p] <= dirty[<<r, p>>]

\* The file is read under one key.
ReadOnce(r, p) ==
    \A q, s \in {x \in Requests : ~ Bypasses(x.tool, x.args)} :
        RepoIn(q.args) = r /\ RepoIn(s.args) = r /\ p \in FilesIn(q.args) \cap FilesIn(s.args) => q = s

\* An entry of such a file, if it has no flag, has its announced version.
FreshEntry(e) ==
    LET body == BodyOf(e.payload)
    IN  \A p \in DOMAIN body.versions :
            ReadOnce(body.repo, p) /\ dirty[<<body.repo, p>>] = None
                => body.versions[p] >= announced[body.repo][p]

FreshInv == shape # "silent" => \A e \in cache : FreshEntry(e)

\* A request that reads a file is for the repository that has it, and in its scope.
LEMMA ReadsInScope ==
    ASSUME RepoFirst, NEW a, NEW p \in FilesIn(a)
    PROVE  /\ RepoIn(a) \in Repo /\ p \in Path /\ NameIn(a) = p
           /\ ExtractScope(a) = RepoIn(a)
<1>1. RepoIn(a) \in Repo /\ NameIn(a) \in Path /\ FilesIn(a) = {NameIn(a)}
  BY DEF FilesIn
<1>2. "repo" \in DOMAIN a /\ RepoIn(a) = a.repo
  BY <1>1, CallPathAssumption DEF RepoIn, Scopes
<1>3. a.repo # NotString
  BY <1>1, <1>2, CallPathAssumption DEF Scopes
<1>. QED
  BY <1>1, <1>2, <1>3, ScopeIsRepo, Zenon

\* The flags of the scope of an entry are those of its repository.
LEMMA EntryReads ==
    ASSUME RepoFirst, NEW e, EntryOK(e), NEW p \in DOMAIN BodyOf(e.payload).versions
    PROVE  /\ BodyOf(e.payload).repo \in Repo /\ p \in Path
           /\ p \in FilesIn(e.key.args)
           /\ e.key.scope = BodyOf(e.payload).repo
           /\ BodyOf(e.payload).versions[p] \in Version
           /\ shape # "silent" => p \in e.dependent_files
<1>1. p \in FilesIn(e.key.args) /\ BodyOf(e.payload).repo = RepoIn(e.key.args)
  BY Zenon DEF EntryOK
<1>2. /\ RepoIn(e.key.args) \in Repo /\ p \in Path
      /\ ExtractScope(e.key.args) = RepoIn(e.key.args)
  BY <1>1, ReadsInScope, Zenon
<1>3. e.key.scope = ExtractScope(e.key.args)
  <2>1. e.key = KeyFor(e.key.tool, e.key.args)
    BY DEF EntryOK
  <2>2. \A tool, a : KeyFor(tool, a).scope = ExtractScope(a)
    BY DEF KeyFor
  <2>. QED
    BY <2>1, <2>2, Zenon
<1>4. BodyOf(e.payload).versions \in Versions
  <2>1. BodyOf(e.payload) \in Payloads
    BY DEF EntryOK
  <2>. QED
    BY <2>1 DEF Payloads
<1>5. BodyOf(e.payload).versions[p] \in Version
  BY <1>4 DEF Versions
<1>6. shape # "silent" => p \in e.dependent_files
  BY <1>1, Zenon DEF EntryOK
<1>. QED
  BY <1>1, <1>2, <1>3, <1>5, <1>6, Zenon

\* A miss that keeps its answer takes the flags of its files, and only those; one
\* that does not, takes none.
LEMMA FetchClears ==
    ASSUME RepoFirst, CallInv, DataInv, Fetch, shape # "silent"
    PROVE  \/ cache' = cache /\ dirty' = dirty
           \/ /\ cache' = {e \in cache : e.key # key} \cup {NewEntry}
              /\ \A r \in Repo, p \in Path :
                    IF r = RepoIn(args) /\ p \in FilesIn(args)
                    THEN /\ dirty'[<<r, p>>] = None
                         /\ dirty[<<r, p>>] # None => dirty[<<r, p>>] <= index[r][p]
                    ELSE dirty'[<<r, p>>] = dirty[<<r, p>>]
<1>. DEFINE q       == [tool |-> call.tool, args |-> args]
            deps    == ExtractDependentFiles(Answer(args))
            mtimes  == ExtractFileMtimes(Answer(args))
            flagged == {p \in deps : dirty[scope, p] # None}
            behind  == {p \in flagged : p \notin DOMAIN mtimes \/ mtimes[p] < dirty[scope, p]}
<1>1. /\ cache' = IF behind # {} THEN cache ELSE {e \in cache : e.key # key} \cup {NewEntry}
      /\ dirty' = [f \in DOMAIN dirty |->
                     IF behind = {} /\ f[1] = scope /\ f[2] \in flagged THEN None ELSE dirty[f]]
  BY Zenon DEF Fetch, NewEntry
<1>2. q \in Requests
  BY HandlingAsked DEF Fetch, Cacheable
<1>3. index \in [Repo -> [Path -> Version]] /\ q.args = args
  BY DEF DataInv
<1>4. /\ deps = FilesIn(args)
      /\ mtimes = IF shape = "noTimes" THEN NoMtimes ELSE Contents(args).versions
  BY <1>2, <1>3, Extracted, Zenon
<1>5. Contents(args).versions = [p \in FilesIn(args) |-> index[RepoIn(args)][p]]
  BY DEF Contents
<1>6. DOMAIN NoMtimes = {}
  BY DEF NoMtimes
<1>7. \A p \in FilesIn(args) : RepoIn(args) \in Repo /\ p \in Path /\ scope = RepoIn(args)
  BY ReadsInScope, Zenon DEF scope
<1>8. dirty \in [Scopes \X Path -> Version \cup {None}] /\ Repo \subseteq Scopes
  BY DEF DataInv, Scopes
<1>. HIDE DEF q, deps, mtimes
<1>9. CASE behind # {}
  <2>1. dirty' = [f \in DOMAIN dirty |-> dirty[f]] /\ cache' = cache
    BY <1>1, <1>9
  <2>2. dirty = [f \in DOMAIN dirty |-> dirty[f]]
    BY <1>8
  <2>. QED
    BY <2>1, <2>2
<1>10. CASE behind = {}
  <2>1. cache' = {e \in cache : e.key # key} \cup {NewEntry}
    BY <1>1, <1>10
  <2>2. ASSUME NEW r \in Repo, NEW p \in Path
        PROVE  IF r = RepoIn(args) /\ p \in FilesIn(args)
               THEN /\ dirty'[<<r, p>>] = None
                    /\ dirty[<<r, p>>] # None => dirty[<<r, p>>] <= index[r][p]
               ELSE dirty'[<<r, p>>] = dirty[<<r, p>>]
    <3>1. <<r, p>> \in DOMAIN dirty
      BY <1>8
    <3>2. dirty'[<<r, p>>] = IF r = scope /\ p \in flagged THEN None ELSE dirty[<<r, p>>]
      BY <1>1, <1>10, <3>1
    <3>3. CASE r = RepoIn(args) /\ p \in FilesIn(args)
      <4>1. r = scope /\ p \in deps
        BY <1>4, <1>7, <3>3
      <4>2. dirty'[<<r, p>>] = None
        BY <3>2, <4>1
      <4>3. ASSUME dirty[<<r, p>>] # None
            PROVE  dirty[<<r, p>>] <= index[r][p]
        <5>1. p \in DOMAIN mtimes /\ ~ (mtimes[p] < dirty[<<r, p>>])
          BY <1>10, <4>1, <4>3
        <5>2. mtimes[p] = index[r][p]
          BY <1>4, <1>5, <1>6, <3>3, <5>1
        <5>3. index[r][p] \in Int /\ dirty[<<r, p>>] \in Int
          BY <1>3, <1>8, <4>3 DEF Version
        <5>. QED
          BY <5>1, <5>2, <5>3
      <4>. QED
        BY <3>3, <4>2, <4>3
    <3>4. CASE ~ (r = RepoIn(args) /\ p \in FilesIn(args))
      <4>1. ~ (r = scope /\ p \in flagged)
        BY <1>4, <1>7, <3>4
      <4>. QED
        BY <3>2, <3>4, <4>1
    <3>. QED
      BY <3>3, <3>4
  <2>. QED
    BY <2>1, <2>2
<1>. QED
  BY <1>9, <1>10

\* Two requests that use the cache and read one file are the same, and so is their key.
LEMMA SameKey ==
    ASSUME RepoFirst, CallInv, Cacheable, NEW e, EntryOK(e),
           NEW p \in DOMAIN BodyOf(e.payload).versions, ReadOnce(RepoIn(args), p),
           BodyOf(e.payload).repo = RepoIn(args), p \in FilesIn(args)
    PROVE  e.key = key
<1>. DEFINE q == [tool |-> call.tool, args |-> args]
            r == AskedFor(e)
<1>1. q \in Requests /\ q.tool = call.tool /\ q.args = args
  BY HandlingAsked DEF Cacheable
<1>2. r \in Requests /\ r.tool = e.key.tool /\ r.args = e.key.args
  BY DEF EntryOK, AskedFor
<1>3. ~ Bypasses(q.tool, q.args) /\ ~ Bypasses(r.tool, r.args)
  BY <1>1, <1>2 DEF Cacheable, EntryOK
<1>4. RepoIn(q.args) = RepoIn(args) /\ RepoIn(r.args) = RepoIn(args)
  BY <1>1, <1>2, Zenon DEF EntryOK
<1>5. p \in FilesIn(q.args) \cap FilesIn(r.args)
  BY <1>1, <1>2, EntryReads
<1>. HIDE DEF q, r
<1>6. q = r
  BY <1>1, <1>2, <1>3, <1>4, <1>5 DEF ReadOnce
<1>7. call.tool = e.key.tool /\ args = e.key.args
  BY <1>1, <1>2, <1>6
<1>8. e.key = KeyFor(e.key.tool, e.key.args) /\ key = KeyFor(call.tool, args)
  BY Zenon DEF EntryOK, key
<1>. QED
  BY <1>7, <1>8, Zenon

\* What the entries have and what is announced, as one invariant.
FreshState == shape # "silent" => AnnouncedInv /\ \A e \in cache : FreshEntry(e)

LEMMA AnnouncedStays ==
    ASSUME RepoFirst, OneRepoEach, PathInv, shape # "silent", AnnouncedInv, [Next]_vars
    PROVE  AnnouncedInv'
<1>1. /\ index \in [Repo -> [Path -> Version]] /\ announced \in [Repo -> [Path -> Version]]
      /\ dirty \in [Scopes \X Path -> Version \cup {None}]
      /\ Version \subseteq Int /\ Repo \subseteq Scopes
  BY DEF PathInv, DataInv, Version, Scopes
<1>2. CASE UNCHANGED <<index, announced, dirty>>
  BY <1>2 DEF AnnouncedInv
<1>3. ASSUME NEW s \in Repo, NEW x \in Path, Commit(s, x)
      PROVE  AnnouncedInv'
  <2>1. \A r \in Repo, p \in Path : index[r][p] \in Int /\ announced[r][p] \in Int
    BY <1>1
  <2>2. \A r \in Repo, p \in Path : index'[r][p] >= index[r][p]
    BY <1>1, <1>3, <2>1 DEF Commit
  <2>3. \A r \in Repo, p \in Path : index'[r][p] \in Int
    BY <1>1, <1>3, <2>1 DEF Commit
  <2>4. UNCHANGED <<announced, dirty>>
    BY <1>3 DEF Commit, historyVars
  <2>5. ASSUME NEW r \in Repo, NEW p \in Path
        PROVE  \/ announced'[r][p] <= index'[r][p]
               \/ dirty'[<<r, p>>] # None /\ announced'[r][p] <= dirty'[<<r, p>>]
    <3>1. \/ announced[r][p] <= index[r][p]
          \/ dirty[<<r, p>>] # None /\ announced[r][p] <= dirty[<<r, p>>]
      BY DEF AnnouncedInv
    <3>. QED
      BY <2>1, <2>2, <2>3, <2>4, <3>1
  <2>. QED
    BY <2>5 DEF AnnouncedInv
<1>4. ASSUME NEW b \in MarkBodies, MarkDirty(b)
      PROVE  AnnouncedInv'
  <2>. SUFFICES ASSUME NEW r \in Repo, NEW p \in Path
                PROVE  \/ announced'[r][p] <= index'[r][p]
                       \/ dirty'[<<r, p>>] # None /\ announced'[r][p] <= dirty'[<<r, p>>]
    BY DEF AnnouncedInv
  <2>1. UNCHANGED index /\ <<r, p>> \in DOMAIN dirty
    BY <1>1, <1>4 DEF MarkDirty
  <2>2. announced'[r][p] = IF r \in Named({b.repo, b.base}) /\ p \in DOMAIN b.files
                              /\ b.files[p] > announced[r][p]
                           THEN b.files[p] ELSE announced[r][p]
    BY <1>4 DEF MarkDirty
  <2>3. dirty'[<<r, p>>] = IF r # MarkScope(b) \/ p \notin DOMAIN b.files THEN dirty[<<r, p>>]
                           ELSE IF dirty[<<r, p>>] = None \/ b.files[p] > dirty[<<r, p>>]
                           THEN b.files[p] ELSE dirty[<<r, p>>]
    BY <1>4, <2>1 DEF MarkDirty
  <2>4. r \in Named({b.repo, b.base}) => r = MarkScope(b)
    BY DEF OneRepoEach
  <2>5. p \in DOMAIN b.files => b.files[p] \in Int /\ b.files[p] # None
    <3>1. p \in DOMAIN b.files => b.files[p] \in Version
      BY FilesTyped
    <3>2. None \notin Version
      BY CallPathAssumption
    <3>. QED
      BY <1>1, <3>1, <3>2
  <2>6. /\ announced[r][p] \in Int /\ index[r][p] \in Int
        /\ dirty[<<r, p>>] # None => dirty[<<r, p>>] \in Int
    BY <1>1
  <2>7. \/ announced[r][p] <= index[r][p]
        \/ dirty[<<r, p>>] # None /\ announced[r][p] <= dirty[<<r, p>>]
    BY DEF AnnouncedInv
  <2>. QED
    BY <2>1, <2>2, <2>3, <2>4, <2>5, <2>6, <2>7
<1>5. CASE Fetch
  <2>1. UNCHANGED <<index, announced>>
    BY <1>5 DEF Fetch, Got, historyVars
  <2>2. \A r \in Repo, p \in Path :
           \/ dirty'[<<r, p>>] = dirty[<<r, p>>]
           \/ dirty[<<r, p>>] # None => dirty[<<r, p>>] <= index[r][p]
    BY <1>5, FetchClears DEF PathInv
  <2>3. \A r \in Repo, p \in Path :
           /\ announced[r][p] \in Int /\ index[r][p] \in Int
           /\ dirty[<<r, p>>] # None => dirty[<<r, p>>] \in Int
    BY <1>1
  <2>4. ASSUME NEW r \in Repo, NEW p \in Path
        PROVE  \/ announced'[r][p] <= index'[r][p]
               \/ dirty'[<<r, p>>] # None /\ announced'[r][p] <= dirty'[<<r, p>>]
    <3>1. \/ announced[r][p] <= index[r][p]
          \/ dirty[<<r, p>>] # None /\ announced[r][p] <= dirty[<<r, p>>]
      BY DEF AnnouncedInv
    <3>. QED
      BY <2>1, <2>2, <2>3, <3>1
  <2>. QED
    BY <2>4 DEF AnnouncedInv
<1>. QED
  BY <1>2, <1>3, <1>4, <1>5
     DEF Next, CallStep, Receive, NotAName, Refuse, Bypass, Hit, BackendFails, Got, Reply,
         Invalidate, Freeze, Thaw, ThawAll, historyVars, vars

\* A flag that goes up, or stays, hides no entry; nothing but a write announced to a
\* flagged file, or an answer that caught up, changes what a clean entry must have.
LEMMA EntriesStayFresh ==
    ASSUME RepoFirst, OneRepoEach, PathInv, shape # "silent", AnnouncedInv,
           \A e \in cache : FreshEntry(e), [Next]_vars
    PROVE  \A e \in cache' : FreshEntry(e)'
<1>1. /\ index \in [Repo -> [Path -> Version]] /\ announced \in [Repo -> [Path -> Version]]
      /\ dirty \in [Scopes \X Path -> Version \cup {None}]
      /\ Version \subseteq Int /\ Repo \subseteq Scopes
  BY DEF PathInv, DataInv, Version, Scopes
<1>2. CASE cache' \subseteq cache /\ UNCHANGED <<announced, dirty>>
  BY <1>2 DEF FreshEntry
<1>3. ASSUME NEW b \in MarkBodies, MarkDirty(b)
      PROVE  \A e \in cache' : FreshEntry(e)'
  <2>1. cache' = cache
    BY <1>3 DEF MarkDirty
  <2>. SUFFICES ASSUME NEW e \in cache, NEW p \in DOMAIN BodyOf(e.payload).versions,
                       ReadOnce(BodyOf(e.payload).repo, p),
                       dirty'[<<BodyOf(e.payload).repo, p>>] = None
                PROVE  BodyOf(e.payload).versions[p] >= announced'[BodyOf(e.payload).repo][p]
    BY <2>1, Zenon DEF FreshEntry
  <2>. DEFINE r == BodyOf(e.payload).repo
              v == BodyOf(e.payload).versions[p]
  <2>2. r \in Repo /\ p \in Path
    BY EntryReads DEF PathInv, EntryInv
  <2>3. dirty[<<r, p>>] = None => v >= announced[r][p]
    BY Zenon DEF FreshEntry
  <2>. HIDE DEF r, v
  <2>4. <<r, p>> \in DOMAIN dirty
    BY <1>1, <2>2
  <2>5. announced'[r][p] = IF r \in Named({b.repo, b.base}) /\ p \in DOMAIN b.files
                              /\ b.files[p] > announced[r][p]
                           THEN b.files[p] ELSE announced[r][p]
    BY <1>3, <2>2 DEF MarkDirty
  <2>6. dirty'[<<r, p>>] = IF r # MarkScope(b) \/ p \notin DOMAIN b.files THEN dirty[<<r, p>>]
                           ELSE IF dirty[<<r, p>>] = None \/ b.files[p] > dirty[<<r, p>>]
                           THEN b.files[p] ELSE dirty[<<r, p>>]
    BY <1>3, <2>4 DEF MarkDirty
  <2>7. r \in Named({b.repo, b.base}) => r = MarkScope(b)
    BY DEF OneRepoEach
  <2>8. p \in DOMAIN b.files => b.files[p] # None
    BY FilesTyped, CallPathAssumption
  <2>9. dirty'[<<r, p>>] = None
    BY DEF r
  <2>10. v >= announced'[r][p]
    BY <2>3, <2>5, <2>6, <2>7, <2>8, <2>9
  <2>. QED
    BY <2>10 DEF r, v
<1>4. CASE Fetch
  <2>1. UNCHANGED announced /\ Cacheable
    BY <1>4 DEF Fetch, Got, historyVars
  <2>2. CASE cache' = cache /\ dirty' = dirty
    BY <1>2, <2>1, <2>2
  <2>3. CASE /\ cache' = {e \in cache : e.key # key} \cup {NewEntry}
             /\ \A r \in Repo, p \in Path :
                   IF r = RepoIn(args) /\ p \in FilesIn(args)
                   THEN /\ dirty'[<<r, p>>] = None
                        /\ dirty[<<r, p>>] # None => dirty[<<r, p>>] <= index[r][p]
                   ELSE dirty'[<<r, p>>] = dirty[<<r, p>>]
    <3>1. ASSUME NEW e \in cache, e.key # key
          PROVE  FreshEntry(e)'
      <4>. SUFFICES ASSUME NEW p \in DOMAIN BodyOf(e.payload).versions,
                           ReadOnce(BodyOf(e.payload).repo, p),
                           dirty'[<<BodyOf(e.payload).repo, p>>] = None
                    PROVE  BodyOf(e.payload).versions[p] >= announced'[BodyOf(e.payload).repo][p]
        BY Zenon DEF FreshEntry
      <4>1. EntryOK(e)
        BY DEF PathInv, EntryInv
      <4>2. BodyOf(e.payload).repo \in Repo /\ p \in Path
        BY <4>1, EntryReads
      <4>3. ~ (BodyOf(e.payload).repo = RepoIn(args) /\ p \in FilesIn(args))
        BY <2>1, <3>1, <4>1, SameKey DEF PathInv
      <4>4. dirty[<<BodyOf(e.payload).repo, p>>] = None
        BY <2>3, <4>2, <4>3, Zenon
      <4>. QED
        BY <2>1, <4>4, Zenon DEF FreshEntry
    <3>2. ASSUME NEW e, e = NewEntry
          PROVE  FreshEntry(e)'
      <4>1. EntryOK(e) /\ BodyOf(e.payload) = Contents(args)
        BY <2>1, <3>2, NewEntryOK DEF PathInv
      <4>. DEFINE body == BodyOf(e.payload)
      <4>. HIDE DEF body
      <4>2. ASSUME NEW p \in DOMAIN body.versions
            PROVE  body.versions[p] >= announced[body.repo][p]
        <5>1. body.repo \in Repo /\ p \in Path /\ p \in FilesIn(args) /\ body.repo = RepoIn(args)
          <6>1. body.repo = RepoIn(args) /\ DOMAIN body.versions = FilesIn(args)
            BY <4>1 DEF body, Contents
          <6>. QED
            BY <4>1, <6>1, EntryReads DEF body
        <5>2. body.versions[p] = index[body.repo][p]
          BY <4>1, <5>1 DEF body, Contents
        <5>3. dirty[<<body.repo, p>>] # None => dirty[<<body.repo, p>>] <= index[body.repo][p]
          BY <2>3, <5>1
        <5>4. \/ announced[body.repo][p] <= index[body.repo][p]
              \/ /\ dirty[<<body.repo, p>>] # None
                 /\ announced[body.repo][p] <= dirty[<<body.repo, p>>]
          BY <5>1 DEF AnnouncedInv
        <5>5. /\ announced[body.repo][p] \in Int /\ index[body.repo][p] \in Int
              /\ dirty[<<body.repo, p>>] # None => dirty[<<body.repo, p>>] \in Int
          BY <1>1, <5>1
        <5>. QED
          BY <5>2, <5>3, <5>4, <5>5
      <4>3. \A p \in DOMAIN body.versions : body.versions[p] >= announced'[body.repo][p]
        BY <2>1, <4>2
      <4>. QED
        BY <4>3 DEF FreshEntry, body
    <3>. QED
      BY <2>3, <3>1, <3>2
  <2>. QED
    BY <1>4, <2>2, <2>3, FetchClears DEF PathInv
<1>5. CASE \E b \in DropBodies : Invalidate(b)
  BY <1>2, <1>5 DEF Invalidate, historyVars
<1>6. CASE \/ \E r \in Repo, p \in Path : Commit(r, p)
           \/ \E b \in FreezeBodies : Freeze(b) \/ Thaw(b)
           \/ ThawAll \/ UNCHANGED vars
  BY <1>2, <1>6 DEF Commit, Freeze, Thaw, ThawAll, historyVars, vars
<1>7. CASE \/ \E c \in Calls : Receive(c)
           \/ NotAName \/ Refuse \/ Bypass \/ (\E e \in cache : Hit(e)) \/ BackendFails \/ Reply
  BY <1>2, <1>7 DEF Receive, NotAName, Refuse, Bypass, Hit, BackendFails, Got, Reply, historyVars
<1>. QED
  BY <1>3, <1>4, <1>5, <1>6, <1>7, Zenon DEF Next, CallStep

LEMMA StaysFresh ==
    ASSUME RepoFirst, OneRepoEach
    PROVE  Spec => []FreshState
<1>1. ASSUME Init
      PROVE  FreshState
  <2>1. \A r \in Repo, p \in Path : announced[r][p] = 0 /\ index[r][p] = 0
    BY <1>1 DEF Init
  <2>2. AnnouncedInv
    BY <2>1 DEF AnnouncedInv
  <2>3. cache = {}
    BY <1>1 DEF Init
  <2>. QED
    BY <2>2, <2>3 DEF FreshState
<1>2. ASSUME PathInv, FreshState, [Next]_vars
      PROVE  FreshState'
  <2>1. UNCHANGED shape
    BY <1>2
       DEF Next, CallStep, Receive, NotAName, Refuse, Bypass, Hit, Fetch, BackendFails, Got, Reply,
           Commit, MarkDirty, Invalidate, Freeze, Thaw, ThawAll, vars
  <2>2. ASSUME shape # "silent"
        PROVE  AnnouncedInv' /\ \A e \in cache' : FreshEntry(e)'
    <3>1. AnnouncedInv /\ \A e \in cache : FreshEntry(e)
      BY <1>2, <2>2 DEF FreshState
    <3>2. AnnouncedInv'
      BY <1>2, <2>2, <3>1, AnnouncedStays
    <3>3. \A e \in cache' : FreshEntry(e)'
      BY <1>2, <2>2, <3>1, EntriesStayFresh
    <3>. QED
      BY <3>2, <3>3
  <2>. QED
    BY <2>1, <2>2 DEF FreshState
<1>. QED
  BY <1>1, <1>2, PathSafety, PTL DEF Spec

\* A clean hit is as new as every write announced for those of its files that are read
\* under one key, in whichever form of answer, whatever becomes of other files.  (The
\* flag of a file is one: the first of two entries that is refreshed takes it from the
\* other.)
LEMMA HitHasAnnounced ==
    ASSUME RepoFirst, PathInv, FreshState, NEW e \in cache, Hit(e), shape # "silent",
           NEW p \in DOMAIN BodyOf(e.payload).versions, ReadOnce(BodyOf(e.payload).repo, p)
    PROVE  BodyOf(e.payload).versions[p] >= announced[BodyOf(e.payload).repo][p]
<1>1. EntryOK(e)
  BY DEF PathInv, EntryInv
<1>2. p \in e.dependent_files /\ e.key.scope = BodyOf(e.payload).repo
  BY <1>1, EntryReads
<1>3. e.key = key /\ dirty[scope, p] = None
  BY <1>2, Zenon DEF Hit, CleanEntry
<1>4. e.key.scope = scope
  <2>1. key.scope = ExtractScope(args)
    BY DEF key, KeyFor
  <2>. QED
    BY <1>3, <2>1, Zenon DEF scope
<1>5. dirty[<<BodyOf(e.payload).repo, p>>] = None
  BY <1>2, <1>3, <1>4, Zenon
<1>6. FreshEntry(e)
  BY DEF FreshState
<1>. QED
  BY <1>5, <1>6, Zenon DEF FreshEntry

THEOREM FilesReadOnceFresh ==
    ASSUME RepoFirst, OneRepoEach
    PROVE  Spec =>
             [][\A e \in cache : Hit(e) /\ shape # "silent" =>
                   LET body == BodyOf(e.payload)
                   IN  \A p \in DOMAIN body.versions :
                          ReadOnce(body.repo, p) => body.versions[p] >= announced[body.repo][p]]_vars
<1>. DEFINE Fresh ==
        \A e \in cache : Hit(e) /\ shape # "silent" =>
            LET body == BodyOf(e.payload)
            IN  \A p \in DOMAIN body.versions :
                   ReadOnce(body.repo, p) => body.versions[p] >= announced[body.repo][p]
<1>1. PathInv /\ FreshState => Fresh
  BY HitHasAnnounced, Zenon
<1>. HIDE DEF Fresh
<1>2. Spec => [][Fresh]_vars
  BY <1>1, PathSafety, StaysFresh, PTL DEF Spec
<1>. QED
  BY <1>2 DEF Fresh

\* If every file is read under one key, that holds of every clean hit.
THEOREM ScopedHitsFresh ==
    ASSUME RepoFirst, OneKeyPerFile, OneRepoEach
    PROVE  Spec => ScopedHitFresh
<1>. DEFINE Fresh ==
        \A e \in cache : Hit(e) =>
            LET body == BodyOf(e.payload)
            IN  shape # "silent" =>
                  \A p \in DOMAIN body.versions : body.versions[p] >= announced[body.repo][p]
<1>1. \A r, p : ReadOnce(r, p)
  BY DEF OneKeyPerFile, ReadOnce
<1>2. PathInv /\ FreshState => Fresh
  BY <1>1, HitHasAnnounced, Zenon
<1>. HIDE DEF Fresh
<1>3. Spec => [][Fresh]_vars
  BY <1>2, PathSafety, StaysFresh, PTL DEF Spec
<1>. QED
  BY <1>3 DEF Fresh, ScopedHitFresh

=============================================================================
