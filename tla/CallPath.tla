------------------------------ MODULE CallPath ------------------------------
(***************************************************************************)
(* The way of a tools/call through the proxy with the data CacheProxy      *)
(* leaves out: which scope its arguments name (proxy.rs, extract_scope),   *)
(* what the policy says of scope and tool (policy.rs), its cache key       *)
(* (cache.rs, key_for), the sub-calls of a batch and their keys (batch.rs),*)
(* where in the answer the metadata sits (module Payload), and which scope *)
(* the body of an HTTP request means (handlers.rs).  One call at a time;   *)
(* CacheProxy has the interleavings.  Time is left out: no entry and no    *)
(* flag gets old, and a freeze ends by a thaw.                             *)
(*                                                                         *)
(* Arguments are a function from their names to strings, NotString or, under*)
(* the plural names of BatchTools, lists: how they are ordered in the      *)
(* request makes no difference to a function, nor to normalize_args.       *)
(*                                                                         *)
(* Files are known by their path, which two repositories may share.  A     *)
(* call that has a name among its arguments is answered from the file of   *)
(* that name in the repository the argument repo gives.                    *)
(***************************************************************************)
EXTENDS Payload, Functions

CONSTANTS
    Repo,          \* repositories
    Path,          \* paths, and the names that calls look up
    NoScope,       \* the empty string
    NotString,     \* a JSON value that is neither a string nor a list
    ScopeArgs,     \* [server].scope_args
    ScopeRule,     \* policy, scope -> cacheable
    ToolRule,      \* policy, tool -> [cacheable, ttl_seconds (None: default)]
    DefaultTtl,    \* policy, default_ttl_seconds
    Calls,         \* calls of clients: [tool, args]
    MarkBodies,    \* bodies of /mark-dirty: [repo, base, files]
    DropBodies,    \* bodies of /invalidate
    FreezeBodies,  \* bodies of /freeze and /thaw: [scope, repo, base]
    Shapes,        \* forms in which a backend may answer
    MaxVersion     \* bound on the commits to each file

Version == 0 .. MaxVersion
Scopes  == Repo \cup {NoScope}

\* The data of answers: what a _meta names, nested documents, their items, the whole.
Versions == UNION {[F -> Version] : F \in SUBSET Path}
Metas    == [dependent_files : (SUBSET Path) \cup {None}, file_mtimes : Versions \cup {None}]
Payloads == [repo : Scopes \cup {NotString, None}, versions : Versions]
Docs     == [meta : Metas \cup {None}, wrapped : BOOLEAN, body : Payloads]
Items    == [type : {"text", "image"}, text : Docs \cup {None}]
Texts    == [1 .. 1 -> Items] \cup [1 .. 2 -> Items]
Answers  == [meta : Metas \cup {None}, content : Texts \cup {None},
             structured : Docs \cup {None}, wrapped : BOOLEAN, body : Payloads \cup {None}]

ASSUME CallPathAssumption ==
    /\ MaxVersion \in Nat /\ ScopeArgs \in Seq(STRING)
    /\ NoScope \notin Repo /\ NotString \notin Scopes
    /\ None \notin Scopes /\ None \notin Version /\ None \notin Calls /\ None # NotString
    /\ \A x \in {None, NotJson} :
          /\ \A F \in SUBSET Path : x # F
          /\ x \notin Versions /\ x \notin Metas /\ x \notin Docs
          /\ x \notin Texts /\ x \notin Answers

VARIABLES
    shape,      \* external: the form this backend answers in
    index,      \* external: the version of each file the backend has
    cache,      \* Cache::inner: entries [key, payload, dependent_files]
    dirty,      \* DirtySet, <<scope, path>> -> observed version or None
    frozen,     \* scopes with a freeze; NoScope is the global one
    call,       \* the call in progress or None
    todo,       \* sub-calls of it still to be made
    results,    \* what it has got so far
    announced,  \* history: newest version of each file a /mark-dirty told of
    closed      \* history: repositories an operator wants to be frozen

callVars    == <<call, todo, results>>
historyVars == <<announced, closed>>
vars        == <<shape, index, cache, dirty, frozen, callVars, historyVars>>

BatchTools ==
    [get_function         |-> [plural |-> "names", singular |-> "name", unwrap |-> FALSE],
     get_class            |-> [plural |-> "names", singular |-> "name", unwrap |-> FALSE],
     get_object_structure |-> [plural |-> "full_names", singular |-> "full_name", unwrap |-> TRUE]]

-----------------------------------------------------------------------------
(* Scope, policy, key.                                                       *)

\* The first of the configured arguments that is there and is a string.
ExtractScope(args) ==
    LET i == SelectInSeq(ScopeArgs, LAMBDA n : n \in DOMAIN args /\ args[n] # NotString)
    IN  IF i = 0 THEN NoScope ELSE args[ScopeArgs[i]]

\* Slip: the first field that is there, empty or not.
PickScopeFirstGiven(body) ==
    LET fields == <<body.scope, body.repo, body.base>>
        i      == SelectInSeq(fields, LAMBDA s : s # None)
    IN  IF i = 0 THEN NoScope ELSE fields[i]

\* /invalidate, /freeze, /thaw: the first field that is not empty.
PickScope(body) ==
    LET fields == <<body.scope, body.repo, body.base>>
        i      == SelectInSeq(fields, LAMBDA s : s \notin {None, NoScope})
    IN  IF i = 0 THEN NoScope ELSE fields[i]

\* /mark-dirty: repo if it is there, even an empty one.
MarkScope(body) ==
    IF body.repo # None THEN body.repo ELSE IF body.base # None THEN body.base ELSE NoScope

IsScopeCacheable(scope) == scope \in DOMAIN ScopeRule => ScopeRule[scope]

TtlFor(tool) ==
    IF tool \notin DOMAIN ToolRule THEN IF DefaultTtl = 0 THEN None ELSE DefaultTtl
    ELSE LET rule == ToolRule[tool]
         IN  IF ~rule.cacheable THEN None
             ELSE IF rule.ttl_seconds = None THEN DefaultTtl ELSE rule.ttl_seconds

\* Slip: only the tool decides.
BypassesByTool(tool, args) == TtlFor(tool) = None

\* Calls that are forwarded without the cache.
Bypasses(tool, args) ==
    \/ ExtractScope(args) # NoScope /\ ~IsScopeCacheable(ExtractScope(args))
    \/ TtlFor(tool) = None

\* Keys are equal iff scope, tool and arguments are, whatever the order in which
\* the arguments are written.
KeyFor(tool, args) == [scope |-> ExtractScope(args), tool |-> tool, args |-> args]

IsFrozen(scope) == frozen \cap {scope, NoScope} # {}

-----------------------------------------------------------------------------
(* Calls and their sub-calls.                                                *)

DetectBatch(c) ==
    /\ c.tool \in DOMAIN BatchTools
    /\ BatchTools[c.tool].plural \in DOMAIN c.args
    /\ c.args[BatchTools[c.tool].plural] # NotString

\* The arguments of the batch without the list, and with one name of it.
SubArgs(c, item) ==
    LET t == BatchTools[c.tool]
    IN  [n \in (DOMAIN c.args \ {t.plural}) \cup {t.singular} |->
            IF n = t.singular THEN item ELSE c.args[n]]

SubCalls(c) ==
    IF ~DetectBatch(c) THEN <<c.args>>
    ELSE LET items == c.args[BatchTools[c.tool].plural]
         IN  [i \in DOMAIN items |->
                IF items[i] = NotString THEN NotString ELSE SubArgs(c, items[i])]

\* What the client gets for a payload: all of it, or an element of "results".
Served(payload) ==
    IF DetectBatch(call) THEN InnerValue(payload, BatchTools[call.tool].unwrap) ELSE payload

\* Calls and bodies name repositories that exist, and files.
ASSUME RequestAssumption ==
    /\ \A c \in Calls :
          /\ SubCalls(c) \in Seq(Range(SubCalls(c)))
          /\ \A a \in Range(SubCalls(c)) \ {NotString} :
                \A n \in (Range(ScopeArgs) \cup {"repo"}) \cap DOMAIN a :
                    a[n] \in Scopes \cup {NotString}
    /\ \A b \in MarkBodies : {b.repo, b.base} \subseteq Scopes \cup {None} /\ b.files \in Versions
    /\ \A b \in DropBodies \cup FreezeBodies :
          {b.scope, b.repo, b.base} \subseteq Scopes \cup {None}

\* What the backend reads of the arguments: a repository, and the file of a name in it.
RepoIn(args) == IF "repo" \in DOMAIN args THEN args.repo ELSE None

NameIn(args) == IF "name" \in DOMAIN args THEN args.name
                ELSE IF "full_name" \in DOMAIN args THEN args.full_name ELSE None

FilesIn(args) == IF RepoIn(args) \in Repo /\ NameIn(args) \in Path THEN {NameIn(args)} ELSE {}

-----------------------------------------------------------------------------
(* How the proxy is set up and called; the properties below need it.         *)

\* [server].scope_args gives the repository precedence, or names it alone.
RepoFirst == ScopeArgs # <<>> /\ ScopeArgs[1] = "repo"
RepoOnly  == ScopeArgs = <<"repo">>

\* The policy has rules for repositories only.
RulesForRepos == DOMAIN ScopeRule \cap {NoScope, NotString} = {}

\* The requests to handle() that clients make.
Requests ==
    UNION {{[tool |-> c.tool, args |-> a] : a \in Range(SubCalls(c)) \ {NotString}} : c \in Calls}

\* Each file is read under one key: what CacheProxy calls disjoint dependencies.
OneKeyPerFile ==
    \A q, r \in {x \in Requests : ~ Bypasses(x.tool, x.args)} :
        RepoIn(q.args) = RepoIn(r.args) /\ FilesIn(q.args) \cap FilesIn(r.args) # {} => q = r

\* Repositories a body names, in whichever field.
Named(fields) == fields \cap Repo

\* A body names no more than one repository; the daemon's, in the field that counts.
OneRepoEach ==
    /\ \A b \in FreezeBodies : \A r, s \in Named({b.scope, b.repo, b.base}) : r = s
    /\ \A b \in MarkBodies : Named({b.repo, b.base}) \subseteq {MarkScope(b)}

-----------------------------------------------------------------------------
(* The backend, external.                                                    *)

\* What the answer is about: the repository, and the versions of its files.
Contents(args) ==
    [repo |-> RepoIn(args), versions |-> [p \in FilesIn(args) |-> index[RepoIn(args)][p]]]

\* The forms of an answer: an old backend without metadata, one without mtimes,
\* present ones with the document once or twice, with a _meta of the protocol or
\* an image around it, and one that does not speak MCP. They are those the comment
\* of extract_dependent_files and the tests of strip_meta name; a content array with
\* dependent_files in a _meta of the answer itself is not among them.
Answer(args) ==
    LET body == Contents(args)
        told == [dependent_files |-> DOMAIN body.versions, file_mtimes |-> body.versions]
        meta == CASE shape = "silent"  -> None
                  [] shape = "noTimes" -> [told EXCEPT !.file_mtimes = None]
                  [] OTHER             -> told
        doc  == [meta |-> meta, wrapped |-> TRUE, body |-> body]
        text == [type |-> "text", text |-> doc]
        mcp  == [meta |-> None, content |-> <<text>>, structured |-> None,
                 wrapped |-> FALSE, body |-> None]
    IN  CASE shape = "plain"      -> [mcp EXCEPT !.meta = meta, !.content = None,
                                                 !.wrapped = TRUE, !.body = body]
          [] shape = "structured" -> [mcp EXCEPT !.structured = doc]
          [] shape = "protocol"   -> [mcp EXCEPT !.meta =
                                        [dependent_files |-> None, file_mtimes |-> None]]
          [] shape = "image"      -> [mcp EXCEPT !.content =
                                        <<[type |-> "image", text |-> None], text>>]
          [] OTHER                -> mcp

Commit(r, p) ==
    /\ index[r][p] < MaxVersion
    /\ index' = [index EXCEPT ![r][p] = @ + 1]
    /\ UNCHANGED <<shape, cache, dirty, frozen, callVars, historyVars>>

-----------------------------------------------------------------------------
(* CacheProxy::handle for the next sub-call, and call_tool around it.        *)

Init ==
    /\ shape \in Shapes
    /\ index = [r \in Repo |-> [p \in Path |-> 0]]
    /\ cache = {}
    /\ dirty = [f \in Scopes \X Path |-> None]
    /\ frozen = {}
    /\ call = None /\ todo = <<>> /\ results = <<>>
    /\ announced = [r \in Repo |-> [p \in Path |-> 0]]
    /\ closed = {}

Receive(c) ==
    /\ call = None
    /\ call' = c
    /\ todo' = SubCalls(c)
    /\ UNCHANGED <<shape, index, cache, dirty, frozen, results, historyVars>>

\* The sub-call is over, with outcome x.
Got(x) ==
    /\ results' = Append(results, x)
    /\ todo' = Tail(todo)
    /\ UNCHANGED <<shape, index, frozen, call, historyVars>>

\* The next sub-call reaches handle().
Handling == todo # <<>> /\ Head(todo) # NotString
args     == Head(todo)
scope    == ExtractScope(args)
key      == KeyFor(call.tool, args)

NotAName ==
    /\ todo # <<>> /\ Head(todo) = NotString
    /\ Got([kind |-> "error"])
    /\ UNCHANGED <<cache, dirty>>

Refuse ==
    /\ Handling /\ IsFrozen(scope)
    /\ Got([kind |-> "frozen"])
    /\ UNCHANGED <<cache, dirty>>

\* Slip: what bypasses the cache bypasses the freeze.
BypassUnderFreeze ==
    /\ Handling
    /\ Bypasses(call.tool, args)
    /\ Got([kind |-> "answer", value |-> Served(StripMeta(Answer(args)))])
    /\ UNCHANGED <<cache, dirty>>

Bypass ==
    /\ Handling /\ ~IsFrozen(scope)
    /\ Bypasses(call.tool, args)
    /\ Got([kind |-> "answer", value |-> Served(StripMeta(Answer(args)))])
    /\ UNCHANGED <<cache, dirty>>

\* A live entry none of whose files is flagged in the scope of the call.
CleanEntry(e) == e.key = key /\ \A p \in e.dependent_files : dirty[scope, p] = None

Cacheable == Handling /\ ~IsFrozen(scope) /\ ~Bypasses(call.tool, args)

Hit(e) ==
    /\ Cacheable
    /\ CleanEntry(e)
    /\ Got([kind |-> "answer", value |-> Served(e.payload)])
    /\ UNCHANGED <<cache, dirty>>

\* A miss or a dirty hit: the answer is kept, and the flags it has caught up
\* with go, unless it is behind one of them. The configuration that turns the
\* revalidation off is in CacheProxy.
Fetch ==
    /\ Cacheable
    /\ ~\E e \in cache : CleanEntry(e)
    /\ LET answer  == Answer(args)
           deps    == ExtractDependentFiles(answer)
           mtimes  == ExtractFileMtimes(answer)
           flagged == {p \in deps : dirty[scope, p] # None}
           behind  == {p \in flagged : p \notin DOMAIN mtimes \/ mtimes[p] < dirty[scope, p]}
           entry   == [key |-> key, payload |-> StripMeta(answer), dependent_files |-> deps]
       IN  /\ Got([kind |-> "answer", value |-> Served(entry.payload)])
           /\ cache' = IF behind # {} THEN cache
                       ELSE {e \in cache : e.key # key} \cup {entry}
           /\ dirty' = [f \in DOMAIN dirty |->
                          IF behind = {} /\ f[1] = scope /\ f[2] \in flagged
                          THEN None ELSE dirty[f]]

\* The backend does not answer, or with an error: an element of a batch fails
\* alone, and what the cache has stays.
BackendFails ==
    /\ Handling /\ ~IsFrozen(scope)
    /\ Bypasses(call.tool, args) \/ ~\E e \in cache : CleanEntry(e)
    /\ Got([kind |-> "error"])
    /\ UNCHANGED <<cache, dirty>>

\* Slip: the next call finds the results of this one.
ReplyKeepsResults ==
    /\ call # None /\ todo = <<>>
    /\ call' = None
    /\ UNCHANGED <<shape, index, cache, dirty, frozen, todo, results, historyVars>>

\* call_tool answers: the only result, the list of all, or Frozen if one of
\* them was refused.
Reply ==
    /\ call # None /\ todo = <<>>
    /\ call' = None
    /\ results' = <<>>
    /\ UNCHANGED <<shape, index, cache, dirty, frozen, todo, historyVars>>

-----------------------------------------------------------------------------
(* The HTTP requests.                                                        *)

MarkDirty(b) ==
    /\ dirty' = [f \in DOMAIN dirty |->
                   IF f[1] # MarkScope(b) \/ f[2] \notin DOMAIN b.files THEN dirty[f]
                   ELSE IF dirty[f] = None \/ b.files[f[2]] > dirty[f] THEN b.files[f[2]]
                   ELSE dirty[f]]
    /\ announced' = [r \in Repo |-> [p \in Path |->
                       IF r \in Named({b.repo, b.base}) /\ p \in DOMAIN b.files
                          /\ b.files[p] > announced[r][p]
                       THEN b.files[p] ELSE announced[r][p]]]
    /\ UNCHANGED <<shape, index, cache, frozen, callVars, closed>>

\* The keys that begin with a key_prefix of alias, scope and tool.
HasPrefix(k, prefix) == k.scope = prefix.scope /\ k.tool = prefix.tool

\* The entries a body selects, by the first of its fields that is given; none
\* if it is refused as a bad request.
Dropped(b) ==
    {e \in cache :
        IF b.all THEN TRUE
        ELSE IF b.file_paths # None    THEN e.dependent_files \cap b.file_paths # {}
        ELSE IF b.file_path # None     THEN b.file_path \in e.dependent_files
        ELSE IF PickScope(b) # NoScope THEN e.key.scope = PickScope(b)
        ELSE b.key_prefix # None /\ HasPrefix(e.key, b.key_prefix)}

Invalidate(b) ==
    /\ cache' = cache \ Dropped(b)
    /\ UNCHANGED <<shape, index, dirty, frozen, callVars, historyVars>>

Freeze(b) ==
    /\ frozen' = frozen \cup {PickScope(b)}
    /\ closed' = closed \cup (IF Named({b.scope, b.repo, b.base}) = {} THEN {NoScope}
                              ELSE Named({b.scope, b.repo, b.base}))
    /\ UNCHANGED <<shape, index, cache, dirty, callVars, announced>>

Thaw(b) ==
    /\ frozen' = frozen \ {PickScope(b)}
    /\ closed' = closed \ (IF Named({b.scope, b.repo, b.base}) = {} THEN {NoScope}
                           ELSE Named({b.scope, b.repo, b.base}))
    /\ UNCHANGED <<shape, index, cache, dirty, callVars, announced>>

ThawAll ==
    /\ frozen' = {} /\ closed' = {}
    /\ UNCHANGED <<shape, index, cache, dirty, callVars, announced>>

-----------------------------------------------------------------------------

CallStep == NotAName \/ Refuse \/ Bypass \/ (\E e \in cache : Hit(e)) \/ Fetch \/ BackendFails \/ Reply

Next ==
    \/ \E c \in Calls : Receive(c)
    \/ CallStep
    \/ \E r \in Repo, p \in Path : Commit(r, p)
    \/ \E b \in MarkBodies : MarkDirty(b)
    \/ \E b \in DropBodies : Invalidate(b)
    \/ \E b \in FreezeBodies : Freeze(b) \/ Thaw(b)
    \/ ThawAll

Spec == Init /\ [][Next]_vars

-----------------------------------------------------------------------------
(* Properties.                                                               *)

TypeOK ==
    /\ shape \in Shapes
    /\ index \in [Repo -> [Path -> Version]]
    /\ \A e \in cache : e.key.scope \in Scopes /\ e.dependent_files \subseteq Path
    /\ dirty \in [Scopes \X Path -> Version \cup {None}]
    /\ frozen \subseteq Scopes
    /\ call \in Calls \cup {None}
    /\ call # None => Len(results) + Len(todo) = Len(SubCalls(call))
    /\ announced \in [Repo -> [Path -> Version]]
    /\ closed \subseteq Scopes

\* What a client receives, single or as an element of a batch, carries no
\* dependent_files and no file_mtimes, in whichever form the backend has answered
\* (strip_meta, inner_value: the metadata is a channel between backend and proxy).
MetasIn(v) ==
    (IF "meta" \in DOMAIN v THEN {v.meta} ELSE {}) \cup
    (IF "content" \notin DOMAIN v THEN {}
     ELSE (IF v.structured = None THEN {} ELSE {v.structured.meta}) \cup
          (IF v.content = None THEN {}
           ELSE {item.text.meta : item \in {i \in Range(v.content) : i.text # None}}))

NoMetaServed ==
    \A i \in DOMAIN results : results[i].kind = "answer" =>
        \A m \in MetasIn(results[i].value) \ {None} :
            m.dependent_files = None /\ m.file_mtimes = None

\* The cache holds no answer from a repository, or of a tool, that the policy
\* takes out of it, however the call has come: single or out of a batch.
OnlyCacheableKept ==
    \A e \in cache :
        /\ "repo" \in DOMAIN e.key.args /\ e.key.args.repo \in DOMAIN ScopeRule
              => ScopeRule[e.key.args.repo]
        /\ e.key.tool \in DOMAIN ToolRule => ToolRule[e.key.tool].cacheable
        /\ e.key.tool \notin DOMAIN ToolRule => DefaultTtl # 0

\* The body of the document in a payload.
BodyOf(payload) == IF NestedDoc(payload) = None THEN payload.body ELSE NestedDoc(payload).body

\* A clean hit is not older than a write /mark-dirty has told of: the scope a
\* /mark-dirty means, the scope of the call, and the files found in the answer
\* when it was cached, fit together; and a name has one entry, filled by single
\* calls and batches alike.
ScopedHitFresh ==
    [][\A e \in cache : Hit(e) =>
          LET body == BodyOf(e.payload)
          IN  shape # "silent" =>
                \A p \in DOMAIN body.versions : body.versions[p] >= announced[body.repo][p]
      ]_vars

\* /invalidate of a repository, named in whichever of the three fields, removes
\* every entry that was answered from it and none of another.
InvalidationIsSelective ==
    \A b \in {x \in DropBodies : ~x.all /\ x.file_paths = None /\ x.file_path = None},
       r \in Repo :
        Named({b.scope, b.repo, b.base}) = {r} =>
            Dropped(b) = {e \in cache : BodyOf(e.payload).repo = r}

\* /invalidate of files removes every entry that was answered from one of them, in
\* whichever place of its form the backend has named them, and no entry that was
\* not; the index knows the path alone, so it reaches every repository that has it
\* (handlers.rs:85-87, reverse_index.rs:26-29).
PathsOf(b) == IF b.file_paths # None THEN b.file_paths ELSE {b.file_path} \ {None}

InvalidationReachesFiles ==
    shape # "silent" =>
        \A b \in {x \in DropBodies : ~x.all /\ PathsOf(x) # {}} :
            Dropped(b) = {e \in cache : DOMAIN BodyOf(e.payload).versions \cap PathsOf(b) # {}}

\* No call for a repository gets an answer while an operator wants it, or
\* everything, to be frozen, not even one that would go past the cache
\* (proxy.rs:149: block mode works on any tools/call).
NothingWhileFrozen ==
    [][\A i \in DOMAIN results' \ DOMAIN results :
          results'[i].kind = "answer" =>
            /\ NoScope \notin closed
            /\ "repo" \in DOMAIN args => args.repo \notin closed
      ]_vars

=============================================================================
