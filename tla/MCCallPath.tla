----------------------------- MODULE MCCallPath -----------------------------
(* An instance of CallPath for TLC: config/cache-ci.toml (scope_args = ["repo"])
   with a policy that has a rule of each kind, and clients, daemon and operators
   that use each form of request. *)
EXTENDS CallPath

Ut == "ut"     \* a cacheable repository
Bp == "bp"     \* one taken out of the cache, [scopes.bp] cacheable = false

MCScopeArgs == <<"repo">>
MCScopeRule == [bp |-> FALSE]
MCToolRule ==
    [get_function |-> [cacheable |-> TRUE, ttl_seconds |-> 3600],
     grep_text    |-> [cacheable |-> FALSE, ttl_seconds |-> None]]

Single(tool, r) == [tool |-> tool, args |-> [repo |-> r, name |-> "a"]]
Batch(r, items) == [tool |-> "get_function", args |-> [repo |-> r, names |-> items]]

MCCalls ==
    {Single(tool, r) : tool \in {"get_function", "grep_text"}, r \in {Ut, Bp}}
    \cup {Batch(Ut, <<>>), Batch(Ut, <<"a", NotString>>), Batch(Bp, <<"a">>)}
    \cup {[tool |-> "get_object_structure", args |-> [full_names |-> <<"b", "b">>]]}

\* Bodies that name a repository in one field, some with an empty one before it.
Bodies == {[scope |-> Ut, repo |-> None, base |-> None], [scope |-> NoScope, repo |-> Ut, base |-> None],
           [scope |-> None, repo |-> NoScope, base |-> Bp], [scope |-> None, repo |-> None, base |-> None]}

MCMarkBodies ==
    {[repo |-> r, base |-> None, files |-> [a |-> v]] : r \in {Ut, Bp}, v \in 1 .. MaxVersion}
    \cup {[repo |-> None, base |-> Ut, files |-> [a |-> MaxVersion]]}

Drop(b, all, paths, path, prefix) ==
    [scope |-> b.scope, repo |-> b.repo, base |-> b.base, all |-> all, file_paths |-> paths,
     file_path |-> path, key_prefix |-> prefix]

Unnamed == [scope |-> None, repo |-> None, base |-> None]

\* Each field, and a field that comes first with one that is then ignored.
MCDropBodies ==
    {Drop(b, FALSE, None, None, None) : b \in Bodies}
    \cup {Drop(Unnamed, TRUE, {"a"}, None, None), Drop(Unnamed, FALSE, None, "a", None),
          Drop(Unnamed, FALSE, None, None, [scope |-> Ut, tool |-> "get_function"])}
    \cup {Drop(b, FALSE, {"a"}, None, None) : b \in {x \in Bodies : x.base = Bp}}

MCFreezeBodies == {b \in Bodies : b.base # Bp}

AllShapes == {"silent", "noTimes", "nested", "structured", "protocol", "image", "plain"}

\* What the theorems of CallPathProofs suppose of the set-up is so here.
ASSUME MCAssumption == RepoFirst /\ RepoOnly /\ RulesForRepos /\ OneKeyPerFile /\ OneRepoEach

=============================================================================
